SPECIFICATION Spec
CONSTANTS
  MaxDescriptor = 12
  Config <- MCConfig
  MaxRound = 2
  MaxDatagram = 2
INVARIANTS
  DisabledIsOff

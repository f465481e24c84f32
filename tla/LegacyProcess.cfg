SPECIFICATION FairSpec
CONSTANTS
  MaxDescriptor = 11
  Config <- MCConfig
  MaxRound = 2
  MaxDatagram = 1
INVARIANTS
  DescriptorsMatch
  DescriptorsReturned
  CommandsNeedRce
  LockFileNamesDaemon
PROPERTIES
  TermEnds

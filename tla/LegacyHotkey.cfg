CONSTANTS
  shift = shift
  enter = enter
  a = a
  Key <- MCKey
  introducer = shift
  trailer = enter
  Source <- MCSource
  GrabFails = {2}
  hot_interval = 1000
  Signal = {"HUP", "TERM"}
  MaxSequence = 2
  MaxQueue = 2
SPECIFICATION FairSpec
INVARIANTS HotModeIsTimed LookedUpOnce
PROPERTIES GrabReleased CountIsRepaired

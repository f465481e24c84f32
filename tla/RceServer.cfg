CONSTANTS
  open_sesame = open_sesame
  close_sesame = close_sesame
  reboot = reboot
  Message <- MCMessage
  Passphrase <- MCPassphrase
  Empty = Empty
  MaxInbox = 2
SPECIFICATION FairSpec
INVARIANTS WorkerOwnsSocket CommandsNeedPassphrase
PROPERTIES StopReturns
CHECK_DEADLOCK FALSE

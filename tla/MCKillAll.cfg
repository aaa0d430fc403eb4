CONSTANTS
  p1 = p1  p2 = p2  p3 = p3  p4 = p4
  NULL = NULL
  Proc <- MCProc
  MAX_PRIO = 2
  MAX_QUEUE_SIZE = 3
  prio <- MCprio
  path <- MCpath
  Name = {"", "a"}
  ALLOC <- MCALLOC
SPECIFICATION Spec
INVARIANTS
  TypeOK
  KillsTheNamed
  ReadyIsLive
  KillListBound
PROPERTIES
  OthersKeepRegions
  KillallReturns

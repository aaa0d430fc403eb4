CONSTANTS
  Thread = {c1, c2, c3}
  NULL = NULL
  numfp = 4
  MaxPages = 2
SPECIFICATION AllocSpec
INVARIANTS
  TypeOK
  NoFrameTwice
  NoneMissingWhileAnyLeft
  NoDangling
PROPERTIES
  CallReturns
  PoolSpec

CONSTANTS
  Thread = {c1, c2}
  NULL = NULL
  numfp = 4
  MaxPages = 2
SPECIFICATION Safety
INVARIANT
  NoFrameTwice

CONSTANTS
  p1 = p1  p2 = p2
  NULL = NULL
  Proc = {p1, p2}
  PAGING_MAX_SYMTBL_SZ = 2
  PAGING_PAGESZ = 4
  PAGING_MAX_PGN = 8
  numfp = 3
  numswp = 1
  NODE = 1000
  Sizes = {3, 5}
  Offsets = {0}
  Bytes = {1}
  Calls = {0, 17}
  Args = {0, 6}
  MaxEnd = 12
SPECIFICATION Safety
PROPERTY
  ReadReturnsWritten

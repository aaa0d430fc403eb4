CONSTANTS
  c1 = c1  c2 = c2  ld = ld
  NULL = NULL
  num_processes = 1
  Proc = {1}
  Cpu = {c1}
  MAX_PRIO = 3
  MAX_QUEUE_SIZE = 3
  prio <- MCPrioTop
  time_slot = 1
  CodeSizes = {5}
  MaxStart = 1
SPECIFICATION Spec
INVARIANT
  NoProcessAbandoned

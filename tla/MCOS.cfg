CONSTANTS
  c1 = c1  c2 = c2  ld = ld
  NULL = NULL
  num_processes = 3
  Proc = {1, 2, 3}
  Cpu = {c1, c2}
  MAX_PRIO = 3
  MAX_QUEUE_SIZE = 3
  prio <- MCPrioBelow
  time_slot = 2
  CodeSizes = {1, 3}
  MaxStart = 1
SPECIFICATION Spec
INVARIANTS
  TypeOK
  EachProcessOnce
  NoProcessAbandoned
PROPERTIES
  SchedSafety
  OneInstructionPerSlot
  AllProcessesFinish
  BusyCpuStops

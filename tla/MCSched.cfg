CONSTANTS
  p1 = p1  p2 = p2  p3 = p3  c1 = c1  c2 = c2
  NULL = NULL
  Proc = {p1, p2, p3}
  Cpu = {c1, c2}
  MAX_PRIO = 3
  MAX_QUEUE_SIZE = 3
  prio <- MCPrio
SPECIFICATION Spec
INVARIANTS
  TypeOK
  EachProcessOnce
  SlotBudget
  RefusedAtMostOnce
PROPERTIES
  GetIsLoop
  ServedAfterRefusal
  FifoPerLevel
  NoStarvation

CONSTANTS
  N = 3
  MaxSlots = 2
SPECIFICATION Spec
INVARIANTS
  TypeOK
  Lockstep
  NoLostWakeup
  TimerOutlivesDevices
PROPERTIES
  OneSlotPerCall
  NextSlotReturns
  Shutdown
  BarrierSpec

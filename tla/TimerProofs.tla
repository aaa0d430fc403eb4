----------------------------- MODULE TimerProofs -----------------------------
(***************************************************************************)
(* Proofs about Timer.tla, for any number of devices and slots.            *)
(***************************************************************************)
EXTENDS Timer, TLAPS

\* The timer has counted device d in this round.
Counted(d) == tpc \in {"check", "sleep"} /\ d > temp

\* The clock has moved on and d's done flag is still to be cleared.
Unreleased(d) == tpc = "release" /\ d <= temp

\* How the flags of a device go with where it is, and with the clock.
DeviceInv(d) ==
  /\ dpc[d] = "work" => ~done[d] /\ ~fsh[d] /\ seen[d] = time
  /\ dpc[d] = "sleep" => done[d]
  /\ dpc[d] = "exited" => fsh[d] /\ ~done[d]
  /\ fsh[d] => dpc[d] = "exited"
  /\ done[d] => seen[d] < MaxSlots
  /\ done[d] /\ Unreleased(d) => time = seen[d] + 1
  /\ done[d] /\ ~Unreleased(d) => time = seen[d]
  /\ dpc[d] = "test" /\ ~done[d] => time = seen[d] + 1
  /\ Counted(d) \/ Unreleased(d) => done[d] \/ fsh[d]

\* What the timer thread knows at its control points.
TimerInv ==
  /\ timer_started <=> tpc # "off"
  /\ tpc \in {"top", "check", "sleep", "release"} => dev_list = N
  /\ tpc = "sleep" => temp # 0 /\ ~done[temp] /\ ~fsh[temp]
  /\ tpc \in {"check", "sleep"} => event + temp = N /\ nfsh <= event
  /\ tpc \in {"check", "sleep"} =>
       (nfsh = event <=> \A d \in Device : d > temp => fsh[d])
  /\ tpc = "release" /\ nfsh = event => \A d \in Device : fsh[d]
  /\ timer_stop \/ tpc = "exited" => \A d \in Device : fsh[d]
  /\ tpc # "exited" => time <= MaxSlots \/ (tpc = "release" /\ nfsh = event)

IInv == TypeOK /\ TimerInv /\ \A d \in Device : DeviceInv(d)

-----------------------------------------------------------------------------
(* The invariant holds when the program starts. *)
LEMMA InitIInv == Init => IInv
<1> SUFFICES ASSUME Init PROVE IInv
  OBVIOUS
<1> USE TimerAssumption DEF Device
<1>1. TypeOK
  <2>1. /\ timer_started \in BOOLEAN /\ timer_stop \in BOOLEAN
        /\ done \in [Device -> BOOLEAN] /\ fsh \in [Device -> BOOLEAN]
    BY Zenon DEF Init
  <2>2. QED BY <2>1 DEF Init, TypeOK
<1>2. TimerInv
  <2>1. ~timer_started /\ ~timer_stop
    BY DEF Init
  <2>2. QED BY <2>1 DEF Init, TimerInv
<1>3. ASSUME NEW d \in Device PROVE DeviceInv(d)
  <2>1. ~done[d] /\ ~fsh[d]
    BY DEF Init
  <2>2. QED BY <2>1 DEF Init, DeviceInv, Counted, Unreleased
<1>4. QED BY <1>1, <1>2, <1>3 DEF IInv

(* Every step of timer.c preserves the invariant. *)
LEMMA NextIInv == IInv /\ [Next]_vars => IInv'
<1> SUFFICES ASSUME IInv, [Next]_vars PROVE IInv'
  OBVIOUS
<1> USE TimerAssumption DEF Device

<1>1. CASE attach_event
  <2>1. TypeOK'
    BY <1>1 DEF IInv, TypeOK, TimerInv, attach_event, timerVars
  <2>2. TimerInv'
    BY <1>1 DEF IInv, TypeOK, TimerInv, DeviceInv, Counted, Unreleased, attach_event,
       timerVars
  <2>3. ASSUME NEW x \in Device PROVE DeviceInv(x)'
    BY <1>1 DEF IInv, TypeOK, TimerInv, DeviceInv, Counted, Unreleased, attach_event,
       timerVars
  <2>4. QED BY <2>1, <2>2, <2>3 DEF IInv
<1>2. CASE start_timer
  <2>1. TypeOK'
    BY <1>2 DEF IInv, TypeOK, TimerInv, start_timer
  <2>2. TimerInv'
    BY <1>2 DEF IInv, TypeOK, TimerInv, DeviceInv, Counted, Unreleased, start_timer
  <2>3. ASSUME NEW x \in Device PROVE DeviceInv(x)'
    BY <1>2 DEF IInv, TypeOK, TimerInv, DeviceInv, Counted, Unreleased, start_timer
  <2>4. QED BY <2>1, <2>2, <2>3 DEF IInv
<1>3. CASE stop_timer
  <2>1. TypeOK'
    BY <1>3 DEF IInv, TypeOK, TimerInv, stop_timer, timerVars
  <2>2. TimerInv'
    BY <1>3 DEF IInv, TypeOK, TimerInv, DeviceInv, Counted, Unreleased, stop_timer,
       timerVars
  <2>3. ASSUME NEW x \in Device PROVE DeviceInv(x)'
    BY <1>3 DEF IInv, TypeOK, TimerInv, DeviceInv, Counted, Unreleased, stop_timer,
       timerVars
  <2>4. QED BY <2>1, <2>2, <2>3 DEF IInv
<1>4. CASE stop_timer_free
  <2>1. TypeOK'
    BY <1>4 DEF IInv, TypeOK, TimerInv, stop_timer_free, timerVars
  <2>2. TimerInv'
    BY <1>4 DEF IInv, TypeOK, TimerInv, DeviceInv, Counted, Unreleased, stop_timer_free,
       timerVars
  <2>3. ASSUME NEW x \in Device PROVE DeviceInv(x)'
    BY <1>4 DEF IInv, TypeOK, TimerInv, DeviceInv, Counted, Unreleased, stop_timer_free,
       timerVars
  <2>4. QED BY <2>1, <2>2, <2>3 DEF IInv
<1>5. CASE timer_top
  <2>1. TypeOK'
    BY <1>5 DEF IInv, TypeOK, TimerInv, timer_top
  <2>2. TimerInv'
    BY <1>5 DEF IInv, TypeOK, TimerInv, DeviceInv, Counted, Unreleased, timer_top
  <2>3. ASSUME NEW x \in Device PROVE DeviceInv(x)'
    BY <1>5 DEF IInv, TypeOK, TimerInv, DeviceInv, Counted, Unreleased, timer_top
  <2>4. QED BY <2>1, <2>2, <2>3 DEF IInv
<1>6. CASE timer_check
  <2>1. TypeOK'
    BY <1>6 DEF IInv, TypeOK, TimerInv, timer_check
  <2>2. TimerInv'
    <3>1. CASE ~done[temp] /\ ~fsh[temp]
      BY <1>6, <3>1 DEF IInv, TypeOK, TimerInv, timer_check
    <3>2. CASE done[temp] \/ fsh[temp]
      <4>1. /\ tpc = "check" /\ tpc' = "check"
            /\ temp \in 1..N /\ temp' = temp - 1 /\ event' = event + 1
            /\ nfsh' = IF fsh[temp] THEN nfsh + 1 ELSE nfsh
            /\ UNCHANGED <<timer_started, timer_stop, time, dev_list, fsh>>
        BY <1>6, <3>2 DEF IInv, TypeOK, timer_check
      <4>2. event' + temp' = N /\ nfsh' <= event'
        BY <4>1 DEF IInv, TypeOK, TimerInv
      <4>3. nfsh' = event' <=> \A d \in Device : d > temp' => fsh[d]
        <5>1. CASE fsh[temp]
          BY <4>1, <5>1 DEF IInv, TypeOK, TimerInv
        <5>2. CASE ~fsh[temp]
          BY <4>1, <5>2 DEF IInv, TypeOK, TimerInv
        <5>3. QED BY <5>1, <5>2
      <4>4. QED BY <4>1, <4>2, <4>3 DEF IInv, TypeOK, TimerInv
    <3>3. QED BY <3>1, <3>2
  <2>3. ASSUME NEW x \in Device PROVE DeviceInv(x)'
    BY <1>6 DEF IInv, TypeOK, TimerInv, DeviceInv, Counted, Unreleased, timer_check
  <2>4. QED BY <2>1, <2>2, <2>3 DEF IInv
<1>7. CASE timer_tick
  <2>1. TypeOK'
    BY <1>7 DEF IInv, TypeOK, TimerInv, timer_tick
  <2>2. TimerInv'
    BY <1>7 DEF IInv, TypeOK, TimerInv, DeviceInv, Counted, Unreleased, timer_tick
  <2>3. ASSUME NEW x \in Device PROVE DeviceInv(x)'
    BY <1>7 DEF IInv, TypeOK, TimerInv, DeviceInv, Counted, Unreleased, timer_tick
  <2>4. QED BY <2>1, <2>2, <2>3 DEF IInv
<1>8. CASE timer_release
  <2>1. TypeOK'
    BY <1>8 DEF IInv, TypeOK, TimerInv, timer_release
  <2>2. TimerInv'
    BY <1>8 DEF IInv, TypeOK, TimerInv, DeviceInv, Counted, Unreleased, timer_release
  <2>3. ASSUME NEW x \in Device PROVE DeviceInv(x)'
    BY <1>8 DEF IInv, TypeOK, TimerInv, DeviceInv, Counted, Unreleased, timer_release
  <2>4. QED BY <2>1, <2>2, <2>3 DEF IInv
<1>9. CASE timer_round
  <2>1. TypeOK'
    BY <1>9 DEF IInv, TypeOK, TimerInv, timer_round
  <2>2. TimerInv'
    BY <1>9 DEF IInv, TypeOK, TimerInv, DeviceInv, Counted, Unreleased, timer_round
  <2>3. ASSUME NEW x \in Device PROVE DeviceInv(x)'
    BY <1>9 DEF IInv, TypeOK, TimerInv, DeviceInv, Counted, Unreleased, timer_round
  <2>4. QED BY <2>1, <2>2, <2>3 DEF IInv
<1>10. CASE timer_spurious
  <2>1. TypeOK'
    BY <1>10 DEF IInv, TypeOK, TimerInv, timer_spurious
  <2>2. TimerInv'
    BY <1>10 DEF IInv, TypeOK, TimerInv, DeviceInv, Counted, Unreleased, timer_spurious
  <2>3. ASSUME NEW x \in Device PROVE DeviceInv(x)'
    BY <1>10 DEF IInv, TypeOK, TimerInv, DeviceInv, Counted, Unreleased, timer_spurious
  <2>4. QED BY <2>1, <2>2, <2>3 DEF IInv
<1>11. ASSUME NEW d \in Device, next_slot(d) PROVE IInv'
  <2>1. TypeOK'
    BY <1>11 DEF IInv, TypeOK, TimerInv, next_slot, SignalTimer
  <2>2. TimerInv'
    BY <1>11 DEF IInv, TypeOK, TimerInv, DeviceInv, Counted, Unreleased, next_slot,
       SignalTimer
  <2>3. ASSUME NEW x \in Device PROVE DeviceInv(x)'
    BY <1>11 DEF IInv, TypeOK, TimerInv, DeviceInv, Counted, Unreleased, next_slot,
       SignalTimer
  <2>4. QED BY <2>1, <2>2, <2>3 DEF IInv
<1>12. ASSUME NEW d \in Device, next_slot_wait(d) PROVE IInv'
  <2>1. TypeOK'
    BY <1>12 DEF IInv, TypeOK, TimerInv, next_slot_wait, timerVars
  <2>2. TimerInv'
    BY <1>12 DEF IInv, TypeOK, TimerInv, DeviceInv, Counted, Unreleased, next_slot_wait,
       timerVars
  <2>3. ASSUME NEW x \in Device PROVE DeviceInv(x)'
    BY <1>12 DEF IInv, TypeOK, TimerInv, DeviceInv, Counted, Unreleased, next_slot_wait,
       timerVars
  <2>4. QED BY <2>1, <2>2, <2>3 DEF IInv
<1>13. ASSUME NEW d \in Device, detach_event(d) PROVE IInv'
  <2>1. TypeOK'
    BY <1>13 DEF IInv, TypeOK, TimerInv, detach_event, SignalTimer
  <2>2. TimerInv'
    BY <1>13 DEF IInv, TypeOK, TimerInv, DeviceInv, Counted, Unreleased, detach_event,
       SignalTimer
  <2>3. ASSUME NEW x \in Device PROVE DeviceInv(x)'
    BY <1>13 DEF IInv, TypeOK, TimerInv, DeviceInv, Counted, Unreleased, detach_event,
       SignalTimer
  <2>4. QED BY <2>1, <2>2, <2>3 DEF IInv
<1>14. ASSUME NEW d \in Device, device_spurious(d) PROVE IInv'
  <2>1. TypeOK'
    BY <1>14 DEF IInv, TypeOK, TimerInv, device_spurious, timerVars
  <2>2. TimerInv'
    BY <1>14 DEF IInv, TypeOK, TimerInv, DeviceInv, Counted, Unreleased, device_spurious,
       timerVars
  <2>3. ASSUME NEW x \in Device PROVE DeviceInv(x)'
    BY <1>14 DEF IInv, TypeOK, TimerInv, DeviceInv, Counted, Unreleased, device_spurious,
       timerVars
  <2>4. QED BY <2>1, <2>2, <2>3 DEF IInv
<1>15. CASE UNCHANGED vars
  BY <1>15 DEF IInv, TypeOK, TimerInv, DeviceInv, Counted, Unreleased, vars
<1>16. QED
  BY <1>1, <1>2, <1>3, <1>4, <1>5, <1>6, <1>7, <1>8, <1>9, <1>10, <1>11, <1>12, <1>13, <1>14, <1>15
  DEF Next, MainStep, TimerStep, DeviceStep, Spurious, Finished

(* The invariant holds in every reachable state. *)
THEOREM Invariance == Safety => []IInv
BY InitIInv, NextIInv, PTL DEF Safety

-----------------------------------------------------------------------------
(* The properties that TLC checks on a small instance, for every N and
   MaxSlots. *)

(* Every variable of timer.c keeps its type. *)
THEOREM TypeCorrect == Safety => []TypeOK
<1>1. IInv => TypeOK
  BY DEF IInv
<1>2. QED BY Invariance, <1>1, PTL

(* Time does not move under a working device, and a device in next_slot is
   at most one slot behind. *)
THEOREM LockstepHolds == Safety => []Lockstep
<1>1. IInv => Lockstep
  BY DEF IInv, TypeOK, DeviceInv, Lockstep, Device
<1>2. QED BY Invariance, <1>1, PTL

(* A thread sleeps on a condition variable only while its condition is
   false. *)
THEOREM NoLostWakeupHolds == Safety => []NoLostWakeup
<1>1. IInv => NoLostWakeup
  BY DEF IInv, TimerInv, DeviceInv, NoLostWakeup
<1>2. QED BY Invariance, <1>1, PTL

(* The timer thread ends only when every device has detached. *)
THEOREM TimerOutlivesDevicesHolds == Safety => []TimerOutlivesDevices
<1>1. IInv => TimerOutlivesDevices
  BY DEF IInv, TimerInv, DeviceInv, TimerOutlivesDevices
<1>2. QED BY Invariance, <1>1, PTL

(* next_slot moves its caller on by exactly one slot. *)
THEOREM OneSlotPerCallHolds == Safety => OneSlotPerCall
<1>1. ASSUME IInv, [Next]_vars, NEW d \in Device,
             dpc[d] = "test", dpc'[d] = "work"
      PROVE  seen'[d] = seen[d] + 1
  <2>1. dpc' # dpc
    BY <1>1
  <2>2. ASSUME NEW e \in Device, next_slot_wait(e)
        PROVE  seen'[d] = seen[d] + 1
    BY <1>1, <2>2 DEF IInv, TypeOK, DeviceInv, next_slot_wait
  <2>3. ASSUME NEW e \in Device, next_slot(e) \/ detach_event(e) \/ device_spurious(e)
        PROVE  FALSE
    BY <1>1, <2>3 DEF IInv, TypeOK, next_slot, detach_event, device_spurious
  <2>4. CASE timer_release
    BY <1>1, <2>4 DEF IInv, TypeOK, timer_release
  <2>5. QED
    BY <1>1, <2>1, <2>2, <2>3, <2>4
    DEF Next, MainStep, TimerStep, DeviceStep, Spurious, Finished, vars,
        attach_event, start_timer, stop_timer, stop_timer_free, timer_top,
        timer_check, timer_tick, timer_round, timer_spurious
<1>2. IInv /\ [Next]_vars =>
        [\A d \in Device : dpc[d] = "test" /\ dpc'[d] = "work"
                            => seen'[d] = seen[d] + 1]_vars
  BY <1>1
<1>3. QED BY Invariance, <1>2, PTL DEF Safety, OneSlotPerCall

-----------------------------------------------------------------------------
(* Refinement. *)

\* A step that the devices cannot see.
BarrierStutter == UNCHANGED <<time, BarrierState>>

(* The initial state of timer.c is an initial state of the barrier. *)
LEMMA BarrierInitially == Init => Barrier!BarrierInit
<1> SUFFICES ASSUME Init PROVE Barrier!BarrierInit
  OBVIOUS
<1>1. ASSUME NEW d \in Device PROVE ~done[d] /\ ~fsh[d]
  BY DEF Init
<1>2. QED BY <1>1 DEF Init, Barrier!BarrierInit, BarrierState

(* The timer's tick is the barrier's: nobody works, and everybody who waits
   goes on. *)
LEMMA TickIsTick == IInv /\ timer_tick => Barrier!Tick
<1> SUFFICES ASSUME IInv, timer_tick PROVE Barrier!Tick
  OBVIOUS
<1> USE TimerAssumption DEF Device
<1>1. /\ tpc = "check" /\ temp = 0 /\ tpc' = "release" /\ temp' = N
      /\ time' = time + 1 /\ UNCHANGED <<done, fsh>>
  BY DEF IInv, TypeOK, TimerInv, timer_tick
<1>2. \A d \in Device : done[d] \/ fsh[d]
  BY <1>1 DEF IInv, DeviceInv, Counted
<1>3. \A d \in Device : BarrierState[d] # "work"
  BY <1>1, <1>2 DEF BarrierState
<1>4. time < MaxSlots + 1
  BY <1>1 DEF IInv, TypeOK, TimerInv
<1>5. BarrierState' =
        [d \in Device |->
           IF BarrierState[d] = "parked" THEN "work" ELSE BarrierState[d]]
  BY <1>1, <1>2 DEF BarrierState
<1>6. QED BY <1>1, <1>3, <1>4, <1>5 DEF Barrier!Tick

(* Every step of timer.c is a step of the barrier, or none that shows. *)
LEMMA BarrierStep ==
  IInv /\ [Next]_vars => [Barrier!BarrierNext]_<<time, BarrierState>>
<1> SUFFICES ASSUME IInv, [Next]_vars
             PROVE  Barrier!BarrierNext \/ BarrierStutter
  BY DEF BarrierStutter
<1> USE TimerAssumption DEF Device
<1>1. ASSUME NEW d \in Device, next_slot(d) PROVE Barrier!Park(d)
  <2>1. ~done[d] /\ ~fsh[d] /\ ~Unreleased(d)
    BY <1>1 DEF IInv, DeviceInv, next_slot
  <2>2. (tpc' = "release" <=> tpc = "release") /\ UNCHANGED <<time, temp, fsh>>
    BY <1>1 DEF next_slot, SignalTimer
  <2>3. done' = [done EXCEPT ![d] = TRUE]
    BY <1>1 DEF next_slot
  <2>4. BarrierState[d] = "work"
    BY <2>1 DEF BarrierState
  <2>5. BarrierState' = [BarrierState EXCEPT ![d] = "parked"]
    BY <2>1, <2>2, <2>3 DEF IInv, TypeOK, BarrierState, Unreleased
  <2>6. QED BY <2>2, <2>4, <2>5 DEF Barrier!Park
<1>2. ASSUME NEW d \in Device, detach_event(d) PROVE Barrier!Leave(d)
  <2>1. ~done[d] /\ ~fsh[d]
    BY <1>2 DEF IInv, DeviceInv, detach_event
  <2>2. (tpc' = "release" <=> tpc = "release") /\ UNCHANGED <<time, temp, done>>
    BY <1>2 DEF detach_event, SignalTimer
  <2>3. fsh' = [fsh EXCEPT ![d] = TRUE]
    BY <1>2 DEF detach_event
  <2>4. BarrierState[d] = "work"
    BY <2>1 DEF BarrierState
  <2>5. BarrierState' = [BarrierState EXCEPT ![d] = "gone"]
    BY <2>1, <2>2, <2>3 DEF IInv, TypeOK, BarrierState
  <2>6. QED BY <2>2, <2>4, <2>5 DEF Barrier!Leave
<1>3. CASE timer_tick
  BY <1>3, TickIsTick DEF Barrier!BarrierNext
<1>4. CASE timer_release
  BY <1>4 DEF IInv, TypeOK, timer_release, BarrierStutter, BarrierState
<1>5. CASE timer_round
  BY <1>5 DEF IInv, TypeOK, timer_round, BarrierStutter, BarrierState
<1>6. CASE MainStep
  BY <1>6 DEF IInv, TimerInv, MainStep, attach_event, start_timer, stop_timer,
     stop_timer_free, timerVars, BarrierStutter, BarrierState
<1>7. CASE timer_top \/ timer_check \/ timer_spurious
  BY <1>7 DEF timer_top, timer_check, timer_spurious, BarrierStutter,
     BarrierState
<1>8. ASSUME NEW d \in Device, next_slot_wait(d) \/ device_spurious(d)
      PROVE  BarrierStutter
  BY <1>8 DEF next_slot_wait, device_spurious, timerVars, BarrierStutter,
     BarrierState
<1>9. CASE UNCHANGED vars
  BY <1>9 DEF vars, BarrierStutter, BarrierState
<1>10. QED
  BY <1>1, <1>2, <1>3, <1>4, <1>5, <1>6, <1>7, <1>8, <1>9
  DEF Next, TimerStep, DeviceStep, Spurious, Finished, Barrier!BarrierNext

(* timer.c implements the barrier that the CPUs and the loader rely on. *)
THEOREM ImplementsBarrier == Safety => BarrierSafety
BY BarrierInitially, BarrierStep, Invariance, PTL
DEF Safety, BarrierSafety, Barrier!BarrierSafety, Barrier!barrierVars
=============================================================================

-------------------------------- MODULE Timer --------------------------------
(***************************************************************************)
(* timer.c: the timer thread and its devices step through time slots       *)
(* together.  Every critical section (event_lock, timer_lock) is one       *)
(* action; a thread in pthread_cond_wait sleeps until it is signalled or   *)
(* wakes spuriously, and then tests its condition again.                   *)
(*                                                                         *)
(* attach_event pushes on the front of dev_list, so the list of k devices  *)
(* is k, k-1, ..., 1 and `temp = temp->next' is temp - 1, with NULL = 0.   *)
(* A device thread that pthread_create has not yet started is one that     *)
(* has not taken its first step.                                           *)
(***************************************************************************)
EXTENDS Naturals

CONSTANTS
  N,         \* number of devices: num_cpus CPUs and the loader
  MaxSlots   \* bound: a device calls next_slot at most MaxSlots times

ASSUME TimerAssumption == N \in Nat \ {0} /\ MaxSlots \in Nat

Device == 1..N

VARIABLES
  timer_started, timer_stop,
  time,      \* _time
  dev_list,  \* the first device of the list, 0 when it is empty
  done, fsh, \* the flags of struct timer_id_t
  tpc,       \* control point of timer_routine
  temp,      \* its list iterator
  nfsh, event, \* its local counters
  dpc,       \* dpc[d]: control point of device d in the timer's interface
  seen       \* history: current_time() when d last returned from next_slot

timerVars == <<tpc, temp, nfsh, event>>
vars == <<timer_started, timer_stop, time, dev_list, done, fsh,
          tpc, temp, nfsh, event, dpc, seen>>

TypeOK ==
  /\ timer_started \in BOOLEAN
  /\ timer_stop \in BOOLEAN
  /\ time \in Nat
  /\ dev_list \in 0..N
  /\ done \in [Device -> BOOLEAN]
  /\ fsh \in [Device -> BOOLEAN]
  /\ tpc \in {"off", "top", "check", "sleep", "release", "exited"}
  /\ temp \in 0..N
  /\ nfsh \in Nat
  /\ event \in Nat
  /\ dpc \in [Device -> {"work", "test", "sleep", "exited"}]
  /\ seen \in [Device -> Nat]

Init ==
  /\ timer_started = FALSE
  /\ timer_stop = FALSE
  /\ time = 0
  /\ dev_list = 0
  /\ done = [d \in Device |-> FALSE]
  /\ fsh = [d \in Device |-> FALSE]
  /\ tpc = "off"
  /\ temp = 0
  /\ nfsh = 0
  /\ event = 0
  /\ dpc = [d \in Device |-> "work"]
  /\ seen = [d \in Device |-> 0]

-----------------------------------------------------------------------------
(* The main thread. *)

\* Mutant: one device too many.
attach_event_extra ==
  /\ ~timer_started
  /\ dev_list <= N
  /\ dev_list' = dev_list + 1
  /\ UNCHANGED <<timer_started, timer_stop, time, done, fsh, timerVars, dpc,
                 seen>>

attach_event ==
  /\ ~timer_started
  /\ dev_list < N
  /\ dev_list' = dev_list + 1
  /\ UNCHANGED <<timer_started, timer_stop, time, done, fsh, timerVars, dpc,
                 seen>>

start_timer ==
  /\ ~timer_started
  /\ dev_list = N
  /\ timer_started' = TRUE
  /\ tpc' = "top"
  /\ UNCHANGED <<timer_stop, time, dev_list, done, fsh, temp, nfsh, event,
                 dpc, seen>>

\* main has joined every device thread before it calls stop_timer.
stop_timer ==
  /\ timer_started /\ ~timer_stop
  /\ \A d \in Device : dpc[d] = "exited"
  /\ timer_stop' = TRUE
  /\ UNCHANGED <<timer_started, time, dev_list, done, fsh, timerVars, dpc,
                 seen>>

\* The rest of stop_timer: join the timer thread, destroy the devices.
stop_timer_free ==
  /\ timer_stop /\ tpc = "exited" /\ dev_list # 0
  /\ dev_list' = 0
  /\ UNCHANGED <<timer_started, timer_stop, time, done, fsh, timerVars, dpc,
                 seen>>

-----------------------------------------------------------------------------
(* The timer thread: timer_routine. *)

timer_top ==
  /\ tpc = "top"
  /\ \/ /\ timer_stop
        /\ tpc' = "exited"
        /\ UNCHANGED <<temp, nfsh, event>>
     \/ /\ ~timer_stop
        /\ tpc' = "check"
        /\ temp' = dev_list
        /\ nfsh' = 0
        /\ event' = 0
  /\ UNCHANGED <<timer_started, timer_stop, time, dev_list, done, fsh, dpc,
                 seen>>

\* Under temp's event_lock: wait for the device, or count it and go on.
timer_check ==
  /\ tpc = "check" /\ temp # 0
  /\ \/ /\ ~done[temp] /\ ~fsh[temp]
        /\ tpc' = "sleep"
        /\ UNCHANGED <<temp, nfsh, event>>
     \/ /\ done[temp] \/ fsh[temp]
        /\ nfsh' = IF fsh[temp] THEN nfsh + 1 ELSE nfsh
        /\ event' = event + 1
        /\ temp' = temp - 1
        /\ UNCHANGED tpc
  /\ UNCHANGED <<timer_started, timer_stop, time, dev_list, done, fsh, dpc,
                 seen>>

\* pthread_cond_wait may return without a signal.
timer_spurious ==
  /\ tpc = "sleep"
  /\ tpc' = "check"
  /\ UNCHANGED <<timer_started, timer_stop, time, dev_list, done, fsh, temp,
                 nfsh, event, dpc, seen>>

\* Mutant: the clock ticks before the whole list has been waited for.
timer_tick_early ==
  /\ tpc = "check"
  /\ time' = time + 1
  /\ temp' = dev_list
  /\ tpc' = "release"
  /\ UNCHANGED <<timer_started, timer_stop, dev_list, done, fsh, nfsh, event,
                 dpc, seen>>

timer_tick ==
  /\ tpc = "check" /\ temp = 0
  /\ time' = time + 1
  /\ temp' = dev_list
  /\ tpc' = "release"
  /\ UNCHANGED <<timer_started, timer_stop, dev_list, done, fsh, nfsh, event,
                 dpc, seen>>

\* Mutant: done is cleared and nobody is signalled.
timer_release_silent ==
  /\ tpc = "release" /\ temp # 0
  /\ done' = [done EXCEPT ![temp] = FALSE]
  /\ temp' = temp - 1
  /\ UNCHANGED <<timer_started, timer_stop, time, dev_list, fsh, tpc, nfsh,
                 event, dpc, seen>>

\* Under temp's timer_lock: clear done and signal timer_cond.
timer_release ==
  /\ tpc = "release" /\ temp # 0
  /\ done' = [done EXCEPT ![temp] = FALSE]
  /\ dpc' = [dpc EXCEPT ![temp] = IF @ = "sleep" THEN "test" ELSE @]
  /\ temp' = temp - 1
  /\ UNCHANGED <<timer_started, timer_stop, time, dev_list, fsh, tpc, nfsh,
                 event, seen>>

\* Mutant: the timer ends with the first device that has detached.
timer_round_any ==
  /\ tpc = "release" /\ temp = 0
  /\ tpc' = IF nfsh > 0 THEN "exited" ELSE "top"
  /\ UNCHANGED <<timer_started, timer_stop, time, dev_list, done, fsh, temp,
                 nfsh, event, dpc, seen>>

timer_round ==
  /\ tpc = "release" /\ temp = 0
  /\ tpc' = IF nfsh = event THEN "exited" ELSE "top"
  /\ UNCHANGED <<timer_started, timer_stop, time, dev_list, done, fsh, temp,
                 nfsh, event, dpc, seen>>

-----------------------------------------------------------------------------
(* A device thread. *)

\* Mutant: the flag is set without a signal.
SignalTimer_none(d) == UNCHANGED tpc

\* pthread_cond_signal(event_cond) of device d.
SignalTimer(d) ==
  tpc' = IF tpc = "sleep" /\ temp = d THEN "check" ELSE tpc

\* next_slot, first critical section: under event_lock.
next_slot(d) ==
  /\ timer_started
  /\ dpc[d] = "work" /\ seen[d] < MaxSlots
  /\ done' = [done EXCEPT ![d] = TRUE]
  /\ SignalTimer(d)
  /\ dpc' = [dpc EXCEPT ![d] = "test"]
  /\ UNCHANGED <<timer_started, timer_stop, time, dev_list, fsh, temp, nfsh,
                 event, seen>>

\* Mutant: next_slot does not wait for the tick.
next_slot_wait_not(d) ==
  /\ dpc[d] = "test"
  /\ dpc' = [dpc EXCEPT ![d] = "work"]
  /\ seen' = [seen EXCEPT ![d] = time]
  /\ UNCHANGED <<timer_started, timer_stop, time, dev_list, done, fsh,
                 timerVars>>

\* next_slot, second critical section: under timer_lock.
next_slot_wait(d) ==
  /\ dpc[d] = "test"
  /\ \/ /\ done[d]
        /\ dpc' = [dpc EXCEPT ![d] = "sleep"]
        /\ UNCHANGED seen
     \/ /\ ~done[d]
        /\ dpc' = [dpc EXCEPT ![d] = "work"]
        /\ seen' = [seen EXCEPT ![d] = time]
  /\ UNCHANGED <<timer_started, timer_stop, time, dev_list, done, fsh,
                 timerVars>>

\* Mutant: `if' in place of `while' around pthread_cond_wait.
device_spurious_if(d) ==
  /\ dpc[d] = "sleep"
  /\ dpc' = [dpc EXCEPT ![d] = "work"]
  /\ seen' = [seen EXCEPT ![d] = time]
  /\ UNCHANGED <<timer_started, timer_stop, time, dev_list, done, fsh,
                 timerVars>>

device_spurious(d) ==
  /\ dpc[d] = "sleep"
  /\ dpc' = [dpc EXCEPT ![d] = "test"]
  /\ UNCHANGED <<timer_started, timer_stop, time, dev_list, done, fsh,
                 timerVars, seen>>

\* Mutant: the device ends without saying so.
detach_event_unset(d) ==
  /\ timer_started
  /\ dpc[d] = "work"
  /\ SignalTimer(d)
  /\ dpc' = [dpc EXCEPT ![d] = "exited"]
  /\ UNCHANGED <<timer_started, timer_stop, time, dev_list, done, fsh, temp,
                 nfsh, event, seen>>

detach_event(d) ==
  /\ timer_started
  /\ dpc[d] = "work"
  /\ fsh' = [fsh EXCEPT ![d] = TRUE]
  /\ SignalTimer(d)
  /\ dpc' = [dpc EXCEPT ![d] = "exited"]
  /\ UNCHANGED <<timer_started, timer_stop, time, dev_list, done, temp, nfsh,
                 event, seen>>

-----------------------------------------------------------------------------
MainStep == attach_event \/ start_timer \/ stop_timer \/ stop_timer_free

TimerStep ==
  timer_top \/ timer_check \/ timer_tick \/ timer_release \/ timer_round

DeviceStep(d) == next_slot(d) \/ next_slot_wait(d) \/ detach_event(d)

Spurious == timer_spurious \/ \E d \in Device : device_spurious(d)

\* The program is over: everything is freed and main returns.
Finished ==
  /\ timer_stop /\ dev_list = 0
  /\ UNCHANGED vars

Next ==
  \/ MainStep
  \/ TimerStep
  \/ \E d \in Device : DeviceStep(d)
  \/ Spurious
  \/ Finished

\* The operating system runs every thread that can run, and a device works
\* for a finite time; nothing makes a spurious wakeup happen.
Fairness ==
  /\ WF_vars(MainStep)
  /\ WF_vars(TimerStep)
  /\ \A d \in Device : WF_vars(DeviceStep(d))

Safety == Init /\ [][Next]_vars
Spec == Safety /\ Fairness

-----------------------------------------------------------------------------
(* Correctness. *)

(* Lockstep: a device that is working in a slot works in the current one -
   time does not move under it - and a device inside next_slot is at most
   one slot behind the clock. *)
Lockstep ==
  \A d \in Device :
    /\ dpc[d] = "work" => seen[d] = time
    /\ dpc[d] \in {"test", "sleep"} => time \in {seen[d], seen[d] + 1}

(* next_slot moves its caller on by exactly one slot: no slot is skipped
   and none is given twice. *)
OneSlotPerCall ==
  [][\A d \in Device :
       dpc[d] = "test" /\ dpc'[d] = "work" => seen'[d] = seen[d] + 1]_vars

(* No lost wakeup: a thread sleeps in pthread_cond_wait only while the
   condition it waits for is false, so the signal is still to come. *)
NoLostWakeup ==
  /\ tpc = "sleep" => temp # 0 /\ ~done[temp] /\ ~fsh[temp]
  /\ \A d \in Device : dpc[d] = "sleep" => done[d]

(* The timer thread leaves its loop only when every device has detached
   (fsh == event), so no device is left waiting for a slot. *)
TimerOutlivesDevices ==
  tpc = "exited" => \A d \in Device : dpc[d] = "exited"

(* Every call of next_slot returns. *)
NextSlotReturns ==
  \A d \in Device : dpc[d] \in {"test", "sleep"} ~> dpc[d] = "work"

(* When the devices come to an end, so do the timer and stop_timer. *)
Shutdown == <>[](timer_stop /\ tpc = "exited" /\ dev_list = 0)

(* timer.c implements the barrier: a device still to be released after the
   tick already counts as working in the new slot. *)
BarrierState ==
  [d \in Device |->
     IF fsh[d] THEN "gone"
     ELSE IF done[d] /\ ~(tpc = "release" /\ d <= temp) THEN "parked"
     ELSE "work"]

Barrier == INSTANCE SlotBarrier WITH
  Horizon <- MaxSlots + 1, now <- time, st <- BarrierState

BarrierSafety == Barrier!BarrierSafety
BarrierSpec == Barrier!BarrierSpec
=============================================================================

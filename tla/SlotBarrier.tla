----------------------------- MODULE SlotBarrier -----------------------------
(***************************************************************************)
(* What timer.c promises to its devices (the CPU threads and the loader):  *)
(* a clock that ticks only when every device has finished the current time *)
(* slot or has left, and that lets all waiting devices go on together.     *)
(* Timer.tla implements it; OS.tla uses it in place of timer.c.            *)
(***************************************************************************)
EXTENDS Naturals

CONSTANTS
  Device,    \* the threads that called attach_event
  Horizon    \* bound: the clock stays at Horizon once it gets there

VARIABLES
  now,       \* current_time()
  st         \* st[d]: "work" in a slot, "parked" in next_slot, "gone"

barrierVars == <<now, st>>

BarrierTypeOK ==
  /\ now \in 0..Horizon
  /\ st \in [Device -> {"work", "parked", "gone"}]

BarrierInit ==
  /\ now = 0
  /\ st = [d \in Device |-> "work"]

\* next_slot: the device is done with this slot and waits for the next.
Park(d) ==
  /\ st[d] = "work"
  /\ st' = [st EXCEPT ![d] = "parked"]
  /\ UNCHANGED now

\* detach_event: the device leaves for good.
Leave(d) ==
  /\ st[d] = "work"
  /\ st' = [st EXCEPT ![d] = "gone"]
  /\ UNCHANGED now

\* One round of timer_routine: nobody works, so the slot is over.
Tick ==
  /\ \A d \in Device : st[d] # "work"
  /\ now' = IF now < Horizon THEN now + 1 ELSE now
  /\ st' = [d \in Device |-> IF st[d] = "parked" THEN "work" ELSE st[d]]

BarrierNext ==
  \/ \E d \in Device : Park(d) \/ Leave(d)
  \/ Tick

BarrierSafety == BarrierInit /\ [][BarrierNext]_barrierVars

\* The promise is kept: waiting devices are let go.
Release == Tick /\ \E d \in Device : st[d] = "parked"

BarrierSpec == BarrierSafety /\ WF_barrierVars(Release)
=============================================================================

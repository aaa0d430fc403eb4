------------------------------- MODULE MCSched -------------------------------
(* Small instances of the scheduler under load, and the literal code of
   get_mlq_proc. *)
EXTENDS Sched, TLC

CONSTANTS p1, p2, p3, c1, c2

\* One process at level 0, and two that share the level below.
MCPrio == (p1 :> 0) @@ (p2 :> 1) @@ (p3 :> 1)

-----------------------------------------------------------------------------
(* get_mlq_proc as it is written, with its label, its gotos and its for
   loop, to compare with the outcome that MLQ.tla states for it. *)

\* The variables of get_mlq_proc as a record.
Entry ==
  [q |-> mlq_ready_queue, slot |-> slot, MarkedPrior |-> MarkedPrior,
   flag |-> flag, count |-> count, ret |-> NULL]

\* dequeue from level MarkedPrior and slot[MarkedPrior]++.
Take(s) ==
  LET q == s.q[s.MarkedPrior] IN
    [s EXCEPT !.ret = q[HighestIndex(q)],
              !.q[s.MarkedPrior] = RemoveAt(q, HighestIndex(q)),
              !.slot[s.MarkedPrior] = @ + 1]

CanTake(s) ==
  /\ s.q[s.MarkedPrior] # <<>>
  /\ s.slot[s.MarkedPrior] < MAX_PRIO - s.MarkedPrior

RECURSIVE Label(_), ForLevels(_)

\* From "label:" to the end of the function.
Label(s) ==
  IF s.flag = 1 THEN ForLevels(s)
  ELSE IF CanTake(s) THEN Take(s)
  ELSE Label([s EXCEPT !.flag = 1])

\* for(; MarkedPrior < MAX_PRIO; MarkedPrior++) and what follows it.
ForLevels(s) ==
  IF s.MarkedPrior = MAX_PRIO
  THEN LET t == [s EXCEPT !.slot = [l \in Level |-> 0],
                          !.MarkedPrior = 0, !.flag = 1]
       IN  IF t.count = MAX_PRIO THEN t ELSE Label([t EXCEPT !.count = 0])
  ELSE IF CanTake(s) THEN [Take(s) EXCEPT !.flag = 0, !.count = 0]
  ELSE ForLevels([s EXCEPT !.MarkedPrior = @ + 1, !.count = @ + 1])

(* Whatever state other threads have left the scheduler in, get_mlq_proc
   comes to an end with a result and a state that MLQ.tla allows, and
   MLQ.tla allows no other. *)
GetIsLoop ==
  [][\A c \in Cpu :
       /\ cpc[c] = "get" => ENABLED Get(c)
       /\ Get(c) => [Entry' EXCEPT !.ret = proc'[c]] = Label(Entry)]_vars
=============================================================================

----------------------------- MODULE SchedProofs -----------------------------
(***************************************************************************)
(* Proofs about Sched.tla, for any processes, CPUs, priorities and queue   *)
(* sizes.                                                                  *)
(***************************************************************************)
EXTENDS Sched, MLQProofs

\* A CPU has a process unless it is about to call get_proc.
HoldInv == \A c \in Cpu : cpc[c] = "get" <=> proc[c] = NULL

\* A refusal leaves the search at the beginning of a round, and nobody but
\* get_proc moves it.
RefusalInv ==
  turned_away => count = MAX_PRIO /\ flag = 1 /\ \A l \in Level : slot[l] = 0

IInv == TypeOK /\ LevelInv /\ SearchInv /\ SlotBudget /\ HoldInv /\ RefusalInv

-----------------------------------------------------------------------------
(* The invariant holds when the program starts. *)
LEMMA InitIInv == Init => IInv
<1> SUFFICES ASSUME Init PROVE IInv
  OBVIOUS
<1> USE MLQAssumption DEF Init, init_scheduler, Level
<1>1. TypeOK
  <2>1. SchedTypeOK
    BY DEF SchedTypeOK
  <2>2. /\ proc \in [Cpu -> Proc \cup {NULL}]
        /\ cpc \in [Cpu -> {"get", "hold", "put"}]
    OBVIOUS
  <2>3. QED BY <2>1, <2>2 DEF TypeOK
<1>2. LevelInv /\ SearchInv /\ HoldInv /\ SlotBudget /\ RefusalInv
  BY DEF LevelInv, SearchInv, HoldInv, SlotBudget, RefusalInv
<1>3. QED BY <1>1, <1>2 DEF IInv

(* Every step of a CPU or of the loader preserves it. *)
LEMMA NextIInv == IInv /\ [Next]_vars => IInv'
<1> SUFFICES ASSUME IInv, [Next]_vars PROVE IInv'
  OBVIOUS
<1> USE MLQAssumption
<1>0. SchedInv
  BY DEF IInv, TypeOK, SchedInv
<1>1. CASE AddFirstHalf
  <2>1. PICK p \in unborn : /\ put_running_list(p) /\ adding' = p
                            /\ unborn' = unborn \ {p}
    BY <1>1 DEF AddFirstHalf
  <2>2. p \in Proc
    BY DEF IInv, TypeOK
  <2>3. SchedInv'
    BY <1>0, <2>1, <2>2, RunningListKeeps
  <2>4. RefusalInv'
    BY <1>1, <2>1 DEF IInv, RefusalInv, AddFirstHalf, put_running_list
  <2>5. QED
    BY <1>1, <2>1, <2>2, <2>3, <2>4
    DEF IInv, TypeOK, HoldInv, SchedInv, AddFirstHalf
<1>2. CASE AddSecondHalf
  <2>1. SchedInv'
    BY <1>0, <1>2, MlqKeeps DEF IInv, TypeOK, AddSecondHalf
  <2>2. RefusalInv'
    BY <1>2 DEF IInv, RefusalInv, AddSecondHalf, put_mlq_proc
  <2>3. QED
    BY <1>2, <2>1, <2>2 DEF IInv, TypeOK, HoldInv, SchedInv, AddSecondHalf
<1>3. ASSUME NEW c \in Cpu, Get(c) PROVE IInv'
  <2>1. PICK ret \in Proc \cup {NULL} :
          /\ get_proc(ret)
          /\ proc' = [proc EXCEPT ![c] = ret]
          /\ cpc' = [cpc EXCEPT ![c] = IF ret = NULL THEN "get" ELSE "hold"]
          /\ turned_away' = (ret = NULL)
    BY <1>3 DEF Get
  <2>2. SchedInv'
    BY <1>0, <2>1, GetKeeps
  <2>3. RefusalInv'
    <3>1. SUFFICES ASSUME ret = NULL PROVE RefusalInv'
      BY <2>1 DEF RefusalInv
    <3>2. count' = MAX_PRIO /\ MAX_PRIO # 0
      BY <1>0, <2>1, <3>1, NullIsCount
    <3>3. ~get_same_level(ret)
      BY <1>0, <3>2 DEF get_same_level, SchedInv, SearchInv
    <3>4. get_none(ret)
      BY <2>1, <3>2, <3>3 DEF get_proc, get_next_level, get_new_round
    <3>5. QED BY <3>4 DEF RefusalInv, get_none
  <2>4. QED
    BY <1>3, <2>1, <2>2, <2>3 DEF IInv, TypeOK, HoldInv, SchedInv, Get
<1>4. ASSUME NEW c \in Cpu, PutFirstHalf(c) PROVE IInv'
  <2>1. SchedInv'
    BY <1>0, <1>4, RunningListKeeps DEF IInv, TypeOK, HoldInv, PutFirstHalf
  <2>2. RefusalInv'
    BY <1>4 DEF IInv, RefusalInv, PutFirstHalf, put_running_list
  <2>3. QED
    BY <1>4, <2>1, <2>2 DEF IInv, TypeOK, HoldInv, SchedInv, PutFirstHalf
<1>5. ASSUME NEW c \in Cpu, PutSecondHalf(c) PROVE IInv'
  <2>1. SchedInv'
    BY <1>0, <1>5, MlqKeeps DEF IInv, TypeOK, HoldInv, PutSecondHalf
  <2>2. RefusalInv'
    BY <1>5 DEF IInv, RefusalInv, PutSecondHalf, put_mlq_proc
  <2>3. QED
    BY <1>5, <2>1, <2>2 DEF IInv, TypeOK, HoldInv, SchedInv, PutSecondHalf
<1>6. ASSUME NEW c \in Cpu, Finish(c) PROVE IInv'
  <2>1. SchedInv'
    BY <1>0, <1>6
    DEF Finish, schedVars, SchedInv, SchedTypeOK, LevelInv, SearchInv, SlotBudget
  <2>2. RefusalInv'
    BY <1>6 DEF IInv, RefusalInv, Finish, schedVars
  <2>3. QED
    BY <1>6, <2>1, <2>2 DEF IInv, TypeOK, HoldInv, SchedInv, Finish
<1>7. CASE UNCHANGED vars
  BY <1>7 DEF vars, schedVars, clientVars, IInv, TypeOK, SchedTypeOK, LevelInv,
     SearchInv, HoldInv, SlotBudget, RefusalInv
<1>8. QED
  BY <1>1, <1>2, <1>3, <1>4, <1>5, <1>6, <1>7 DEF Next, LoaderStep, CpuStep

(* The invariant holds in every reachable state. *)
THEOREM Invariance == Safety => []IInv
BY InitIInv, NextIInv, PTL DEF Safety

-----------------------------------------------------------------------------
(* The variables of the scheduler and of its callers keep their types. *)
THEOREM TypeCorrect == Safety => []TypeOK
<1>1. IInv => TypeOK
  BY DEF IInv
<1>2. QED BY Invariance, <1>1, PTL

(* No level is dispatched more often in a round than the comment above
   get_mlq_proc allows. *)
THEOREM SlotBudgetHolds == Safety => []SlotBudget
<1>1. IInv => SlotBudget
  BY DEF IInv
<1>2. QED BY Invariance, <1>1, PTL

(* get_mlq_proc refuses a ready process only with MarkedPrior and count
   both 0. *)
THEOREM RefusedAtMostOnceHolds == Safety => []RefusedAtMostOnce
<1>1. ASSUME IInv PROVE RefusedAtMostOnce
  <2>1. SkippedAll => MarkedPrior = 0 /\ count = 0
    BY <1>1, MLQAssumption DEF IInv, TypeOK, SchedTypeOK, SearchInv, SkippedAll, Level
  <2>2. QED BY <2>1 DEF RefusedAtMostOnce, Refuses
<1>2. QED BY Invariance, <1>1, PTL

(* After a refusal the next call of get_proc dispatches the most urgent of
   all ready processes, whatever the other threads have done meanwhile: the
   refusal has opened a new round, and no put or add moves the search. *)
THEOREM ServedAfterRefusalHolds == Safety => ServedAfterRefusal
<1>1. ASSUME IInv, NEW c \in Cpu, Get(c), turned_away, Ready # {}
      PROVE  proc'[c] # NULL /\ \A p \in Ready : prio[proc'[c]] <= prio[p]
  <2> USE MLQAssumption
  <2>0. SchedInv /\ count = MAX_PRIO /\ flag = 1 /\ MarkedPrior = 0
        /\ \A l \in Level : slot[l] = 0
    BY <1>1 DEF IInv, TypeOK, SchedInv, RefusalInv, SearchInv
  <2>1. PICK ret \in Proc \cup {NULL} :
          get_proc(ret) /\ proc' = [proc EXCEPT ![c] = ret]
    BY <1>1 DEF Get
  <2>2. proc'[c] = ret
    BY <1>1, <2>1 DEF IInv, TypeOK
  <2>3. \A l \in Level : HasTurn(l) <=> mlq_ready_queue[l] # <<>>
    BY <2>0 DEF HasTurn, Level
  <2>4. ASSUME NEW p \in Ready
        PROVE  \E l \in Level : mlq_ready_queue[l] # <<>> /\ prio[p] = l
    <3>1. PICK l \in Level : p \in ToSet(mlq_ready_queue[l])
      BY DEF Ready
    <3>2. mlq_ready_queue[l] \in Seq(Proc)
      BY <2>0 DEF SchedInv, SchedTypeOK
    <3>3. PICK k \in 1..Len(mlq_ready_queue[l]) : mlq_ready_queue[l][k] = p
      BY <3>1, <3>2, InToSet
    <3>4. QED BY <2>0, <3>2, <3>3 DEF SchedInv, LevelInv
  <2>5. ~RoundOver
    BY <1>1, <2>0, <2>3, <2>4 DEF RoundOver, Level
  <2>6. get_next_level(ret)
    BY <2>0, <2>1, <2>5 DEF get_proc, get_same_level, get_new_round, get_none
  <2>7. PICK l \in Level :
          /\ HasTurn(l) /\ dequeue(l, ret)
          /\ \A k \in Level : k >= MarkedPrior /\ k < l => ~HasTurn(k)
    BY <2>6 DEF get_next_level
  <2>8. ret \in Proc /\ prio[ret] = l
    BY <2>0, <2>7, DequeueReturns DEF HasTurn
  <2>9. \A k \in Level : mlq_ready_queue[k] # <<>> => l <= k
    BY <2>0, <2>3, <2>7 DEF Level
  <2>10. QED BY <2>2, <2>4, <2>8, <2>9
<1>2. ASSUME IInv
      PROVE  [\A c \in Cpu :
                Get(c) /\ turned_away /\ Ready # {} =>
                  /\ proc'[c] # NULL
                  /\ \A p \in Ready : prio[proc'[c]] <= prio[p]]_vars
  BY <1>1, <1>2
<1>3. QED BY Invariance, <1>2, PTL DEF ServedAfterRefusal

-----------------------------------------------------------------------------
(* Round robin within a level, although dequeue searches for the highest
   priority: whatever the threads do, only the head leaves a queue. *)
THEOREM FifoPerLevelHolds == Safety => FifoPerLevel
<1>1. ASSUME IInv, [Next]_vars, NEW l \in Level PROVE HeadOrMore(l)
  <2>0. SchedInv
    BY <1>1 DEF IInv, TypeOK, SchedInv
  <2>1. ASSUME mlq_ready_queue' = mlq_ready_queue PROVE HeadOrMore(l)
    <3>1. Len(mlq_ready_queue[l]) \in Nat
      BY <2>0 DEF SchedInv, SchedTypeOK
    <3>2. QED BY <2>1, <3>1 DEF HeadOrMore
  <2>2. CASE AddFirstHalf
    BY <2>1, <2>2 DEF AddFirstHalf, put_running_list
  <2>3. CASE AddSecondHalf
    BY <1>1, <2>0, <2>3, PutFifo DEF AddSecondHalf, IInv, TypeOK
  <2>4. ASSUME NEW c \in Cpu, Get(c) PROVE HeadOrMore(l)
    BY <2>0, <2>4, GetFifo DEF Get
  <2>5. ASSUME NEW c \in Cpu, PutFirstHalf(c) PROVE HeadOrMore(l)
    BY <2>1, <2>5 DEF PutFirstHalf, put_running_list
  <2>6. ASSUME NEW c \in Cpu, PutSecondHalf(c) PROVE HeadOrMore(l)
    BY <1>1, <2>0, <2>6, PutFifo DEF PutSecondHalf, IInv, TypeOK, HoldInv
  <2>7. ASSUME NEW c \in Cpu, Finish(c) PROVE HeadOrMore(l)
    BY <2>1, <2>7 DEF Finish, schedVars
  <2>8. CASE UNCHANGED vars
    BY <2>1, <2>8 DEF vars, schedVars
  <2>9. QED
    BY <1>1, <2>2, <2>3, <2>4, <2>5, <2>6, <2>7, <2>8
    DEF Next, LoaderStep, CpuStep
<1>2. ASSUME IInv, [Next]_vars
      PROVE  [\A l \in Level :
                LET q == mlq_ready_queue[l] IN
                  Len(mlq_ready_queue'[l]) < Len(q)
                    => mlq_ready_queue'[l] = Tail(q)]_vars
  BY <1>1, <1>2 DEF HeadOrMore
<1>3. QED BY Invariance, <1>2, PTL DEF Safety, FifoPerLevel

-----------------------------------------------------------------------------
(* Conservation. *)

\* EachProcessOnce without its last part, which is Orderly.
OncePerProc ==
  \A p \in Proc :
    /\ p \in unborn \/ InHand(p) \/ p \in Ready \/ p \in finished
    /\ p \in Ready =>
         ~InHand(p) /\ p \notin unborn /\ p \notin finished
    /\ InHand(p) => p \notin unborn /\ p \notin finished
    /\ p \in unborn => p \notin finished
    /\ \A c, d \in Cpu : proc[c] = p /\ proc[d] = p => c = d
    /\ \A c \in Cpu : proc[c] = p => adding # p

PlaceInv == Orderly(mlq_ready_queue) /\ OncePerProc

(* At the start every process is with the loader. *)
LEMMA InitPlaceInv == Init => PlaceInv
<1> SUFFICES ASSUME Init PROVE PlaceInv
  OBVIOUS
<1>1. Orderly(mlq_ready_queue) /\ Ready = {}
  BY EmptyOrderly DEF Init, init_scheduler
<1>2. OncePerProc
  BY <1>1, MLQAssumption DEF Init, OncePerProc, InHand
<1>3. QED BY <1>1, <1>2 DEF PlaceInv

(* Every step moves at most one process, from one place to another. *)
LEMMA NextPlaceInv ==
  ASSUME LevelsFit
  PROVE  IInv /\ PlaceInv /\ [Next]_vars => PlaceInv'
<1> SUFFICES ASSUME IInv, PlaceInv, [Next]_vars PROVE PlaceInv'
  OBVIOUS
<1> USE MLQAssumption
<1>0. SchedInv /\ Orderly(mlq_ready_queue) /\ OncePerProc
  BY DEF IInv, TypeOK, SchedInv, PlaceInv
<1>T. /\ unborn \in SUBSET Proc /\ finished \in SUBSET Proc
      /\ adding \in Proc \cup {NULL}
      /\ proc \in [Cpu -> Proc \cup {NULL}] /\ cpc \in [Cpu -> {"get", "hold", "put"}]
      /\ \A c \in Cpu : cpc[c] = "get" <=> proc[c] = NULL
  BY DEF IInv, TypeOK, HoldInv
<1>S. ASSUME mlq_ready_queue' = mlq_ready_queue
      PROVE  Orderly(mlq_ready_queue') /\ Ready' = Ready
  BY <1>0, <1>S DEF Ready
<1>1. CASE AddFirstHalf
  <2>1. Orderly(mlq_ready_queue') /\ Ready' = Ready
    BY <1>1, <1>S DEF AddFirstHalf, put_running_list
  <2>2. OncePerProc'
    BY <1>0, <1>1, <1>T, <2>1 DEF AddFirstHalf, OncePerProc, InHand
  <2>3. QED BY <2>1, <2>2 DEF PlaceInv
<1>2. CASE AddSecondHalf
  <2>1. adding \in Proc /\ put_mlq_proc(adding)
    BY <1>2, <1>T DEF AddSecondHalf
  <2>2. adding \notin Ready
    BY <1>0, <2>1 DEF OncePerProc, InHand
  <2>3. Orderly(mlq_ready_queue') /\ Ready' = Ready \cup {adding}
    BY <1>0, <2>1, <2>2, PutAdds
  <2>4. OncePerProc'
    BY <1>0, <1>2, <1>T, <2>1, <2>3 DEF AddSecondHalf, OncePerProc, InHand
  <2>5. QED BY <2>3, <2>4 DEF PlaceInv
<1>3. ASSUME NEW c \in Cpu, Get(c) PROVE PlaceInv'
  <2>1. PICK ret \in Proc \cup {NULL} :
          get_proc(ret) /\ proc' = [proc EXCEPT ![c] = ret]
    BY <1>3 DEF Get
  <2>2. /\ Orderly(mlq_ready_queue')
        /\ \/ ret = NULL /\ Ready' = Ready
           \/ ret \in Proc /\ ret \in Ready /\ Ready' = Ready \ {ret}
    BY <1>0, <2>1, GetTakes
  <2>3. proc[c] = NULL /\ UNCHANGED <<unborn, adding, finished>>
    BY <1>3, <1>T DEF Get
  <2>4. OncePerProc'
    BY <1>0, <1>T, <2>1, <2>2, <2>3 DEF OncePerProc, InHand
  <2>5. QED BY <2>2, <2>4 DEF PlaceInv
<1>4. ASSUME NEW c \in Cpu, PutFirstHalf(c) PROVE PlaceInv'
  <2>1. Orderly(mlq_ready_queue') /\ Ready' = Ready
    BY <1>4, <1>S DEF PutFirstHalf, put_running_list
  <2>2. OncePerProc'
    BY <1>0, <1>4, <2>1 DEF PutFirstHalf, OncePerProc, InHand
  <2>3. QED BY <2>1, <2>2 DEF PlaceInv
<1>5. ASSUME NEW c \in Cpu, PutSecondHalf(c) PROVE PlaceInv'
  <2>1. proc[c] \in Proc /\ put_mlq_proc(proc[c])
    BY <1>5, <1>T DEF PutSecondHalf
  <2>2. proc[c] \notin Ready
    BY <1>0, <2>1 DEF OncePerProc, InHand
  <2>3. Orderly(mlq_ready_queue') /\ Ready' = Ready \cup {proc[c]}
    BY <1>0, <2>1, <2>2, PutAdds
  <2>4. OncePerProc'
    BY <1>0, <1>5, <1>T, <2>1, <2>3 DEF PutSecondHalf, OncePerProc, InHand
  <2>5. QED BY <2>3, <2>4 DEF PlaceInv
<1>6. ASSUME NEW c \in Cpu, Finish(c) PROVE PlaceInv'
  <2>1. Orderly(mlq_ready_queue') /\ Ready' = Ready
    BY <1>6, <1>S DEF Finish, schedVars
  <2>2. OncePerProc'
    BY <1>0, <1>6, <1>T, <2>1 DEF Finish, OncePerProc, InHand
  <2>3. QED BY <2>1, <2>2 DEF PlaceInv
<1>7. CASE UNCHANGED vars
  <2>1. Orderly(mlq_ready_queue') /\ Ready' = Ready
    BY <1>7, <1>S DEF vars, schedVars
  <2>2. OncePerProc'
    BY <1>0, <1>7, <2>1 DEF vars, clientVars, OncePerProc, InHand
  <2>3. QED BY <2>1, <2>2 DEF PlaceInv
<1>8. QED
  BY <1>1, <1>2, <1>3, <1>4, <1>5, <1>6, <1>7 DEF Next, LoaderStep, CpuStep

(* No process is lost or doubled, whatever the interleaving of get_proc and
   of the halves of put_proc and add_proc, if every level fits into a
   queue. *)
THEOREM EachProcessOnceHolds ==
  ASSUME LevelsFit
  PROVE  Safety => []EachProcessOnce
<1>1. ASSUME PlaceInv PROVE EachProcessOnce
  <2>1. \A p \in Proc, l \in Level : \A i, j \in QueuedAt(p, l) : i = j /\ l = prio[p]
    BY <1>1, OnePlace DEF PlaceInv, QueuedAt
  <2>2. QED BY <1>1, <2>1 DEF PlaceInv, OncePerProc, EachProcessOnce
<1>2. IInv /\ PlaceInv /\ [Next]_vars => PlaceInv'
  BY NextPlaceInv
<1>3. QED BY Invariance, InitPlaceInv, <1>1, <1>2, PTL DEF Safety
=============================================================================

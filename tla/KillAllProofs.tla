---------------------------- MODULE KillAllProofs ----------------------------
(***************************************************************************)
(* Proofs about KillAll.tla, for any processes, names, alloc instructions, *)
(* priorities and queue sizes that the assumptions of the module allow.    *)
(***************************************************************************)
EXTENDS KillAll, MLQProofs

\* The type invariant without the variables of the scheduler.
CallTypeOK ==
  /\ proc \in Proc \cup {NULL}
  /\ ended \subseteq Proc
  /\ freed \subseteq ended
  /\ regions \in [Proc -> SUBSET Nat]
  /\ cpc \in {"load", "cpu", "put", "run_list", "mlq", "free"}
  /\ proc_name \in Name \cup {NULL}
  /\ i \in Nat /\ j \in Nat
  /\ kill_process \in Seq(Proc)
  /\ run0 \in Seq(Proc)
  /\ ready0 \in [Level -> Seq(Proc)]

\* No process is queued twice, and neither the CPU nor a ready queue has a
\* process that was freed or that the other has.
LiveInv ==
  /\ Orderly(mlq_ready_queue)
  /\ proc \notin Ready /\ proc \notin freed
  /\ Ready \cap freed = {}
  /\ cpc = "load" => proc = NULL /\ freed = {}
  /\ cpc \notin {"load", "cpu"} => proc # NULL

\* The places the loops of killall can be at.
LoopInv ==
  /\ Len(running_list) <= MAX_QUEUE_SIZE
  /\ cpc \in {"run_list", "free"} => i >= 1
  /\ cpc = "mlq" => i <= MAX_PRIO /\ j >= 1

IInv == SchedInv /\ CallTypeOK /\ LiveInv /\ LoopInv

-----------------------------------------------------------------------------
(* Taking element n out of a sequence. *)
LEMMA RemoveAtProperties ==
  ASSUME NEW S, NEW s \in Seq(S), NEW n \in 1..Len(s)
  PROVE  /\ RemoveAt(s, n) \in Seq(S)
         /\ Len(RemoveAt(s, n)) = Len(s) - 1
         /\ \A k \in 1..(Len(s) - 1) :
              RemoveAt(s, n)[k] = IF k < n THEN s[k] ELSE s[k + 1]
         /\ ToSet(s) = ToSet(RemoveAt(s, n)) \cup {s[n]}
<1> DEFINE a == SubSeq(s, 1, n - 1)
           b == SubSeq(s, n + 1, Len(s))
           r == RemoveAt(s, n)
<1>1. Len(s) \in Nat /\ n \in Nat /\ 1 <= n /\ n <= Len(s)
  OBVIOUS
<1>2. /\ a \in Seq(S) /\ Len(a) = n - 1
      /\ \A k \in 1..(n - 1) : a[k] = s[k]
  BY <1>1
<1>3. /\ b \in Seq(S) /\ Len(b) = Len(s) - n
      /\ \A k \in 1..(Len(s) - n) : b[k] = s[n + k]
  BY <1>1
<1>4. r = a \o b
  BY DEF RemoveAt
<1> HIDE DEF a, b, r
<1>5. /\ r \in Seq(S) /\ Len(r) = Len(s) - 1
      /\ \A k \in 1..(Len(s) - 1) : r[k] = IF k < n THEN a[k] ELSE b[k - (n - 1)]
  BY <1>1, <1>2, <1>3, <1>4
<1>6. \A k \in 1..(Len(s) - 1) : r[k] = IF k < n THEN s[k] ELSE s[k + 1]
  <2> TAKE k \in 1..(Len(s) - 1)
  <2>1. CASE k < n
    BY <1>1, <1>2, <1>5, <2>1
  <2>2. CASE ~(k < n)
    <3>1. k - (n - 1) \in 1..(Len(s) - n) /\ n + (k - (n - 1)) = k + 1
      BY <1>1, <2>2
    <3>2. QED BY <1>3, <1>5, <2>2, <3>1
  <2>3. QED BY <2>1, <2>2
<1>7. /\ \A x : x \in ToSet(s) <=> \E k \in 1..Len(s) : s[k] = x
      /\ \A x : x \in ToSet(r) <=> \E k \in 1..(Len(s) - 1) : r[k] = x
  BY <1>5, InToSet
<1>8. ASSUME NEW x \in ToSet(r) PROVE x \in ToSet(s)
  <2>1. PICK k \in 1..(Len(s) - 1) : r[k] = x
    BY <1>7
  <2>2. k \in 1..Len(s) /\ k + 1 \in 1..Len(s)
    BY <1>1
  <2>3. QED BY <1>6, <1>7, <2>1, <2>2
<1>9. ASSUME NEW x \in ToSet(s), x # s[n] PROVE x \in ToSet(r)
  <2>1. PICK k \in 1..Len(s) : s[k] = x
    BY <1>7
  <2>2. CASE k < n
    <3>1. k \in 1..(Len(s) - 1)
      BY <1>1, <2>2
    <3>2. r[k] = x
      BY <1>6, <2>1, <2>2, <3>1
    <3>3. QED BY <1>7, <3>1, <3>2
  <2>3. CASE k > n
    <3>1. k - 1 \in 1..(Len(s) - 1) /\ ~(k - 1 < n) /\ (k - 1) + 1 = k
      BY <1>1, <2>3
    <3>2. r[k - 1] = x
      BY <1>6, <2>1, <3>1
    <3>3. QED BY <1>7, <3>1, <3>2
  <2>4. QED BY <1>1, <1>9, <2>1, <2>2, <2>3
<1>10. s[n] \in ToSet(s)
  BY <1>7
<1>11. QED BY <1>5, <1>6, <1>8, <1>9, <1>10 DEF r

(* Orderly queues are typed and hold every process at its level. *)
LEMMA OrderlyLevels ==
  ASSUME NEW Q, Orderly(Q)
  PROVE  /\ Q \in [Level -> Seq(Proc)]
         /\ \A l \in Level : \A k \in 1..Len(Q[l]) : prio[Q[l][k]] = l
<1>1. \A l \in Level : Q[l] \in Seq(Proc) /\ \A p \in ToSet(Q[l]) : prio[p] = l
  BY DEF Orderly
<1>2. \A l \in Level : \A k \in 1..Len(Q[l]) : Q[l][k] \in ToSet(Q[l])
  BY <1>1, InToSet
<1>3. QED BY <1>1, <1>2 DEF Orderly

-----------------------------------------------------------------------------
(* The invariant holds at the start. *)
LEMMA InitIInv == Init => IInv
<1> SUFFICES ASSUME Init PROVE IInv
  OBVIOUS
<1> USE MLQAssumption DEF Init, init_scheduler, Level
<1>1. SchedInv
  BY DEF SchedInv, SchedTypeOK, LevelInv, SearchInv, SlotBudget
<1>2. CallTypeOK
  BY DEF CallTypeOK
<1>3. Orderly(mlq_ready_queue) /\ Ready = {}
  BY EmptyOrderly
<1>4. LiveInv /\ LoopInv
  BY <1>3 DEF LiveInv, LoopInv
<1>5. QED BY <1>1, <1>2, <1>4 DEF IInv

(* A step that leaves the scheduler alone. *)
LEMMA SchedStays ==
  ASSUME SchedInv, UNCHANGED schedVars
  PROVE  SchedInv' /\ Ready' = Ready
BY DEF schedVars, SchedInv, SchedTypeOK, LevelInv, SearchInv, SlotBudget, Ready

(* enqueue keeps running_list within its bounds. *)
LEMMA RunningListBound ==
  ASSUME running_list \in Seq(Proc), Len(running_list) <= MAX_QUEUE_SIZE,
         NEW p \in Proc, running_list' = enqueue(running_list, p)
  PROVE  running_list' \in Seq(Proc) /\ Len(running_list') <= MAX_QUEUE_SIZE
<1>1. CASE Len(running_list) = MAX_QUEUE_SIZE
  BY <1>1 DEF enqueue
<1>2. CASE Len(running_list) # MAX_QUEUE_SIZE
  <2>1. running_list' = Append(running_list, p)
    BY <1>2 DEF enqueue
  <2>2. Len(running_list') = Len(running_list) + 1 /\ Len(running_list) \in Nat
    BY <2>1
  <2>3. QED BY <1>2, <2>1, <2>2, MLQAssumption
<1>3. QED BY <1>1, <1>2

(* The loader's steps and the steps of the CPU outside of killall preserve
   it. *)
LEMMA CpuIInv == IInv /\ (Load \/ Loaded \/ CpuStep) => IInv'
<1> SUFFICES ASSUME IInv, Load \/ Loaded \/ CpuStep PROVE IInv'
  OBVIOUS
<1> USE MLQAssumption
<1>0. SchedInv /\ CallTypeOK /\ LiveInv /\ LoopInv
  BY DEF IInv
<1>T. running_list \in Seq(Proc) /\ Orderly(mlq_ready_queue) /\ Ready \subseteq Proc
  BY <1>0, ReadyInProc DEF SchedInv, SchedTypeOK, LiveInv
<1>1. CASE Load
  <2>1. PICK p \in Proc \ Ready :
          /\ running_list' = enqueue(running_list, p)
          /\ mlq_ready_queue' =
               [mlq_ready_queue EXCEPT ![prio[p]] = enqueue(@, p)]
    BY <1>1 DEF Load
  <2>2. running_list' \in Seq(Proc) /\ Len(running_list') <= MAX_QUEUE_SIZE
    BY <1>0, <1>T, <2>1, RunningListBound DEF LoopInv
  <2>3. Ready = Queued(mlq_ready_queue) /\ Ready' = Queued(mlq_ready_queue')
    BY DEF Ready, Queued
  <2>4. Orderly(mlq_ready_queue') /\ Ready' \subseteq Ready \cup {p}
    BY <1>T, <2>1, <2>3, EnqueueOne
  <2>5. SchedInv'
    BY <1>0, <1>1, <2>2, <2>4, OrderlyLevels
    DEF SchedInv, SchedTypeOK, LevelInv, SearchInv, SlotBudget, Load
  <2>6. CallTypeOK' /\ LoopInv'
    BY <1>0, <1>1, <2>2 DEF Load, CallTypeOK, LoopInv, cpuVars, callVars
  <2>7. LiveInv'
    BY <1>0, <1>1, <2>4, <1>T DEF Load, LiveInv, cpuVars
  <2>8. QED BY <2>5, <2>6, <2>7 DEF IInv
<1>2. CASE Loaded
  <2>1. SchedInv' /\ Ready' = Ready /\ UNCHANGED <<mlq_ready_queue, running_list>>
    BY <1>0, <1>2, SchedStays DEF Loaded, schedVars
  <2>2. CallTypeOK' /\ LoopInv' /\ LiveInv'
    BY <1>0, <1>2, <2>1 DEF Loaded, CallTypeOK, LoopInv, LiveInv, callVars
  <2>3. QED BY <2>1, <2>2 DEF IInv
<1>3. CASE Get
  <2>1. PICK ret \in Proc \cup {NULL} : get_proc(ret) /\ proc' = ret
    BY <1>3 DEF Get
  <2>2. SchedInv' /\ running_list' = running_list
    BY <1>0, <2>1, GetKeeps
    DEF get_proc, get_same_level, get_next_level, get_new_round, get_none
  <2>3. /\ Orderly(mlq_ready_queue')
        /\ \/ ret = NULL /\ Ready' = Ready
           \/ ret \in Proc /\ ret \in Ready /\ Ready' = Ready \ {ret}
    BY <1>0, <1>T, <2>1, GetTakes
  <2>4. CallTypeOK' /\ LoopInv'
    BY <1>0, <1>3, <2>1, <2>2 DEF Get, CallTypeOK, LoopInv, callVars
  <2>5. LiveInv'
    BY <1>0, <1>3, <1>T, <2>1, <2>3 DEF Get, LiveInv, CallTypeOK
  <2>6. QED BY <2>2, <2>4, <2>5 DEF IInv
<1>4. CASE PutFirstHalf
  <2>1. proc \in Proc /\ put_running_list(proc)
    BY <1>0, <1>4 DEF PutFirstHalf, CallTypeOK
  <2>2. SchedInv' /\ Len(running_list') <= MAX_QUEUE_SIZE
    BY <1>0, <1>T, <2>1, RunningListKeeps, RunningListBound
    DEF put_running_list, LoopInv
  <2>3. mlq_ready_queue' = mlq_ready_queue /\ Ready' = Ready
    BY <2>1 DEF put_running_list, Ready
  <2>4. CallTypeOK' /\ LoopInv' /\ LiveInv'
    BY <1>0, <1>4, <2>2, <2>3
    DEF PutFirstHalf, CallTypeOK, LoopInv, LiveInv, callVars
  <2>5. QED BY <2>2, <2>4 DEF IInv
<1>5. CASE PutSecondHalf
  <2>1. proc \in Proc /\ put_mlq_proc(proc) /\ proc \notin Ready
    BY <1>0, <1>5 DEF PutSecondHalf, CallTypeOK, LiveInv
  <2>2. SchedInv' /\ running_list' = running_list
    BY <1>0, <2>1, MlqKeeps DEF put_mlq_proc
  <2>3. Orderly(mlq_ready_queue') /\ Ready' \subseteq Ready \cup {proc}
    BY <1>T, <2>1, PutAdds
  <2>4. CallTypeOK' /\ LoopInv'
    BY <1>0, <1>5, <2>2 DEF PutSecondHalf, CallTypeOK, LoopInv, callVars
  <2>5. LiveInv'
    BY <1>0, <1>5, <1>T, <2>1, <2>3 DEF PutSecondHalf, LiveInv, CallTypeOK
  <2>6. QED BY <2>2, <2>4, <2>5 DEF IInv
<1>6. CASE Finish
  <2>1. SchedInv' /\ Ready' = Ready /\ UNCHANGED <<mlq_ready_queue, running_list>>
    BY <1>0, <1>6, SchedStays DEF Finish, schedVars
  <2>2. CallTypeOK' /\ LoopInv'
    BY <1>0, <1>6, <2>1 DEF Finish, CallTypeOK, LoopInv, callVars
  <2>3. LiveInv'
    BY <1>0, <1>6, <1>T, <2>1 DEF Finish, LiveInv, CallTypeOK
  <2>4. QED BY <2>1, <2>2, <2>3 DEF IInv
<1>7. CASE RunLast
  <2>1. SchedInv' /\ Ready' = Ready /\ UNCHANGED <<mlq_ready_queue, running_list>>
    BY <1>0, <1>7, SchedStays DEF RunLast, schedVars
  <2>2. CallTypeOK' /\ LoopInv' /\ LiveInv'
    BY <1>0, <1>7, <2>1 DEF RunLast, CallTypeOK, LoopInv, LiveInv, callVars
  <2>3. QED BY <2>1, <2>2 DEF IInv
<1>8. CASE RunAlloc
  <2>1. SchedInv' /\ Ready' = Ready /\ UNCHANGED <<mlq_ready_queue, running_list>>
    BY <1>0, <1>8, SchedStays DEF RunAlloc, schedVars
  <2>2. regions' \in [Proc -> SUBSET Nat]
    <3>1. proc \in Proc
      BY <1>0, <1>8 DEF RunAlloc, CallTypeOK
    <3>2. PICK a \in ALLOC[proc] :
            regions' = [regions EXCEPT ![proc] = @ \cup {a[2]}]
      BY <1>8 DEF RunAlloc
    <3>3. a[2] \in Nat
      BY <3>1, KillAllAssumption
    <3>4. QED BY <1>0, <3>1, <3>2, <3>3 DEF CallTypeOK
  <2>3. CallTypeOK' /\ LoopInv' /\ LiveInv'
    BY <1>0, <1>8, <2>1, <2>2 DEF RunAlloc, CallTypeOK, LoopInv, LiveInv, callVars
  <2>4. QED BY <2>1, <2>3 DEF IInv
<1>9. ASSUME NEW name \in Name, killall(name) PROVE IInv'
  <2>1. SchedInv' /\ Ready' = Ready /\ UNCHANGED <<mlq_ready_queue, running_list>>
    BY <1>0, <1>9, SchedStays DEF killall, schedVars
  <2>2. CallTypeOK' /\ LoopInv' /\ LiveInv'
    BY <1>0, <1>9, <1>T, <2>1
    DEF killall, CallTypeOK, LoopInv, LiveInv, Orderly
  <2>3. QED BY <2>1, <2>2 DEF IInv
<1>10. QED
  BY <1>1, <1>2, <1>3, <1>4, <1>5, <1>6, <1>7, <1>8, <1>9 DEF CpuStep

(* So do the iterations of killall's loops. *)
LEMMA KillallIInv == IInv /\ KillallStep => IInv'
<1> SUFFICES ASSUME IInv, KillallStep PROVE IInv'
  OBVIOUS
<1> USE MLQAssumption
<1>0. SchedInv /\ CallTypeOK /\ LiveInv /\ LoopInv
  BY DEF IInv
<1>T. /\ running_list \in Seq(Proc) /\ Len(running_list) \in Nat
      /\ mlq_ready_queue \in [Level -> Seq(Proc)]
  BY <1>0 DEF SchedInv, SchedTypeOK
<1>1. CASE run_list_hit
  <2>1. /\ i \in 1..Len(running_list) /\ running_list[i] \in Proc
        /\ running_list' = RemoveAt(running_list, i)
        /\ Kill(running_list[i])
    BY <1>0, <1>1, <1>T DEF run_list_hit, LoopInv, CallTypeOK
  <2>2. running_list' \in Seq(Proc) /\ Len(running_list') <= MAX_QUEUE_SIZE
    <3>1. /\ running_list' \in Seq(Proc)
          /\ Len(running_list') = Len(running_list) - 1
      BY <1>T, <2>1, RemoveAtProperties
    <3>2. QED BY <1>0, <1>T, <3>1 DEF LoopInv
  <2>3. mlq_ready_queue' = mlq_ready_queue /\ Ready' = Ready
    BY <1>1 DEF run_list_hit, Ready
  <2>4. SchedInv'
    BY <1>0, <1>1, <2>2, <2>3
    DEF run_list_hit, SchedInv, SchedTypeOK, LevelInv, SearchInv, SlotBudget
  <2>5. kill_process' \in Seq(Proc) /\ ended' = ended \cup {running_list[i]}
    BY <1>0, <2>1 DEF Kill, CallTypeOK
  <2>6. CallTypeOK' /\ LoopInv' /\ LiveInv'
    BY <1>0, <1>1, <2>1, <2>2, <2>3, <2>5
    DEF run_list_hit, CallTypeOK, LoopInv, LiveInv
  <2>7. QED BY <2>4, <2>6 DEF IInv
<1>2. CASE mlq_hit
  <2> DEFINE q == mlq_ready_queue[i]
  <2>1. /\ i \in Level /\ q \in Seq(Proc) /\ j \in 1..Len(q) /\ q[j] \in Proc
        /\ mlq_ready_queue' = [mlq_ready_queue EXCEPT ![i] = Tail(q)]
        /\ Kill(q[j]) /\ UNCHANGED running_list
    BY <1>0, <1>2, <1>T DEF mlq_hit, LoopInv, CallTypeOK, Level
  <2>2. Ready = Queued(mlq_ready_queue) /\ Ready' = Queued(mlq_ready_queue')
    BY DEF Ready, Queued
  <2>3. Orderly(mlq_ready_queue') /\ Ready' \subseteq Ready
    <3>1. mlq_ready_queue[i] # <<>> /\ Orderly(mlq_ready_queue) /\ i \in Level
      BY <1>0, <2>1 DEF LiveInv
    <3>2. mlq_ready_queue' =
            [mlq_ready_queue EXCEPT ![i] = Tail(mlq_ready_queue[i])]
      BY <2>1
    <3>3. /\ Orderly(mlq_ready_queue')
          /\ Queued(mlq_ready_queue') =
               Queued(mlq_ready_queue) \ {Head(mlq_ready_queue[i])}
      BY <3>1, <3>2, TakeHead
    <3>4. QED BY <2>2, <3>3
  <2>4. SchedInv'
    BY <1>0, <1>2, <1>T, <2>1, <2>3, OrderlyLevels
    DEF mlq_hit, SchedInv, SchedTypeOK, LevelInv, SearchInv, SlotBudget
  <2>5. kill_process' \in Seq(Proc) /\ ended' = ended \cup {q[j]}
    BY <1>0, <2>1 DEF Kill, CallTypeOK
  <2>6. CallTypeOK' /\ LoopInv' /\ LiveInv'
    BY <1>0, <1>2, <2>1, <2>3, <2>5 DEF mlq_hit, CallTypeOK, LoopInv, LiveInv
  <2>7. QED BY <2>4, <2>6 DEF IInv
<1>3. CASE free_regions
  <2>1. SchedInv' /\ Ready' = Ready /\ UNCHANGED <<mlq_ready_queue, running_list>>
    BY <1>0, <1>3, SchedStays DEF free_regions, schedVars
  <2>2. regions' \in [Proc -> SUBSET Nat]
    BY <1>0, <1>3 DEF free_regions, CallTypeOK
  <2>3. CallTypeOK' /\ LoopInv' /\ LiveInv'
    BY <1>0, <1>3, <2>1, <2>2 DEF free_regions, CallTypeOK, LoopInv, LiveInv
  <2>4. QED BY <2>1, <2>3 DEF IInv
<1>4. ASSUME UNCHANGED <<schedVars, proc, ended, freed, regions>>,
             CallTypeOK', LoopInv', cpc # "load", cpc' # "load",
             cpc' \notin {"load", "cpu"} => proc # NULL
      PROVE  IInv'
  <2>1. SchedInv' /\ Ready' = Ready /\ UNCHANGED mlq_ready_queue
    BY <1>0, <1>4, SchedStays DEF schedVars
  <2>2. LiveInv'
    BY <1>0, <1>4, <2>1 DEF LiveInv
  <2>3. QED BY <1>4, <2>1, <2>2 DEF IInv
<1>5. CASE run_list_miss \/ mlq_miss \/ mlq_level_end
  <2>1. /\ UNCHANGED <<schedVars, proc, ended, freed, regions, cpc, proc_name,
                        kill_process, run0, ready0>>
        /\ cpc \in {"run_list", "mlq"}
        /\ UNCHANGED running_list
    BY <1>5 DEF run_list_miss, mlq_miss, mlq_level_end, cpuVars, schedVars
  <2>2. /\ i' \in Nat /\ j' \in Nat
        /\ cpc = "run_list" => i' >= 1
        /\ cpc = "mlq" => i' <= MAX_PRIO /\ j' >= 1
    <3> USE <1>0 DEF LoopInv, CallTypeOK
    <3>1. CASE run_list_miss
      BY <3>1 DEF run_list_miss
    <3>2. CASE mlq_miss
      BY <3>2 DEF mlq_miss
    <3>3. CASE mlq_level_end
      <4>1. cpc = "mlq" /\ i < MAX_PRIO /\ i' = i + 1 /\ j' = 1
        BY <3>3 DEF mlq_level_end
      <4>2. i \in Nat
        OBVIOUS
      <4>3. i' \in Nat /\ i' <= MAX_PRIO /\ j' \in Nat /\ j' >= 1
        BY <4>1, <4>2
      <4>4. QED BY <4>1, <4>3
    <3>4. QED BY <1>5, <3>1, <3>2, <3>3
  <2>3. CallTypeOK' /\ LoopInv'
    BY <1>0, <2>1, <2>2 DEF CallTypeOK, LoopInv
  <2>4. QED BY <1>0, <1>4, <2>1, <2>3 DEF LiveInv
<1>6. CASE run_list_end \/ mlq_end
  BY <1>0, <1>4, <1>6
  DEF run_list_end, mlq_end, schedVars, CallTypeOK, LoopInv, LiveInv
<1>7. CASE killall_return
  <2>1. ready0' \in [Level -> Seq(Proc)] /\ run0' \in Seq(Proc)
        /\ kill_process' \in Seq(Proc)
    BY <1>7 DEF killall_return, NoCall
  <2>2. CallTypeOK' /\ LoopInv'
    BY <1>0, <1>7, <2>1 DEF killall_return, NoCall, schedVars, CallTypeOK, LoopInv
  <2>3. QED BY <1>4, <1>7, <2>2 DEF killall_return
<1>8. QED BY <1>1, <1>2, <1>3, <1>5, <1>6, <1>7 DEF KillallStep

(* The invariant holds in every reachable state. *)
THEOREM Invariance == Safety => []IInv
<1>1. ASSUME IInv, UNCHANGED vars PROVE IInv'
  <2>1. SchedInv' /\ Ready' = Ready /\ UNCHANGED <<mlq_ready_queue, running_list>>
    BY <1>1, SchedStays DEF IInv, vars, schedVars
  <2>2. CallTypeOK' /\ LoopInv' /\ LiveInv'
    BY <1>1, <2>1
    DEF IInv, vars, cpuVars, callVars, CallTypeOK, LoopInv, LiveInv
  <2>3. QED BY <2>1, <2>2 DEF IInv
<1>2. IInv /\ [Next]_vars => IInv'
  BY <1>1, CpuIInv, KillallIInv DEF Next
<1>3. QED BY InitIInv, <1>2, PTL DEF Safety

(* The variables of the CPU, of killall and of the scheduler keep their
   types; only processes at the end of their code are ever freed. *)
THEOREM TypeCorrect == Safety => []TypeOK
<1>1. IInv => TypeOK
  BY DEF IInv, TypeOK, SchedInv, CallTypeOK
<1>2. QED BY Invariance, <1>1, PTL

(* No freed process is ever dispatched, nor any process twice, although
   killall ends processes that are queued, and takes others out of the
   queues. *)
THEOREM ReadyIsLiveHolds == Safety => []ReadyIsLive
<1>1. ASSUME IInv PROVE ReadyIsLive
  <2>1. ASSUME NEW p \in Proc, NEW l \in Level,
               NEW k \in QueuedAt(p, l), NEW m \in QueuedAt(p, l)
        PROVE  k = m
    <3>1. /\ k \in 1..Len(mlq_ready_queue[l]) /\ mlq_ready_queue[l][k] = p
          /\ m \in 1..Len(mlq_ready_queue[l]) /\ mlq_ready_queue[l][m] = p
      BY DEF QueuedAt
    <3>2. QED BY <1>1, <3>1, OnePlace DEF IInv, LiveInv
  <2>2. QED BY <1>1, <2>1 DEF IInv, LiveInv, ReadyIsLive
<1>2. QED BY Invariance, <1>1, PTL


-----------------------------------------------------------------------------
(* The length of killall's list: what it takes from a queue makes room. *)
CountInv ==
  /\ cpc \in {"load", "cpu", "put"} => kill_process = <<>>
  /\ cpc = "run_list" =>
       Len(kill_process) + Len(running_list) <= MAX_QUEUE_SIZE
  /\ cpc = "mlq" =>
       Len(kill_process) + Cardinality(Ready) <= MAX_QUEUE_SIZE + Cardinality(Proc)
  /\ cpc = "free" => KillListBound

(* One more element. *)
LEMMA AppendLen ==
  ASSUME kill_process \in Seq(Proc), NEW p \in Proc, Kill(p)
  PROVE  Len(kill_process) \in Nat /\ Len(kill_process') = Len(kill_process) + 1
BY DEF Kill

(* CountInv is preserved.  *)
LEMMA NextCountInv == IInv /\ CountInv /\ [Next]_vars => CountInv'
<1> SUFFICES ASSUME IInv, CountInv, [Next]_vars PROVE CountInv'
  OBVIOUS
<1> USE MLQAssumption
<1>0. SchedInv /\ CallTypeOK /\ LiveInv /\ LoopInv
  BY DEF IInv
<1>T. /\ running_list \in Seq(Proc) /\ Len(running_list) \in Nat
      /\ Len(running_list) <= MAX_QUEUE_SIZE
      /\ mlq_ready_queue \in [Level -> Seq(Proc)]
      /\ kill_process \in Seq(Proc) /\ Len(kill_process) \in Nat
      /\ i \in Nat /\ j \in Nat
  BY <1>0 DEF SchedInv, SchedTypeOK, CallTypeOK, LoopInv
<1>F. /\ Cardinality(Proc) \in Nat /\ IsFiniteSet(Ready)
      /\ Cardinality(Ready) \in Nat /\ Cardinality(Ready) <= Cardinality(Proc)
  <2>1. IsFiniteSet(Proc) /\ Ready \subseteq Proc
    BY <1>0, ReadyInProc, KillAllAssumption DEF LevelsFit
  <2>2. QED BY <2>1, FS_Subset, FS_CardinalityType
<1>1. CASE run_list_hit
  <2>1. /\ i \in 1..Len(running_list) /\ running_list[i] \in Proc
        /\ running_list' = RemoveAt(running_list, i)
        /\ Kill(running_list[i]) /\ cpc = "run_list" /\ cpc' = cpc
    BY <1>0, <1>1, <1>T DEF run_list_hit, LoopInv
  <2>2. Len(running_list') = Len(running_list) - 1
    BY <1>T, <2>1, RemoveAtProperties
  <2>3. Len(kill_process') = Len(kill_process) + 1
    BY <1>T, <2>1, AppendLen
  <2>4. QED BY <1>T, <2>1, <2>2, <2>3 DEF CountInv
<1>2. CASE mlq_hit
  <2> DEFINE q == mlq_ready_queue[i]
  <2>1. /\ i \in Level /\ q \in Seq(Proc) /\ j \in 1..Len(q) /\ q[j] \in Proc
        /\ mlq_ready_queue' = [mlq_ready_queue EXCEPT ![i] = Tail(q)]
        /\ Kill(q[j]) /\ cpc = "mlq" /\ cpc' = cpc
    BY <1>0, <1>2, <1>T DEF mlq_hit, LoopInv, Level
  <2>2. Ready = Queued(mlq_ready_queue) /\ Ready' = Queued(mlq_ready_queue')
    BY DEF Ready, Queued
  <2>3. Head(q) \in Ready /\ Ready' = Ready \ {Head(q)}
    <3>1. q # <<>> /\ Orderly(mlq_ready_queue)
      BY <1>0, <2>1 DEF LiveInv
    <3>2. QED BY <2>1, <2>2, <3>1, TakeHead
  <2>4. Cardinality(Ready') = Cardinality(Ready) - 1
    BY <1>F, <2>3, FS_RemoveElement
  <2>5. Len(kill_process') = Len(kill_process) + 1
    BY <1>T, <2>1, AppendLen
  <2>6. Len(kill_process) + Cardinality(Ready) <= MAX_QUEUE_SIZE + Cardinality(Proc)
    BY <2>1 DEF CountInv
  <2>7. Len(kill_process') + Cardinality(Ready') <= MAX_QUEUE_SIZE + Cardinality(Proc)
    BY <1>F, <1>T, <2>4, <2>5, <2>6
  <2>8. QED BY <2>1, <2>7 DEF CountInv
<1>3. CASE run_list_end
  <2>1. /\ cpc = "run_list" /\ cpc' = "mlq" /\ kill_process' = kill_process
        /\ Ready' = Ready
    BY <1>3 DEF run_list_end, schedVars, Ready
  <2>2. Len(kill_process) + Len(running_list) <= MAX_QUEUE_SIZE
    BY <2>1 DEF CountInv
  <2>3. Len(kill_process) + Cardinality(Ready) <= MAX_QUEUE_SIZE + Cardinality(Proc)
    BY <1>F, <1>T, <2>2
  <2>4. QED BY <2>1, <2>3 DEF CountInv
<1>4. CASE mlq_end
  <2>1. cpc = "mlq" /\ cpc' = "free" /\ kill_process' = kill_process
    BY <1>4 DEF mlq_end
  <2>2. Len(kill_process) + Cardinality(Ready) <= MAX_QUEUE_SIZE + Cardinality(Proc)
    BY <2>1 DEF CountInv
  <2>3. KillListBound'
    BY <1>F, <1>T, <2>1, <2>2 DEF KillListBound
  <2>4. QED BY <2>1, <2>3 DEF CountInv
<1>5. CASE run_list_miss \/ mlq_miss \/ mlq_level_end \/ free_regions \/ UNCHANGED vars
  <2>1. UNCHANGED <<cpc, kill_process, running_list, mlq_ready_queue>>
    BY <1>5 DEF run_list_miss, mlq_miss, mlq_level_end, free_regions, vars,
       schedVars, cpuVars, callVars
  <2>2. Ready' = Ready
    BY <2>1 DEF Ready
  <2>3. QED BY <2>1, <2>2 DEF CountInv, KillListBound
<1>6. CASE killall_return
  BY <1>6 DEF killall_return, NoCall, CountInv
<1>7. CASE Load \/ Loaded \/ Get \/ PutFirstHalf \/ PutSecondHalf \/ Finish
           \/ RunLast \/ RunAlloc
  <2>1. /\ kill_process' = kill_process
        /\ cpc \in {"load", "cpu", "put"} /\ cpc' \in {"load", "cpu", "put"}
    BY <1>7 DEF Load, Loaded, Get, PutFirstHalf, PutSecondHalf, Finish, RunLast,
       RunAlloc, callVars, cpuVars
  <2>2. QED BY <2>1 DEF CountInv
<1>8. ASSUME NEW name \in Name, killall(name) PROVE CountInv'
  <2>1. /\ cpc' = "run_list" /\ kill_process' = <<>>
        /\ running_list' = running_list
    BY <1>8 DEF killall, schedVars
  <2>2. QED BY <1>T, <2>1 DEF CountInv
<1>9. QED
  BY <1>1, <1>2, <1>3, <1>4, <1>5, <1>6, <1>7, <1>8
  DEF Next, CpuStep, KillallStep

(* The array kill_process never takes more than one entry for each place of
   running_list and one for each process, because each entry costs a queue
   one of its own, even if it is the wrong one. *)
THEOREM KillListBoundHolds == Safety => []KillListBound
<1>1. Init => CountInv
  BY DEF Init, CountInv
<1>2. ASSUME IInv, CountInv PROVE KillListBound
  <2>1. /\ Len(kill_process) \in Nat /\ Cardinality(Proc) \in Nat
        /\ Cardinality(Ready) \in Nat /\ Len(running_list) \in Nat
    <3>1. IsFiniteSet(Proc) /\ Ready \subseteq Proc
      BY <1>2, ReadyInProc, KillAllAssumption DEF LevelsFit, IInv
    <3>2. kill_process \in Seq(Proc) /\ running_list \in Seq(Proc)
      BY <1>2 DEF IInv, CallTypeOK, SchedInv, SchedTypeOK
    <3>3. QED BY <3>1, <3>2, FS_Subset, FS_CardinalityType
  <2>2. cpc \in {"load", "cpu", "put", "run_list", "mlq", "free"}
    BY <1>2 DEF IInv, CallTypeOK
  <2>3. CASE cpc \in {"load", "cpu", "put"}
    <3>1. Len(kill_process) = 0
      BY <1>2, <2>3 DEF CountInv
    <3>2. QED BY <2>1, <3>1, MLQAssumption DEF KillListBound
  <2>4. CASE cpc = "run_list"
    BY <1>2, <2>1, <2>4, MLQAssumption DEF CountInv, KillListBound
  <2>5. CASE cpc = "mlq"
    BY <1>2, <2>1, <2>5, MLQAssumption DEF CountInv, KillListBound
  <2>6. CASE cpc = "free"
    BY <1>2, <2>6 DEF CountInv
  <2>7. QED BY <2>2, <2>3, <2>4, <2>5, <2>6
<1>3. QED BY Invariance, <1>1, <1>2, NextCountInv, PTL DEF Safety

-----------------------------------------------------------------------------
(* What the walks of killall have done so far.  A level that is walked has
   lost a process at its head for every match: place k of the queue is place
   k + Lost(l) of the queue that killall found. *)
Lost(l) == Len(ready0[l]) - Len(mlq_ready_queue[l])

\* Every place of level l that was looked at and matched is on the list.
LevelWalked(l) ==
  /\ Lost(l) \in Nat
  /\ \A k \in 1..Len(mlq_ready_queue[l]) :
       mlq_ready_queue[l][k] = ready0[l][k + Lost(l)]
  /\ \A k \in 1..Len(ready0[l]) :
       k < j + Lost(l) /\ ready0[l][k] \in Named =>
         ready0[l][k] \in ToSet(kill_process)

\* Whatever is on the list belongs there.
ListInv ==
  /\ ToSet(kill_process) \subseteq ended
  /\ ToSet(kill_process) \ freed
       \subseteq Named \cap (ToSet(run0) \cup Queued(ready0))

\* In the walk of running_list, the places before i are done.
RunListInv ==
  /\ ToSet(running_list) \subseteq ToSet(run0)
  /\ ToSet(run0) \subseteq ToSet(kill_process) \cup ToSet(running_list)
  /\ \A k \in 1..Len(running_list) : k < i => running_list[k] \notin Named
  /\ ready0 = mlq_ready_queue

\* When it is over, running_list is done.
RunListDone ==
  /\ Named \cap ToSet(running_list) = {}
  /\ Named \cap ToSet(run0) \subseteq ToSet(kill_process)

\* In the walk of the levels, the ones before i are done.
MlqInv ==
  \A l \in Level :
    /\ l < i => Named \cap ToSet(ready0[l]) \subseteq ToSet(kill_process)
    /\ l = i => LevelWalked(l)
    /\ l > i => mlq_ready_queue[l] = ready0[l]

WalkInv ==
  /\ cpc \in {"run_list", "mlq", "free"} => ListInv
  /\ cpc = "run_list" => RunListInv
  /\ cpc \in {"mlq", "free"} => RunListDone
  /\ cpc = "mlq" => MlqInv
  /\ cpc = "free" => Named \cap Queued(ready0) \subseteq ToSet(kill_process)

(* A process is added to the list and to the ended ones. *)
LEMMA KillAdds ==
  ASSUME CallTypeOK, NEW p \in Proc, Kill(p)
  PROVE  ToSet(kill_process') = ToSet(kill_process) \cup {p}
         /\ ended' = ended \cup {p}
BY AppendSet DEF CallTypeOK, Kill

(* A hit has the name, or is a freed process; a miss does not have it. *)
LEMMA HitOrMiss ==
  ASSUME NEW p \in Proc
  PROVE  /\ TRUE \in Matches(p) => p \in Named \/ p \in freed
         /\ FALSE \in Matches(p) => p \notin Named
BY DEF Matches, Named

(* A hit from the queues as they were found goes on the list. *)
LEMMA ListGrows ==
  ASSUME CallTypeOK, ListInv, NEW p \in Proc, Kill(p), TRUE \in Matches(p),
         p \in ToSet(run0) \cup Queued(ready0),
         UNCHANGED <<freed, proc_name, run0, ready0>>
  PROVE  ListInv'
<1>1. Named' = Named /\ Queued(ready0)' = Queued(ready0)
  BY DEF Named, Queued
<1>2. /\ ToSet(kill_process') = ToSet(kill_process) \cup {p}
      /\ ended' = ended \cup {p}
  BY KillAdds
<1>3. p \in Named \/ p \in freed
  BY HitOrMiss
<1>4. QED BY <1>1, <1>2, <1>3 DEF ListInv

(* The walk of running_list. *)
LEMMA RunListHit == IInv /\ WalkInv /\ run_list_hit => WalkInv'
<1> SUFFICES ASSUME IInv, WalkInv, run_list_hit PROVE WalkInv'
  OBVIOUS
<1> DEFINE p == running_list[i]
<1>1. /\ cpc = "run_list" /\ cpc' = "run_list"
      /\ running_list \in Seq(Proc) /\ Len(running_list) \in Nat
      /\ i \in Nat /\ i >= 1 /\ i <= Len(running_list) /\ p \in Proc
      /\ CallTypeOK /\ ListInv /\ RunListInv
  BY DEF run_list_hit, IInv, SchedInv, SchedTypeOK, CallTypeOK, LoopInv, WalkInv
<1>M. TRUE \in Matches(p)
  BY DEF run_list_hit
<1>2. /\ Kill(p)
      /\ running_list' = RemoveAt(running_list, i)
      /\ UNCHANGED <<mlq_ready_queue, freed, proc_name, i, j, run0, ready0>>
  BY DEF run_list_hit
<1>3. /\ running_list' \in Seq(Proc)
      /\ Len(running_list') = Len(running_list) - 1
      /\ \A k \in 1..(Len(running_list) - 1) :
           running_list'[k] =
             IF k < i THEN running_list[k] ELSE running_list[k + 1]
      /\ ToSet(running_list) = ToSet(running_list') \cup {p}
  <2>1. i \in 1..Len(running_list)
    BY <1>1
  <2>2. /\ RemoveAt(running_list, i) \in Seq(Proc)
        /\ Len(RemoveAt(running_list, i)) = Len(running_list) - 1
        /\ \A k \in 1..(Len(running_list) - 1) :
             RemoveAt(running_list, i)[k] =
               IF k < i THEN running_list[k] ELSE running_list[k + 1]
        /\ ToSet(running_list) = ToSet(RemoveAt(running_list, i)) \cup {p}
    <3>1. running_list \in Seq(Proc)
      BY <1>1
    <3>2. QED BY <2>1, <3>1, RemoveAtProperties
  <2>3. QED BY <1>2, <2>2, Zenon
<1>4. ListInv'
  <2>1. p \in ToSet(run0)
    BY <1>1, <1>3 DEF RunListInv
  <2>2. QED BY <1>1, <1>2, <1>M, <2>1, ListGrows
<1>5. ToSet(kill_process') = ToSet(kill_process) \cup {p}
  BY <1>1, <1>2, KillAdds
<1>6. Named' = Named
  BY <1>2 DEF Named
<1>7. ASSUME NEW k \in 1..Len(running_list'), k < i'
      PROVE  running_list'[k] \notin Named
  <2>1. /\ k \in 1..(Len(running_list) - 1) /\ k \in 1..Len(running_list)
        /\ k < i
    BY <1>1, <1>2, <1>3, <1>7
  <2>2. running_list'[k] = running_list[k]
    BY <1>3, <2>1
  <2>3. QED BY <1>1, <2>1, <2>2 DEF RunListInv
<1>8. RunListInv'
  BY <1>1, <1>2, <1>3, <1>5, <1>6, <1>7 DEF RunListInv
<1>9. QED BY <1>1, <1>4, <1>8 DEF WalkInv

(* A step that changes nothing but i, j and where the CPU is. *)
LEMMA WalkStays ==
  ASSUME UNCHANGED <<mlq_ready_queue, running_list, ended, freed, proc_name,
                     kill_process, run0, ready0>>
  PROVE  /\ Named' = Named /\ Queued(ready0)' = Queued(ready0)
         /\ ListInv => ListInv'
         /\ RunListDone => RunListDone'
BY DEF Named, Queued, ListInv, RunListDone

LEMMA RunListMiss == IInv /\ WalkInv /\ run_list_miss => WalkInv'
<1> SUFFICES ASSUME IInv, WalkInv, run_list_miss PROVE WalkInv'
  OBVIOUS
<1>1. /\ cpc = "run_list" /\ cpc' = "run_list"
      /\ running_list \in Seq(Proc) /\ Len(running_list) \in Nat
      /\ i \in Nat /\ i >= 1 /\ i <= Len(running_list)
      /\ running_list[i] \in Proc
      /\ ListInv /\ RunListInv /\ i' = i + 1
  <2>1. /\ cpc = "run_list" /\ i <= Len(running_list) /\ cpc' = cpc
        /\ i' = i + 1
    BY DEF run_list_miss, cpuVars
  <2>2. /\ running_list \in Seq(Proc) /\ i \in Nat /\ i >= 1
        /\ ListInv /\ RunListInv
    BY <2>1 DEF IInv, SchedInv, SchedTypeOK, CallTypeOK, LoopInv, WalkInv
  <2>3. i \in 1..Len(running_list) /\ Len(running_list) \in Nat
    BY <2>1, <2>2
  <2>4. QED BY <2>1, <2>2, <2>3
<1>2. UNCHANGED <<mlq_ready_queue, running_list, ended, freed, proc_name,
                  kill_process, run0, ready0>>
  BY DEF run_list_miss, schedVars, cpuVars
<1>3. Named' = Named /\ ListInv'
  BY <1>1, <1>2, WalkStays
<1>4. running_list[i] \notin Named
  BY <1>1, HitOrMiss DEF run_list_miss
<1>5. \A k \in 1..Len(running_list) : k < i + 1 => k < i \/ k = i
  BY <1>1
<1>6. RunListInv'
  BY <1>1, <1>2, <1>3, <1>4, <1>5 DEF RunListInv
<1>7. QED BY <1>1, <1>3, <1>6 DEF WalkInv

LEMMA RunListEnd == IInv /\ WalkInv /\ run_list_end => WalkInv'
<1> SUFFICES ASSUME IInv, WalkInv, run_list_end PROVE WalkInv'
  OBVIOUS
<1>1. /\ cpc = "run_list" /\ cpc' = "mlq"
      /\ running_list \in Seq(Proc) /\ Len(running_list) \in Nat
      /\ i \in Nat /\ i > Len(running_list)
      /\ ListInv /\ RunListInv /\ i' = 0 /\ j' = 1
      /\ ready0 \in [Level -> Seq(Proc)]
  BY DEF run_list_end, IInv, SchedInv, SchedTypeOK, CallTypeOK, WalkInv
<1>2. UNCHANGED <<mlq_ready_queue, running_list, ended, freed, proc_name,
                  kill_process, run0, ready0>>
  BY DEF run_list_end, schedVars
<1>3. Named' = Named /\ ListInv'
  BY <1>1, <1>2, WalkStays
<1>4. Named \cap ToSet(running_list) = {}
  <2>1. \A k \in 1..Len(running_list) : k < i /\ running_list[k] \notin Named
    BY <1>1 DEF RunListInv
  <2>2. QED BY <1>1, <2>1, InToSet
<1>5. RunListDone'
  BY <1>1, <1>2, <1>3, <1>4 DEF RunListInv, RunListDone
<1>6. MlqInv'
  <2> SUFFICES ASSUME NEW l \in Level
               PROVE  /\ ~(l < 0)
                      /\ l = 0 => LevelWalked(l)'
                      /\ mlq_ready_queue[l] = ready0[l]
    BY <1>1, <1>2 DEF MlqInv
  <2>1. ~(l < 0) /\ mlq_ready_queue[l] = ready0[l]
    BY <1>1, MLQAssumption DEF Level, RunListInv
  <2>2. Len(ready0[l]) \in Nat
    BY <1>1
  <2>3. Lost(l)' = 0
    BY <1>2, <2>1, <2>2 DEF Lost
  <2>4. \A k \in 1..Len(ready0[l]) : k + 0 = k /\ ~(k < 1 + 0)
    BY <2>2
  <2>5. LevelWalked(l)'
    BY <1>1, <1>2, <2>1, <2>3, <2>4 DEF LevelWalked
  <2>6. QED BY <2>1, <2>5
<1>7. QED BY <1>1, <1>3, <1>5, <1>6 DEF WalkInv

(* The walk of the levels. *)
LEMMA MlqHit == IInv /\ WalkInv /\ mlq_hit => WalkInv'
<1> SUFFICES ASSUME IInv, WalkInv, mlq_hit PROVE WalkInv'
  OBVIOUS
<1> DEFINE q == mlq_ready_queue[i]
           r == ready0[i]
           p == q[j]
           t == Tail(q)
<1>1. /\ cpc = "mlq" /\ cpc' = "mlq"
      /\ i < MAX_PRIO /\ j <= Len(q) /\ Kill(p)
      /\ mlq_ready_queue' = [mlq_ready_queue EXCEPT ![i] = t]
      /\ UNCHANGED <<running_list, freed, proc_name, i, j, run0, ready0>>
  BY DEF mlq_hit
<1>2. TRUE \in Matches(p)
  BY DEF mlq_hit
<1>3. /\ mlq_ready_queue \in [Level -> Seq(Proc)]
      /\ ready0 \in [Level -> Seq(Proc)]
      /\ i \in Nat /\ j \in Nat /\ j >= 1
      /\ CallTypeOK /\ ListInv /\ RunListDone /\ MlqInv
  BY <1>1 DEF IInv, SchedInv, SchedTypeOK, CallTypeOK, LoopInv, WalkInv
<1>4. i \in Level /\ LevelWalked(i)
  BY <1>1, <1>3, MLQAssumption DEF Level, MlqInv
<1>5. /\ q \in Seq(Proc) /\ r \in Seq(Proc) /\ Len(q) \in Nat /\ Len(r) \in Nat
      /\ j \in 1..Len(q) /\ p \in Proc
      /\ t \in Seq(Proc) /\ Len(t) = Len(q) - 1
      /\ \A k \in 1..(Len(q) - 1) : t[k] = q[k + 1]
  <2>1. q \in Seq(Proc) /\ r \in Seq(Proc)
    BY <1>3, <1>4
  <2>2. j \in 1..Len(q) /\ q # <<>>
    BY <1>1, <1>3, <2>1
  <2>3. QED BY <2>1, <2>2
<1>6. mlq_ready_queue'[i] = t
      /\ \A l \in Level : l # i => mlq_ready_queue'[l] = mlq_ready_queue[l]
  BY <1>1, <1>3, <1>4
<1> DEFINE d == Lost(i)
<1>7. /\ d \in Nat /\ d = Len(r) - Len(q)
      /\ \A k \in 1..Len(q) : q[k] = r[k + d]
      /\ \A k \in 1..Len(r) :
           k < j + d /\ r[k] \in Named => r[k] \in ToSet(kill_process)
  <2>1. d = Len(r) - Len(q)
    BY DEF Lost
  <2>2. QED BY <1>4, <2>1 DEF LevelWalked
<1>8. Named' = Named
  BY <1>1 DEF Named
<1>9. ToSet(kill_process') = ToSet(kill_process) \cup {p}
  BY <1>1, <1>3, <1>5, KillAdds
<1>L. Lost(i)' = Len(r) - Len(t)
  BY <1>1, <1>6 DEF Lost
<1>P. p = q[j]
  OBVIOUS
<1>Q. \A x : x \in ToSet(r) => x \in Queued(ready0)
  BY <1>4 DEF Queued
<1>12. RunListDone'
  BY <1>1, <1>3, <1>8, <1>9 DEF RunListDone
<1> HIDE DEF q, r, p, t, d
<1>N. j \in Nat /\ j >= 1
  BY <1>3
<1>D. Lost(i)' = d + 1 /\ Len(t) = Len(q) - 1
  BY <1>5, <1>7, <1>L
<1>10. p = r[j + d] /\ p \in Queued(ready0)
  <2>1. p = r[j + d] /\ j + d \in 1..Len(r)
    BY <1>5, <1>7, <1>P
  <2>2. r \in Seq(Proc)
    BY <1>5
  <2>3. p \in ToSet(r)
    BY <2>1, <2>2, InToSet
  <2>4. QED BY <1>Q, <2>1, <2>3
<1>11. ListInv'
  BY <1>1, <1>2, <1>3, <1>5, <1>10, ListGrows
<1>13. \A k \in 1..Len(t) : t[k] = r[k + (d + 1)]
  <2> TAKE k \in 1..Len(t)
  <2>1. Len(q) \in Nat /\ d \in Nat /\ Len(t) = Len(q) - 1
    BY <1>5, <1>7, <1>D
  <2>2. k \in 1..(Len(q) - 1) /\ k + 1 \in 1..Len(q) /\ (k + 1) + d = k + (d + 1)
    BY <2>1
  <2>3. q[k + 1] = r[(k + 1) + d]
    BY <1>7, <2>2
  <2>4. QED BY <1>5, <2>2, <2>3
<1>14. ASSUME NEW k \in 1..Len(r), k < j + (d + 1), r[k] \in Named
       PROVE  r[k] \in ToSet(kill_process')
  <2>1. k \in Nat /\ d \in Nat
    BY <1>7
  <2>2. k < j + d \/ k = j + d
    BY <1>N, <1>14, <2>1
  <2>3. CASE k = j + d
    BY <1>9, <1>10, <2>3
  <2>4. CASE k < j + d
    BY <1>7, <1>9, <1>14, <2>4
  <2>5. QED BY <2>2, <2>3, <2>4
<1>15. LevelWalked(i)'
  <2>1. d + 1 \in Nat /\ j' = j /\ i' = i /\ ready0' = ready0
    BY <1>1, <1>7
  <2>2. mlq_ready_queue'[i] = t /\ ready0[i] = r
    BY <1>6 DEF r
  <2>3. QED BY <1>8, <1>13, <1>14, <1>D, <2>1, <2>2 DEF LevelWalked
<1>16. MlqInv'
  <2> SUFFICES ASSUME NEW l \in Level
               PROVE  /\ l < i => Named \cap ToSet(ready0[l])
                                    \subseteq ToSet(kill_process')
                      /\ l = i => LevelWalked(l)'
                      /\ l > i => mlq_ready_queue'[l] = ready0[l]
    BY <1>1, <1>8 DEF MlqInv
  <2>1. l \in Int /\ (l > i => l # i)
    BY <1>3 DEF Level
  <2>2. QED BY <1>1, <1>3, <1>6, <1>9, <1>15, <2>1 DEF MlqInv
<1>17. QED BY <1>1, <1>11, <1>12, <1>16 DEF WalkInv

LEMMA MlqMiss == IInv /\ WalkInv /\ mlq_miss => WalkInv'
<1> SUFFICES ASSUME IInv, WalkInv, mlq_miss PROVE WalkInv'
  OBVIOUS
<1> DEFINE q == mlq_ready_queue[i]
           r == ready0[i]
           d == Lost(i)
<1>1. /\ cpc = "mlq" /\ cpc' = "mlq" /\ i < MAX_PRIO /\ j <= Len(q)
      /\ j' = j + 1 /\ i' = i
      /\ UNCHANGED <<mlq_ready_queue, running_list, ended, freed, proc_name,
                     kill_process, run0, ready0>>
  BY DEF mlq_miss, schedVars, cpuVars
<1>2. /\ mlq_ready_queue \in [Level -> Seq(Proc)]
      /\ ready0 \in [Level -> Seq(Proc)]
      /\ i \in Nat /\ j \in Nat /\ j >= 1
      /\ ListInv /\ RunListDone /\ MlqInv
  BY <1>1 DEF IInv, SchedInv, SchedTypeOK, CallTypeOK, LoopInv, WalkInv
<1>3. i \in Level /\ LevelWalked(i)
  BY <1>1, <1>2, MLQAssumption DEF Level, MlqInv
<1>4. /\ q \in Seq(Proc) /\ r \in Seq(Proc) /\ Len(q) \in Nat
      /\ j \in 1..Len(q) /\ q[j] \in Proc /\ d \in Nat
      /\ q[j] = r[j + d]
  <2>1. q \in Seq(Proc) /\ r \in Seq(Proc)
    BY <1>2, <1>3
  <2>2. j \in 1..Len(q)
    BY <1>1, <1>2, <2>1
  <2>3. QED BY <1>3, <2>1, <2>2 DEF LevelWalked
<1>5. r[j + d] \notin Named
  BY <1>4, HitOrMiss DEF mlq_miss
<1>6. Named' = Named /\ ListInv' /\ RunListDone' /\ Lost(i)' = d
  BY <1>1, <1>2, WalkStays DEF Lost
<1>7. \A k \in 1..Len(r) : k < (j + 1) + d => k < j + d \/ k = j + d
  BY <1>2, <1>4
<1>8. LevelWalked(i)'
  <2>1. \A k \in 1..Len(r) : k < (j + 1) + d /\ r[k] \in Named =>
                               r[k] \in ToSet(kill_process)
    BY <1>3, <1>5, <1>7 DEF LevelWalked
  <2>2. QED BY <1>1, <1>3, <1>6, <2>1 DEF LevelWalked
<1>9. MlqInv'
  BY <1>1, <1>2, <1>6, <1>8 DEF MlqInv
<1>10. QED BY <1>1, <1>6, <1>9 DEF WalkInv

LEMMA MlqLevelEnd == IInv /\ WalkInv /\ mlq_level_end => WalkInv'
<1> SUFFICES ASSUME IInv, WalkInv, mlq_level_end PROVE WalkInv'
  OBVIOUS
<1> DEFINE q == mlq_ready_queue[i]
           r == ready0[i]
<1>1. /\ cpc = "mlq" /\ cpc' = "mlq" /\ i < MAX_PRIO /\ j > Len(q)
      /\ j' = 1 /\ i' = i + 1
      /\ UNCHANGED <<mlq_ready_queue, running_list, ended, freed, proc_name,
                     kill_process, run0, ready0>>
  BY DEF mlq_level_end, schedVars, cpuVars
<1>2. /\ mlq_ready_queue \in [Level -> Seq(Proc)]
      /\ ready0 \in [Level -> Seq(Proc)]
      /\ i \in Nat /\ j \in Nat
      /\ ListInv /\ RunListDone /\ MlqInv
  BY <1>1 DEF IInv, SchedInv, SchedTypeOK, CallTypeOK, LoopInv, WalkInv
<1>3. i \in Level /\ LevelWalked(i)
  BY <1>1, <1>2, MLQAssumption DEF Level, MlqInv
<1>4. q \in Seq(Proc) /\ r \in Seq(Proc) /\ Len(q) \in Nat /\ Len(r) \in Nat
  BY <1>2, <1>3
<1>5. \A k \in 1..Len(r) : k < j + Lost(i)
  BY <1>1, <1>2, <1>4 DEF Lost
<1>6. Named \cap ToSet(r) \subseteq ToSet(kill_process)
  BY <1>3, <1>4, <1>5, InToSet DEF LevelWalked
<1>7. Named' = Named /\ ListInv' /\ RunListDone'
  BY <1>1, <1>2, WalkStays
<1>8. ASSUME NEW l \in Level, l = i + 1 PROVE LevelWalked(l)'
  <2>1. l > i
    BY <1>2, <1>8
  <2>2. mlq_ready_queue[l] = ready0[l] /\ Len(ready0[l]) \in Nat
    BY <1>2, <2>1 DEF MlqInv
  <2>3. Lost(l)' = 0
    BY <1>1, <2>2 DEF Lost
  <2>4. \A k \in 1..Len(ready0[l]) : k + 0 = k /\ ~(k < 1 + 0)
    BY <2>2
  <2>5. QED BY <1>1, <2>2, <2>3, <2>4 DEF LevelWalked
<1>9. MlqInv'
  <2> SUFFICES ASSUME NEW l \in Level
               PROVE  /\ l < i + 1 => Named \cap ToSet(ready0[l])
                                        \subseteq ToSet(kill_process)
                      /\ l = i + 1 => LevelWalked(l)'
                      /\ l > i + 1 => mlq_ready_queue[l] = ready0[l]
    BY <1>1, <1>7 DEF MlqInv
  <2>1. (l < i + 1 => l < i \/ l = i) /\ (l > i + 1 => l > i)
    BY <1>2 DEF Level
  <2>2. QED BY <1>2, <1>6, <1>8, <2>1 DEF MlqInv
<1>10. QED BY <1>1, <1>7, <1>9 DEF WalkInv

LEMMA MlqEnd == IInv /\ WalkInv /\ mlq_end => WalkInv'
<1> SUFFICES ASSUME IInv, WalkInv, mlq_end PROVE WalkInv'
  OBVIOUS
<1>1. /\ cpc = "mlq" /\ cpc' = "free" /\ i = MAX_PRIO
      /\ UNCHANGED <<mlq_ready_queue, running_list, ended, freed, proc_name,
                     kill_process, run0, ready0>>
  BY DEF mlq_end, schedVars
<1>2. ListInv /\ RunListDone /\ MlqInv
  BY <1>1 DEF WalkInv
<1>3. Named' = Named /\ ListInv' /\ RunListDone' /\ Queued(ready0)' = Queued(ready0)
  BY <1>1, <1>2, WalkStays
<1>4. \A l \in Level : l < i
  BY <1>1, MLQAssumption DEF Level
<1>5. Named \cap Queued(ready0) \subseteq ToSet(kill_process)
  BY <1>2, <1>4 DEF MlqInv, Queued
<1>6. QED BY <1>1, <1>3, <1>5 DEF WalkInv

(* WalkInv is preserved. *)
LEMMA NextWalkInv == IInv /\ WalkInv /\ [Next]_vars => WalkInv'
<1> SUFFICES ASSUME IInv, WalkInv, [Next]_vars PROVE WalkInv'
  OBVIOUS
<1>1. CASE free_regions
  <2>1. /\ cpc = "free" /\ cpc' = "free"
        /\ UNCHANGED <<mlq_ready_queue, running_list, ended, freed, proc_name,
                       kill_process, run0, ready0>>
    BY <1>1 DEF free_regions, schedVars
  <2>2. QED BY <2>1, WalkStays DEF WalkInv
<1>2. CASE killall_return
  BY <1>2 DEF killall_return, WalkInv
<1>3. CASE Load \/ Loaded \/ Get \/ PutFirstHalf \/ PutSecondHalf \/ Finish
           \/ RunLast \/ RunAlloc
  <2>1. cpc' \in {"load", "cpu", "put"}
    BY <1>3 DEF Load, Loaded, Get, PutFirstHalf, PutSecondHalf, Finish, RunLast,
       RunAlloc, cpuVars
  <2>2. QED BY <2>1 DEF WalkInv
<1>4. ASSUME NEW name \in Name, killall(name) PROVE WalkInv'
  <2>1. /\ cpc' = "run_list" /\ kill_process' = <<>> /\ i' = 1
        /\ run0' = running_list /\ ready0' = mlq_ready_queue
        /\ UNCHANGED <<mlq_ready_queue, running_list>>
        /\ running_list \in Seq(Proc)
    BY <1>4 DEF killall, schedVars, IInv, SchedInv, SchedTypeOK
  <2>2. ToSet(<<>>) = {} /\ ToSet(kill_process') = {}
    BY <2>1 DEF ToSet
  <2>3. \A k \in 1..Len(running_list) : ~(k < 1)
    BY <2>1
  <2>4. ListInv' /\ RunListInv'
    BY <2>1, <2>2, <2>3 DEF ListInv, RunListInv
  <2>5. QED BY <2>1, <2>4 DEF WalkInv
<1>5. CASE UNCHANGED vars
  <2>1. UNCHANGED <<mlq_ready_queue, running_list, ended, freed, proc_name, cpc,
                    kill_process, run0, ready0, i, j>>
    BY <1>5 DEF vars, schedVars, cpuVars, callVars
  <2>2. Named' = Named /\ Queued(ready0)' = Queued(ready0)
    BY <2>1, WalkStays
  <2>3. QED BY <2>1, <2>2
    DEF WalkInv, ListInv, RunListInv, RunListDone, MlqInv, LevelWalked, Lost
<1>6. QED
  BY <1>1, <1>2, <1>3, <1>4, <1>5, RunListHit, RunListMiss, RunListEnd, MlqHit,
     MlqMiss, MlqLevelEnd, MlqEnd
  DEF Next, CpuStep, KillallStep

(* killall ends exactly the processes of the name it was given that were
   queued when it was called, although it changes both queues while it walks
   them, and takes a process other than the match out of a ready queue: that
   queue moves up by one place under j all the same. *)
THEOREM KillsTheNamedHolds == Safety => []KillsTheNamed
<1>1. Init => WalkInv
  BY DEF Init, WalkInv
<1>2. ASSUME WalkInv PROVE KillsTheNamed
  <2> SUFFICES ASSUME cpc = "free"
               PROVE  /\ ToSet(kill_process) \ freed =
                           Named \cap (ToSet(run0) \cup Queued(ready0))
                      /\ Named \cap ToSet(kill_process) \subseteq ended
                      /\ Named \cap ToSet(running_list) = {}
    BY DEF KillsTheNamed, Queued
  <2>1. /\ ListInv /\ RunListDone
        /\ Named \cap Queued(ready0) \subseteq ToSet(kill_process)
    BY <1>2 DEF WalkInv
  <2>2. Named \cap freed = {}
    BY DEF Named
  <2>3. QED BY <2>1, <2>2 DEF ListInv, RunListDone
<1>3. QED BY Invariance, <1>1, <1>2, NextWalkInv, PTL DEF Safety

(* What is not named and alive keeps its regions through a step: the freeing loop
   goes along a list that holds only processes of the name and freed ones. *)
LEMMA StepKeepsRegions ==
  ASSUME IInv, KillsTheNamed, [Next]_vars,
         NEW p \in Proc \ (Named \cup freed)
  PROVE  regions[p] \subseteq regions'[p]
<1>t. regions \in [Proc -> SUBSET Nat] /\ kill_process \in Seq(Proc) /\ i \in Nat
  BY DEF IInv, CallTypeOK
<1>1. CASE free_regions
  <2>1. cpc = "free" /\ i \in 1..Len(kill_process)
    BY <1>t, <1>1 DEF free_regions, IInv, LoopInv
  <2>2. kill_process[i] \in ToSet(kill_process)
    BY <2>1 DEF ToSet
  <2>3. p # kill_process[i]
    BY <2>1, <2>2 DEF KillsTheNamed
  <2>4. QED BY <1>t, <1>1, <2>3 DEF free_regions
<1>2. CASE RunAlloc
  BY <1>t, <1>2 DEF RunAlloc
<1>3. CASE regions' = regions
  BY <1>3
<1>4. free_regions \/ RunAlloc \/ regions' = regions
  BY DEF Next, CpuStep, KillallStep, Load, Loaded, Get, PutFirstHalf,
     PutSecondHalf, Finish, RunLast, killall, run_list_hit, run_list_miss,
     run_list_end, mlq_hit, mlq_miss, mlq_level_end, mlq_end, killall_return,
     vars, cpuVars
<1>5. QED BY <1>1, <1>2, <1>3, <1>4

(* No process that killall does not name loses a region. *)
THEOREM OthersKeepRegionsHolds == Safety => OthersKeepRegions
<1>1. IInv /\ KillsTheNamed /\ [Next]_vars
        => [\A p \in Proc \ (Named \cup freed) :
              regions[p] \subseteq regions'[p]]_vars
  BY StepKeepsRegions
<1>2. QED BY Invariance, KillsTheNamedHolds, <1>1, PTL DEF Safety, OthersKeepRegions
=============================================================================

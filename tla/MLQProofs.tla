------------------------------ MODULE MLQProofs ------------------------------
(***************************************************************************)
(* What the operations of the scheduler (MLQ.tla) preserve and what they   *)
(* do to the ready queues, whoever calls them: the lemmas that the proofs  *)
(* about Sched.tla, OS.tla and KillAll.tla share.                          *)
(***************************************************************************)
EXTENDS MLQ, SequenceTheorems, FiniteSetTheorems, TLAPS

\* A process is queued at the level of its own priority.
LevelInv ==
  \A l \in Level : \A k \in 1..Len(mlq_ready_queue[l]) :
    prio[mlq_ready_queue[l][k]] = l

\* The static variables of get_mlq_proc between two calls.
SearchInv == (flag = 0 => count = 0) /\ (count # 0 => MarkedPrior = 0)

-----------------------------------------------------------------------------
(* All processes of a queue have the same priority, so the search for the
   highest one in dequeue always ends with the first. *)
LEMMA HighestIsFirst ==
  ASSUME NEW l \in Level, mlq_ready_queue[l] \in Seq(Proc), LevelInv,
         mlq_ready_queue[l] # <<>>
  PROVE  HighestIndex(mlq_ready_queue[l]) = 1
<1> DEFINE q == mlq_ready_queue[l]
           P(i) == /\ \A j \in 1..Len(q) : prio[q[j]] <= prio[q[i]]
                   /\ \A j \in 1..(i - 1) : prio[q[j]] < prio[q[i]]
<1>1. Len(q) \in Nat /\ 1 \in 1..Len(q) /\ l \in Int
  BY MLQAssumption DEF Level
<1>2. \A i \in 1..Len(q) : prio[q[i]] = l
  BY DEF LevelInv
<1>3. \A i \in 1..Len(q) : P(i) <=> i = 1
  BY <1>1, <1>2
<1>4. HighestIndex(q) = CHOOSE i \in 1..Len(q) : P(i)
  BY DEF HighestIndex
<1> HIDE DEF P
<1>5. QED BY <1>1, <1>3, <1>4

(* So dequeue takes the head of the queue and leaves the tail. *)
LEMMA DequeueHead ==
  ASSUME NEW l \in Level, mlq_ready_queue[l] \in Seq(Proc), LevelInv,
         mlq_ready_queue[l] # <<>>, NEW ret, dequeue(l, ret)
  PROVE  /\ ret = Head(mlq_ready_queue[l])
         /\ mlq_ready_queue' =
              [mlq_ready_queue EXCEPT ![l] = Tail(mlq_ready_queue[l])]
<1> DEFINE q == mlq_ready_queue[l]
<1>1. ret = q[1] /\ mlq_ready_queue' = [mlq_ready_queue EXCEPT ![l] = RemoveAt(q, 1)]
  BY HighestIsFirst DEF dequeue
<1>2. RemoveAt(q, 1) = Tail(q)
  BY DEF RemoveAt
<1>3. q[1] = Head(q)
  OBVIOUS
<1>4. QED BY <1>1, <1>2, <1>3

(* Taking the head of a queue leaves every process at its level. *)
LEMMA DequeueKeeps ==
  ASSUME SchedTypeOK, LevelInv, NEW l \in Level, NEW ret,
         mlq_ready_queue[l] # <<>>, dequeue(l, ret)
  PROVE  mlq_ready_queue' \in [Level -> Seq(Proc)] /\ LevelInv'
<1> DEFINE q == mlq_ready_queue[l]
<1>1. q \in Seq(Proc)
  BY DEF SchedTypeOK
<1>2. mlq_ready_queue' = [mlq_ready_queue EXCEPT ![l] = Tail(q)]
  BY <1>1, DequeueHead
<1>3. /\ Tail(q) \in Seq(Proc) /\ Len(Tail(q)) = Len(q) - 1
      /\ \A k \in 1..Len(Tail(q)) : Tail(q)[k] = q[k + 1]
  BY <1>1, HeadTailProperties
<1>4. mlq_ready_queue' \in [Level -> Seq(Proc)]
  BY <1>2, <1>3 DEF SchedTypeOK
<1>5. ASSUME NEW m \in Level, NEW k \in 1..Len(mlq_ready_queue'[m])
      PROVE  prio[mlq_ready_queue'[m][k]] = m
  <2>1. CASE m = l
    <3>1. mlq_ready_queue'[m] = Tail(q)
      BY <1>2, <2>1 DEF SchedTypeOK
    <3>2. k + 1 \in 1..Len(q) /\ Tail(q)[k] = q[k + 1]
      BY <1>1, <1>3, <1>5, <3>1
    <3>3. QED BY <2>1, <3>1, <3>2 DEF LevelInv
  <2>2. CASE m # l
    <3>1. mlq_ready_queue'[m] = mlq_ready_queue[m]
      BY <1>2, <2>2 DEF SchedTypeOK
    <3>2. QED BY <1>5, <3>1 DEF LevelInv
  <2>3. QED BY <2>1, <2>2
<1>6. QED BY <1>4, <1>5 DEF LevelInv

\* What a call of the scheduler preserves.
SchedInv == SchedTypeOK /\ LevelInv /\ SearchInv /\ SlotBudget

(* A dispatch at a level that has its turn stays within the budget. *)
LEMMA SlotUp ==
  ASSUME slot \in [Level -> 0..MAX_PRIO], SlotBudget, NEW l \in Level, HasTurn(l),
         slot' = [slot EXCEPT ![l] = @ + 1]
  PROVE  slot' \in [Level -> 0..MAX_PRIO] /\ SlotBudget'
<1>1. slot[l] + 1 \in 0..MAX_PRIO /\ slot[l] + 1 <= MAX_PRIO - l
  BY MLQAssumption DEF Level, HasTurn
<1>2. \A m \in Level : slot'[m] = IF m = l THEN slot[l] + 1 ELSE slot[m]
  OBVIOUS
<1>3. slot' \in [Level -> 0..MAX_PRIO]
  BY <1>1
<1>4. SlotBudget'
  BY <1>1, <1>2 DEF SlotBudget
<1>5. QED BY <1>3, <1>4

(* get_proc preserves it, in each of its four ways out. *)
LEMMA GetKeeps ==
  ASSUME SchedInv, NEW ret, get_proc(ret)
  PROVE  SchedInv'
<1> USE MLQAssumption DEF Level
<1>1. CASE get_same_level(ret)
  <2>1. HasTurn(MarkedPrior) /\ dequeue(MarkedPrior, ret) /\ MarkedPrior \in Level
    BY <1>1 DEF get_same_level, SchedInv, SchedTypeOK
  <2>2. mlq_ready_queue' \in [Level -> Seq(Proc)] /\ LevelInv'
    BY <2>1, DequeueKeeps DEF SchedInv, HasTurn
  <2>3. slot' = [slot EXCEPT ![MarkedPrior] = @ + 1]
    BY <1>1 DEF get_same_level
  <2>4. slot' \in [Level -> 0..MAX_PRIO] /\ SlotBudget'
    BY <2>1, <2>3, SlotUp DEF SchedInv, SchedTypeOK
  <2>5. QED
    BY <1>1, <2>2, <2>4 DEF SchedInv, SchedTypeOK, SearchInv, get_same_level
<1>2. CASE get_next_level(ret)
  <2>1. PICK l \in Level : /\ HasTurn(l) /\ dequeue(l, ret)
                           /\ slot' = [slot EXCEPT ![l] = @ + 1]
                           /\ MarkedPrior' = l
    BY <1>2 DEF get_next_level
  <2>2. mlq_ready_queue' \in [Level -> Seq(Proc)] /\ LevelInv'
    BY <2>1, DequeueKeeps DEF SchedInv, HasTurn
  <2>3. slot' \in [Level -> 0..MAX_PRIO] /\ SlotBudget'
    BY <2>1, SlotUp DEF SchedInv, SchedTypeOK
  <2>4. QED
    BY <1>2, <2>1, <2>2, <2>3 DEF SchedInv, SchedTypeOK, SearchInv, get_next_level
<1>3. CASE get_new_round(ret)
  <2>1. PICK l \in Level : /\ mlq_ready_queue[l] # <<>> /\ dequeue(l, ret)
                           /\ slot' = [k \in Level |-> IF k = l THEN 1 ELSE 0]
                           /\ MarkedPrior' = l
    BY <1>3 DEF get_new_round
  <2>2. mlq_ready_queue' \in [Level -> Seq(Proc)] /\ LevelInv'
    BY <2>1, DequeueKeeps DEF SchedInv
  <2>3. slot' \in [Level -> 0..MAX_PRIO] /\ SlotBudget'
    BY <2>1 DEF SlotBudget
  <2>4. QED
    BY <1>3, <2>1, <2>2, <2>3 DEF SchedInv, SchedTypeOK, SearchInv, get_new_round
<1>4. CASE get_none(ret)
  <2>1. slot' \in [Level -> 0..MAX_PRIO] /\ SlotBudget'
    BY <1>4 DEF get_none, SlotBudget
  <2>2. mlq_ready_queue' = mlq_ready_queue
    BY <1>4 DEF get_none
  <2>3. QED
    BY <1>4, <2>1, <2>2 DEF SchedInv, SchedTypeOK, SearchInv, LevelInv, get_none
<1>5. QED BY <1>1, <1>2, <1>3, <1>4 DEF get_proc

(* A dispatch returns the head of a queue that is not empty. *)
LEMMA DequeueReturns ==
  ASSUME SchedInv, NEW l \in Level, mlq_ready_queue[l] # <<>>, NEW ret,
         dequeue(l, ret)
  PROVE  ret \in Proc /\ prio[ret] = l
<1> DEFINE q == mlq_ready_queue[l]
<1>1. q \in Seq(Proc) /\ q # <<>>
  BY DEF SchedInv, SchedTypeOK
<1>2. ret = Head(q)
  BY <1>1, DequeueHead DEF SchedInv
<1>3. 1 \in 1..Len(q) /\ Head(q) = q[1]
  BY <1>1
<1>4. prio[q[1]] = l
  BY <1>3 DEF SchedInv, LevelInv
<1>5. QED BY <1>1, <1>2, <1>3, <1>4

(* count tells whether get_proc has returned a process. *)
LEMMA NullIsCount ==
  ASSUME SchedInv, NEW ret, get_proc(ret)
  PROVE  ret = NULL <=> count' = MAX_PRIO
<1> USE MLQAssumption
<1>1. CASE get_same_level(ret)
  <2>1. ret \in Proc
    BY <1>1, DequeueReturns DEF get_same_level, HasTurn, SchedInv, SchedTypeOK
  <2>2. count' = 0
    BY <1>1 DEF get_same_level, SchedInv, SearchInv
  <2>3. QED BY <2>1, <2>2
<1>2. CASE get_next_level(ret)
  BY <1>2, DequeueReturns DEF get_next_level, HasTurn
<1>3. CASE get_new_round(ret)
  BY <1>3, DequeueReturns DEF get_new_round
<1>4. CASE get_none(ret)
  BY <1>4 DEF get_none
<1>5. QED BY <1>1, <1>2, <1>3, <1>4 DEF get_proc

(* The first half of put_proc and add_proc preserves it. *)
LEMMA RunningListKeeps ==
  ASSUME SchedInv, NEW p \in Proc, put_running_list(p)
  PROVE  SchedInv'
<1>1. running_list' \in Seq(Proc)
  BY DEF SchedInv, SchedTypeOK, put_running_list, enqueue
<1>2. QED
  BY <1>1 DEF SchedInv, SchedTypeOK, SearchInv, SlotBudget, LevelInv,
     put_running_list

(* So does the second half: the process goes to its own level. *)
LEMMA MlqKeeps ==
  ASSUME SchedInv, NEW p \in Proc, put_mlq_proc(p)
  PROVE  SchedInv'
<1> DEFINE q == mlq_ready_queue[prio[p]]
<1>1. prio[p] \in Level /\ q \in Seq(Proc)
  BY MLQAssumption DEF SchedInv, SchedTypeOK
<1>2. mlq_ready_queue' = [mlq_ready_queue EXCEPT ![prio[p]] = enqueue(q, p)]
  BY DEF put_mlq_proc
<1>3. enqueue(q, p) \in Seq(Proc)
  BY <1>1 DEF enqueue
<1>4. mlq_ready_queue' \in [Level -> Seq(Proc)]
  BY <1>1, <1>2, <1>3 DEF SchedInv, SchedTypeOK
<1>5. ASSUME NEW m \in Level, NEW k \in 1..Len(mlq_ready_queue'[m])
      PROVE  prio[mlq_ready_queue'[m][k]] = m
  <2>1. CASE m = prio[p]
    <3>1. mlq_ready_queue'[m] = enqueue(q, p)
      BY <1>1, <1>2, <2>1 DEF SchedInv, SchedTypeOK
    <3>2. \A j \in 1..Len(q) : prio[q[j]] = m
      BY <1>1, <2>1 DEF SchedInv, LevelInv
    <3>3. \A j \in 1..Len(enqueue(q, p)) :
            enqueue(q, p)[j] = p \/ (j \in 1..Len(q) /\ enqueue(q, p)[j] = q[j])
      BY <1>1 DEF enqueue
    <3>4. QED BY <1>5, <2>1, <3>1, <3>2, <3>3
  <2>2. CASE m # prio[p]
    <3>1. mlq_ready_queue'[m] = mlq_ready_queue[m]
      BY <1>2, <2>2 DEF SchedInv, SchedTypeOK
    <3>2. QED BY <1>5, <3>1 DEF SchedInv, LevelInv
  <2>3. QED BY <2>1, <2>2
<1>6. QED
  BY <1>4, <1>5 DEF SchedInv, SchedTypeOK, SearchInv, SlotBudget, LevelInv,
     put_mlq_proc

-----------------------------------------------------------------------------
\* One queue: it does not shrink, or it loses its head.
HeadOrMore(l) ==
  Len(mlq_ready_queue'[l]) < Len(mlq_ready_queue[l])
    => mlq_ready_queue'[l] = Tail(mlq_ready_queue[l])

(* A dequeue at level m takes the head there and touches no other level. *)
LEMMA DequeueFifo ==
  ASSUME SchedInv, NEW m \in Level, NEW ret, mlq_ready_queue[m] # <<>>,
         dequeue(m, ret), NEW l \in Level
  PROVE  HeadOrMore(l)
<1>1. /\ mlq_ready_queue \in [Level -> Seq(Proc)]
      /\ mlq_ready_queue' =
           [mlq_ready_queue EXCEPT ![m] = Tail(mlq_ready_queue[m])]
  BY DequeueHead DEF SchedInv, SchedTypeOK
<1>2. CASE l = m
  BY <1>1, <1>2 DEF HeadOrMore
<1>3. CASE l # m
  <2>1. mlq_ready_queue'[l] = mlq_ready_queue[l] /\ Len(mlq_ready_queue[l]) \in Nat
    BY <1>1, <1>3
  <2>2. QED BY <2>1 DEF HeadOrMore
<1>4. QED BY <1>2, <1>3

(* Every way out of get_proc takes the head of one queue or none. *)
LEMMA GetFifo ==
  ASSUME SchedInv, NEW ret, get_proc(ret), NEW l \in Level
  PROVE  HeadOrMore(l)
<1>1. CASE get_same_level(ret)
  BY <1>1, DequeueFifo DEF get_same_level, HasTurn, SchedInv, SchedTypeOK
<1>2. CASE get_next_level(ret)
  BY <1>2, DequeueFifo DEF get_next_level, HasTurn
<1>3. CASE get_new_round(ret)
  BY <1>3, DequeueFifo DEF get_new_round
<1>4. CASE get_none(ret)
  <2>1. mlq_ready_queue'[l] = mlq_ready_queue[l] /\ Len(mlq_ready_queue[l]) \in Nat
    BY <1>4 DEF get_none, SchedInv, SchedTypeOK
  <2>2. QED BY <2>1 DEF HeadOrMore
<1>5. QED BY <1>1, <1>2, <1>3, <1>4 DEF get_proc

(* put_mlq_proc makes no queue shorter. *)
LEMMA PutFifo ==
  ASSUME SchedInv, NEW p \in Proc, put_mlq_proc(p), NEW l \in Level
  PROVE  HeadOrMore(l)
<1> DEFINE q == mlq_ready_queue[prio[p]]
<1>1. /\ prio[p] \in Level /\ mlq_ready_queue \in [Level -> Seq(Proc)]
      /\ mlq_ready_queue' = [mlq_ready_queue EXCEPT ![prio[p]] = enqueue(q, p)]
  BY MLQAssumption DEF SchedInv, SchedTypeOK, put_mlq_proc
<1>2. Len(enqueue(q, p)) \in Nat /\ Len(enqueue(q, p)) >= Len(q) /\ Len(q) \in Nat
  BY <1>1 DEF enqueue
<1>3. CASE l = prio[p]
  <2>1. mlq_ready_queue'[l] = enqueue(q, p)
    BY <1>1, <1>3
  <2>2. QED BY <1>2, <1>3, <2>1 DEF HeadOrMore
<1>4. CASE l # prio[p]
  <2>1. mlq_ready_queue'[l] = mlq_ready_queue[l] /\ Len(mlq_ready_queue[l]) \in Nat
    BY <1>1, <1>4
  <2>2. QED BY <2>1 DEF HeadOrMore
<1>5. QED BY <1>3, <1>4

-----------------------------------------------------------------------------
(* Queues as sets of processes. *)

(* The elements of a sequence, by index. *)
LEMMA InToSet ==
  ASSUME NEW S, NEW q \in Seq(S), NEW x
  PROVE  x \in ToSet(q) <=> \E k \in 1..Len(q) : q[k] = x
BY DEF ToSet

(* A tail without duplicates has all elements but the head. *)
LEMMA TailSet ==
  ASSUME NEW S, NEW q \in Seq(S), q # <<>>, IsInjective(q)
  PROVE  /\ IsInjective(Tail(q))
         /\ Head(q) \in ToSet(q)
         /\ ToSet(Tail(q)) = ToSet(q) \ {Head(q)}
<1> DEFINE t == Tail(q)
           n == Len(q)
<1>1. /\ t \in Seq(S) /\ n \in Nat \ {0} /\ Len(t) = n - 1
      /\ DOMAIN q = 1..n /\ DOMAIN t = 1..(n - 1)
      /\ Head(q) = q[1]
      /\ \A k \in 1..(n - 1) : t[k] = q[k + 1]
  BY HeadTailProperties
<1>2. \A j, k \in 1..n : q[j] = q[k] => j = k
  BY <1>1 DEF IsInjective
<1> HIDE DEF t, n
<1>3. \A j, k \in 1..(n - 1) : t[j] = t[k] => j = k
  <2> TAKE j, k \in 1..(n - 1)
  <2>1. j + 1 \in 1..n /\ k + 1 \in 1..n /\ j \in Int /\ k \in Int
    BY <1>1
  <2>2. t[j] = q[j + 1] /\ t[k] = q[k + 1]
    BY <1>1
  <2>3. t[j] = t[k] => j + 1 = k + 1
    BY <1>2, <2>1, <2>2
  <2>4. QED BY <2>1, <2>3
<1>4. ASSUME NEW x PROVE x \in ToSet(t) <=> x \in ToSet(q) /\ x # q[1]
  <2>1. ASSUME NEW k \in 1..(n - 1), t[k] = x
        PROVE  (\E m \in 1..n : q[m] = x) /\ x # q[1]
    <3>1. k + 1 \in 1..n /\ 1 \in 1..n /\ k + 1 # 1
      BY <1>1
    <3>2. q[k + 1] = x
      BY <1>1, <2>1
    <3>3. QED BY <1>2, <3>1, <3>2
  <2>2. ASSUME NEW m \in 1..n, q[m] = x, x # q[1]
        PROVE  \E k \in 1..(n - 1) : t[k] = x
    <3>1. m - 1 \in 1..(n - 1) /\ (m - 1) + 1 = m
      BY <1>1, <2>2
    <3>2. t[m - 1] = q[m]
      BY <1>1, <3>1
    <3>3. QED BY <2>2, <3>1, <3>2
  <2>3. /\ x \in ToSet(t) <=> \E k \in 1..(n - 1) : t[k] = x
        /\ x \in ToSet(q) <=> \E m \in 1..n : q[m] = x
    BY <1>1 DEF ToSet
  <2>4. QED BY <2>1, <2>2, <2>3
<1>5. Head(q) \in ToSet(q)
  <2>1. 1 \in DOMAIN q
    BY <1>1
  <2>2. QED BY <1>1, <2>1 DEF ToSet
<1>6. IsInjective(t)
  BY <1>1, <1>3 DEF IsInjective
<1>7. ToSet(t) = ToSet(q) \ {Head(q)}
  BY <1>1, <1>4
<1>8. QED BY <1>5, <1>6, <1>7 DEF t

(* A new last element. *)
LEMMA AppendSet ==
  ASSUME NEW S, NEW q \in Seq(S), NEW x \in S
  PROVE  /\ ToSet(Append(q, x)) = ToSet(q) \cup {x}
         /\ IsInjective(q) /\ x \notin ToSet(q) => IsInjective(Append(q, x))
<1> DEFINE a == Append(q, x)
           n == Len(q)
<1>1. /\ a \in Seq(S) /\ n \in Nat /\ Len(a) = n + 1
      /\ DOMAIN q = 1..n /\ DOMAIN a = 1..(n + 1)
      /\ a[n + 1] = x
      /\ \A k \in 1..n : a[k] = q[k]
  BY AppendProperties
<1> HIDE DEF a, n
<1>2. 1..(n + 1) = (1..n) \cup {n + 1} /\ n + 1 \notin 1..n
  BY <1>1
<1>3. ToSet(a) = ToSet(q) \cup {x}
  BY <1>1, <1>2 DEF ToSet
<1>4. ASSUME IsInjective(q), x \notin ToSet(q) PROVE IsInjective(a)
  BY <1>1, <1>2, <1>4 DEF IsInjective, ToSet
<1>5. QED BY <1>3, <1>4 DEF a

(* A queue without duplicates is at most as long as the set it is from. *)
LEMMA InjectiveLen ==
  ASSUME NEW S, IsFiniteSet(S), NEW q \in Seq(S), IsInjective(q)
  PROVE  Len(q) <= Cardinality(S)
<1>1. Len(q) \in Nat /\ q \in [1..Len(q) -> S]
  OBVIOUS
<1>2. q \in Injection(1..Len(q), S)
  BY <1>1 DEF Injection
<1>3. Cardinality(1..Len(q)) <= Cardinality(S)
  BY <1>2, FS_Injection
<1>4. Cardinality(1..Len(q)) = Len(q)
  BY <1>1, FS_Interval
<1>5. QED BY <1>3, <1>4

\* The processes in the queues Q.
Queued(Q) == UNION {ToSet(Q[l]) : l \in Level}

\* Q holds every process at its own level, and once.
Orderly(Q) ==
  /\ Q \in [Level -> Seq(Proc)]
  /\ \A l \in Level : IsInjective(Q[l]) /\ \A p \in ToSet(Q[l]) : prio[p] = l

(* In orderly queues a process can only be found at its own level. *)
LEMMA QueuedAtOwn ==
  ASSUME NEW Q, Orderly(Q), NEW p
  PROVE  p \in Queued(Q) <=> p \in Proc /\ p \in ToSet(Q[prio[p]])
<1>1. ASSUME NEW l \in Level, p \in ToSet(Q[l]) PROVE p \in Proc /\ prio[p] = l
  <2>1. Q[l] \in Seq(Proc)
    BY DEF Orderly
  <2>2. QED BY <1>1, <2>1 DEF Orderly, ToSet
<1>2. p \in Proc => prio[p] \in Level
  BY MLQAssumption
<1>3. QED BY <1>1, <1>2 DEF Queued

(* Taking the head of one of them. *)
LEMMA TakeHead ==
  ASSUME NEW Q, Orderly(Q), NEW l \in Level, Q[l] # <<>>,
         NEW R, R = [Q EXCEPT ![l] = Tail(Q[l])]
  PROVE  /\ Orderly(R)
         /\ Head(Q[l]) \in Queued(Q) /\ prio[Head(Q[l])] = l
         /\ Queued(R) = Queued(Q) \ {Head(Q[l])}
<1> DEFINE h == Head(Q[l])
<1>1. Q[l] \in Seq(Proc) /\ IsInjective(Q[l]) /\ Tail(Q[l]) \in Seq(Proc)
  BY DEF Orderly
<1>2. /\ IsInjective(Tail(Q[l])) /\ h \in ToSet(Q[l])
      /\ ToSet(Tail(Q[l])) = ToSet(Q[l]) \ {h}
  BY <1>1, TailSet
<1>3. R[l] = Tail(Q[l]) /\ \A m \in Level \ {l} : R[m] = Q[m]
  BY DEF Orderly
<1>4. R \in [Level -> Seq(Proc)]
  BY <1>1 DEF Orderly
<1> HIDE DEF h
<1>5. Orderly(R)
  BY <1>2, <1>3, <1>4 DEF Orderly
<1>6. prio[h] = l /\ h \in Queued(Q)
  BY <1>2 DEF Orderly, Queued
<1>7. ASSUME NEW p \in Proc PROVE p \in Queued(R) <=> p \in Queued(Q) /\ p # h
  <2>1. prio[p] \in Level
    BY MLQAssumption
  <2>2. ToSet(R[prio[p]]) = ToSet(Q[prio[p]]) \ {h}
    BY <1>2, <1>3, <1>6, <2>1 DEF Orderly
  <2>3. QED BY <1>5, <2>2, QueuedAtOwn
<1>8. Queued(R) = Queued(Q) \ {h}
  BY <1>5, <1>7, QueuedAtOwn
<1>9. QED BY <1>5, <1>6, <1>8 DEF h

(* Enqueueing a process that is not there adds it or, if its queue is full,
   changes nothing. *)
LEMMA EnqueueOne ==
  ASSUME NEW Q, Orderly(Q), NEW p \in Proc, p \notin Queued(Q),
         NEW R, R = [Q EXCEPT ![prio[p]] = enqueue(@, p)]
  PROVE  /\ Orderly(R)
         /\ Queued(R) = IF Len(Q[prio[p]]) = MAX_QUEUE_SIZE
                        THEN Queued(Q) ELSE Queued(Q) \cup {p}
<1> DEFINE l == prio[p]
<1>1. l \in Level /\ Q[l] \in Seq(Proc) /\ IsInjective(Q[l]) /\ p \notin ToSet(Q[l])
  BY MLQAssumption DEF Orderly, Queued
<1>2. CASE Len(Q[l]) = MAX_QUEUE_SIZE
  <2>1. R = Q
    BY <1>1, <1>2 DEF enqueue, Orderly
  <2>2. QED BY <1>2, <2>1
<1>3. CASE Len(Q[l]) # MAX_QUEUE_SIZE
  <2> DEFINE a == Append(Q[l], p)
  <2>1. a \in Seq(Proc) /\ IsInjective(a) /\ ToSet(a) = ToSet(Q[l]) \cup {p}
    BY <1>1, AppendSet
  <2>2. R = [Q EXCEPT ![l] = a]
    BY <1>3 DEF enqueue
  <2> HIDE DEF a
  <2>3. R[l] = a /\ \A m \in Level \ {l} : R[m] = Q[m]
    BY <1>1, <2>2 DEF Orderly
  <2>4. Orderly(R)
    BY <1>1, <2>1, <2>2, <2>3 DEF Orderly
  <2>5. ASSUME NEW x PROVE x \in Queued(R) <=> x \in Queued(Q) \/ x = p
    BY <1>1, <2>1, <2>3 DEF Queued
  <2>6. QED BY <1>3, <2>4, <2>5
<1>4. QED BY <1>2, <1>3

(* If every level fits into its queue, there is room for a process that is
   not queued. *)
LEMMA RoomForOne ==
  ASSUME LevelsFit, NEW Q, Orderly(Q), NEW p \in Proc, p \notin Queued(Q)
  PROVE  Len(Q[prio[p]]) < MAX_QUEUE_SIZE
<1> DEFINE l == prio[p]
           S == {x \in Proc : prio[x] = l}
<1>1. l \in Level /\ Q[l] \in Seq(Proc) /\ IsInjective(Q[l]) /\ p \notin ToSet(Q[l])
  BY MLQAssumption DEF Orderly, Queued
<1>2. IsFiniteSet(S) /\ Cardinality(S) <= MAX_QUEUE_SIZE /\ p \in S
  <2>1. IsFiniteSet(Proc) /\ S \in SUBSET Proc
    BY DEF LevelsFit
  <2>2. IsFiniteSet(S)
    BY <2>1, FS_Subset
  <2>3. Cardinality(S) <= MAX_QUEUE_SIZE
    BY <1>1 DEF LevelsFit
  <2>4. QED BY <2>2, <2>3
<1>3. /\ IsFiniteSet(S \ {p})
      /\ Cardinality(S \ {p}) = Cardinality(S) - 1
      /\ Cardinality(S) \in Nat
  BY <1>2, FS_RemoveElement, FS_CardinalityType
<1>4. Q[l] \in Seq(S \ {p})
  <2>1. \A k \in 1..Len(Q[l]) : Q[l][k] \in S \ {p}
    BY <1>1 DEF ToSet, Orderly
  <2>2. QED BY <1>1, <2>1
<1>5. Len(Q[l]) <= Cardinality(S \ {p}) /\ Len(Q[l]) \in Nat
  BY <1>1, <1>3, <1>4, InjectiveLen
<1> HIDE DEF l, S
<1>6. QED BY <1>2, <1>3, <1>5, MLQAssumption DEF l

(* Everything ready is a process. *)
LEMMA ReadyInProc ==
  ASSUME SchedInv
  PROVE  Ready \subseteq Proc
<1>1. \A l \in Level : mlq_ready_queue[l] \in Seq(Proc)
  BY DEF SchedInv, SchedTypeOK
<1>2. QED BY <1>1 DEF Ready, ToSet

(* get_proc takes the process it returns, and no other, out of the ready
   ones, and MarkedPrior is its level; if it returns NULL, it takes none. *)
LEMMA GetTakes ==
  ASSUME SchedInv, Orderly(mlq_ready_queue), NEW ret, get_proc(ret)
  PROVE  /\ Orderly(mlq_ready_queue')
         /\ \/ ret = NULL /\ get_none(ret) /\ Ready' = Ready
            \/ /\ ret \in Ready /\ ret \in Proc /\ Ready' = Ready \ {ret}
               /\ MarkedPrior' = prio[ret]
<1>1. Ready = Queued(mlq_ready_queue) /\ Ready' = Queued(mlq_ready_queue')
  BY DEF Ready, Queued
<1>2. ASSUME NEW l \in Level, mlq_ready_queue[l] # <<>>, dequeue(l, ret),
             MarkedPrior' = l
      PROVE  /\ Orderly(mlq_ready_queue')
             /\ ret \in Ready /\ ret \in Proc /\ Ready' = Ready \ {ret}
             /\ MarkedPrior' = prio[ret]
  <2>1. /\ ret = Head(mlq_ready_queue[l])
        /\ mlq_ready_queue' =
             [mlq_ready_queue EXCEPT ![l] = Tail(mlq_ready_queue[l])]
    BY <1>2, DequeueHead DEF SchedInv, SchedTypeOK
  <2>2. /\ Orderly(mlq_ready_queue') /\ ret \in Ready /\ prio[ret] = l
        /\ Ready' = Ready \ {ret}
    BY <1>1, <1>2, <2>1, TakeHead
  <2>3. QED BY <1>1, <1>2, <2>2, QueuedAtOwn
<1>3. CASE get_same_level(ret)
  BY <1>2, <1>3 DEF get_same_level, HasTurn, SchedInv, SchedTypeOK
<1>4. CASE get_next_level(ret)
  BY <1>2, <1>4 DEF get_next_level, HasTurn
<1>5. CASE get_new_round(ret)
  BY <1>2, <1>5 DEF get_new_round
<1>6. CASE get_none(ret)
  BY <1>1, <1>6 DEF get_none
<1>7. QED BY <1>3, <1>4, <1>5, <1>6 DEF get_proc

(* put_mlq_proc makes a process ready that was not, if the queue has room;
   it has when the levels fit. *)
LEMMA PutAdds ==
  ASSUME Orderly(mlq_ready_queue), NEW p \in Proc, p \notin Ready, put_mlq_proc(p)
  PROVE  /\ Orderly(mlq_ready_queue')
         /\ Ready \subseteq Ready' /\ Ready' \subseteq Ready \cup {p}
         /\ LevelsFit => Ready' = Ready \cup {p}
<1>1. Ready = Queued(mlq_ready_queue) /\ Ready' = Queued(mlq_ready_queue')
  BY DEF Ready, Queued
<1>2. mlq_ready_queue' = [mlq_ready_queue EXCEPT ![prio[p]] = enqueue(@, p)]
  BY DEF put_mlq_proc
<1>3. /\ Orderly(mlq_ready_queue')
      /\ Ready' = IF Len(mlq_ready_queue[prio[p]]) = MAX_QUEUE_SIZE
                  THEN Ready ELSE Ready \cup {p}
  BY <1>1, <1>2, EnqueueOne
<1>4. LevelsFit => Len(mlq_ready_queue[prio[p]]) # MAX_QUEUE_SIZE
  <2>1. LevelsFit => Len(mlq_ready_queue[prio[p]]) < MAX_QUEUE_SIZE
    BY <1>1, RoomForOne
  <2>2. QED BY <2>1, MLQAssumption
<1>5. QED BY <1>3, <1>4

(* In orderly queues no process has two places. *)
LEMMA OnePlace ==
  ASSUME NEW Q, Orderly(Q), NEW l \in Level, NEW p,
         NEW j \in 1..Len(Q[l]), NEW k \in 1..Len(Q[l]), Q[l][j] = p, Q[l][k] = p
  PROVE  j = k /\ l = prio[p]
<1>1. Q[l] \in Seq(Proc) /\ IsInjective(Q[l])
  BY DEF Orderly
<1>2. p \in ToSet(Q[l]) /\ DOMAIN Q[l] = 1..Len(Q[l])
  BY <1>1 DEF ToSet
<1>3. QED BY <1>1, <1>2 DEF Orderly, IsInjective

(* Empty queues are orderly, and nothing is ready. *)
LEMMA EmptyOrderly ==
  ASSUME mlq_ready_queue = [l \in Level |-> <<>>]
  PROVE  Orderly(mlq_ready_queue) /\ Ready = {}
<1>1. \A l \in Level : mlq_ready_queue[l] = <<>>
  OBVIOUS
<1>2. <<>> \in Seq(Proc) /\ ToSet(<<>>) = {} /\ IsInjective(<<>>)
  BY DEF ToSet, IsInjective
<1>3. QED BY <1>1, <1>2 DEF Orderly, Ready
=============================================================================

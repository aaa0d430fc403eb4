--------------------------------- MODULE MLQ ---------------------------------
(***************************************************************************)
(* sched.c and queue.c: the state of the multi-level queue scheduler and   *)
(* its operations.  Each operator with a "locked:" comment is one critical *)
(* section of queue_lock; put_proc and add_proc are two of them, one after *)
(* the other.  The threads that call them are in Sched.tla and OS.tla.     *)
(***************************************************************************)
EXTENDS Naturals, Sequences, SequencesExt

CONSTANTS
  Proc,            \* processes, identified by their pcb
  NULL,            \* the NULL pointer
  MAX_PRIO,        \* number of priority levels; 0 is the most urgent
  MAX_QUEUE_SIZE,  \* capacity of a struct queue_t
  prio             \* proc->prio, as read from the configuration

Level == 0..(MAX_PRIO - 1)

ASSUME MLQAssumption ==
  /\ MAX_PRIO \in Nat \ {0}
  /\ MAX_QUEUE_SIZE \in Nat \ {0}
  /\ prio \in [Proc -> Level]
  /\ NULL \notin Proc

VARIABLES
  mlq_ready_queue, \* mlq_ready_queue[l]: the processes ready at level l
  running_list,    \* every process ever added or put back, never dequeued
  slot,            \* slot[l]: dispatches of level l in the current round
  MarkedPrior,     \* the level the round has come to
  flag,            \* 1: search for a level; 0: stay at MarkedPrior
  count            \* levels found unusable by the search

schedVars == <<mlq_ready_queue, running_list, slot, MarkedPrior, flag, count>>

SchedTypeOK ==
  /\ mlq_ready_queue \in [Level -> Seq(Proc)]
  /\ running_list \in Seq(Proc)
  /\ slot \in [Level -> 0..MAX_PRIO]
  /\ MarkedPrior \in Level
  /\ flag \in {0, 1}
  /\ count \in {0, MAX_PRIO}

\* MarkedPrior, flag and count are statically initialised.
init_scheduler ==
  /\ mlq_ready_queue = [l \in Level |-> <<>>]
  /\ running_list = <<>>
  /\ slot = [l \in Level |-> MAX_PRIO - l]
  /\ MarkedPrior = 0
  /\ flag = 1
  /\ count = 0

-----------------------------------------------------------------------------
(* queue.c *)

\* A full queue swallows the process without a word.
enqueue(q, p) == IF Len(q) = MAX_QUEUE_SIZE THEN q ELSE Append(q, p)

\* Mutant: the comparison is >=, so the last of equals wins.
HighestIndex_last(q) ==
  CHOOSE i \in 1..Len(q) :
    /\ \A j \in 1..Len(q) : prio[q[j]] <= prio[q[i]]
    /\ \A j \in (i + 1)..Len(q) : prio[q[j]] < prio[q[i]]

\* The first of the processes with the numerically highest prio.
HighestIndex(q) ==
  CHOOSE i \in 1..Len(q) :
    /\ \A j \in 1..Len(q) : prio[q[j]] <= prio[q[i]]
    /\ \A j \in 1..(i - 1) : prio[q[j]] < prio[q[i]]

\* Mutant: the queue shrinks at its end, whichever process was taken.
dequeue_end(l, ret) ==
  LET q == mlq_ready_queue[l]
  IN  /\ ret = q[HighestIndex(q)]
      /\ mlq_ready_queue' = [mlq_ready_queue EXCEPT ![l] = Front(q)]

\* dequeue(mlq_ready_queue[l]) returns ret.
dequeue(l, ret) ==
  LET q == mlq_ready_queue[l]
      i == HighestIndex(q)
  IN  /\ ret = q[i]
      /\ mlq_ready_queue' = [mlq_ready_queue EXCEPT ![l] = RemoveAt(q, i)]

-----------------------------------------------------------------------------
(* get_mlq_proc.  The loop over the levels is written as its outcome: the  *)
(* first level, from where the search starts, that may dispatch.           *)

\* Mutant: off by one in the number of dispatches.
HasTurn_more(l) == mlq_ready_queue[l] # <<>> /\ slot[l] <= MAX_PRIO - l

\* Level l has a ready process and dispatches left in this round.
HasTurn(l) == mlq_ready_queue[l] # <<>> /\ slot[l] < MAX_PRIO - l

\* The search from MarkedPrior finds no level.
RoundOver == \A l \in Level : l >= MarkedPrior => ~HasTurn(l)

\* Mutant: the search gives up wherever it started.
SkippedAll_always == TRUE

\* The search then resets the slots; if it skipped exactly MAX_PRIO levels
\* it gives up, otherwise it starts again at level 0.
SkippedAll == count + (MAX_PRIO - MarkedPrior) = MAX_PRIO

\* Mutant: the dispatch is not counted.
get_same_level_free(ret) ==
  /\ flag = 0 /\ HasTurn(MarkedPrior)
  /\ dequeue(MarkedPrior, ret)
  /\ UNCHANGED <<slot, running_list, MarkedPrior, flag, count>>

\* flag = 0 and the level of the last dispatch still has its turn.
get_same_level(ret) ==
  /\ flag = 0 /\ HasTurn(MarkedPrior)
  /\ dequeue(MarkedPrior, ret)
  /\ slot' = [slot EXCEPT ![MarkedPrior] = @ + 1]
  /\ UNCHANGED <<running_list, MarkedPrior, flag, count>>

\* The search from MarkedPrior stops at level l.
get_next_level(ret) ==
  /\ flag = 1 \/ ~HasTurn(MarkedPrior)
  /\ \E l \in Level :
       /\ l >= MarkedPrior /\ HasTurn(l)
       /\ \A k \in Level : k >= MarkedPrior /\ k < l => ~HasTurn(k)
       /\ dequeue(l, ret)
       /\ slot' = [slot EXCEPT ![l] = @ + 1]
       /\ MarkedPrior' = l
  /\ flag' = 0
  /\ count' = 0
  /\ UNCHANGED running_list

\* Mutant: a new round clears the slots of the level it stops at only.
get_new_round_keeps(ret) ==
  /\ RoundOver /\ ~SkippedAll
  /\ \E l \in Level :
       /\ mlq_ready_queue[l] # <<>>
       /\ \A k \in Level : k < l => mlq_ready_queue[k] = <<>>
       /\ dequeue(l, ret)
       /\ slot' = [slot EXCEPT ![l] = 1]
       /\ MarkedPrior' = l
  /\ flag' = 0
  /\ count' = 0
  /\ UNCHANGED running_list

\* A new round: all slots are 0 again and the search from 0 stops at l.
get_new_round(ret) ==
  /\ RoundOver /\ ~SkippedAll
  /\ \E l \in Level :
       /\ mlq_ready_queue[l] # <<>>
       /\ \A k \in Level : k < l => mlq_ready_queue[k] = <<>>
       /\ dequeue(l, ret)
       /\ slot' = [k \in Level |-> IF k = l THEN 1 ELSE 0]
       /\ MarkedPrior' = l
  /\ flag' = 0
  /\ count' = 0
  /\ UNCHANGED running_list

\* Mutants: MarkedPrior stays where the loop left it; the reset of the slots
\* misses level 0.
get_none_marked(ret) ==
  /\ RoundOver
  /\ SkippedAll \/ \A l \in Level : mlq_ready_queue[l] = <<>>
  /\ ret = NULL
  /\ slot' = [l \in Level |-> 0]
  /\ MarkedPrior' = MAX_PRIO
  /\ flag' = 1
  /\ count' = MAX_PRIO
  /\ UNCHANGED <<mlq_ready_queue, running_list>>

get_none_partial(ret) ==
  /\ RoundOver
  /\ SkippedAll \/ \A l \in Level : mlq_ready_queue[l] = <<>>
  /\ ret = NULL
  /\ slot' = [l \in Level |-> IF l = 0 THEN slot[0] ELSE 0]
  /\ MarkedPrior' = 0
  /\ flag' = 1
  /\ count' = MAX_PRIO
  /\ UNCHANGED <<mlq_ready_queue, running_list>>

\* The search gives up: at once, or after a new round found all empty.
get_none(ret) ==
  /\ RoundOver
  /\ SkippedAll \/ \A l \in Level : mlq_ready_queue[l] = <<>>
  /\ ret = NULL
  /\ slot' = [l \in Level |-> 0]
  /\ MarkedPrior' = 0
  /\ flag' = 1
  /\ count' = MAX_PRIO
  /\ UNCHANGED <<mlq_ready_queue, running_list>>

\* locked: get_proc returns ret.
get_proc(ret) ==
  \/ get_same_level(ret)
  \/ get_next_level(ret)
  \/ get_new_round(ret)
  \/ get_none(ret)

-----------------------------------------------------------------------------
(* put_proc and add_proc differ in name only. *)

\* locked: the first half.
put_running_list(p) ==
  /\ running_list' = enqueue(running_list, p)
  /\ UNCHANGED <<mlq_ready_queue, slot, MarkedPrior, flag, count>>

\* locked: the second half, put_mlq_proc and add_mlq_proc.
put_mlq_proc(p) ==
  /\ mlq_ready_queue' =
       [mlq_ready_queue EXCEPT ![prio[p]] = enqueue(@, p)]
  /\ UNCHANGED <<running_list, slot, MarkedPrior, flag, count>>

-----------------------------------------------------------------------------
\* The processes waiting in some ready queue.
Ready == UNION {ToSet(mlq_ready_queue[l]) : l \in Level}

\* How often p is queued at level l.
QueuedAt(p, l) == {i \in 1..Len(mlq_ready_queue[l]) : mlq_ready_queue[l][i] = p}

\* No queue ever has to swallow a process: each has room for its level.
LevelsFit ==
  /\ IsFiniteSet(Proc)
  /\ \A l \in Level : Cardinality({p \in Proc : prio[p] = l}) <= MAX_QUEUE_SIZE

(* Slot accounting: in one round level l is dispatched at most
   MAX_PRIO - l times, the bounds stated above get_mlq_proc. *)
SlotBudget == \A l \in Level : slot[l] <= MAX_PRIO - l
=============================================================================

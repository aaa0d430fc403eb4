------------------------------- MODULE Frames -------------------------------
(***************************************************************************)
(* The list of free RAM frames, access by access.  MEMPHY_get_freefp of    *)
(* mm-memphy.c has no lock of its own.  __alloc calls it, by way of        *)
(* inc_vma_limit, vm_map_ram and alloc_pages_range, with mmvm_lock held;   *)
(* the memmap call of sys_mem.c comes the same way without it.  The        *)
(* threads are the CPUs, which run one instruction in a time slot: the     *)
(* barrier of SlotBarrier.tla lies between two calls of a thread.          *)
(*                                                                         *)
(* No frame is ever put back (see give_back), so the list is always a tail *)
(* of the one that MEMPHY_format built: node k holds frame k, the next     *)
(* node is k + 1, and numfp stands for NULL.  A node is freed when its     *)
(* frame has been taken; to follow or to free it then is undefined, and    *)
(* the thread that does is not modelled any further.                       *)
(***************************************************************************)
EXTENDS Naturals

CONSTANTS
  Thread,    \* the CPU threads
  NULL,      \* nobody
  numfp,     \* number of RAM frames
  MaxPages   \* bound: pages in a request

ASSUME FramesAssumption ==
  /\ NULL \notin Thread
  /\ numfp \in Nat \ {0, 1}
  /\ MaxPages \in Nat

VARIABLES
  now, st,       \* the time-slot barrier
  mmvm_lock,     \* the thread that holds it, or NULL
  free_fp_list,  \* of mram: its first node
  freed,         \* the nodes given back to malloc
  pc,            \* pc[t]: where thread t is in its call
  fp,            \* fp[t]: the local of MEMPHY_get_freefp
  want,          \* want[t]: req_pgnum - pgit, the pages still to get
  frames,        \* frames[t]: the list that alloc_pages_range is building
  got            \* got[t]: the frames of the requests that succeeded

Clock == INSTANCE SlotBarrier WITH Device <- Thread, Horizon <- 0

clockVars == <<now, st>>
vars == <<now, st, mmvm_lock, free_fp_list, freed, pc, fp, want, frames, got>>

Frame == 0..(numfp - 1)

TypeOK ==
  /\ Clock!BarrierTypeOK
  /\ mmvm_lock \in Thread \cup {NULL}
  /\ free_fp_list \in 0..numfp
  /\ freed \subseteq Frame
  /\ pc \in [Thread -> {"idle", "lock", "loop", "fpn", "next", "free", "fail",
                        "ret", "undefined"}]
  /\ fp \in [Thread -> 0..numfp]
  /\ want \in [Thread -> 0..MaxPages]
  /\ frames \in [Thread -> SUBSET Frame]
  /\ got \in [Thread -> SUBSET Frame]

Init ==
  /\ Clock!BarrierInit
  /\ mmvm_lock = NULL
  /\ free_fp_list = 0
  /\ freed = {}
  /\ pc = [t \in Thread |-> "idle"]
  /\ fp = [t \in Thread |-> numfp]
  /\ want = [t \in Thread |-> 0]
  /\ frames = [t \in Thread |-> {}]
  /\ got = [t \in Thread |-> {}]

Goto(t, there) == pc' = [pc EXCEPT ![t] = there]

-----------------------------------------------------------------------------
(* The calls.  n = 0 stands for the other users of mmvm_lock, too: __free  *)
(* and find_victim_page, which do not touch the list.                      *)

\* liballoc wants n pages and goes for the lock.
liballoc(t, n) ==
  /\ st[t] = "work" /\ pc[t] = "idle"
  /\ want' = [want EXCEPT ![t] = n]
  /\ Goto(t, "lock")
  /\ UNCHANGED <<clockVars, mmvm_lock, free_fp_list, freed, fp, frames, got>>

\* memmap with SYSMEM_INC_OP goes straight to inc_vma_limit.
memmap_inc(t, n) ==
  /\ st[t] = "work" /\ pc[t] = "idle"
  /\ want' = [want EXCEPT ![t] = n]
  /\ Goto(t, "loop")
  /\ UNCHANGED <<clockVars, mmvm_lock, free_fp_list, freed, fp, frames, got>>

\* An instruction that has nothing to do with frames.
other(t) ==
  /\ pc[t] = "idle"
  /\ Clock!Park(t)
  /\ UNCHANGED <<mmvm_lock, free_fp_list, freed, pc, fp, want, frames, got>>

\* The CPU ends.
leave(t) ==
  /\ pc[t] = "idle"
  /\ Clock!Leave(t)
  /\ UNCHANGED <<mmvm_lock, free_fp_list, freed, pc, fp, want, frames, got>>

\* Mutant: the lock does not exclude anybody.
acquire_any(t) ==
  /\ pc[t] = "lock"
  /\ mmvm_lock' = t
  /\ Goto(t, "loop")
  /\ UNCHANGED <<clockVars, free_fp_list, freed, fp, want, frames, got>>

acquire(t) ==
  /\ pc[t] = "lock"
  /\ mmvm_lock = NULL
  /\ mmvm_lock' = t
  /\ Goto(t, "loop")
  /\ UNCHANGED <<clockVars, free_fp_list, freed, fp, want, frames, got>>

-----------------------------------------------------------------------------
(* alloc_pages_range and, in its loop, MEMPHY_get_freefp. *)

\* Enough frames: the loop ends and the request has succeeded.
loop_done(t) ==
  /\ pc[t] = "loop" /\ want[t] = 0
  /\ got' = [got EXCEPT ![t] = @ \cup frames[t]]
  /\ frames' = [frames EXCEPT ![t] = {}]
  /\ Goto(t, "ret")
  /\ UNCHANGED <<clockVars, mmvm_lock, free_fp_list, freed, fp, want>>

\* Mutants: the empty list is not noticed; a list with one node left is
\* taken for empty.
get_head_blind(t) ==
  /\ pc[t] = "loop" /\ want[t] > 0
  /\ fp' = [fp EXCEPT ![t] = free_fp_list]
  /\ Goto(t, "fpn")
  /\ UNCHANGED <<clockVars, mmvm_lock, free_fp_list, freed, want, frames, got>>

get_head_last(t) ==
  /\ pc[t] = "loop" /\ want[t] > 0
  /\ fp' = [fp EXCEPT ![t] = free_fp_list]
  /\ Goto(t, IF free_fp_list + 1 >= numfp THEN "fail" ELSE "fpn")
  /\ UNCHANGED <<clockVars, mmvm_lock, free_fp_list, freed, want, frames, got>>

\* fp = mp->free_fp_list.  An empty list makes the request fail.
get_head(t) ==
  /\ pc[t] = "loop" /\ want[t] > 0
  /\ fp' = [fp EXCEPT ![t] = free_fp_list]
  /\ Goto(t, IF free_fp_list = numfp THEN "fail" ELSE "fpn")
  /\ UNCHANGED <<clockVars, mmvm_lock, free_fp_list, freed, want, frames, got>>

\* The clean-up of alloc_pages_range.  Its loop asks whether the last node
\* of the list it has built has a successor, which it never has, so that
\* MEMPHY_put_freefp is not called; then the function returns, and nobody
\* knows the list any more.
give_back(t) ==
  /\ pc[t] = "fail"
  /\ frames' = [frames EXCEPT ![t] = {}]
  /\ Goto(t, "ret")
  /\ UNCHANGED <<clockVars, mmvm_lock, free_fp_list, freed, fp, want, got>>

\* Mutant: the node is freed as soon as its frame has been read.
get_fpn_frees(t) ==
  /\ pc[t] = "fpn"
  /\ Goto(t, IF fp[t] \in freed THEN "undefined" ELSE "next")
  /\ freed' = freed \cup {fp[t]}
  /\ UNCHANGED <<clockVars, mmvm_lock, free_fp_list, fp, want, frames, got>>

\* *retfpn = fp->fpn
get_fpn(t) ==
  /\ pc[t] = "fpn"
  /\ Goto(t, IF fp[t] \in freed THEN "undefined" ELSE "next")
  /\ UNCHANGED <<clockVars, mmvm_lock, free_fp_list, freed, fp, want, frames, got>>

\* Mutant: the frame is read from the list after the list has moved on.
get_next_late(t) ==
  /\ pc[t] = "next"
  /\ fp[t] \notin freed
  /\ free_fp_list' = fp[t] + 1
  /\ frames' = [frames EXCEPT ![t] = @ \cup {(fp[t] + 1) % numfp}]
  /\ Goto(t, "free")
  /\ UNCHANGED <<clockVars, mmvm_lock, freed, fp, want, got>>

\* mp->free_fp_list = fp->fp_next: from now on the frame is the thread's.
get_next(t) ==
  /\ pc[t] = "next"
  /\ IF fp[t] \in freed
     THEN Goto(t, "undefined") /\ UNCHANGED <<free_fp_list, frames>>
     ELSE /\ free_fp_list' = fp[t] + 1
          /\ frames' = [frames EXCEPT ![t] = @ \cup {fp[t]}]
          /\ Goto(t, "free")
  /\ UNCHANGED <<clockVars, mmvm_lock, freed, fp, want, got>>

\* free(fp), and round the loop.
get_free(t) ==
  /\ pc[t] = "free"
  /\ Goto(t, IF fp[t] \in freed THEN "undefined" ELSE "loop")
  /\ freed' = freed \cup {fp[t]}
  /\ want' = [want EXCEPT ![t] = @ - 1]
  /\ UNCHANGED <<clockVars, mmvm_lock, free_fp_list, fp, frames, got>>

\* Mutant: a request that failed returns with the lock held.
return_locked(t) ==
  /\ pc[t] = "ret"
  /\ mmvm_lock' = IF mmvm_lock = t /\ want[t] = 0 THEN NULL ELSE mmvm_lock
  /\ Goto(t, "idle")
  /\ want' = [want EXCEPT ![t] = 0]
  /\ fp' = [fp EXCEPT ![t] = numfp]
  /\ Clock!Park(t)
  /\ UNCHANGED <<free_fp_list, freed, frames, got>>

\* The call returns, __alloc after unlocking; the slot of the CPU is over.
return(t) ==
  /\ pc[t] = "ret"
  /\ mmvm_lock' = IF mmvm_lock = t THEN NULL ELSE mmvm_lock
  /\ Goto(t, "idle")
  /\ want' = [want EXCEPT ![t] = 0]
  /\ fp' = [fp EXCEPT ![t] = numfp]
  /\ Clock!Park(t)
  /\ UNCHANGED <<free_fp_list, freed, frames, got>>

timer_tick ==
  /\ Clock!Tick
  /\ UNCHANGED <<mmvm_lock, free_fp_list, freed, pc, fp, want, frames, got>>

-----------------------------------------------------------------------------
\* A thread whose instructions ask for frames through liballoc only.
AllocStep(t) ==
  \/ \E n \in 0..MaxPages : liballoc(t, n)
  \/ other(t) \/ leave(t)
  \/ acquire(t)
  \/ loop_done(t) \/ get_head(t) \/ get_fpn(t) \/ get_next(t) \/ get_free(t)
  \/ give_back(t) \/ return(t)

AllocNext == timer_tick \/ \E t \in Thread : AllocStep(t)

AllocSafety == Init /\ [][AllocNext]_vars

\* Threads that can run do run.  WF is enough for the mutex, too: a thread
\* comes back for it only in the next slot, which needs all the others.
AllocSpec ==
  /\ AllocSafety
  /\ \A t \in Thread : WF_vars(AllocStep(t))
  /\ WF_vars(timer_tick)

\* With memmap.
Next ==
  \/ AllocNext
  \/ \E t \in Thread, n \in 0..MaxPages : memmap_inc(t, n)

Safety == Init /\ [][Next]_vars

-----------------------------------------------------------------------------
(* Correctness. *)

\* The frames that thread t has, for itself or for the request underway.
Held(t) == got[t] \cup frames[t]

(* No frame is given to two threads: MEMPHY is used up until exhausted. *)
NoFrameTwice ==
  \A t, u \in Thread : t # u => Held(t) \cap Held(u) = {}

(* No frame goes missing before RAM is used up: as long as one is left on
   the list, each of the others has an owner.  (The comment in the clean-up
   promises more, that a request which finds too few frames gives back the
   ones it got.  It gives back none; they are lost, but only once the list
   is empty.) *)
NoneMissingWhileAnyLeft ==
  free_fp_list < numfp
    => UNION {Held(t) : t \in Thread} = 0..(free_fp_list - 1)

(* No thread follows or frees a list node that has been freed. *)
NoDangling == \A t \in Thread : pc[t] # "undefined"

(* Every call returns, also when RAM is used up and several CPUs wait for
   mmvm_lock: failing paths of __alloc give it back. *)
CallReturns == \A t \in Thread : pc[t] # "idle" ~> pc[t] = "idle"

(* Taking a frame looks like one step: the list and the frames that the
   threads have got implement the pool of FramePool.tla. *)
Pool == INSTANCE FramePool
  WITH free <- free_fp_list..(numfp - 1), owned <- [t \in Thread |-> Held(t)]

PoolSpec == Pool!PoolSpec

=============================================================================

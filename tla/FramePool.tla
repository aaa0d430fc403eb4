------------------------------ MODULE FramePool ------------------------------
(***************************************************************************)
(* What MEMPHY_get_freefp promises: frames that are free or belong to the  *)
(* thread that took them, and taking one is a single step.  They get lost  *)
(* only when none is left and a request fails.  VMem.tla takes frames this *)
(* way.  Frames.tla implements it as long as every caller holds mmvm_lock. *)
(***************************************************************************)
EXTENDS Naturals

CONSTANTS
  Thread,    \* the CPU threads
  numfp      \* number of frames

VARIABLES
  free,      \* the frames nobody has
  owned      \* owned[t]: the frames that thread t was given

poolVars == <<free, owned>>

PoolInit ==
  /\ free = 0..(numfp - 1)
  /\ owned = [t \in Thread |-> {}]

\* MEMPHY_get_freefp hands frame f, the first of the list, to thread t.
Take(t, f) ==
  /\ f \in free /\ \A g \in free : f <= g
  /\ free' = free \ {f}
  /\ owned' = [owned EXCEPT ![t] = @ \cup {f}]

\* alloc_pages_range forgets the frames F of a request that failed: thread t
\* does not have them any more, and they are not free.
Forget(t, F) ==
  /\ free = {} /\ F \subseteq owned[t]
  /\ owned' = [owned EXCEPT ![t] = @ \ F]
  /\ UNCHANGED free

PoolNext ==
  \E t \in Thread :
    \/ \E f \in 0..(numfp - 1) : Take(t, f)
    \/ \E F \in SUBSET (0..(numfp - 1)) : Forget(t, F)

PoolSpec == PoolInit /\ [][PoolNext]_poolVars
=============================================================================

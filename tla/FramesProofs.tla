---------------------------- MODULE FramesProofs ----------------------------
(***************************************************************************)
(* Proofs about Frames.tla, for any number of CPUs, frames and pages: with *)
(* mmvm_lock held around it, MEMPHY_get_freefp is atomic.                  *)
(***************************************************************************)
EXTENDS Frames, TLAPS

\* A thread between locking and unlocking is the one that has the lock.
LockInv ==
  \A t \in Thread :
    pc[t] \in {"loop", "fpn", "next", "free", "fail", "ret"} => mmvm_lock = t

\* Where the node in hand lies while the list is read and moved on.
WalkInv ==
  \A t \in Thread :
    /\ pc[t] \in {"fpn", "next"} => fp[t] = free_fp_list /\ fp[t] < numfp
    /\ pc[t] = "free" => fp[t] + 1 = free_fp_list /\ fp[t] \notin freed
    /\ pc[t] \in {"fpn", "next", "free"} => want[t] > 0
    /\ pc[t] = "fail" => free_fp_list = numfp

\* Only nodes that have left the list are freed, and only their frames have
\* an owner.
FreedInv == \A n \in freed : n < free_fp_list
HeldInv == \A t \in Thread : \A f \in Held(t) : f < free_fp_list

IInv ==
  /\ TypeOK /\ LockInv /\ WalkInv /\ FreedInv
  /\ HeldInv /\ NoFrameTwice /\ NoneMissingWhileAnyLeft /\ NoDangling

-----------------------------------------------------------------------------
(* The barrier keeps its types. *)
LEMMA ClockType ==
  ASSUME Clock!BarrierTypeOK, NEW t \in Thread,
         Clock!Park(t) \/ Clock!Leave(t) \/ Clock!Tick
  PROVE  Clock!BarrierTypeOK'
BY DEF Clock!BarrierTypeOK, Clock!Park, Clock!Leave, Clock!Tick

(* The invariant holds when the program starts. *)
LEMMA InitIInv == Init => IInv
<1> SUFFICES ASSUME Init PROVE IInv
  OBVIOUS
<1> USE FramesAssumption DEF Init
<1>1. TypeOK
  BY DEF TypeOK, Clock!BarrierInit, Clock!BarrierTypeOK
<1>2. LockInv /\ WalkInv /\ FreedInv /\ NoDangling
  BY DEF LockInv, WalkInv, FreedInv, NoDangling
<1>3. HeldInv /\ NoFrameTwice /\ NoneMissingWhileAnyLeft
  BY DEF Held, HeldInv, NoFrameTwice, NoneMissingWhileAnyLeft
<1>4. QED BY <1>1, <1>2, <1>3 DEF IInv

(* A step that leaves the list alone and the frames with their owners. *)
LEMMA QuietIInv ==
  ASSUME IInv, TypeOK', LockInv', WalkInv', NoDangling',
         UNCHANGED <<free_fp_list, freed>>,
         \A t \in Thread : Held(t)' = Held(t)
  PROVE  IInv'
<1>1. FreedInv' /\ HeldInv' /\ NoFrameTwice'
  BY DEF IInv, FreedInv, HeldInv, NoFrameTwice
<1>2. {Held(t)' : t \in Thread} = {Held(t) : t \in Thread}
  OBVIOUS
<1>3. NoneMissingWhileAnyLeft'
  BY <1>2 DEF IInv, NoneMissingWhileAnyLeft
<1>4. QED BY <1>1, <1>3 DEF IInv

(* Calling, leaving and waiting for the next slot. *)
LEMMA CallIInv ==
  ASSUME IInv, NEW t \in Thread,
         \/ \E n \in 0..MaxPages : liballoc(t, n)
         \/ other(t) \/ leave(t) \/ timer_tick
  PROVE  IInv'
<1> USE DEF Goto, clockVars, Held
<1>1. ASSUME NEW n \in 0..MaxPages, liballoc(t, n) PROVE IInv'
  <2>1. TypeOK'
    BY <1>1 DEF IInv, TypeOK, liballoc, Clock!BarrierTypeOK
  <2>2. LockInv' /\ WalkInv' /\ NoDangling'
    BY <1>1 DEF IInv, TypeOK, LockInv, WalkInv, NoDangling, liballoc
  <2>3. QED BY <1>1, <2>1, <2>2, QuietIInv DEF liballoc
<1>2. ASSUME other(t) \/ leave(t) \/ timer_tick PROVE IInv'
  <2>1. Clock!BarrierTypeOK'
    BY <1>2, ClockType DEF IInv, TypeOK, other, leave, timer_tick
  <2>2. UNCHANGED <<mmvm_lock, free_fp_list, freed, pc, fp, want, frames, got>>
    BY <1>2 DEF other, leave, timer_tick
  <2>3. TypeOK'
    BY <2>1, <2>2 DEF IInv, TypeOK
  <2>4. LockInv' /\ WalkInv' /\ NoDangling'
    BY <2>2 DEF IInv, LockInv, WalkInv, NoDangling
  <2>5. QED BY <2>2, <2>3, <2>4, QuietIInv
<1>3. QED BY <1>1, <1>2

(* Taking the lock, and what the lock's holder does before it moves the
   list on. *)
LEMMA WalkIInv ==
  ASSUME IInv, NEW t \in Thread,
         acquire(t) \/ loop_done(t) \/ get_head(t) \/ get_fpn(t) \/ return(t)
  PROVE  IInv'
<1> USE FramesAssumption DEF Goto, clockVars
<1>1. UNCHANGED <<free_fp_list, freed>> /\ \A u \in Thread : Held(u)' = Held(u)
  <2>1. CASE loop_done(t)
    BY <2>1 DEF loop_done, Held, IInv, TypeOK
  <2>2. CASE ~loop_done(t)
    BY <2>2 DEF acquire, get_head, get_fpn, return, Held
  <2>3. QED BY <2>1, <2>2
<1>2. CASE acquire(t)
  <2>1. TypeOK'
    BY <1>2 DEF IInv, TypeOK, acquire, Clock!BarrierTypeOK
  <2>2. LockInv' /\ WalkInv' /\ NoDangling'
    BY <1>2 DEF IInv, TypeOK, LockInv, WalkInv, NoDangling, acquire
  <2>3. QED BY <1>1, <2>1, <2>2, QuietIInv
<1>3. CASE loop_done(t)
  <2>1. TypeOK'
    BY <1>3 DEF IInv, TypeOK, loop_done, Clock!BarrierTypeOK
  <2>2. LockInv' /\ WalkInv' /\ NoDangling'
    BY <1>3 DEF IInv, TypeOK, LockInv, WalkInv, NoDangling, loop_done
  <2>3. QED BY <1>1, <2>1, <2>2, QuietIInv
<1>4. CASE get_head(t)
  <2>1. TypeOK'
    BY <1>4 DEF IInv, TypeOK, get_head, Clock!BarrierTypeOK
  <2>2. LockInv' /\ NoDangling'
    BY <1>4 DEF IInv, TypeOK, LockInv, NoDangling, get_head
  <2>3. WalkInv'
    BY <1>4 DEF IInv, TypeOK, WalkInv, get_head
  <2>4. QED BY <1>1, <2>1, <2>2, <2>3, QuietIInv
<1>5. CASE get_fpn(t)
  <2>1. fp[t] \notin freed
    BY <1>5 DEF IInv, TypeOK, WalkInv, FreedInv, get_fpn
  <2>2. TypeOK'
    BY <1>5 DEF IInv, TypeOK, get_fpn, Clock!BarrierTypeOK
  <2>3. LockInv' /\ WalkInv' /\ NoDangling'
    BY <1>5, <2>1 DEF IInv, TypeOK, LockInv, WalkInv, NoDangling, get_fpn
  <2>4. QED BY <1>1, <2>2, <2>3, QuietIInv
<1>6. CASE return(t)
  <2>1. Clock!BarrierTypeOK'
    BY <1>6, ClockType DEF IInv, TypeOK, return
  <2>2. TypeOK'
    BY <1>6, <2>1 DEF IInv, TypeOK, return
  <2>3. LockInv' /\ WalkInv' /\ NoDangling'
    BY <1>6 DEF IInv, TypeOK, LockInv, WalkInv, NoDangling, return
  <2>4. QED BY <1>1, <2>2, <2>3, QuietIInv
<1>7. QED BY <1>2, <1>3, <1>4, <1>5, <1>6

(* The clean-up of a request that failed: the thread has less. *)
LEMMA GiveBackIInv ==
  ASSUME IInv, NEW t \in Thread, give_back(t)
  PROVE  /\ IInv'
         /\ free_fp_list = numfp /\ free_fp_list' = free_fp_list
         /\ \A u \in Thread :
              Held(u)' = IF u = t THEN Held(t) \ (frames[t] \ got[t]) ELSE Held(u)
<1> USE FramesAssumption DEF Goto, clockVars
<1>1. free_fp_list = numfp /\ UNCHANGED <<free_fp_list, freed>>
  BY DEF IInv, WalkInv, give_back
<1>2. \A u \in Thread :
        Held(u)' = IF u = t THEN Held(t) \ (frames[t] \ got[t]) ELSE Held(u)
  BY DEF IInv, TypeOK, give_back, Held
<1>3. TypeOK'
  BY DEF IInv, TypeOK, give_back, Clock!BarrierTypeOK
<1>4. LockInv' /\ WalkInv' /\ NoDangling'
  BY DEF IInv, TypeOK, LockInv, WalkInv, NoDangling, give_back
<1>5. FreedInv' /\ HeldInv'
  BY <1>1, <1>2 DEF IInv, FreedInv, HeldInv
<1>6. NoFrameTwice'
  BY <1>2 DEF IInv, NoFrameTwice
<1>7. NoneMissingWhileAnyLeft'
  BY <1>1 DEF NoneMissingWhileAnyLeft
<1>8. QED BY <1>1, <1>2, <1>3, <1>4, <1>5, <1>6, <1>7 DEF IInv

(* The list moves on by one node, whose frame nobody has. *)
LEMMA NextNode ==
  ASSUME IInv, NEW t \in Thread, get_next(t)
  PROVE  /\ free_fp_list \in Frame
         /\ fp[t] = free_fp_list
         /\ free_fp_list' = free_fp_list + 1
         /\ frames' = [frames EXCEPT ![t] = @ \cup {free_fp_list}]
         /\ pc' = [pc EXCEPT ![t] = "free"]
         /\ \A u \in Thread : free_fp_list \notin Held(u)
         /\ \A u \in Thread :
              Held(u)' = IF u = t THEN Held(t) \cup {free_fp_list} ELSE Held(u)
<1> USE FramesAssumption
<1>1. /\ fp[t] = free_fp_list /\ fp[t] < numfp
      /\ free_fp_list \in 0..numfp
  BY DEF IInv, TypeOK, WalkInv, get_next
<1>2. fp[t] \notin freed
  BY <1>1 DEF IInv, FreedInv
<1>3. \A u \in Thread : free_fp_list \notin Held(u)
  BY <1>1 DEF IInv, HeldInv
<1>4. free_fp_list \in Frame
  BY <1>1 DEF Frame
<1>5. /\ free_fp_list' = free_fp_list + 1
      /\ frames' = [frames EXCEPT ![t] = @ \cup {free_fp_list}]
      /\ pc' = [pc EXCEPT ![t] = "free"]
      /\ got' = got
  BY <1>1, <1>2 DEF get_next, Goto
<1>6. \A u \in Thread :
        Held(u)' = IF u = t THEN Held(t) \cup {free_fp_list} ELSE Held(u)
  BY <1>5 DEF Held, IInv, TypeOK
<1>7. QED BY <1>1, <1>3, <1>4, <1>5, <1>6

LEMMA NextNodeIInv ==
  ASSUME IInv, NEW t \in Thread, get_next(t)
  PROVE  IInv'
<1> USE FramesAssumption
<1>1. /\ free_fp_list \in Frame
      /\ fp[t] = free_fp_list
      /\ free_fp_list' = free_fp_list + 1
      /\ frames' = [frames EXCEPT ![t] = @ \cup {free_fp_list}]
      /\ pc' = [pc EXCEPT ![t] = "free"]
      /\ \A u \in Thread : free_fp_list \notin Held(u)
      /\ \A u \in Thread :
           Held(u)' = IF u = t THEN Held(t) \cup {free_fp_list} ELSE Held(u)
      /\ UNCHANGED <<now, st, mmvm_lock, freed, fp, want, got>>
  BY NextNode DEF get_next, clockVars
<1>2. pc[t] = "next"
  BY DEF get_next
<1>3. TypeOK'
  BY <1>1 DEF IInv, TypeOK, Clock!BarrierTypeOK, Frame
<1>4. LockInv' /\ NoDangling'
  BY <1>1, <1>2 DEF IInv, TypeOK, LockInv, NoDangling
<1>5. FreedInv' /\ HeldInv'
  <2>1. FreedInv'
    BY <1>1 DEF IInv, TypeOK, FreedInv, Frame
  <2>2. \A u \in Thread : Held(u) \subseteq Frame
    BY DEF IInv, TypeOK, Held
  <2>3. HeldInv'
    BY <1>1, <2>2 DEF IInv, HeldInv, Frame
  <2>4. QED BY <2>1, <2>3
<1>6. WalkInv'
  <2> SUFFICES ASSUME NEW u \in Thread
               PROVE  /\ pc'[u] \in {"fpn", "next"}
                         => fp'[u] = free_fp_list' /\ fp'[u] < numfp
                      /\ pc'[u] = "free"
                         => fp'[u] + 1 = free_fp_list' /\ fp'[u] \notin freed'
                      /\ pc'[u] \in {"fpn", "next", "free"} => want'[u] > 0
                      /\ pc'[u] = "fail" => free_fp_list' = numfp
    BY DEF WalkInv
  <2>1. CASE u = t
    BY <1>1, <1>2, <2>1 DEF IInv, TypeOK, WalkInv, FreedInv, Frame
  <2>2. CASE u # t
    <3>1. pc[u] \notin {"fpn", "next", "free", "fail"}
      BY <1>2, <2>2 DEF IInv, LockInv
    <3>2. pc'[u] = pc[u]
      BY <1>1, <2>2 DEF IInv, TypeOK
    <3>3. QED BY <3>1, <3>2
  <2>3. QED BY <2>1, <2>2
<1>7. NoFrameTwice'
  BY <1>1 DEF IInv, NoFrameTwice
<1>8. NoneMissingWhileAnyLeft'
  <2>1. UNION {Held(u)' : u \in Thread} =
          (UNION {Held(u) : u \in Thread}) \cup {free_fp_list}
    BY <1>1
  <2>2. 0..(free_fp_list' - 1) = 0..(free_fp_list - 1) \cup {free_fp_list}
    BY <1>1 DEF Frame
  <2>3. free_fp_list < numfp
    BY <1>1 DEF Frame
  <2>4. QED BY <2>1, <2>2, <2>3 DEF IInv, NoneMissingWhileAnyLeft
<1>9. QED BY <1>3, <1>4, <1>5, <1>6, <1>7, <1>8 DEF IInv

(* Freeing the node that has left the list. *)
LEMMA FreeNodeIInv ==
  ASSUME IInv, NEW t \in Thread, get_free(t)
  PROVE  IInv'
<1> USE FramesAssumption DEF Goto, clockVars
<1>1. /\ pc[t] = "free" /\ fp[t] + 1 = free_fp_list /\ fp[t] \notin freed
      /\ want[t] > 0 /\ mmvm_lock = t
  BY DEF IInv, LockInv, WalkInv, get_free
<1>2. /\ pc' = [pc EXCEPT ![t] = "loop"]
      /\ freed' = freed \cup {fp[t]}
      /\ want' = [want EXCEPT ![t] = @ - 1]
      /\ UNCHANGED <<now, st, mmvm_lock, free_fp_list, fp, frames, got>>
  BY <1>1 DEF get_free
<1>3. TypeOK'
  <2>1. want[t] \in 0..MaxPages /\ fp[t] \in 0..numfp /\ free_fp_list \in 0..numfp
    BY DEF IInv, TypeOK
  <2>2. want[t] - 1 \in 0..MaxPages /\ fp[t] \in Frame
    BY <1>1, <2>1 DEF Frame
  <2>3. want' \in [Thread -> 0..MaxPages] /\ freed' \subseteq Frame
    BY <1>2, <2>2 DEF IInv, TypeOK
  <2>4. pc' \in [Thread -> {"idle", "lock", "loop", "fpn", "next", "free", "fail",
                            "ret", "undefined"}]
    BY <1>2 DEF IInv, TypeOK
  <2>5. QED BY <1>2, <2>3, <2>4 DEF IInv, TypeOK, Clock!BarrierTypeOK
<1>4. LockInv' /\ NoDangling'
  BY <1>1, <1>2 DEF IInv, TypeOK, LockInv, NoDangling
<1>5. FreedInv'
  BY <1>1, <1>2 DEF IInv, TypeOK, FreedInv
<1>6. WalkInv'
  <2>1. \A u \in Thread : u # t => pc[u] \notin {"fpn", "next", "free", "fail"}
    BY <1>1 DEF IInv, LockInv
  <2>2. \A u \in Thread : pc'[u] \notin {"fpn", "next", "free", "fail"}
    BY <1>2, <2>1 DEF IInv, TypeOK
  <2>3. QED BY <2>2 DEF WalkInv
<1>7. HeldInv' /\ NoFrameTwice' /\ NoneMissingWhileAnyLeft'
  BY <1>2 DEF IInv, Held, HeldInv, NoFrameTwice, NoneMissingWhileAnyLeft
<1>8. QED BY <1>3, <1>4, <1>5, <1>6, <1>7 DEF IInv

(* Every step preserves the invariant. *)
LEMMA NextIInv == IInv /\ [AllocNext]_vars => IInv'
<1> SUFFICES ASSUME IInv, [AllocNext]_vars PROVE IInv'
  OBVIOUS
<1>1. CASE timer_tick
  <2>1. CASE Thread = {}
    <3>1. UNCHANGED <<mmvm_lock, free_fp_list, freed, pc, fp, want, frames, got>>
      BY <1>1 DEF timer_tick
    <3>2. Clock!BarrierTypeOK'
      BY <1>1 DEF IInv, TypeOK, timer_tick, Clock!BarrierTypeOK, Clock!Tick
    <3>3. QED
      BY <3>1, <3>2 DEF IInv, TypeOK, LockInv, WalkInv, FreedInv,
                        Held, HeldInv, NoFrameTwice, NoneMissingWhileAnyLeft,
                        NoDangling
  <2>2. CASE Thread # {}
    BY <1>1, <2>2, CallIInv
  <2>3. QED BY <2>1, <2>2
<1>2. ASSUME NEW t \in Thread, AllocStep(t) PROVE IInv'
  BY <1>2, CallIInv, WalkIInv, NextNodeIInv, FreeNodeIInv, GiveBackIInv
  DEF AllocStep
<1>3. CASE UNCHANGED vars
  BY <1>3 DEF vars, IInv, TypeOK, LockInv, WalkInv, FreedInv, Held, HeldInv,
              NoFrameTwice, NoneMissingWhileAnyLeft, NoDangling,
              Clock!BarrierTypeOK
<1>4. QED BY <1>1, <1>2, <1>3 DEF AllocNext

THEOREM Invariance == AllocSafety => []IInv
BY InitIInv, NextIInv, PTL DEF AllocSafety

-----------------------------------------------------------------------------
(* The variables of the frame list and its callers keep their types. *)
THEOREM TypeCorrect == AllocSafety => []TypeOK
<1>1. IInv => TypeOK
  BY DEF IInv
<1>2. QED BY Invariance, <1>1, PTL

(* Under mmvm_lock, MEMPHY_get_freefp gives no frame to two threads. *)
THEOREM NoFrameTwiceHolds == AllocSafety => []NoFrameTwice
<1>1. IInv => NoFrameTwice
  BY DEF IInv
<1>2. QED BY Invariance, <1>1, PTL

(* Under mmvm_lock, every frame that has left the list has an owner until
   the list is empty. *)
THEOREM NoneMissingHolds == AllocSafety => []NoneMissingWhileAnyLeft
<1>1. IInv => NoneMissingWhileAnyLeft
  BY DEF IInv
<1>2. QED BY Invariance, <1>1, PTL

(* Under mmvm_lock, no freed node of the list is used. *)
THEOREM NoDanglingHolds == AllocSafety => []NoDangling
<1>1. IInv => NoDangling
  BY DEF IInv
<1>2. QED BY Invariance, <1>1, PTL

-----------------------------------------------------------------------------
(* A step that moves neither the list nor the frames is none of the pool. *)
LEMMA QuietPool ==
  ASSUME UNCHANGED free_fp_list, \A t \in Thread : Held(t)' = Held(t)
  PROVE  UNCHANGED Pool!poolVars
<1>1. [t \in Thread |-> Held(t)'] = [t \in Thread |-> Held(t)]
  OBVIOUS
<1>2. QED BY <1>1 DEF Pool!poolVars

(* Moving the list on is taking its first frame. *)
LEMMA NextNodeTakes ==
  ASSUME IInv, NEW t \in Thread, get_next(t)
  PROVE  Pool!PoolNext
<1> USE FramesAssumption
<1> DEFINE f == free_fp_list
<1>1. /\ f \in Frame
      /\ free_fp_list' = f + 1
      /\ [u \in Thread |-> Held(u)'] =
           [[u \in Thread |-> Held(u)] EXCEPT ![t] = @ \cup {f}]
  BY NextNode
<1>2. (free_fp_list..(numfp - 1))' = (free_fp_list..(numfp - 1)) \ {f}
  BY <1>1 DEF Frame
<1>3. f \in free_fp_list..(numfp - 1)
  BY <1>1 DEF Frame
<1>4. \A g \in free_fp_list..(numfp - 1) : f <= g
  BY <1>1 DEF Frame
<1>5. Pool!Take(t, f)
  BY <1>1, <1>2, <1>3, <1>4 DEF Pool!Take
<1>6. f \in 0..(numfp - 1)
  BY <1>1 DEF Frame
<1>7. QED BY <1>5, <1>6 DEF Pool!PoolNext

(* A clean-up forgets the frames of its request, when none is left. *)
LEMMA GiveBackForgets ==
  ASSUME IInv, NEW t \in Thread, give_back(t)
  PROVE  Pool!PoolNext
<1> USE FramesAssumption
<1> DEFINE F == frames[t] \ got[t]
<1>1. /\ free_fp_list = numfp /\ free_fp_list' = free_fp_list
      /\ [u \in Thread |-> Held(u)'] =
           [[u \in Thread |-> Held(u)] EXCEPT ![t] = @ \ F]
  BY GiveBackIInv
<1>2. free_fp_list..(numfp - 1) = {}
  BY <1>1
<1>3. F \in SUBSET (0..(numfp - 1)) /\ F \subseteq Held(t)
  BY DEF IInv, TypeOK, Frame, Held
<1>4. Pool!Forget(t, F)
  BY <1>1, <1>2, <1>3 DEF Pool!Forget
<1>5. QED BY <1>3, <1>4 DEF Pool!PoolNext

(* With every caller under mmvm_lock the list of frames, accessed step by
   step, behaves like the pool of FramePool.tla, in which a frame is taken
   at once. *)
THEOREM ImplementsPool == AllocSafety => PoolSpec
<1>1. Init => Pool!PoolInit
  BY FramesAssumption DEF Init, Pool!PoolInit, Held
<1>2. IInv /\ [AllocNext]_vars => [Pool!PoolNext]_(Pool!poolVars)
  <2> SUFFICES ASSUME IInv, [AllocNext]_vars
               PROVE  Pool!PoolNext \/ UNCHANGED Pool!poolVars
    OBVIOUS
  <2>1. ASSUME NEW t \in Thread, get_next(t) PROVE Pool!PoolNext
    BY <2>1, NextNodeTakes
  <2>2. ASSUME NEW t \in Thread, give_back(t) PROVE Pool!PoolNext
    BY <2>2, GiveBackForgets
  <2>3. ASSUME NEW t \in Thread, loop_done(t) PROVE UNCHANGED Pool!poolVars
    BY <2>3, QuietPool DEF loop_done, Held, IInv, TypeOK
  <2>4. ASSUME NEW t \in Thread, AllocStep(t),
               ~get_next(t), ~give_back(t), ~loop_done(t)
        PROVE  UNCHANGED Pool!poolVars
    <3>1. UNCHANGED <<free_fp_list, frames, got>>
      BY <2>4 DEF AllocStep, liballoc, other, leave, acquire, get_head, get_fpn,
                  get_free, return
    <3>2. QED BY <3>1, QuietPool DEF Held
  <2>5. CASE timer_tick \/ UNCHANGED vars
    BY <2>5, QuietPool DEF timer_tick, vars, Held
  <2>6. QED BY <2>1, <2>2, <2>3, <2>4, <2>5 DEF AllocNext
<1>3. QED
  BY <1>1, <1>2, Invariance, PTL DEF AllocSafety, PoolSpec, Pool!PoolSpec
=============================================================================

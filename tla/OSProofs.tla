------------------------------ MODULE OSProofs ------------------------------
(***************************************************************************)
(* Proofs about OS.tla, for any number of CPUs and processes, any time     *)
(* slot, code sizes and start times.                                       *)
(***************************************************************************)
EXTENDS OS, MLQProofs

\* Where a CPU is in its loop, in the slot, and what it holds.
CpuInv ==
  \A c \in Cpu :
    /\ cpc[c] \in {"put", "get", "recheck"} => st[c] = "work"
    /\ cpc[c] = "top" => st[c] # "gone"
    /\ cpc[c] = "put" => proc[c] # NULL
    /\ cpc[c] = "get" => proc[c] = NULL
    /\ cpc[c] = "stopped" => st[c] = "gone" /\ proc[c] = NULL /\ done

\* The same for the loader, and what done says.
LoaderInv ==
  /\ lpc \in {"wait", "add"} => i <= num_processes
  /\ lpc = "add" => st[ld] = "work"
  /\ done <=> lpc = "exited"
  /\ done => i = num_processes + 1 /\ st[ld] = "gone"

\* Values of left: what a program has to go.
Rest == UNION {0..n : n \in CodeSizes \cup {0}}

\* The type invariant without the variables of the scheduler.
CallerTypeOK ==
  /\ now \in 0..MaxStart
  /\ st \in [Cpu \cup {ld} -> {"work", "parked", "gone"}]
  /\ done \in BOOLEAN
  /\ lpc \in {"load", "wait", "add", "exited"}
  /\ i \in 1..(num_processes + 1)
  /\ start_time \in 0..MaxStart
  /\ proc \in [Cpu -> Proc \cup {NULL}]
  /\ time_left \in [Cpu -> 0..time_slot]
  /\ cpc \in [Cpu -> {"top", "put", "get", "recheck", "stopped"}]
  /\ left \in [Proc -> Rest]
  /\ finished \in SUBSET Proc
  /\ ran \in SUBSET Proc

IInv == SchedInv /\ CallerTypeOK /\ CpuInv /\ LoaderInv

(* What an instruction leaves of a program. *)
LEMMA RestType ==
  /\ 0 \in Rest /\ CodeSizes \subseteq Rest
  /\ \A x \in Rest : x \in Nat /\ (x # 0 => x - 1 \in Rest)
<1> USE OSAssumption
<1>1. 0 \in Rest
  <2>1. 0 \in 0..0
    OBVIOUS
  <2>2. QED BY <2>1 DEF Rest
<1>2. ASSUME NEW n \in CodeSizes PROVE n \in Rest
  <2>1. n \in 0..n
    OBVIOUS
  <2>2. QED BY <2>1 DEF Rest
<1>3. ASSUME NEW x \in Rest PROVE x \in Nat /\ (x # 0 => x - 1 \in Rest)
  <2>1. PICK n \in CodeSizes \cup {0} : x \in 0..n
    BY DEF Rest
  <2>2. x \in Nat /\ n \in Nat /\ (x # 0 => x - 1 \in 0..n)
    BY <2>1
  <2>3. QED BY <2>2 DEF Rest
<1>4. QED BY <1>1, <1>2, <1>3

-----------------------------------------------------------------------------
(* The invariant holds when the threads start. *)
LEMMA InitIInv == Init => IInv
<1> SUFFICES ASSUME Init PROVE IInv
  OBVIOUS
<1> USE MLQAssumption, OSAssumption DEF Init, init_scheduler, Level
<1>1. SchedInv
  BY DEF SchedInv, SchedTypeOK, LevelInv, SearchInv, SlotBudget
<1>2. CallerTypeOK
  <2>1. left \in [Proc -> Rest] /\ done \in BOOLEAN
    BY RestType
  <2>2. /\ st \in [Cpu \cup {ld} -> {"work", "parked", "gone"}]
        /\ now \in 0..MaxStart
    BY DEF Clock!BarrierInit
  <2>3. i \in 1..(num_processes + 1) /\ start_time \in 0..MaxStart
    OBVIOUS
  <2>4. proc \in [Cpu -> Proc \cup {NULL}]
    OBVIOUS
  <2>5. time_left \in [Cpu -> 0..time_slot]
    OBVIOUS
  <2>6. cpc \in [Cpu -> {"top", "put", "get", "recheck", "stopped"}]
    OBVIOUS
  <2>7. QED BY <2>1, <2>2, <2>3, <2>4, <2>5, <2>6 DEF CallerTypeOK
<1>3. CpuInv /\ LoaderInv
  BY DEF CpuInv, LoaderInv, Clock!BarrierInit
<1>4. QED BY <1>1, <1>2, <1>3 DEF IInv

(* The steps of the loader preserve it. *)
LEMMA LoaderIInv == IInv /\ LoaderStep => IInv'
<1> SUFFICES ASSUME IInv, LoaderStep PROVE IInv'
  OBVIOUS
<1> USE OSAssumption
<1>0. SchedInv /\ CallerTypeOK /\ CpuInv /\ LoaderInv
  BY DEF IInv
<1>1. i <= num_processes => i \in Proc
  BY <1>0 DEF CallerTypeOK
<1>2. ASSUME UNCHANGED schedVars PROVE SchedInv'
  BY <1>0, <1>2
  DEF schedVars, SchedInv, SchedTypeOK, LevelInv, SearchInv, SlotBudget
<1>3. CASE ld_load
  <2>1. SchedInv'
    BY <1>2, <1>3 DEF ld_load
  <2>2. CallerTypeOK'
    BY <1>0, <1>1, <1>3, RestType DEF ld_load, CallerTypeOK, clockVars, cpuVars
  <2>3. CpuInv' /\ LoaderInv'
    BY <1>0, <1>3 DEF ld_load, CallerTypeOK, CpuInv, LoaderInv, clockVars, cpuVars
  <2>4. QED BY <2>1, <2>2, <2>3 DEF IInv
<1>4. CASE ld_wait
  <2>1. SchedInv'
    BY <1>2, <1>4 DEF ld_wait
  <2>2. CallerTypeOK'
    BY <1>0, <1>4
    DEF ld_wait, CallerTypeOK, loaderVars, cpuVars, procVars, Clock!Park
  <2>3. CpuInv' /\ LoaderInv'
    BY <1>0, <1>4
    DEF ld_wait, CallerTypeOK, CpuInv, LoaderInv, loaderVars, cpuVars, Clock!Park
  <2>4. QED BY <2>1, <2>2, <2>3 DEF IInv
<1>5. CASE ld_add
  <2>1. SchedInv'
    BY <1>0, <1>1, <1>5, RunningListKeeps DEF ld_add, LoaderInv
  <2>2. CallerTypeOK'
    BY <1>0, <1>5 DEF ld_add, CallerTypeOK, clockVars, cpuVars, procVars
  <2>3. CpuInv' /\ LoaderInv'
    BY <1>0, <1>5 DEF ld_add, CallerTypeOK, CpuInv, LoaderInv, clockVars, cpuVars
  <2>4. QED BY <2>1, <2>2, <2>3 DEF IInv
<1>6. CASE ld_added
  <2>1. SchedInv'
    BY <1>0, <1>1, <1>6, MlqKeeps DEF ld_added, LoaderInv
  <2>2. CallerTypeOK'
    BY <1>0, <1>6
    DEF ld_added, CallerTypeOK, LoaderInv, cpuVars, procVars, Clock!Park
  <2>3. CpuInv' /\ LoaderInv'
    BY <1>0, <1>6
    DEF ld_added, CallerTypeOK, CpuInv, LoaderInv, cpuVars, Clock!Park
  <2>4. QED BY <2>1, <2>2, <2>3 DEF IInv
<1>7. CASE ld_done
  <2>1. SchedInv'
    BY <1>2, <1>7 DEF ld_done
  <2>2. CallerTypeOK'
    BY <1>0, <1>7 DEF ld_done, CallerTypeOK, cpuVars, procVars, Clock!Leave
  <2>3. CpuInv' /\ LoaderInv'
    BY <1>0, <1>7
    DEF ld_done, CallerTypeOK, CpuInv, LoaderInv, cpuVars, Clock!Leave
  <2>4. QED BY <2>1, <2>2, <2>3 DEF IInv
<1>8. QED BY <1>3, <1>4, <1>5, <1>6, <1>7 DEF LoaderStep

(* The steps of a CPU preserve it. *)
LEMMA CpuIInv ==
  ASSUME NEW c \in Cpu
  PROVE  IInv /\ CpuStep(c) => IInv'
<1> SUFFICES ASSUME IInv, CpuStep(c) PROVE IInv'
  OBVIOUS
<1> USE OSAssumption
<1>0. SchedInv /\ CallerTypeOK /\ CpuInv /\ LoaderInv
  BY DEF IInv
<1>1. ld # c /\ (proc[c] # NULL => proc[c] \in Proc)
  BY <1>0 DEF CallerTypeOK
<1>2. ASSUME UNCHANGED schedVars PROVE SchedInv'
  BY <1>0, <1>2
  DEF schedVars, SchedInv, SchedTypeOK, LevelInv, SearchInv, SlotBudget
<1>3. ASSUME GetInto(c) PROVE SchedInv' /\ proc' \in [Cpu -> Proc \cup {NULL}]
  BY <1>0, <1>3, GetKeeps DEF GetInto, CallerTypeOK
<1>G. ASSUME GetInto(c) PROVE \A d \in Cpu \ {c} : proc'[d] = proc[d]
  BY <1>0, <1>G DEF GetInto, CallerTypeOK
<1>4. CASE cpu_idle(c)
  <2>1. SchedInv' /\ proc' \in [Cpu -> Proc \cup {NULL}]
        /\ \A d \in Cpu \ {c} : proc'[d] = proc[d]
    BY <1>3, <1>4, <1>G DEF cpu_idle
  <2>2. CallerTypeOK'
    BY <1>0, <1>4, <2>1
    DEF cpu_idle, CallerTypeOK, loaderVars, procVars, clockVars, Clock!Park
  <2>3. CpuInv' /\ LoaderInv'
    BY <1>0, <1>1, <1>4, <2>1
    DEF cpu_idle, CallerTypeOK, CpuInv, LoaderInv, loaderVars, clockVars, Clock!Park
  <2>4. QED BY <2>1, <2>2, <2>3 DEF IInv
<1>5. CASE cpu_finish(c)
  <2>1. SchedInv'
    BY <1>2, <1>5 DEF cpu_finish
  <2>2. time_left' \in [Cpu -> 0..time_slot] /\ finished' \in SUBSET Proc
    <3>1. time_left' = [time_left EXCEPT ![c] = 0] /\ 0 \in 0..time_slot
      BY <1>5 DEF cpu_finish
    <3>2. finished' = finished \cup {proc[c]} /\ proc[c] \in Proc
      BY <1>1, <1>5 DEF cpu_finish
    <3>3. QED BY <1>0, <3>1, <3>2 DEF CallerTypeOK
  <2>3. CallerTypeOK'
    BY <1>0, <1>5, <2>2 DEF cpu_finish, CallerTypeOK, loaderVars, clockVars
  <2>4. CpuInv' /\ LoaderInv'
    BY <1>0, <1>5
    DEF cpu_finish, CallerTypeOK, CpuInv, LoaderInv, loaderVars, clockVars
  <2>5. QED BY <2>1, <2>3, <2>4 DEF IInv
<1>6. CASE cpu_put(c)
  <2>1. SchedInv'
    BY <1>0, <1>1, <1>6, RunningListKeeps DEF cpu_put
  <2>2. CallerTypeOK'
    BY <1>0, <1>6 DEF cpu_put, CallerTypeOK, loaderVars, clockVars, procVars
  <2>3. CpuInv' /\ LoaderInv'
    BY <1>0, <1>6
    DEF cpu_put, CallerTypeOK, CpuInv, LoaderInv, loaderVars, clockVars
  <2>4. QED BY <2>1, <2>2, <2>3 DEF IInv
<1>7. CASE cpu_requeue(c)
  <2>1. SchedInv'
    BY <1>0, <1>1, <1>7, MlqKeeps DEF cpu_requeue, CpuInv
  <2>2. CallerTypeOK'
    BY <1>0, <1>7 DEF cpu_requeue, CallerTypeOK, loaderVars, clockVars, procVars
  <2>3. CpuInv' /\ LoaderInv'
    BY <1>0, <1>7
    DEF cpu_requeue, CallerTypeOK, CpuInv, LoaderInv, loaderVars, clockVars
  <2>4. QED BY <2>1, <2>2, <2>3 DEF IInv
<1>8. CASE cpu_get(c)
  <2>1. SchedInv' /\ proc' \in [Cpu -> Proc \cup {NULL}]
        /\ \A d \in Cpu \ {c} : proc'[d] = proc[d]
    BY <1>3, <1>8, <1>G DEF cpu_get
  <2>2. CallerTypeOK'
    BY <1>0, <1>8, <2>1
    DEF cpu_get, CallerTypeOK, loaderVars, procVars, clockVars
  <2>3. CpuInv' /\ LoaderInv'
    BY <1>0, <1>8, <2>1
    DEF cpu_get, CallerTypeOK, CpuInv, LoaderInv, loaderVars, clockVars
  <2>4. QED BY <2>1, <2>2, <2>3 DEF IInv
<1>9. CASE cpu_stop(c)
  <2>1. SchedInv'
    BY <1>2, <1>9 DEF cpu_stop
  <2>2. CallerTypeOK'
    BY <1>0, <1>9 DEF cpu_stop, CallerTypeOK, loaderVars, procVars, Clock!Leave
  <2>3. CpuInv' /\ LoaderInv'
    BY <1>0, <1>1, <1>9
    DEF cpu_stop, CallerTypeOK, CpuInv, LoaderInv, loaderVars, Clock!Leave
  <2>4. QED BY <2>1, <2>2, <2>3 DEF IInv
<1>10. CASE cpu_skip(c)
  <2>1. SchedInv'
    BY <1>2, <1>10 DEF cpu_skip
  <2>2. CallerTypeOK'
    BY <1>0, <1>10 DEF cpu_skip, CallerTypeOK, loaderVars, procVars, Clock!Park
  <2>3. CpuInv' /\ LoaderInv'
    BY <1>0, <1>1, <1>10
    DEF cpu_skip, CallerTypeOK, CpuInv, LoaderInv, loaderVars, Clock!Park
  <2>4. QED BY <2>1, <2>2, <2>3 DEF IInv
<1>11. CASE cpu_run(c)
  <2>1. SchedInv'
    BY <1>2, <1>11 DEF cpu_run
  <2>2. time_left' \in [Cpu -> 0..time_slot]
    BY <1>0, <1>11 DEF cpu_run, CallerTypeOK
  <2>3. left' \in [Proc -> Rest]
    BY <1>0, <1>1, <1>11, RestType DEF cpu_run, CallerTypeOK
  <2>4. CallerTypeOK'
    BY <1>0, <1>1, <1>11, <2>2, <2>3
    DEF cpu_run, CallerTypeOK, loaderVars, Clock!Park
  <2>5. CpuInv' /\ LoaderInv'
    BY <1>0, <1>1, <1>11
    DEF cpu_run, CallerTypeOK, CpuInv, LoaderInv, loaderVars, Clock!Park
  <2>6. QED BY <2>1, <2>4, <2>5 DEF IInv
<1>12. QED
  BY <1>4, <1>5, <1>6, <1>7, <1>8, <1>9, <1>10, <1>11 DEF CpuStep

(* So does every step. *)
LEMMA NextIInv == IInv /\ [Next]_vars => IInv'
<1> SUFFICES ASSUME IInv, [Next]_vars PROVE IInv'
  OBVIOUS
<1>0. SchedInv /\ CallerTypeOK /\ CpuInv /\ LoaderInv
  BY DEF IInv
<1>1. ASSUME UNCHANGED schedVars PROVE SchedInv'
  BY <1>0, <1>1
  DEF schedVars, SchedInv, SchedTypeOK, LevelInv, SearchInv, SlotBudget
<1>2. CASE timer_tick
  <2>1. SchedInv'
    BY <1>1, <1>2 DEF timer_tick
  <2>2. CallerTypeOK'
    BY <1>0, <1>2, OSAssumption
    DEF timer_tick, CallerTypeOK, loaderVars, cpuVars, Clock!Tick
  <2>3. CpuInv' /\ LoaderInv'
    BY <1>0, <1>2
    DEF timer_tick, CallerTypeOK, CpuInv, LoaderInv, loaderVars, cpuVars, Clock!Tick
  <2>4. QED BY <2>1, <2>2, <2>3 DEF IInv
<1>3. CASE UNCHANGED vars
  <2>1. SchedInv'
    BY <1>1, <1>3 DEF vars
  <2>2. CallerTypeOK' /\ CpuInv' /\ LoaderInv'
    BY <1>0, <1>3
    DEF vars, clockVars, loaderVars, cpuVars, procVars, CallerTypeOK, CpuInv, LoaderInv
  <2>3. QED BY <2>1, <2>2 DEF IInv
<1>4. QED BY <1>2, <1>3, LoaderIInv, CpuIInv DEF Next

(* The invariant holds in every reachable state. *)
THEOREM Invariance == Safety => []IInv
BY InitIInv, NextIInv, PTL DEF Safety

(* The variables of the threads, the clock and the scheduler keep their
   types. *)
THEOREM TypeCorrect == Safety => []TypeOK
<1>1. IInv => TypeOK
  BY DEF IInv, TypeOK, SchedInv, CallerTypeOK, Rest, Clock!BarrierTypeOK
<1>2. QED BY Invariance, <1>1, PTL

-----------------------------------------------------------------------------
(* Conservation. *)

\* EachProcessOnce without its last part, which is Orderly; and what the
\* loader is adding is in no CPU's hands.
OncePerProc ==
  \A p \in Proc :
    /\ Unborn(p) \/ InHand(p) \/ p \in Ready \/ p \in finished
    /\ p \in Ready => ~InHand(p) /\ ~Unborn(p) /\ p \notin finished
    /\ InHand(p) => ~Unborn(p) /\ p \notin finished
    /\ Unborn(p) => p \notin finished
    /\ \A c, d \in Cpu : proc[c] = p /\ proc[d] = p => c = d
    /\ \A c \in Cpu : proc[c] = p => ~(lpc = "add" /\ i = p)

PlaceInv == Orderly(mlq_ready_queue) /\ OncePerProc

(* At the start every process is with the loader. *)
LEMMA InitPlaceInv == Init => PlaceInv
<1> SUFFICES ASSUME Init PROVE PlaceInv
  OBVIOUS
<1>1. Orderly(mlq_ready_queue) /\ Ready = {}
  BY EmptyOrderly DEF Init, init_scheduler
<1>2. \A p \in Proc : p \in Nat /\ p >= 1
  BY OSAssumption
<1>3. OncePerProc
  BY <1>1, <1>2, MLQAssumption DEF Init, OncePerProc, InHand, Unborn
<1>4. QED BY <1>1, <1>3 DEF PlaceInv

(* A step that moves no process. *)
LEMMA StayPlaceInv ==
  ASSUME PlaceInv,
         UNCHANGED <<mlq_ready_queue, proc, finished>>,
         \A p \in Proc : (Unborn(p)' <=> Unborn(p))
                         /\ ((lpc = "add" /\ i = p)' <=> (lpc = "add" /\ i = p))
  PROVE  PlaceInv'
<1>1. Orderly(mlq_ready_queue') /\ Ready' = Ready /\ OncePerProc
  BY DEF PlaceInv, Ready
<1>2. OncePerProc'
  BY <1>1 DEF OncePerProc, InHand
<1>3. QED BY <1>1, <1>2 DEF PlaceInv

(* Every step moves at most one process, from one place to another. *)
LEMMA NextPlaceInv ==
  ASSUME LevelsFit
  PROVE  IInv /\ PlaceInv /\ [Next]_vars => PlaceInv'
<1> SUFFICES ASSUME IInv, PlaceInv, [Next]_vars PROVE PlaceInv'
  OBVIOUS
<1> USE MLQAssumption
<1>0. /\ SchedInv /\ CpuInv /\ LoaderInv
      /\ Orderly(mlq_ready_queue) /\ OncePerProc
  BY DEF IInv, PlaceInv
<1>T. /\ i \in Nat /\ Proc \subseteq Nat
      /\ i <= num_processes => i \in Proc
      /\ proc \in [Cpu -> Proc \cup {NULL}]
  BY OSAssumption DEF IInv, CallerTypeOK
<1>1. CASE ld_load \/ ld_wait
  BY <1>1, StayPlaceInv
  DEF ld_load, ld_wait, Unborn, schedVars, loaderVars, cpuVars, procVars
<1>2. CASE ld_add
  <2>1. Orderly(mlq_ready_queue') /\ Ready' = Ready
    BY <1>0, <1>2 DEF ld_add, put_running_list, Ready
  <2>2. OncePerProc'
    BY <1>0, <1>2, <1>T, <2>1
    DEF ld_add, OncePerProc, InHand, Unborn, cpuVars, procVars
  <2>3. QED BY <2>1, <2>2 DEF PlaceInv
<1>3. CASE ld_added
  <2>1. i \in Proc /\ put_mlq_proc(i) /\ lpc = "add"
    BY <1>0, <1>3, <1>T DEF ld_added, LoaderInv
  <2>2. i \notin Ready
    BY <1>0, <2>1 DEF OncePerProc, InHand
  <2>3. Orderly(mlq_ready_queue') /\ Ready' = Ready \cup {i}
    BY <1>0, <2>1, <2>2, PutAdds
  <2>4. \A p \in Proc : Unborn(p)' <=> Unborn(p)
    BY <1>3, <1>T DEF ld_added, Unborn
  <2>5. OncePerProc'
    BY <1>0, <1>3, <1>T, <2>1, <2>3, <2>4
    DEF ld_added, OncePerProc, InHand, cpuVars, procVars
  <2>6. QED BY <2>3, <2>5 DEF PlaceInv
<1>4. CASE ld_done
  BY <1>4, StayPlaceInv
  DEF ld_done, Unborn, schedVars, cpuVars, procVars
<1>5. ASSUME NEW c \in Cpu, GetInto(c), proc[c] = NULL,
             UNCHANGED <<loaderVars, finished>>
      PROVE  PlaceInv'
  <2>1. PICK ret \in Proc \cup {NULL} :
          get_proc(ret) /\ proc' = [proc EXCEPT ![c] = ret]
    BY <1>5 DEF GetInto
  <2>2. /\ Orderly(mlq_ready_queue')
        /\ \/ ret = NULL /\ Ready' = Ready
           \/ ret \in Proc /\ ret \in Ready /\ Ready' = Ready \ {ret}
    BY <1>0, <2>1, GetTakes
  <2>3. \A p \in Proc : Unborn(p)' <=> Unborn(p)
    BY <1>5 DEF Unborn, loaderVars
  <2>4. OncePerProc'
    BY <1>0, <1>5, <1>T, <2>1, <2>2, <2>3 DEF OncePerProc, InHand, loaderVars
  <2>5. QED BY <2>2, <2>4 DEF PlaceInv
<1>6. ASSUME NEW c \in Cpu, cpu_idle(c) \/ cpu_get(c) PROVE PlaceInv'
  BY <1>0, <1>5, <1>6 DEF cpu_idle, cpu_get, CpuInv, procVars
<1>7. ASSUME NEW c \in Cpu, cpu_finish(c) PROVE PlaceInv'
  <2>1. Orderly(mlq_ready_queue') /\ Ready' = Ready
    BY <1>0, <1>7 DEF cpu_finish, schedVars, Ready
  <2>2. \A p \in Proc : Unborn(p)' <=> Unborn(p)
    BY <1>7 DEF cpu_finish, Unborn, loaderVars
  <2>3. OncePerProc'
    BY <1>0, <1>7, <1>T, <2>1, <2>2
    DEF cpu_finish, OncePerProc, InHand, loaderVars
  <2>4. QED BY <2>1, <2>3 DEF PlaceInv
<1>8. ASSUME NEW c \in Cpu, cpu_put(c) PROVE PlaceInv'
  BY <1>8, StayPlaceInv
  DEF cpu_put, put_running_list, Unborn, loaderVars, procVars
<1>9. ASSUME NEW c \in Cpu, cpu_requeue(c) PROVE PlaceInv'
  <2>1. proc[c] \in Proc /\ put_mlq_proc(proc[c])
    BY <1>0, <1>9, <1>T DEF cpu_requeue, CpuInv
  <2>2. proc[c] \notin Ready
    BY <1>0, <2>1 DEF OncePerProc, InHand
  <2>3. Orderly(mlq_ready_queue') /\ Ready' = Ready \cup {proc[c]}
    BY <1>0, <2>1, <2>2, PutAdds
  <2>4. \A p \in Proc : Unborn(p)' <=> Unborn(p)
    BY <1>9 DEF cpu_requeue, Unborn, loaderVars
  <2>5. OncePerProc'
    BY <1>0, <1>9, <1>T, <2>1, <2>3, <2>4
    DEF cpu_requeue, OncePerProc, InHand, loaderVars, procVars
  <2>6. QED BY <2>3, <2>5 DEF PlaceInv
<1>10. ASSUME NEW c \in Cpu, cpu_stop(c) \/ cpu_skip(c) \/ cpu_run(c)
       PROVE  PlaceInv'
  BY <1>10, StayPlaceInv
  DEF cpu_stop, cpu_skip, cpu_run, Unborn, schedVars, loaderVars, procVars
<1>11. CASE timer_tick
  BY <1>11, StayPlaceInv
  DEF timer_tick, Unborn, schedVars, loaderVars, cpuVars
<1>12. CASE UNCHANGED vars
  BY <1>12, StayPlaceInv
  DEF vars, Unborn, schedVars, loaderVars, cpuVars, procVars
<1>13. QED
  BY <1>1, <1>2, <1>3, <1>4, <1>6, <1>7, <1>8, <1>9, <1>10, <1>11, <1>12
  DEF Next, LoaderStep, CpuStep

(* The places are as they should be in every reachable state, if every
   level fits into a queue. *)
THEOREM PlaceInvariance ==
  ASSUME LevelsFit
  PROVE  Safety => []PlaceInv
<1>1. IInv /\ PlaceInv /\ [Next]_vars => PlaceInv'
  BY NextPlaceInv
<1>2. QED BY Invariance, InitPlaceInv, <1>1, PTL DEF Safety

(* No process is lost or doubled between the loader, the CPUs and the
   queues. *)
THEOREM EachProcessOnceHolds ==
  ASSUME LevelsFit
  PROVE  Safety => []EachProcessOnce
<1>1. ASSUME PlaceInv PROVE EachProcessOnce
  <2>1. ASSUME NEW p \in Proc, NEW l \in Level,
               NEW j \in QueuedAt(p, l), NEW k \in QueuedAt(p, l)
        PROVE  j = k /\ l = prio[p]
    <3>1. /\ j \in 1..Len(mlq_ready_queue[l]) /\ mlq_ready_queue[l][j] = p
          /\ k \in 1..Len(mlq_ready_queue[l]) /\ mlq_ready_queue[l][k] = p
      BY DEF QueuedAt
    <3>2. QED BY <1>1, <3>1, OnePlace DEF PlaceInv
  <2>2. QED BY <1>1, <2>1 DEF PlaceInv, OncePerProc, EachProcessOnce
<1>2. QED BY PlaceInvariance, <1>1, PTL

-----------------------------------------------------------------------------
(* One instruction per slot. *)

\* Who ran in this slot is still with the CPU that ran it, and that CPU
\* waits for the next slot.
RanInv ==
  \A p \in ran : \E c \in Cpu :
    proc[c] = p /\ cpc[c] = "top" /\ st[c] = "parked"

(* A waiting CPU makes no step, and the step that ends its waiting starts a
   new slot. *)
LEMMA NextRanInv == IInv /\ RanInv /\ [Next]_vars => RanInv'
<1> SUFFICES ASSUME IInv, RanInv, [Next]_vars PROVE RanInv'
  OBVIOUS
<1> USE OSAssumption
<1>0. CallerTypeOK /\ CpuInv
  BY DEF IInv
<1>1. ASSUME NEW c \in Cpu, CpuStep(c)
      PROVE  /\ cpc[c] # "top" \/ st[c] = "work"
             /\ \A d \in Cpu \ {c} : /\ proc'[d] = proc[d] /\ cpc'[d] = cpc[d]
                                     /\ st'[d] = st[d]
             /\ ran' # ran => cpu_run(c)
  <2>1. CASE cpu_idle(c)
    BY <1>0, <2>1
    DEF cpu_idle, GetInto, CallerTypeOK, clockVars, procVars, Clock!Park
  <2>2. CASE cpu_finish(c)
    BY <1>0, <2>2 DEF cpu_finish, CallerTypeOK, clockVars
  <2>3. CASE cpu_put(c)
    BY <1>0, <2>3 DEF cpu_put, CallerTypeOK, clockVars, procVars
  <2>4. CASE cpu_requeue(c)
    BY <1>0, <2>4 DEF cpu_requeue, CallerTypeOK, clockVars, procVars
  <2>5. CASE cpu_get(c)
    BY <1>0, <2>5 DEF cpu_get, GetInto, CallerTypeOK, clockVars, procVars
  <2>6. CASE cpu_stop(c)
    BY <1>0, <2>6 DEF cpu_stop, CallerTypeOK, procVars, Clock!Leave
  <2>7. CASE cpu_skip(c)
    BY <1>0, <2>7 DEF cpu_skip, CallerTypeOK, procVars, Clock!Park
  <2>8. CASE cpu_run(c)
    BY <1>0, <2>8 DEF cpu_run, CallerTypeOK, Clock!Park
  <2>9. QED
    BY <1>1, <2>1, <2>2, <2>3, <2>4, <2>5, <2>6, <2>7, <2>8 DEF CpuStep
<1>2. ASSUME NEW c \in Cpu, CpuStep(c) PROVE RanInv'
  <2>1. \A p \in ran : \E d \in Cpu :
          proc'[d] = p /\ cpc'[d] = "top" /\ st'[d] = "parked"
    BY <1>0, <1>1, <1>2 DEF RanInv, CpuInv
  <2>2. CASE ran' = ran
    BY <2>1, <2>2 DEF RanInv
  <2>3. CASE cpu_run(c)
    <3>1. /\ ran' = ran \cup {proc[c]}
          /\ proc'[c] = proc[c] /\ cpc'[c] = "top" /\ st'[c] = "parked"
      BY <1>0, <2>3 DEF cpu_run, CallerTypeOK, Clock!Park
    <3>2. QED BY <2>1, <3>1 DEF RanInv
  <2>4. QED BY <1>1, <1>2, <2>2, <2>3
<1>3. CASE LoaderStep
  <2>1. UNCHANGED <<proc, cpc, ran>> /\ \A d \in Cpu : st'[d] = st[d]
    BY <1>0, <1>3
    DEF LoaderStep, ld_load, ld_wait, ld_add, ld_added, ld_done, CallerTypeOK,
        cpuVars, procVars, clockVars, Clock!Park, Clock!Leave
  <2>2. QED BY <2>1 DEF RanInv
<1>4. CASE timer_tick
  BY <1>4 DEF timer_tick, RanInv
<1>5. CASE UNCHANGED vars
  BY <1>5 DEF vars, clockVars, cpuVars, procVars, RanInv
<1>6. QED BY <1>2, <1>3, <1>4, <1>5 DEF Next

(* A process that ran in this slot does not run again in it, on this or on
   another CPU. *)
THEOREM OneInstructionPerSlotHolds ==
  ASSUME LevelsFit
  PROVE  Safety => OneInstructionPerSlot
<1>1. Init => RanInv
  BY DEF Init, RanInv
<1>2. ASSUME IInv, PlaceInv, RanInv, [Next]_vars, NEW p \in Proc,
             left'[p] < left[p], p \in ran
      PROVE  FALSE
  <2>0. CallerTypeOK /\ CpuInv /\ OncePerProc /\ left[p] \in Nat
    BY <1>2, RestType DEF IInv, PlaceInv, CallerTypeOK
  <2>1. PICK d \in Cpu : proc[d] = p /\ cpc[d] = "top" /\ st[d] = "parked"
    BY <1>2 DEF RanInv
  <2>2. ASSUME left' = left PROVE FALSE
    BY <1>2, <2>0, <2>2
  <2>3. CASE ld_load
    <3>1. ~Unborn(p)
      BY <2>0, <2>1 DEF OncePerProc, InHand
    <3>2. p # i
      BY <2>3, <3>1 DEF ld_load, Unborn
    <3>3. left'[p] = left[p]
      BY <2>0, <2>3, <3>2 DEF ld_load, CallerTypeOK
    <3>4. QED BY <1>2, <2>0, <3>3
  <2>4. ASSUME NEW c \in Cpu, cpu_run(c) PROVE FALSE
    <3>1. c # d /\ proc[c] # p
      BY <2>0, <2>1, <2>4 DEF cpu_run, OncePerProc
    <3>2. left'[p] = left[p]
      BY <2>0, <2>4, <3>1 DEF cpu_run, CallerTypeOK
    <3>3. QED BY <1>2, <2>0, <3>2
  <2>5. CASE ld_wait \/ ld_add \/ ld_added \/ ld_done
    BY <2>2, <2>5 DEF ld_wait, ld_add, ld_added, ld_done, procVars
  <2>6. ASSUME NEW c \in Cpu,
               \/ cpu_idle(c) \/ cpu_finish(c) \/ cpu_put(c) \/ cpu_requeue(c)
               \/ cpu_get(c) \/ cpu_stop(c) \/ cpu_skip(c)
        PROVE  FALSE
    BY <2>2, <2>6
    DEF cpu_idle, cpu_finish, cpu_put, cpu_requeue, cpu_get, cpu_stop, cpu_skip,
        procVars
  <2>7. CASE timer_tick
    BY <2>2, <2>7 DEF timer_tick
  <2>8. CASE UNCHANGED vars
    BY <2>2, <2>8 DEF vars, procVars
  <2>9. QED
    BY <1>2, <2>3, <2>4, <2>5, <2>6, <2>7, <2>8 DEF Next, LoaderStep, CpuStep
<1>3. ASSUME IInv, PlaceInv, RanInv, [Next]_vars
      PROVE  [\A p \in Proc : left'[p] < left[p] => p \notin ran]_vars
  BY <1>2, <1>3
<1>4. QED
  BY Invariance, PlaceInvariance, NextRanInv, <1>1, <1>3, PTL
  DEF Safety, OneInstructionPerSlot

-----------------------------------------------------------------------------
(* No process is abandoned, unless one has priority 0. *)

\* get_mlq_proc can only refuse a ready process (RefusedAtMostOnce in
\* Sched.tla) before the first dispatch.
FreshInv ==
  MarkedPrior = 0 /\ count = 0
    => \A c \in Cpu : cpc[c] = "top" /\ proc[c] = NULL

\* CPU c has stopped, or will if done is set.
GivesUp(c) == proc[c] = NULL /\ cpc[c] \in {"recheck", "stopped"}

\* If all have given up, nothing was ready, unless the loader has added a
\* process in this very slot; then done is not set before the next one.
ServeInv == (\A c \in Cpu : GivesUp(c)) => Ready = {} \/ st[ld] = "parked"

(* A dispatch leaves MarkedPrior at the level of the process, not 0, and a
   refusal leaves count at MAX_PRIO. *)
LEMMA GetNotFresh ==
  ASSUME \A p \in Proc : prio[p] # 0, SchedInv, Orderly(mlq_ready_queue),
         NEW ret, get_proc(ret)
  PROVE  ~(MarkedPrior' = 0 /\ count' = 0)
<1>1. CASE ret = NULL /\ get_none(ret)
  BY <1>1, MLQAssumption DEF get_none
<1>2. CASE ret \in Proc /\ MarkedPrior' = prio[ret]
  BY <1>2
<1>3. QED BY <1>1, <1>2, GetTakes

(* Every step preserves the two. *)
LEMMA NextServeInv ==
  ASSUME LevelsFit, \A p \in Proc : prio[p] # 0
  PROVE  IInv /\ PlaceInv /\ FreshInv /\ ServeInv /\ [Next]_vars
           => FreshInv' /\ ServeInv'
<1> SUFFICES ASSUME IInv, PlaceInv, FreshInv, ServeInv, [Next]_vars
             PROVE  FreshInv' /\ ServeInv'
  OBVIOUS
<1> USE OSAssumption
<1>0. /\ SchedInv /\ CallerTypeOK /\ CpuInv /\ LoaderInv
      /\ Orderly(mlq_ready_queue)
  BY DEF IInv, PlaceInv
<1>R. mlq_ready_queue' = mlq_ready_queue => Ready' = Ready
  BY DEF Ready
<1>G. ASSUME NEW c \in Cpu, GetInto(c) PROVE ~(MarkedPrior' = 0 /\ count' = 0)
  BY <1>0, <1>G, GetNotFresh DEF GetInto
<1>1. CASE LoaderStep
  <2>1. UNCHANGED <<proc, cpc, MarkedPrior, count>>
    BY <1>1
    DEF LoaderStep, ld_load, ld_wait, ld_add, ld_added, ld_done, cpuVars, schedVars,
        put_running_list, put_mlq_proc
  <2>2. \/ st'[ld] = "parked"
        \/ Ready' = Ready /\ st[ld] = "work"
        \/ Ready' = Ready /\ st'[ld] = st[ld]
    BY <1>0, <1>1, <1>R
    DEF LoaderStep, ld_load, ld_wait, ld_add, ld_added, ld_done, schedVars,
        clockVars, put_running_list, CallerTypeOK, Clock!Park, Clock!Leave
  <2>3. QED BY <2>1, <2>2 DEF FreshInv, ServeInv, GivesUp
<1>2. ASSUME NEW c \in Cpu, cpu_idle(c) PROVE FreshInv' /\ ServeInv'
  <2>1. FreshInv'
    BY <1>2, <1>G DEF cpu_idle, FreshInv
  <2>2. ~GivesUp(c)'
    BY <1>0, <1>2 DEF cpu_idle, GivesUp, CallerTypeOK
  <2>3. QED BY <2>1, <2>2 DEF ServeInv
<1>3. ASSUME NEW c \in Cpu, cpu_finish(c) \/ cpu_put(c) \/ cpu_requeue(c)
      PROVE  FreshInv' /\ ServeInv'
  <2>1. proc[c] # NULL /\ UNCHANGED <<MarkedPrior, count>>
    BY <1>0, <1>3
    DEF cpu_finish, cpu_put, cpu_requeue, CpuInv, schedVars, put_running_list,
        put_mlq_proc
  <2>2. FreshInv'
    BY <2>1 DEF FreshInv
  <2>3. ~GivesUp(c)'
    BY <1>0, <1>3 DEF cpu_finish, cpu_put, cpu_requeue, GivesUp, CallerTypeOK
  <2>4. QED BY <2>2, <2>3 DEF ServeInv
<1>4. ASSUME NEW c \in Cpu, cpu_get(c) PROVE FreshInv' /\ ServeInv'
  <2>1. FreshInv'
    BY <1>4, <1>G DEF cpu_get, FreshInv
  <2>2. PICK ret \in Proc \cup {NULL} :
          get_proc(ret) /\ proc' = [proc EXCEPT ![c] = ret]
    BY <1>4 DEF cpu_get, GetInto
  <2>3. CASE ret = NULL /\ get_none(ret) /\ Ready' = Ready
    <3>1. ~(MarkedPrior = 0 /\ count = 0)
      BY <1>4 DEF cpu_get, FreshInv
    <3>2. ~SkippedAll
      BY <1>0, <3>1, MLQAssumption
      DEF SchedInv, SchedTypeOK, SearchInv, SkippedAll, Level
    <3>3. \A l \in Level : mlq_ready_queue[l] = <<>>
      BY <2>3, <3>2 DEF get_none
    <3>4. Ready = {}
      BY <3>3 DEF Ready, ToSet
    <3>5. QED BY <2>1, <2>3, <3>4 DEF ServeInv
  <2>4. CASE ret \in Proc
    <3>1. ~GivesUp(c)'
      BY <1>0, <2>2, <2>4, MLQAssumption DEF GivesUp, CallerTypeOK
    <3>2. QED BY <2>1, <3>1 DEF ServeInv
  <2>5. QED BY <1>0, <2>2, <2>3, <2>4, GetTakes
<1>5. ASSUME NEW c \in Cpu, cpu_stop(c) PROVE FreshInv' /\ ServeInv'
  <2>1. /\ UNCHANGED <<MarkedPrior, count, proc, mlq_ready_queue>>
        /\ cpc[c] = "recheck" /\ proc[c] = NULL
        /\ \A d \in Cpu \ {c} : cpc'[d] = cpc[d]
        /\ st'[ld] = st[ld]
    BY <1>0, <1>5 DEF cpu_stop, schedVars, CallerTypeOK, Clock!Leave
  <2>2. QED BY <1>R, <2>1 DEF FreshInv, ServeInv, GivesUp
<1>6. ASSUME NEW c \in Cpu, cpu_skip(c) \/ cpu_run(c) PROVE FreshInv' /\ ServeInv'
  <2>1. /\ UNCHANGED <<MarkedPrior, count, proc>> /\ cpc'[c] = "top"
        /\ \A d \in Cpu \ {c} : cpc'[d] = cpc[d]
    BY <1>0, <1>6 DEF cpu_skip, cpu_run, schedVars, CallerTypeOK
  <2>2. QED BY <2>1 DEF FreshInv, ServeInv, GivesUp
<1>7. CASE timer_tick
  <2>1. UNCHANGED <<MarkedPrior, count, proc, cpc, mlq_ready_queue>>
    BY <1>7 DEF timer_tick, schedVars, cpuVars
  <2>2. ASSUME \A c \in Cpu : GivesUp(c) PROVE Ready = {}
    <3>1. \A c \in Cpu : cpc[c] = "stopped"
      BY <1>0, <1>7, <2>2 DEF timer_tick, Clock!Tick, CpuInv, GivesUp
    <3>2. st[ld] = "gone"
      BY <1>0, <3>1 DEF CpuInv, LoaderInv
    <3>3. QED BY <2>2, <3>2 DEF ServeInv
  <2>3. QED BY <1>R, <2>1, <2>2 DEF FreshInv, ServeInv, GivesUp
<1>8. CASE UNCHANGED vars
  BY <1>8, <1>R
  DEF vars, schedVars, clockVars, cpuVars, FreshInv, ServeInv, GivesUp
<1>9. QED
  BY <1>1, <1>2, <1>3, <1>4, <1>5, <1>6, <1>7, <1>8 DEF Next, CpuStep

(* If no process has priority 0 (the run os_top shows that this matters),
   the CPUs do not all stop before every process has finished, although each
   of them decides from what get_proc returned and from a flag that it reads
   later. *)
THEOREM NoProcessAbandonedHolds ==
  ASSUME LevelsFit, \A p \in Proc : prio[p] # 0
  PROVE  Safety => []NoProcessAbandoned
<1>1. ASSUME Init PROVE FreshInv /\ ServeInv
  <2>1. Ready = {}
    BY <1>1, EmptyOrderly DEF Init, init_scheduler
  <2>2. QED BY <1>1, <2>1 DEF Init, FreshInv, ServeInv
<1>2. ASSUME IInv, PlaceInv, ServeInv PROVE NoProcessAbandoned
  <2>0. CallerTypeOK /\ CpuInv /\ LoaderInv /\ OncePerProc
    BY <1>2 DEF IInv, PlaceInv
  <2>1. ASSUME done PROVE lpc = "exited" /\ st[ld] = "gone"
                          /\ \A p \in Proc : ~Unborn(p)
    BY <2>0, <2>1, OSAssumption DEF LoaderInv, Unborn
  <2>2. ASSUME \A c \in Cpu : cpc[c] = "stopped" PROVE finished = Proc
    <3>1. done
      BY <2>0, <2>2, OSAssumption DEF CpuInv
    <3>2. \A p \in Proc : ~InHand(p) /\ ~Unborn(p)
      BY <2>0, <2>1, <2>2, <3>1, MLQAssumption DEF CpuInv, InHand
    <3>3. Ready = {}
      BY <1>2, <2>0, <2>1, <2>2, <3>1 DEF ServeInv, GivesUp, CpuInv
    <3>4. QED BY <2>0, <3>2, <3>3 DEF OncePerProc, CallerTypeOK
  <2>3. QED BY <2>0, <2>1, <2>2 DEF NoProcessAbandoned, CpuInv
<1>3. IInv /\ PlaceInv /\ FreshInv /\ ServeInv /\ [Next]_vars
        => FreshInv' /\ ServeInv'
  BY NextServeInv
<1>4. QED BY Invariance, PlaceInvariance, <1>1, <1>2, <1>3, PTL DEF Safety

-----------------------------------------------------------------------------
(* The threads are callers of the scheduler as Sched.tla describes them. *)

\* The mapping: what the loader has not added, what it is adding, and what
\* a CPU does with its process.
unbornBar == {p \in Proc : Unborn(p)}
addingBar == IF lpc = "add" THEN i ELSE NULL
cpcBar == [c \in Cpu |-> IF proc[c] = NULL THEN "get"
                         ELSE IF cpc[c] = "put" THEN "put" ELSE "hold"]

(* The scheduler is the same in both. *)
LEMMA SameScheduler ==
  /\ Callers!init_scheduler <=> init_scheduler
  /\ \A ret : Callers!get_proc(ret) <=> get_proc(ret)
  /\ \A p : Callers!put_running_list(p) <=> put_running_list(p)
  /\ \A p : Callers!put_mlq_proc(p) <=> put_mlq_proc(p)
<1>1. Callers!init_scheduler <=> init_scheduler
  BY DEF Callers!init_scheduler, init_scheduler, Callers!Level, Level
<1>2. ASSUME NEW ret PROVE Callers!get_proc(ret) <=> get_proc(ret)
  <2>1. \A q : Callers!HighestIndex(q) = HighestIndex(q)
    BY DEF Callers!HighestIndex, HighestIndex
  <2>2. \A l : Callers!dequeue(l, ret) <=> dequeue(l, ret)
    BY <2>1 DEF Callers!dequeue, dequeue, Callers!RemoveAt, RemoveAt
  <2>3. Callers!Level = Level
    BY DEF Callers!Level, Level
  <2>4. \A l : Callers!HasTurn(l) <=> HasTurn(l)
    BY DEF Callers!HasTurn, HasTurn
  <2>5. (Callers!RoundOver <=> RoundOver) /\ (Callers!SkippedAll <=> SkippedAll)
    BY <2>3, <2>4 DEF Callers!RoundOver, RoundOver, Callers!SkippedAll, SkippedAll
  <2>6. Callers!get_same_level(ret) <=> get_same_level(ret)
    BY <2>2, <2>4 DEF Callers!get_same_level, get_same_level
  <2>7. Callers!get_next_level(ret) <=> get_next_level(ret)
    BY <2>2, <2>3, <2>4 DEF Callers!get_next_level, get_next_level
  <2>8. Callers!get_new_round(ret) <=> get_new_round(ret)
    BY <2>2, <2>3, <2>5 DEF Callers!get_new_round, get_new_round
  <2>9. Callers!get_none(ret) <=> get_none(ret)
    BY <2>3, <2>5 DEF Callers!get_none, get_none
  <2>10. QED BY <2>6, <2>7, <2>8, <2>9 DEF Callers!get_proc, get_proc
<1>3. ASSUME NEW p PROVE /\ Callers!put_running_list(p) <=> put_running_list(p)
                         /\ Callers!put_mlq_proc(p) <=> put_mlq_proc(p)
  BY DEF Callers!put_running_list, put_running_list, Callers!put_mlq_proc,
         put_mlq_proc, Callers!enqueue, enqueue
<1>4. QED BY <1>1, <1>2, <1>3

(* At the start the loader has everything and the CPUs have nothing. *)
LEMMA InitCallers == Init => Callers!Init
<1> SUFFICES ASSUME Init PROVE Callers!Init
  OBVIOUS
<1>1. \A p \in Proc : p \in Nat /\ p >= 1
  BY OSAssumption
<1>2. Callers!init_scheduler
  BY SameScheduler DEF Init
<1>3. {p \in Proc : Unborn(p)} = Proc
  BY <1>1 DEF Init, Unborn
<1>4. ~(count = MAX_PRIO)
  BY MLQAssumption DEF Init, init_scheduler
<1>5. QED BY <1>2, <1>3, <1>4 DEF Init, Callers!Init

(* Every step is a step of the callers or moves nothing. *)
LEMMA NextCallers == IInv /\ [Next]_vars => [Callers!Next]_(Callers!vars)
<1> SUFFICES ASSUME IInv, [Next]_vars PROVE [Callers!Next]_(Callers!vars)
  OBVIOUS
<1> USE MLQAssumption
<1>0. SchedInv /\ CallerTypeOK /\ CpuInv /\ LoaderInv
  BY DEF IInv
<1>T. /\ i \in Nat /\ Proc \subseteq Nat
      /\ i <= num_processes => i \in Proc
      /\ proc \in [Cpu -> Proc \cup {NULL}]
      /\ cpc \in [Cpu -> {"top", "put", "get", "recheck", "stopped"}]
  BY OSAssumption DEF IInv, CallerTypeOK
<1>S. ASSUME UNCHANGED <<schedVars, proc, finished>>,
             unbornBar' = unbornBar, addingBar' = addingBar, cpcBar' = cpcBar
      PROVE  UNCHANGED Callers!vars
  BY <1>S
  DEF schedVars, unbornBar, addingBar, cpcBar, Callers!vars, Callers!schedVars,
      Callers!clientVars
<1>1. CASE ld_load \/ ld_wait \/ ld_done \/ timer_tick \/ UNCHANGED vars
  <2>1. UNCHANGED <<schedVars, proc, cpc, finished>>
    BY <1>1
    DEF ld_load, ld_wait, ld_done, timer_tick, vars, cpuVars, procVars
  <2>2. unbornBar' = unbornBar /\ addingBar' = addingBar
    BY <1>1
    DEF ld_load, ld_wait, ld_done, timer_tick, vars, loaderVars, unbornBar,
        addingBar, Unborn
  <2>3. QED BY <1>S, <2>1, <2>2 DEF cpcBar
<1>2. CASE ld_add
  <2>1. /\ i \in Proc /\ i \in unbornBar /\ put_running_list(i)
        /\ addingBar = NULL /\ addingBar' = i
        /\ UNCHANGED <<proc, cpc, finished>>
    BY <1>0, <1>2, <1>T
    DEF ld_add, LoaderInv, unbornBar, addingBar, Unborn, cpuVars, procVars
  <2>2. unbornBar' = unbornBar \ {i} /\ count' = count
    BY <1>2, <1>T DEF ld_add, unbornBar, Unborn, put_running_list
  <2>3. Callers!AddFirstHalf
    BY <2>1, <2>2, SameScheduler
    DEF Callers!AddFirstHalf, unbornBar, addingBar
  <2>4. QED BY <2>3 DEF Callers!Next, Callers!LoaderStep
<1>3. CASE ld_added
  <2>1. /\ i \in Proc /\ put_mlq_proc(i)
        /\ addingBar = i /\ addingBar' = NULL
        /\ UNCHANGED <<proc, cpc, finished>>
    BY <1>0, <1>3, <1>T DEF ld_added, LoaderInv, addingBar, cpuVars, procVars
  <2>2. unbornBar' = unbornBar /\ count' = count
    <3>1. \A p \in Proc : Unborn(p)' <=> Unborn(p)
      BY <1>3, <1>T DEF ld_added, Unborn
    <3>2. QED BY <2>1, <3>1 DEF unbornBar, put_mlq_proc
  <2>3. Callers!AddSecondHalf
    BY <2>1, <2>2, SameScheduler
    DEF Callers!AddSecondHalf, unbornBar, addingBar
  <2>4. QED BY <2>3 DEF Callers!Next, Callers!LoaderStep
<1>L. UNCHANGED loaderVars => unbornBar' = unbornBar /\ addingBar' = addingBar
  BY DEF loaderVars, unbornBar, addingBar, Unborn
<1>4. ASSUME NEW c \in Cpu, cpu_idle(c) \/ cpu_get(c)
      PROVE  Callers!Get(c)
  <2>1. PICK ret \in Proc \cup {NULL} :
          get_proc(ret) /\ proc' = [proc EXCEPT ![c] = ret]
    BY <1>4 DEF cpu_idle, cpu_get, GetInto
  <2>2. /\ proc[c] = NULL /\ UNCHANGED <<loaderVars, finished>>
        /\ cpc'[c] \in {"top", "recheck"}
        /\ \A d \in Cpu \ {c} : cpc'[d] = cpc[d]
    BY <1>0, <1>4, <1>T DEF cpu_idle, cpu_get, CpuInv, procVars
  <2>3. cpcBar[c] = "get"
    BY <2>2 DEF cpcBar
  <2>4. cpcBar' = [cpcBar EXCEPT ![c] = IF ret = NULL THEN "get" ELSE "hold"]
    BY <1>T, <2>1, <2>2 DEF cpcBar
  <2>5. Callers!get_proc(ret) /\ (count' = MAX_PRIO <=> ret = NULL)
    BY <1>0, <2>1, SameScheduler, NullIsCount
  <2>6. QED
    BY <1>L, <2>1, <2>2, <2>3, <2>4, <2>5
    DEF Callers!Get, unbornBar, addingBar, cpcBar
<1>5. ASSUME NEW c \in Cpu, cpu_finish(c) PROVE Callers!Finish(c)
  <2>1. cpcBar[c] = "hold"
    BY <1>5 DEF cpu_finish, cpcBar
  <2>2. cpcBar' = [cpcBar EXCEPT ![c] = "get"]
    BY <1>5, <1>T DEF cpu_finish, cpcBar
  <2>3. QED
    BY <1>5, <1>L, <2>1, <2>2
    DEF cpu_finish, Callers!Finish, unbornBar, addingBar, cpcBar, schedVars,
        Callers!schedVars
<1>6. ASSUME NEW c \in Cpu, cpu_put(c) PROVE Callers!PutFirstHalf(c)
  <2>1. cpcBar[c] = "hold"
    BY <1>6 DEF cpu_put, cpcBar
  <2>2. cpcBar' = [cpcBar EXCEPT ![c] = "put"]
    BY <1>6, <1>T DEF cpu_put, cpcBar
  <2>3. Callers!put_running_list(proc[c]) /\ count' = count
    BY <1>6, SameScheduler DEF cpu_put, put_running_list
  <2>4. QED
    BY <1>6, <1>L, <2>1, <2>2, <2>3
    DEF cpu_put, Callers!PutFirstHalf, unbornBar, addingBar, cpcBar, procVars
<1>7. ASSUME NEW c \in Cpu, cpu_requeue(c) PROVE Callers!PutSecondHalf(c)
  <2>1. cpcBar[c] = "put"
    BY <1>0, <1>7 DEF cpu_requeue, cpcBar, CpuInv
  <2>2. cpcBar' = [cpcBar EXCEPT ![c] = "get"]
    BY <1>7, <1>T DEF cpu_requeue, cpcBar
  <2>3. Callers!put_mlq_proc(proc[c]) /\ count' = count
    BY <1>7, SameScheduler DEF cpu_requeue, put_mlq_proc
  <2>4. QED
    BY <1>7, <1>L, <2>1, <2>2, <2>3
    DEF cpu_requeue, Callers!PutSecondHalf, unbornBar, addingBar, cpcBar, procVars
<1>8. ASSUME NEW c \in Cpu, cpu_stop(c) \/ cpu_skip(c) \/ cpu_run(c)
      PROVE  UNCHANGED Callers!vars
  <2>1. /\ UNCHANGED <<schedVars, loaderVars, proc, finished>>
        /\ proc[c] = NULL \/ cpc[c] # "put"
        /\ proc[c] = NULL \/ cpc'[c] # "put"
        /\ \A d \in Cpu \ {c} : cpc'[d] = cpc[d]
    BY <1>8, <1>T DEF cpu_stop, cpu_skip, cpu_run, procVars
  <2>2. cpcBar' = cpcBar
    BY <2>1 DEF cpcBar
  <2>3. QED BY <1>L, <1>S, <2>1, <2>2
<1>9. QED
  BY <1>1, <1>2, <1>3, <1>4, <1>5, <1>6, <1>7, <1>8
  DEF Next, LoaderStep, CpuStep, Callers!Next, Callers!CpuStep

(* OS.tla implements Sched.tla, so what is proved there of the scheduler
   under any callers holds for the threads of os.c. *)
THEOREM ImplementsSched == Safety => SchedSafety
BY Invariance, InitCallers, NextCallers, PTL
DEF Safety, SchedSafety, Callers!Safety
=============================================================================

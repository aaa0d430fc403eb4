---------------------------------- MODULE OS ----------------------------------
(***************************************************************************)
(* os.c with cpu.c's run: the CPU threads and the loader thread over the   *)
(* scheduler (MLQ.tla) and the time-slot barrier (SlotBarrier.tla, which   *)
(* timer.c implements).  What an instruction does to memory is not         *)
(* modelled here, only that run executes it.                               *)
(*                                                                         *)
(* A step of a thread is a critical section or an access to the shared     *)
(* flag `done', together with the thread-local code around it; next_slot   *)
(* and detach_event end the step, since they only let the clock go on.     *)
(***************************************************************************)
EXTENDS MLQ

CONSTANTS
  num_processes,
  Cpu,         \* the CPU threads
  ld,          \* the loader thread
  time_slot,   \* instructions a CPU runs before it puts the process back
  CodeSizes,   \* possible values of proc->code->size
  MaxStart     \* bound: start times are 0..MaxStart

ASSUME OSAssumption ==
  /\ num_processes \in Nat /\ Proc = 1..num_processes
  /\ Cpu # {} /\ ld \notin Cpu
  /\ time_slot \in Nat \ {0}
  /\ CodeSizes \subseteq Nat
  /\ MaxStart \in Nat

VARIABLES
  now, st,     \* the barrier
  done,        \* set by the loader when it has added every process
  lpc, i, start_time,  \* the loader: control point, index, start_time[i]
  proc, time_left, cpc,  \* the locals of cpu_routine and its control point
  left,        \* left[p]: instructions to go, code->size - pc
  finished,    \* processes freed by the CPU that saw them end
  ran          \* history: processes that ran an instruction in this slot

Clock == INSTANCE SlotBarrier WITH
  Device <- Cpu \cup {ld}, Horizon <- MaxStart

clockVars == <<now, st>>
loaderVars == <<done, lpc, i, start_time>>
cpuVars == <<proc, time_left, cpc>>
procVars == <<left, finished, ran>>
vars == <<schedVars, clockVars, loaderVars, cpuVars, procVars>>

TypeOK ==
  /\ SchedTypeOK
  /\ Clock!BarrierTypeOK
  /\ done \in BOOLEAN
  /\ lpc \in {"load", "wait", "add", "exited"}
  /\ i \in 1..(num_processes + 1)
  /\ start_time \in 0..MaxStart
  /\ proc \in [Cpu -> Proc \cup {NULL}]
  /\ time_left \in [Cpu -> 0..time_slot]
  /\ cpc \in [Cpu -> {"top", "put", "get", "recheck", "stopped"}]
  /\ left \in [Proc -> UNION {0..n : n \in CodeSizes \cup {0}}]
  /\ finished \in SUBSET Proc
  /\ ran \in SUBSET Proc

Init ==
  /\ init_scheduler
  /\ Clock!BarrierInit
  /\ done = FALSE
  /\ lpc = "load"
  /\ i = 1
  /\ start_time = 0
  /\ proc = [c \in Cpu |-> NULL]
  /\ time_left = [c \in Cpu |-> 0]
  /\ cpc = [c \in Cpu |-> "top"]
  /\ left = [p \in Proc |-> 0]
  /\ finished = {}
  /\ ran = {}

-----------------------------------------------------------------------------
(* ld_routine *)

\* load: the process file and the configuration line are inputs.
ld_load ==
  /\ lpc = "load" /\ st[ld] = "work" /\ i <= num_processes
  /\ \E n \in CodeSizes, t \in 0..MaxStart :
       /\ left' = [left EXCEPT ![i] = n]
       /\ start_time' = t
  /\ lpc' = "wait"
  /\ UNCHANGED <<schedVars, clockVars, done, i, cpuVars, finished, ran>>

ld_wait ==
  /\ lpc = "wait" /\ now < start_time
  /\ Clock!Park(ld)
  /\ UNCHANGED <<schedVars, loaderVars, cpuVars, procVars>>

\* add_proc, first half.
ld_add ==
  /\ lpc = "wait" /\ st[ld] = "work" /\ now >= start_time
  /\ put_running_list(i)
  /\ lpc' = "add"
  /\ UNCHANGED <<clockVars, done, i, start_time, cpuVars, procVars>>

\* add_proc, second half; i++; next_slot.
ld_added ==
  /\ lpc = "add"
  /\ put_mlq_proc(i)
  /\ i' = i + 1
  /\ lpc' = "load"
  /\ Clock!Park(ld)
  /\ UNCHANGED <<done, start_time, cpuVars, procVars>>

ld_done ==
  /\ lpc = "load" /\ i > num_processes
  /\ done' = TRUE
  /\ lpc' = "exited"
  /\ Clock!Leave(ld)
  /\ UNCHANGED <<schedVars, i, start_time, cpuVars, procVars>>

LoaderStep == ld_load \/ ld_wait \/ ld_add \/ ld_added \/ ld_done

-----------------------------------------------------------------------------
(* cpu_routine *)

\* get_proc returns into the local variable proc.
GetInto(c) ==
  \E ret \in Proc \cup {NULL} :
    get_proc(ret) /\ proc' = [proc EXCEPT ![c] = ret]

\* Mutant: an idle CPU looks again at once, without next_slot.
cpu_idle_spins(c) ==
  /\ cpc[c] = "top" /\ st[c] = "work" /\ proc[c] = NULL
  /\ GetInto(c)
  /\ cpc' = [cpc EXCEPT ![c] = IF proc'[c] = NULL THEN "top" ELSE "recheck"]
  /\ UNCHANGED <<clockVars, loaderVars, time_left, procVars>>

\* proc == NULL at the top of the loop: load a process or skip the slot.
cpu_idle(c) ==
  /\ cpc[c] = "top" /\ st[c] = "work" /\ proc[c] = NULL
  /\ GetInto(c)
  /\ \/ /\ proc'[c] = NULL
        /\ Clock!Park(c)
        /\ UNCHANGED cpc
     \/ /\ proc'[c] # NULL
        /\ cpc' = [cpc EXCEPT ![c] = "recheck"]
        /\ UNCHANGED clockVars
  /\ UNCHANGED <<loaderVars, time_left, procVars>>

\* proc->pc == proc->code->size: the process has ended and is freed.
cpu_finish(c) ==
  /\ cpc[c] = "top" /\ st[c] = "work" /\ proc[c] # NULL
  /\ left[proc[c]] = 0
  /\ finished' = finished \cup {proc[c]}
  /\ proc' = [proc EXCEPT ![c] = NULL]
  /\ time_left' = [time_left EXCEPT ![c] = 0]
  /\ cpc' = [cpc EXCEPT ![c] = "get"]
  /\ UNCHANGED <<schedVars, clockVars, loaderVars, left, ran>>

\* Mutant: the next process is fetched and the old one not put back.
cpu_put_lost(c) ==
  /\ cpc[c] = "top" /\ st[c] = "work" /\ proc[c] # NULL
  /\ left[proc[c]] # 0 /\ time_left[c] = 0
  /\ proc' = [proc EXCEPT ![c] = NULL]
  /\ cpc' = [cpc EXCEPT ![c] = "get"]
  /\ UNCHANGED <<schedVars, clockVars, loaderVars, time_left, procVars>>

\* time_left == 0: put_proc, first half.
cpu_put(c) ==
  /\ cpc[c] = "top" /\ st[c] = "work" /\ proc[c] # NULL
  /\ left[proc[c]] # 0 /\ time_left[c] = 0
  /\ put_running_list(proc[c])
  /\ cpc' = [cpc EXCEPT ![c] = "put"]
  /\ UNCHANGED <<clockVars, loaderVars, proc, time_left, procVars>>

\* Mutant: get_proc is not called, the CPU goes on with the old process.
cpu_requeue_kept(c) ==
  /\ cpc[c] = "put"
  /\ put_mlq_proc(proc[c])
  /\ cpc' = [cpc EXCEPT ![c] = "recheck"]
  /\ UNCHANGED <<clockVars, loaderVars, proc, time_left, procVars>>

\* put_proc, second half; the old value of proc is not used again.
cpu_requeue(c) ==
  /\ cpc[c] = "put"
  /\ put_mlq_proc(proc[c])
  /\ proc' = [proc EXCEPT ![c] = NULL]
  /\ cpc' = [cpc EXCEPT ![c] = "get"]
  /\ UNCHANGED <<clockVars, loaderVars, time_left, procVars>>

\* proc = get_proc(), after a process has ended or has been put back.
cpu_get(c) ==
  /\ cpc[c] = "get"
  /\ GetInto(c)
  /\ cpc' = [cpc EXCEPT ![c] = "recheck"]
  /\ UNCHANGED <<clockVars, loaderVars, time_left, procVars>>

\* Mutant: || in place of &&, a CPU stops with a process in its hands.
cpu_stop_done(c) ==
  /\ cpc[c] = "recheck" /\ done
  /\ cpc' = [cpc EXCEPT ![c] = "stopped"]
  /\ Clock!Leave(c)
  /\ UNCHANGED <<schedVars, loaderVars, proc, time_left, procVars>>

\* proc == NULL && done: stop and detach.
cpu_stop(c) ==
  /\ cpc[c] = "recheck" /\ proc[c] = NULL /\ done
  /\ cpc' = [cpc EXCEPT ![c] = "stopped"]
  /\ Clock!Leave(c)
  /\ UNCHANGED <<schedVars, loaderVars, proc, time_left, procVars>>

\* Mutant: a CPU without a process skips the slot, done or not.
cpu_skip_always(c) ==
  /\ cpc[c] = "recheck" /\ proc[c] = NULL
  /\ cpc' = [cpc EXCEPT ![c] = "top"]
  /\ Clock!Park(c)
  /\ UNCHANGED <<schedVars, loaderVars, proc, time_left, procVars>>

\* proc == NULL, but the loader may still bring one.
cpu_skip(c) ==
  /\ cpc[c] = "recheck" /\ proc[c] = NULL /\ ~done
  /\ cpc' = [cpc EXCEPT ![c] = "top"]
  /\ Clock!Park(c)
  /\ UNCHANGED <<schedVars, loaderVars, proc, time_left, procVars>>

\* Mutants: a dispatch does not set time_left; there is no next_slot.
cpu_run_unset(c) ==
  /\ st[c] = "work" /\ proc[c] # NULL
  /\ \/ cpc[c] = "recheck"
     \/ cpc[c] = "top" /\ left[proc[c]] # 0 /\ time_left[c] # 0
  /\ time_left' = [time_left EXCEPT ![c] = @ - 1]
  /\ left' = [left EXCEPT ![proc[c]] = IF @ = 0 THEN 0 ELSE @ - 1]
  /\ ran' = ran \cup {proc[c]}
  /\ cpc' = [cpc EXCEPT ![c] = "top"]
  /\ Clock!Park(c)
  /\ UNCHANGED <<schedVars, loaderVars, proc, finished>>

cpu_run_on(c) ==
  /\ st[c] = "work" /\ proc[c] # NULL
  /\ \/ cpc[c] = "recheck"
     \/ cpc[c] = "top" /\ left[proc[c]] # 0 /\ time_left[c] # 0
  /\ time_left' =
       [time_left EXCEPT ![c] = (IF @ = 0 THEN time_slot ELSE @) - 1]
  /\ left' = [left EXCEPT ![proc[c]] = IF @ = 0 THEN 0 ELSE @ - 1]
  /\ ran' = ran \cup {proc[c]}
  /\ cpc' = [cpc EXCEPT ![c] = "top"]
  /\ UNCHANGED <<schedVars, clockVars, loaderVars, proc, finished>>

\* Dispatch if the time is used up; run one instruction; next_slot.
cpu_run(c) ==
  /\ st[c] = "work" /\ proc[c] # NULL
  /\ \/ cpc[c] = "recheck"
     \/ cpc[c] = "top" /\ left[proc[c]] # 0 /\ time_left[c] # 0
  /\ time_left' =
       [time_left EXCEPT ![c] = (IF @ = 0 THEN time_slot ELSE @) - 1]
  /\ left' = [left EXCEPT ![proc[c]] = IF @ = 0 THEN 0 ELSE @ - 1]
  /\ ran' = ran \cup {proc[c]}
  /\ cpc' = [cpc EXCEPT ![c] = "top"]
  /\ Clock!Park(c)
  /\ UNCHANGED <<schedVars, loaderVars, proc, finished>>

CpuStep(c) ==
  \/ cpu_idle(c) \/ cpu_finish(c) \/ cpu_put(c) \/ cpu_requeue(c)
  \/ cpu_get(c) \/ cpu_stop(c) \/ cpu_skip(c) \/ cpu_run(c)

-----------------------------------------------------------------------------
\* The timer thread.
timer_tick ==
  /\ Clock!Tick
  /\ ran' = {}
  /\ UNCHANGED <<schedVars, loaderVars, cpuVars, left, finished>>

Next == LoaderStep \/ (\E c \in Cpu : CpuStep(c)) \/ timer_tick

\* Every thread that can run does, and timer.c keeps its promise.
Fairness ==
  /\ WF_vars(LoaderStep)
  /\ \A c \in Cpu : WF_vars(CpuStep(c))
  /\ WF_vars(timer_tick)

Safety == Init /\ [][Next]_vars
Spec == Safety /\ Fairness

-----------------------------------------------------------------------------
(* Correctness. *)

InHand(p) == (lpc = "add" /\ i = p) \/ \E c \in Cpu : proc[c] = p
Unborn(p) == p > i \/ (p = i /\ lpc # "add")

(* Each process is in exactly one place: still with the loader, in the hands
   of one thread, queued once, or finished. *)
EachProcessOnce ==
  \A p \in Proc :
    /\ Unborn(p) \/ InHand(p) \/ p \in Ready \/ p \in finished
    /\ p \in Ready => ~InHand(p) /\ ~Unborn(p) /\ p \notin finished
    /\ InHand(p) => ~Unborn(p) /\ p \notin finished
    /\ Unborn(p) => p \notin finished
    /\ \A c, d \in Cpu : proc[c] = p /\ proc[d] = p => c = d
    /\ \A l \in Level : \A j, k \in QueuedAt(p, l) : j = k /\ l = prio[p]

(* A process executes at most one instruction per time slot, although a CPU
   may put it back and another take it within the slot. *)
OneInstructionPerSlot ==
  [][\A p \in Proc : left'[p] < left[p] => p \notin ran]_vars

(* A CPU stops only after the loader has handed over the last process, and
   when the last CPU stops, no process is left unfinished. *)
NoProcessAbandoned ==
  /\ \A c \in Cpu : cpc[c] = "stopped" => \A p \in Proc : ~Unborn(p)
  /\ (\A c \in Cpu : cpc[c] = "stopped") => finished = Proc

(* The threads use the scheduler as Sched.tla says: every step is one of
   its steps or leaves queues, callers and processes in their places. *)
Callers == INSTANCE Sched WITH
  unborn <- {p \in Proc : Unborn(p)},
  adding <- IF lpc = "add" THEN i ELSE NULL,
  cpc <- [c \in Cpu |-> IF proc[c] = NULL THEN "get"
                        ELSE IF cpc[c] = "put" THEN "put" ELSE "hold"],
  turned_away <- count = MAX_PRIO

SchedSafety == Callers!Safety

(* Every process of the configuration runs to its end. *)
AllProcessesFinish == <>(finished = Proc)

(* A CPU that has a process once loading is over stops in the end. *)
BusyCpuStops ==
  \A c \in Cpu : done /\ proc[c] # NULL ~> cpc[c] = "stopped"

-----------------------------------------------------------------------------
(* What the repository says of the program and the code does not do. *)

(* "Wait for CPU and loader finishing": every CPU comes to its end. *)
EveryCpuStops == <>(\A c \in Cpu : cpc[c] = "stopped")
=============================================================================

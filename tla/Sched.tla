-------------------------------- MODULE Sched --------------------------------
(***************************************************************************)
(* The scheduler under load: CPU threads that take processes, keep them    *)
(* for a while and put them back or finish them, and the loader that adds  *)
(* new ones.  The calls interleave at the granularity of queue_lock and    *)
(* the processes compete for ever; how long a CPU keeps a process and when *)
(* one ends is left open here and fixed by OS.tla.                         *)
(***************************************************************************)
EXTENDS MLQ

CONSTANT Cpu      \* the CPU threads

ASSUME CpuAssumption == Cpu # {}

VARIABLES
  unborn,         \* processes the loader has still to add
  adding,         \* the process it is adding: between the halves of add_proc
  proc,           \* proc[c]: the process CPU c holds, or NULL
  cpc,            \* cpc[c]: "get", "hold", or "put": between put_proc's halves
  finished,       \* processes that have ended
  turned_away     \* history: the last call of get_proc returned NULL

clientVars == <<unborn, adding, proc, cpc, finished, turned_away>>
vars == <<schedVars, clientVars>>

TypeOK ==
  /\ SchedTypeOK
  /\ unborn \in SUBSET Proc
  /\ adding \in Proc \cup {NULL}
  /\ proc \in [Cpu -> Proc \cup {NULL}]
  /\ cpc \in [Cpu -> {"get", "hold", "put"}]
  /\ finished \in SUBSET Proc
  /\ turned_away \in BOOLEAN

Init ==
  /\ init_scheduler
  /\ unborn = Proc
  /\ adding = NULL
  /\ proc = [c \in Cpu |-> NULL]
  /\ cpc = [c \in Cpu |-> "get"]
  /\ finished = {}
  /\ turned_away = FALSE

AddFirstHalf ==
  /\ adding = NULL
  /\ \E p \in unborn :
       /\ put_running_list(p)
       /\ adding' = p
       /\ unborn' = unborn \ {p}
  /\ UNCHANGED <<proc, cpc, finished, turned_away>>

AddSecondHalf ==
  /\ adding # NULL
  /\ put_mlq_proc(adding)
  /\ adding' = NULL
  /\ UNCHANGED <<unborn, proc, cpc, finished, turned_away>>

Get(c) ==
  /\ cpc[c] = "get"
  /\ \E ret \in Proc \cup {NULL} :
       /\ get_proc(ret)
       /\ proc' = [proc EXCEPT ![c] = ret]
       /\ cpc' = [cpc EXCEPT ![c] = IF ret = NULL THEN "get" ELSE "hold"]
       /\ turned_away' = (ret = NULL)
  /\ UNCHANGED <<unborn, adding, finished>>

PutFirstHalf(c) ==
  /\ cpc[c] = "hold"
  /\ put_running_list(proc[c])
  /\ cpc' = [cpc EXCEPT ![c] = "put"]
  /\ UNCHANGED <<unborn, adding, proc, finished, turned_away>>

PutSecondHalf(c) ==
  /\ cpc[c] = "put"
  /\ put_mlq_proc(proc[c])
  /\ proc' = [proc EXCEPT ![c] = NULL]
  /\ cpc' = [cpc EXCEPT ![c] = "get"]
  /\ UNCHANGED <<unborn, adding, finished, turned_away>>

Finish(c) ==
  /\ cpc[c] = "hold"
  /\ finished' = finished \cup {proc[c]}
  /\ proc' = [proc EXCEPT ![c] = NULL]
  /\ cpc' = [cpc EXCEPT ![c] = "get"]
  /\ UNCHANGED <<schedVars, unborn, adding, turned_away>>

LoaderStep == AddFirstHalf \/ AddSecondHalf

CpuStep(c) == Get(c) \/ PutFirstHalf(c) \/ PutSecondHalf(c) \/ Finish(c)

Next == LoaderStep \/ \E c \in Cpu : CpuStep(c)

\* Threads keep running: a CPU that holds a process gives it up some day.
\* The loader need not add anything.
Fairness ==
  /\ \A c \in Cpu : WF_vars(CpuStep(c))
  /\ WF_vars(AddSecondHalf)

Safety == Init /\ [][Next]_vars
Spec == Safety /\ Fairness

-----------------------------------------------------------------------------
(* Correctness. *)

\* The processes on their way through the scheduler's callers.
InHand(p) == adding = p \/ \E c \in Cpu : proc[c] = p

(* Conservation: at any moment each process is in exactly one place - not
   yet added, in the hands of one thread, queued once at its own level, or
   finished - whatever the interleaving of get, put and add.  (For at most
   MAX_QUEUE_SIZE processes: enqueue drops what does not fit.) *)
EachProcessOnce ==
  \A p \in Proc :
    /\ p \in unborn \/ InHand(p) \/ p \in Ready \/ p \in finished
    /\ p \in Ready =>
         ~InHand(p) /\ p \notin unborn /\ p \notin finished
    /\ InHand(p) => p \notin unborn /\ p \notin finished
    /\ p \in unborn => p \notin finished
    /\ \A c, d \in Cpu : proc[c] = p /\ proc[d] = p => c = d
    /\ \A c \in Cpu : proc[c] = p => adding # p
    /\ \A l \in Level : \A i, j \in QueuedAt(p, l) : i = j /\ l = prio[p]

\* The next get_proc will return NULL.
Refuses == RoundOver /\ (SkippedAll \/ Ready = {})

(* get_mlq_proc may return NULL although a process is ready, but only when
   its search started at level 0 right after a dispatch (or as the very
   first call); the call after that one does dispatch. *)
RefusedAtMostOnce ==
  Refuses /\ Ready # {} => MarkedPrior = 0 /\ count = 0

(* After a call of get_proc that returned NULL, the next one dispatches the
   most urgent process of all that are ready by then, whichever threads have
   put back, added or finished whatever in between, and whoever calls. *)
ServedAfterRefusal ==
  [][\A c \in Cpu :
       Get(c) /\ turned_away /\ Ready # {} =>
         /\ proc'[c] # NULL
         /\ \A p \in Ready : prio[proc'[c]] <= prio[p]]_vars

(* Round robin within a level: dequeue takes the process that has waited
   longest and leaves the others in their order. *)
FifoPerLevel ==
  [][\A l \in Level :
       LET q == mlq_ready_queue[l] IN
         Len(mlq_ready_queue'[l]) < Len(q) => mlq_ready_queue'[l] = Tail(q)]_vars

(* No starvation: a ready process is dispatched some day, however many
   processes of more urgent levels keep coming back. *)
NoStarvation ==
  \A p \in Proc : p \in Ready ~> \E c \in Cpu : proc[c] = p

-----------------------------------------------------------------------------
(* What the repository says of the scheduler and the code does not do. *)

(* As in the expected output of the sched_0 example, a dispatch takes the
   most urgent level that has its turn. *)
MostUrgentFirst ==
  [][\A l \in Level :
       Len(mlq_ready_queue'[l]) < Len(mlq_ready_queue[l])
         => \A k \in Level : k < l => ~HasTurn(k)]_vars
=============================================================================

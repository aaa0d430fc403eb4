------------------------------- MODULE KillAll -------------------------------
(***************************************************************************)
(* sys_killall.c: the system call that ends every process of a given name, *)
(* on a machine with one CPU that has loaded all its processes.  killall   *)
(* takes no lock, and here it needs none: the CPU is the only thread that  *)
(* uses the queues.  One step is one iteration of a loop of the call.      *)
(*                                                                         *)
(* The call reads its name from a memory region of the caller, until a     *)
(* read fails; that loop is part of the first step.  In this build the     *)
(* first read fails (VMem.tla, ReadReturnsWritten), the name is empty and  *)
(* no process has it; what the code does with a name it could read is      *)
(* modelled all the same, for any name.  Names are what load keeps of a    *)
(* path.                                                                   *)
(*                                                                         *)
(* The CPU frees the pcb of a process that has finished, and running_list  *)
(* still points to it.  The name in freed memory may or may not compare    *)
(* equal: malloc has overwritten the bytes before it.                      *)
(***************************************************************************)
EXTENDS MLQ, FiniteSets

CONSTANTS
  path,           \* path[p]: the name that load stored
  Name,           \* the names killall is called with
  ALLOC           \* ALLOC[p]: the alloc instructions of p, <<arg_0, arg_1>>

ASSUME KillAllAssumption ==
  /\ LevelsFit
  /\ ALLOC \in [Proc -> SUBSET (Nat \X Nat)]

VARIABLES
  proc,           \* the process the CPU holds, or NULL
  ended,          \* processes with pc = code->size
  freed,          \* processes whose pcb was freed
  regions,        \* regions[p]: IDs of the regions that p has allocated
  cpc,            \* where the CPU is
  proc_name,      \* the name read by killall, NULL outside of it
  i, j,           \* its loop variables; positions count from 1
  kill_process,   \* its list of processes to kill
  run0, ready0    \* history: the queues when it was called

callVars == <<proc_name, i, j, kill_process, run0, ready0>>
cpuVars == <<proc, ended, freed, regions, cpc>>
vars == <<schedVars, cpuVars, callVars>>

TypeOK ==
  /\ SchedTypeOK
  /\ proc \in Proc \cup {NULL}
  /\ ended \subseteq Proc
  /\ freed \subseteq ended
  /\ regions \in [Proc -> SUBSET Nat]
  /\ cpc \in {"load", "cpu", "put", "run_list", "mlq", "free"}
  /\ proc_name \in Name \cup {NULL}
  /\ i \in Nat /\ j \in Nat
  /\ kill_process \in Seq(Proc)
  /\ run0 \in Seq(Proc)
  /\ ready0 \in [Level -> Seq(Proc)]

NoCall ==
  /\ proc_name' = NULL
  /\ i' = 0 /\ j' = 0
  /\ kill_process' = <<>>
  /\ run0' = <<>> /\ ready0' = [l \in Level |-> <<>>]

Init ==
  /\ init_scheduler
  /\ proc = NULL
  /\ ended = {} /\ freed = {}
  /\ regions = [p \in Proc |-> {}]
  /\ cpc = "load"
  /\ proc_name = NULL
  /\ i = 0 /\ j = 0
  /\ kill_process = <<>>
  /\ run0 = <<>> /\ ready0 = [l \in Level |-> <<>>]

-----------------------------------------------------------------------------
(* The loader, in some order.  The CPU starts when it is done. *)

\* add_proc, both halves.
Load ==
  /\ cpc = "load"
  /\ \E p \in Proc \ Ready :
       /\ running_list' = enqueue(running_list, p)
       /\ mlq_ready_queue' =
            [mlq_ready_queue EXCEPT ![prio[p]] = enqueue(@, p)]
  /\ UNCHANGED <<slot, MarkedPrior, flag, count, cpuVars, callVars>>

Loaded ==
  /\ cpc = "load" /\ Ready = Proc
  /\ cpc' = "cpu"
  /\ UNCHANGED <<schedVars, proc, ended, freed, regions, callVars>>

-----------------------------------------------------------------------------
(* The CPU.  How long it keeps a process is left open, and it goes on      *)
(* asking when get_proc returns NULL.                                      *)

Get ==
  /\ cpc = "cpu" /\ proc = NULL
  /\ \E ret \in Proc \cup {NULL} : get_proc(ret) /\ proc' = ret
  /\ UNCHANGED <<ended, freed, regions, cpc, callVars>>

PutFirstHalf ==
  /\ cpc = "cpu" /\ proc # NULL /\ proc \notin ended
  /\ put_running_list(proc)
  /\ cpc' = "put"
  /\ UNCHANGED <<proc, ended, freed, regions, callVars>>

PutSecondHalf ==
  /\ cpc = "put"
  /\ put_mlq_proc(proc)
  /\ proc' = NULL
  /\ cpc' = "cpu"
  /\ UNCHANGED <<ended, freed, regions, callVars>>

\* Mutant: the pcb is freed before the end of the code.
Finish_early ==
  /\ cpc = "cpu" /\ proc # NULL
  /\ freed' = freed \cup {proc}
  /\ proc' = NULL
  /\ UNCHANGED <<schedVars, ended, regions, cpc, callVars>>

\* The pcb of a process at the end of its code is freed.
Finish ==
  /\ cpc = "cpu" /\ proc \in ended
  /\ freed' = freed \cup {proc}
  /\ proc' = NULL
  /\ UNCHANGED <<schedVars, ended, regions, cpc, callVars>>

\* run executes the last instruction.
RunLast ==
  /\ cpc = "cpu" /\ proc # NULL /\ proc \notin ended
  /\ ended' = ended \cup {proc}
  /\ UNCHANGED <<schedVars, proc, freed, regions, cpc, callVars>>

\* run executes an alloc: arg_0 is the size, arg_1 the ID of the region.
RunAlloc ==
  /\ cpc = "cpu" /\ proc # NULL /\ proc \notin ended
  /\ \E a \in ALLOC[proc] :
       regions' = [regions EXCEPT ![proc] = @ \cup {a[2]}]
  /\ UNCHANGED <<schedVars, proc, ended, freed, cpc, callVars>>

-----------------------------------------------------------------------------
(* __sys_killall *)

\* The outcomes of strcmp.
Matches(p) == IF p \in freed THEN BOOLEAN ELSE {path[p] = proc_name}

killall(name) ==
  /\ cpc = "cpu" /\ proc # NULL /\ proc \notin ended
  /\ proc_name' = name
  /\ cpc' = "run_list"
  /\ i' = 1 /\ j' = 0
  /\ kill_process' = <<>>
  /\ run0' = running_list /\ ready0' = mlq_ready_queue
  /\ UNCHANGED <<schedVars, proc, ended, freed, regions>>

\* Process p is noted and its pc set to its end.
Kill(p) ==
  /\ kill_process' = Append(kill_process, p)
  /\ ended' = ended \cup {p}

\* Mutant: no size--.
run_list_hit_keeps ==
  /\ cpc = "run_list" /\ i <= Len(running_list)
  /\ TRUE \in Matches(running_list[i])
  /\ Kill(running_list[i])
  /\ running_list' = Append(RemoveAt(running_list, i), Last(running_list))
  /\ UNCHANGED <<mlq_ready_queue, slot, MarkedPrior, flag, count, proc, freed,
                 regions, cpc, proc_name, i, j, run0, ready0>>

\* A match is taken out of running_list, and the one that moves up is next.
run_list_hit ==
  /\ cpc = "run_list" /\ i <= Len(running_list)
  /\ TRUE \in Matches(running_list[i])
  /\ Kill(running_list[i])
  /\ running_list' = RemoveAt(running_list, i)
  /\ UNCHANGED <<mlq_ready_queue, slot, MarkedPrior, flag, count, proc, freed,
                 regions, cpc, proc_name, i, j, run0, ready0>>

run_list_miss ==
  /\ cpc = "run_list" /\ i <= Len(running_list)
  /\ FALSE \in Matches(running_list[i])
  /\ i' = i + 1
  /\ UNCHANGED <<schedVars, cpuVars, proc_name, j, kill_process, run0, ready0>>

run_list_end ==
  /\ cpc = "run_list" /\ i > Len(running_list)
  /\ cpc' = "mlq"
  /\ i' = 0 /\ j' = 1
  /\ UNCHANGED <<schedVars, proc, ended, freed, regions, proc_name,
                 kill_process, run0, ready0>>

\* Mutants: no j--; no size--.
mlq_hit_skips ==
  LET q == mlq_ready_queue[i]
  IN  /\ cpc = "mlq" /\ i < MAX_PRIO /\ j <= Len(q)
      /\ TRUE \in Matches(q[j])
      /\ Kill(q[j])
      /\ mlq_ready_queue' = [mlq_ready_queue EXCEPT ![i] = Tail(q)]
      /\ j' = j + 1
      /\ UNCHANGED <<running_list, slot, MarkedPrior, flag, count, proc, freed,
                     regions, cpc, proc_name, i, run0, ready0>>

mlq_hit_keeps ==
  LET q == mlq_ready_queue[i]
  IN  /\ cpc = "mlq" /\ i < MAX_PRIO /\ j <= Len(q)
      /\ TRUE \in Matches(q[j])
      /\ Kill(q[j])
      /\ mlq_ready_queue' =
           [mlq_ready_queue EXCEPT ![i] = Append(Tail(q), Last(q))]
      /\ UNCHANGED <<running_list, slot, MarkedPrior, flag, count, proc, freed,
                     regions, cpc, proc_name, i, j, run0, ready0>>

\* Mutant: the process that is shifted out is killed, and not the match.
mlq_hit_head ==
  LET q == mlq_ready_queue[i]
  IN  /\ cpc = "mlq" /\ i < MAX_PRIO /\ j <= Len(q)
      /\ TRUE \in Matches(q[j])
      /\ Kill(q[1])
      /\ mlq_ready_queue' = [mlq_ready_queue EXCEPT ![i] = Tail(q)]
      /\ UNCHANGED <<running_list, slot, MarkedPrior, flag, count, proc, freed,
                     regions, cpc, proc_name, i, j, run0, ready0>>

\* A match in a ready queue: the shift starts at index 0 and not at j, so
\* the first process leaves the queue, whichever it is.
mlq_hit ==
  LET q == mlq_ready_queue[i]
  IN  /\ cpc = "mlq" /\ i < MAX_PRIO /\ j <= Len(q)
      /\ TRUE \in Matches(q[j])
      /\ Kill(q[j])
      /\ mlq_ready_queue' = [mlq_ready_queue EXCEPT ![i] = Tail(q)]
      /\ UNCHANGED <<running_list, slot, MarkedPrior, flag, count, proc, freed,
                     regions, cpc, proc_name, i, j, run0, ready0>>

\* Mutant: j does not move.
mlq_miss_stays ==
  /\ cpc = "mlq" /\ i < MAX_PRIO /\ j <= Len(mlq_ready_queue[i])
  /\ FALSE \in Matches(mlq_ready_queue[i][j])
  /\ UNCHANGED vars

mlq_miss ==
  /\ cpc = "mlq" /\ i < MAX_PRIO /\ j <= Len(mlq_ready_queue[i])
  /\ FALSE \in Matches(mlq_ready_queue[i][j])
  /\ j' = j + 1
  /\ UNCHANGED <<schedVars, cpuVars, proc_name, i, kill_process, run0, ready0>>

mlq_level_end ==
  /\ cpc = "mlq" /\ i < MAX_PRIO /\ j > Len(mlq_ready_queue[i])
  /\ i' = i + 1 /\ j' = 1
  /\ UNCHANGED <<schedVars, cpuVars, proc_name, kill_process, run0, ready0>>

mlq_end ==
  /\ cpc = "mlq" /\ i = MAX_PRIO
  /\ cpc' = "free"
  /\ i' = 1
  /\ UNCHANGED <<schedVars, proc, ended, freed, regions, proc_name, j,
                 kill_process, run0, ready0>>

\* For each alloc of a killed process, __free is called with arg_0, the
\* size, as the ID; it refuses a region that is not there.
free_regions ==
  /\ cpc = "free" /\ i <= Len(kill_process)
  /\ LET p == kill_process[i]
     IN  regions' = [regions EXCEPT ![p] = @ \ {a[1] : a \in ALLOC[p]}]
  /\ i' = i + 1
  /\ UNCHANGED <<schedVars, proc, ended, freed, cpc, proc_name, j,
                 kill_process, run0, ready0>>

killall_return ==
  /\ cpc = "free" /\ i > Len(kill_process)
  /\ cpc' = "cpu"
  /\ NoCall
  /\ UNCHANGED <<schedVars, proc, ended, freed, regions>>

-----------------------------------------------------------------------------
CpuStep ==
  \/ Get \/ PutFirstHalf \/ PutSecondHalf \/ Finish \/ RunLast \/ RunAlloc
  \/ \E name \in Name : killall(name)

KillallStep ==
  \/ run_list_hit \/ run_list_miss \/ run_list_end
  \/ mlq_hit \/ mlq_miss \/ mlq_level_end \/ mlq_end
  \/ free_regions \/ killall_return

Next == Load \/ Loaded \/ CpuStep \/ KillallStep

Safety == Init /\ [][Next]_vars

\* The CPU thread runs on.
Spec == Safety /\ WF_vars(Next)

-----------------------------------------------------------------------------
(* Correctness. *)

\* The processes that killall is about.
Named == {p \in Proc \ freed : path[p] = proc_name}

(* When killall has walked the queues, its list of killed processes is
   exactly the processes of that name that were on running_list or in a
   ready queue when it was called, each of them at the end of its code, and
   running_list holds none of them any more - although it removes entries
   from the queues while it walks them, and from the wrong place.
   (Finished processes that running_list still points to may be on the
   list, too.) *)
KillsTheNamed ==
  cpc = "free" =>
    /\ ToSet(kill_process) \ freed =
         Named \cap (ToSet(run0) \cup UNION {ToSet(ready0[l]) : l \in Level})
    /\ Named \cap ToSet(kill_process) \subseteq ended
    /\ Named \cap ToSet(running_list) = {}

(* What is dispatched is alive: no freed pcb is in a ready queue or in the
   hands of the CPU, and none is queued twice. *)
ReadyIsLive ==
  /\ (Ready \cup {proc}) \cap freed = {}
  /\ \A p \in Proc, l \in Level : \A k, m \in QueuedAt(p, l) : k = m

(* kill_process, an array of MAX_PRIO places, gets at most one entry for
   each place of running_list and one for each process: 140 places are
   enough for 130 processes. *)
KillListBound == Len(kill_process) <= MAX_QUEUE_SIZE + Cardinality(Proc)

(* A process that killall does not name keeps its memory: regions are freed
   of named and of finished processes only, although the freeing loop trusts
   a list that was made while the queues moved under it. *)
OthersKeepRegions ==
  [][\A p \in Proc \ (Named \cup freed) : regions[p] \subseteq regions'[p]]_vars

(* killall returns: its loops end although they step back after a match. *)
KillallReturns == cpc \in {"run_list", "mlq", "free"} ~> cpc = "cpu"

-----------------------------------------------------------------------------
(* What the code says of itself and does not do. *)

(* "Remove process form queue by shifting array": the killed process is
   removed, the others stay in their queue. *)
OthersStay ==
  cpc = "free" =>
    \A l \in Level : ToSet(ready0[l]) \ Named \subseteq ToSet(mlq_ready_queue[l])
==============================================================================

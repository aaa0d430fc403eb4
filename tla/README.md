# A verification project for the OS simulator

The program (`src/src/*.c`, `src/include/*.h`) simulates a small operating
system: CPU threads take processes from a multi-level queue scheduler, run one
instruction of each per time slot, and a loader thread brings in the processes
of a configuration. Memory instructions go to a paged memory with one RAM and
several swap devices. This directory holds TLA+ modules that model it, TLC
configurations that check small instances, and TLAPS proofs for all instances.
The build that is modelled is the one `include/os-cfg.h` selects: `MLQ_SCHED`
and `MM_PAGING`.

## Inventory

| part | source | state | operations | what is hard |
|---|---|---|---|---|
| timer | `timer.c` | `_time`, `dev_list`, per device `done`, `fsh` and two lock/condition pairs | `attach_event`, `start_timer`, `next_slot`, `detach_event`, `stop_timer`, the loop of `timer_routine` | a barrier from two condition variables per device: lost wakeups, a device that is released twice or not at all, shutdown |
| scheduler | `sched.c`, `queue.c` | `mlq_ready_queue`, `running_list`, `slot`, and `MarkedPrior`, `flag`, `count`, which survive from call to call | `get_proc`, `put_proc`, `add_proc` | what a call returns depends on all calls before it; put and add are two critical sections; queues have ten places |
| threads | `os.c` | the flag `done`; per CPU `proc`, `time_left`; the loader's index | `cpu_routine`, `ld_routine`, `main` | who stops when; processes in flight between queue and CPU |
| interpreter | `cpu.c` | `pc` | `run` | one instruction per slot |
| program loader | `loader.c` | a new pcb | `load` | file parsing |
| virtual memory | `libmem.c`, `mm.c`, `mm-vm.c` | per process `vm_end`, `sbrk`, free regions, symbol table, page table, FIFO of pages | `liballoc`, `libfree`, `libread`, `libwrite` | an allocation that fails half way, double frees, frames shared by all processes |
| physical memory | `mm-memphy.c` | free frames and bytes of each device | `init_memphy`, `MEMPHY_get_freefp`, `MEMPHY_read`, `MEMPHY_write` | the list running out; several CPUs at the list, which has no lock of its own |
| system calls | `syscall.c`, `libstd.c`, `sys_*.c` | none of their own | `listsyscall`, `memmap`, `killall` | they change scheduler and memory without their locks |
| flat memory | `mem.c`, `paging.c` | | | not called in this build |

The parts interact by calls and shared state. CPU threads and the loader are
*devices* of the timer: each calls `next_slot` when it is done with a slot and
`detach_event` when it ends, and the timer lets all of them go on together.
They share the scheduler's queues under `queue_lock`. `main` joins them and
then stops the timer. An instruction runs in the CPU thread that holds its
process; allocation and freeing are serialised by `mmvm_lock`, which guards the
list of free frames that all processes share.

What makes each part correct:

* timer: time moves only when nobody works; each `next_slot` is one slot;
  nobody sleeps for ever; everything ends when the devices end;
* scheduler: no process is lost or doubled or starved; levels get their share
  of a round; first come, first served within a level;
* threads: every process finishes, each runs once per slot, CPUs stop when and
  only when there is nothing left to do;
* memory: regions do not overlap, frames are not handed out twice, a read
  returns what was written, an allocation that fails takes nothing. (The code
  does not keep the last two: see `vmem_read`, and `NoneMissingWhileAnyLeft`
  for what is left of the second.)

## Modules

| module | models | composes |
|---|---|---|
| `SlotBarrier` | what `timer.c` promises: the abstract specification | |
| `Timer` | `timer.c`, one action per critical section | implements `SlotBarrier` |
| `MLQ` | `sched.c` and `queue.c` as operators on the scheduler's state | |
| `Sched` | CPUs and loader that use the scheduler in any order | `MLQ` |
| `OS` | `os.c` and `run` of `cpu.c` | `MLQ`, `SlotBarrier`; implements `Sched` |
| `PTE` | page table entries: the bit fields of `mm.h` and `bitops.h` | |
| `VMem` | `libmem.c`, `mm.c`, `mm-vm.c`, `mm-memphy.c`, `sys_mem.c`, `syscall.c` | `PTE` |
| `FramePool` | what `MEMPHY_get_freefp` promises: the abstract specification | |
| `Frames` | `MEMPHY_get_freefp` and its callers, access by access | `SlotBarrier`, implements `FramePool` |
| `KillAll` | `sys_killall.c` on a machine with one CPU | `MLQ` |
| `MCTimer`, `MCSched`, `MCOS`, `MCVMem`, `MCFrames`, `MCKillAll` | constants for TLC; `MCSched` also has the literal loop of `get_mlq_proc` | |
| `MLQProofs` | lemmas about the operators of `MLQ`, used by the next three | |
| `SchedProofs`, `OSProofs`, `KillAllProofs`, `TimerProofs`, `VMemProofs`, `FramesProofs` | theorems and proofs | |

Actions and operators have the names of the C functions where there is one;
`PROJECT.json` maps each to its lines. An operator introduced by a comment
`Mutant:` is not part of a model: it is a wrong version of the definition that
follows it, used to see that the properties notice.

**Timer.** `attach_event` pushes devices on the front of a list that never
changes afterwards, so devices are numbers and the list iterator counts down.
`tpc` is the control point of the timer thread, `dpc[d]` that of device `d`
inside the timer's interface. `next_slot` is two actions because it uses two
locks one after the other. A thread in `pthread_cond_wait` is at `"sleep"` and
leaves it by a signal or by a spurious wakeup; then it tests again. `seen[d]`
is a history variable: the time when `d` last returned from `next_slot`.

**MLQ.** `get_proc` is written as its four outcomes: the level of the last
dispatch goes on, the search downwards finds a level, it runs off the end and a
new round finds one, or it gives up. `GetIsLoop` checks this form against the
label, gotos and loop of the code. `dequeue` searches for the highest priority
as the code does; that this is always the first process of a queue is lemma
`HighestIsFirst`. The two critical sections of `put_proc` and `add_proc` are
two operators.

**Sched** lets CPUs hold processes for any time and finish them at will, which
covers more than `os.c` does: what holds there does not depend on time slots.
`turned_away` is a history variable: the last `get_proc` returned `NULL`.

**OS** adds the control of `cpu_routine` and `ld_routine`. A step is one
critical section, or one access to `done`, with the thread-local code around
it. `Callers` maps it to `Sched`: the loader's index gives the processes not
yet loaded, and a CPU is about to get a process, holds one, or is in the middle
of `put_proc`; `turned_away` is `count = MAX_PRIO`, since `get_mlq_proc` leaves
`count` there when it returns `NULL` and at 0 otherwise. `left[p]` is `code->size - pc`. Code sizes and start times are chosen when
the loader loads a process. The barrier takes the place of the timer, which the
refinement in `Timer` justifies. The clock stops at `MaxStart`, since the code
compares it with start times only.

**VMem.** One instruction is one step: `__alloc` and `__free` hold `mmvm_lock`
throughout, and a process is run by one CPU at a time (`EachProcessOnce` of
`OS`). A page table entry is a 32-bit word, written as the set of its bits that
are 1 (`PTE`). Free regions are a set, as nothing depends on their order and
none is ever listed twice (`EnlistedIsNew` in `VMemProofs`). Two
things of the code are easily read past and are in the model as they are:
`alloc_pages_range` builds a list of frames and does not store it in
`*frm_lst`, so `frm_lst` is empty; and `get_free_vmrg_area` returns -1 on every
path, so `__alloc` always grows the area and a freed region is never given out
again. A failed read stores -1 (as an unsigned word) in its destination. A
request that finds too few frames keeps all that were left: the clean-up loop
of `alloc_pages_range` tests the end of its own list. Words that the code reads
without having set them come from `malloc`; in the build they are zero, and so
they are in the model. RAM has at least two frames, since `MEMPHY_format` does
not end the list of a device with fewer. Region IDs go one beyond the symbol
table for `liballoc`, which checks none, and two for `libfree`, `libread` and
`libwrite`. Behind the table lies the pointer `fifo_pgn`, here a number:
`liballoc` with the first ID behind the table overwrites it with the old break,
`get_symrg_byid` reads it as an address, and `find_victim_page` follows it,
which ends the program (`crashed`). The contents of the swap devices are not in
the model; `memmap` can copy a frame there, and nothing that is reached reads
it. System calls come in through `libsyscall`: `memmap` has all
its operations, other numbers change nothing here. Numbers that the code does
not check and that lead outside a device or to another area than 0 are left
out.

**Frames** opens up what `VMem` does in one step. The CPUs run `liballoc` (with
`mmvm_lock`) or the `memmap` call (without), and in the loop of
`alloc_pages_range` every access to the shared list is an action: read the
head, read the frame number, read the next node and store it as the head, free
the node. `frames[t]` is the list that `alloc_pages_range` builds; when the
loop is done its frames belong to the thread (`got[t]`), when it fails the
clean-up (`give_back`) drops it: its loop tests the end of its own list, so it
returns no frame. As no frame is ever put back, nodes are numbers and the list is a
tail of the first one. A thread that uses a freed node is `"undefined"`. The
threads are devices of `SlotBarrier`: after its call a CPU waits for the next
slot. `AllocSpec` has `liballoc` only, `Safety` has both.

**KillAll** composes the scheduler of `MLQ` with `__sys_killall`, one loop
iteration a step. There is one CPU and it starts when the loader has put every
process into its queue (`Load`, in any order), so nobody else touches
the queues; in the program the loader goes on adding processes meanwhile.
Positions count from 1. The name is any of `Name`: the loop that reads it,
which has no bound on `proc_name`, is part of the call. In this build
`libread` always fails (`vmem_read`), the name is empty and nothing is killed;
the model shows what the call does with a name once reads work, and the empty
name is one of the names of the run. `freed` are pcbs that the CPU has freed
and `running_list` still points to: their names compare as they like.

## Runs that pass

**timer** (`MCTimer`, 3 devices, 2 slots each): every interleaving with
spurious wakeups. `Lockstep`, `OneSlotPerCall`: time does not move under a
working device and `next_slot` is exactly one slot, although the timer releases
devices one after another and a released one may be back before the loop ends.
`NoLostWakeup`, `NextSlotReturns`: the signal cannot fall between the two
critical sections. `TimerOutlivesDevices`, `Shutdown`: the loop ends when and
only when all have detached. `BarrierSpec`: with its liveness, `timer.c`
implements `SlotBarrier`. Three devices give a first, a middle and a last one
of the list; in two slots a device can be a slot ahead of one not yet released.

**sched** (`MCSched`, 3 processes on 2 of 3 levels, 2 CPUs):
`EachProcessOnce` (nothing lost or doubled), `SlotBudget`,
`RefusedAtMostOnce` and `ServedAfterRefusal` (see below), `GetIsLoop`,
`FifoPerLevel`, `NoStarvation`. Three levels have a budget of 3, 2 and 1; one
level has two processes that must alternate, one is empty and must be skipped.
`running_list` fills up within the run.

`get_mlq_proc` can return `NULL` although a process is ready: when level 0 has
used its slots the search starts there, skips exactly `MAX_PRIO` levels and
takes that for "all queues empty". `RefusedAtMostOnce` says this is the only
way it happens. `ServedAfterRefusal` says that the next call, by whichever CPU
and whatever was put back or added in between, makes up for it: it dispatches
the most urgent of all ready processes. (After a dispatch that is not so, see
`sched_urgent`; a refusal begins a new round.)

**os** (`MCOS`, 3 processes on levels 1 and 2, 2 CPUs, time slot 2, code of 1
or 3 instructions, start times 0 and 1): `EachProcessOnce`,
`OneInstructionPerSlot`, `NoProcessAbandoned`, `SchedSafety` (the machine
implements `Sched`), `AllProcessesFinish`, `BusyCpuStops`. Processes of 3 instructions are put back
once, those of 1 end within their slot; with two CPUs one can be idle, and a
process can move between CPUs. Level 0 is left out here because of `os_top`.

**vmem** (`MCVMem`, 2 processes, 2 regions each, pages of 4 bytes, 3 frames,
sizes 3 and 5, `memmap` with arguments 0 and 6, region IDs behind the table): `RegionsApart` over any
sequence of allocations, frees, double frees, reallocations under the same ID
and growth of the area by `memmap`;
`FramesCoverSpace`; `BreakInArea`: `sbrk` never passes `vm_end`, although an
allocation that fails half way and `memmap` raise `vm_end` alone;
`StoppedOnlyBehindTable`: of all instructions only an access after an
allocation behind the table can stop the program, and what it follows is an
earlier break. Size 3 leaves a rest that is
too small for a free region, 5 takes two pages and leaves one; three frames run
out, with and without some left; 6 is no multiple of a page, a frame's address
for `IO_WRITE`, and no frame for `SWP`.

**frames** (`MCFrames`, 3 CPUs, 4 frames, requests of 0 to 2 pages): all
interleavings of the accesses under `mmvm_lock`. `NoFrameTwice`; `NoDangling`;
`NoneMissingWhileAnyLeft`: frames go missing only when RAM is used up (then
they do, see the end of the next section); `PoolSpec`: taking a frame looks like one step, which is what
`VMem` assumes; `CallReturns`: no way out of `__alloc` keeps the lock, and
nobody waits for it for ever. Three CPUs that want two of four frames each: one
of them fails half way, and two can wait for the lock at once.

**killall** (`MCKillAll`, 3 processes in one level, two with the same name, a
fourth in another, 3 places in a queue): `KillsTheNamed`: the two loops remove
entries from the arrays they walk, one of them at the wrong place, and still
visit every entry once. `ReadyIsLive`: `killall` never leads to a freed pcb
being dispatched. `KillListBound`: the array `kill_process`
overflows only with more than 130 processes. `OthersKeepRegions`: whatever the
loops have put on the list, no live process of another name loses memory.
`KillallReturns`. A queue of one
level can hold matches next to each other and behind others; `running_list` has
no room for all processes, so that some are found in a ready queue only, and
can hold a process several times after `killall` has made room.

Deadlock is checked in all runs. `Finished` in `Timer` is the end of the
program. The machine of `OS` never comes to a standstill because the model's
clock ticks on after everybody has left.

## Runs that find a difference

Each checks one property that a comment or an expected output states and the
code violates. `PROJECT.json` has the quotations.

| run | property | what the code does |
|---|---|---|
| `sched_urgent` | `MostUrgentFirst` | after a dispatch the search goes on at that level and below; a more urgent process that has come in waits. `output/sched_0.output` shows the opposite. |
| `os_idle` | `EveryCpuStops` | a CPU that is idle when loading ends never looks at `done` and never stops; `main` waits for ever |
| `os_top` | `NoProcessAbandoned` | one CPU, one process at level 0 with more dispatches than the level has slots: `get_proc` refuses it once and the CPU stops |
| `vmem_read` | `ReadReturnsWritten` | no page is ever mapped, so every read and write fails |
| `frames_memmap` | `NoFrameTwice` | `memmap` takes frames without `mmvm_lock`; two CPUs, one or both in `memmap`, get the same frame |
| `killall_queue` | `OthersStay` | the removal from a ready queue shifts from index 0: the first process is lost, the killed one stays |

Further differences are in the models and have no run of their own:

* a request that found some frames but not enough gives none back, although
  the comment at `mm.c:167` says that it does: the loop of the clean-up tests
  the end of its own list. In `Frames` these frames are neither on the list
  nor anybody's after `give_back`, and `FramePool` has an action for it,
  `Forget`;
* an allocation under the first ID behind the symbol table overwrites
  `fifo_pgn`; if the process had a break above 0, its next access follows that
  number and the program is stopped (`access_crashes` in `VMem`);
* `killall` frees regions by the size in the `alloc` instruction (`arg_0`) and
  not by the ID (`arg_1`), so a killed process may keep its regions
  (`free_regions` in `KillAll`), against the comment at `sys_killall.c:99`;
* a full queue drops the process that `add_proc` is given (`enqueue`);
* a freed region is never used again (`liballoc`).

## Fairness

* `Timer`: weak fairness of main, of the timer thread and of each device: the
  operating system runs threads that can run. That covers leaving a mutex, as a
  critical section is one step and no thread holds two locks. A device calls
  `next_slot` or detaches some day: an instruction takes finite time. Spurious
  wakeups are possible and never fair.
* `Sched`: weak fairness of each CPU and of the second half of `add_proc`. A
  CPU always has a step, since `get_proc` does not block, so fairness does not
  say which thread gets which process. The loader need not add anything.
* `OS`: weak fairness of the threads and of the tick; the latter is the
  liveness part of `SlotBarrier`, which `Timer` is checked to implement.
* `Frames`: the same. Weak fairness is enough for taking `mmvm_lock`, too,
  although a mutex need not be fair: a CPU comes back for it only in the next
  slot, and that begins when all the others have had it.
* `KillAll`: weak fairness of the one thread there is.

## Proofs

All theorems hold for every value of the constants under the assumptions named
in the modules (`TimerAssumption`, `MLQAssumption`, `CpuAssumption`,
`OSAssumption`, `VMemAssumption`, `FramesAssumption`, `KillAllAssumption`),
which TLC evaluates on the instances. Two hypotheses are stated where they are
needed and not more widely: `LevelsFit`, each level has at most as many
processes as a queue has places (otherwise `enqueue` drops one, and nothing of
the kind is true), and, for `NoProcessAbandoned`, that no process has priority
0 (otherwise `os_top` happens). `KillAll` assumes `LevelsFit`, since its loader
could not finish without it. The instances of the runs satisfy them.

**TimerProofs**: type correctness, `Lockstep`, `NoLostWakeup`,
`TimerOutlivesDevices`, `OneSlotPerCall`, and `ImplementsBarrier`: every
behaviour of `Timer` is one of `SlotBarrier`. None of the properties is
inductive. The invariant relates the flags of a device to where it is
(`DeviceInv`) by splitting a round into the devices the timer has already
counted and those it has still to release: a counted device is done or gone,
and stays so until its release; a device with `done` set is level with the
clock unless it is still to be released, then it is one behind. `TimerInv` says
what the two counters mean (`event + temp = N`; `nfsh = event` if and only if
all devices counted so far have detached), which is what makes the exit test of
the loop right. The refinement mapping lets a device go at the tick and not at
its own release, so `timer_tick` is the abstract `Tick` and the releases are
stuttering steps.

**MLQProofs** says once what the operators of the scheduler do. For
`SlotBudget` and order: a process is queued at its own level (`LevelInv`;
without it `dequeue` could take a process from the middle), how the static
variables hang together between calls (`SearchInv`: `count` is not 0 only after
a refusal, and then the search starts at 0), and a lemma for each outcome of
`get_proc` and for the halves of put and add. For places: `Orderly` queues hold
every process at its level and once; then `get_proc` takes exactly the process
it returns out of `Ready` (`GetTakes`) and the second half of `put_proc` adds
exactly its argument (`PutAdds`), because a queue without duplicates that its
level fits into has room for one that is not in it (`RoomForOne`).

**SchedProofs**: type correctness, `SlotBudget`, `RefusedAtMostOnce`,
`ServedAfterRefusal`, `FifoPerLevel`, and `EachProcessOnce` under `LevelsFit`.
The last needs `PlaceInv`: the loader, the CPUs, the queues and the finished
processes share out the processes. `ServedAfterRefusal` needs `RefusalInv`:
from a refusal to the next call of `get_proc`, the search stands at the
beginning of a round with no slot used and `count` at `MAX_PRIO`, which no put,
add or finish changes; so every level that is not empty has its turn, and the
search from 0 finds the first.

**OSProofs**: type correctness; under `LevelsFit` `EachProcessOnce` (with the
same kind of invariant over the loader's index), `OneInstructionPerSlot` and
`NoProcessAbandoned`; and `ImplementsSched`. `OneInstructionPerSlot` rests on
`RanInv`: a process that ran in this slot is still with the CPU that ran it,
and that CPU waits for the next slot; with `EachProcessOnce`, no CPU that works
can have it. `NoProcessAbandoned` rests on `FreshInv` and `ServeInv`: without
level 0 the search is in the state in which it refuses a ready process only
before the first dispatch, when no CPU can be about to stop; so when all CPUs
have given up, nothing is ready - unless the loader has just added a process,
and then it waits for the next slot and `done` is not yet set. The refinement
maps every step to a step of `Sched` or a stutter; it needs no `LevelsFit`.

**KillAllProofs**: type correctness, `ReadyIsLive`, `KillListBound`,
`KillsTheNamed` and `OthersKeepRegions`, all for `Safety`. `ReadyIsLive` follows from `LiveInv`:
`killall` only ever removes from the queues, and only the process in the hands
of the CPU is freed. `KillListBound` needs `CountInv`: an entry of the list is
paid for with a place of `running_list`, later with a process in a ready queue,
if not always its own. `KillsTheNamed` needs `WalkInv`: places of
`running_list` before `i` hold no process of the name; levels before `i` are
done; and the level that is walked has lost as many processes at its head as it
had matches, so that place `k` of it is place `k + Lost` of the queue as it was
found, and all places of that one before `j + Lost` are done. Removing the
wrong process shifts the queue just as far as removing the right one would.
`OthersKeepRegions` is an action property and follows from `KillsTheNamed`: the
freeing loop is the only step that takes regions away, and its list is right.

**VMemProofs**: type correctness, `RegionsApart`, `BreakInArea`,
`StoppedOnlyBehindTable` and `FramesCoverSpace`.
`RegionsApart` is inductive together with the types: it says that all regions
end below the break, which is what makes the next one free of overlap, given
that rounding up to pages does not round down (`AlignUp`); `memmap` does not
move the break. `BreakInArea` is inductive: whoever raises `sbrk` has raised
`vm_end` by as much (`Raised`), and nothing lowers it. That no page is mapped
(`NoneMapped`), because `vmap_page_range` of an empty list maps nothing
(`MapsNothing`), is no property of its own; reads and writes keep the types only because
of it, so it is part of the invariant. `StoppedOnlyBehindTable` needs
`StopInv`: `fifo_pgn` is NULL or at most the break, which only an allocation
behind the table sets and nothing lowers. `FramesCoverSpace` is inductive: an
allocation gives the frames it takes from the front of the list to its process
(`FirstFramesLeave`: as many as pages, and none of them stays), and they are
enough for the size (`PagesHold`); a failed one and `memmap` only shorten the
list.

**FramesProofs**: type correctness, `NoFrameTwice`, `NoneMissingWhileAnyLeft`,
`NoDangling` and `ImplementsPool`, for `AllocSafety`. The invariant adds that a thread
between locking and unlocking is the holder of the lock (`LockInv`), that the
node in hand is the head of the list until the list moves on and right before
it until the node is freed, and that the list is empty where a request fails
(`WalkInv`), and that freed nodes and the frames of the threads lie before the
head (`FreedInv`, `HeldInv`). In the refinement the store of the new head is
the abstract `Take`, the clean-up of a failed request is `Forget`, everything
else a stuttering step. For `Safety`, with `memmap`,
`LockInv` fails at once, and so do the theorems: that is `frames_memmap`.

Only model-checked: all liveness (`NextSlotReturns`, `Shutdown`, the fairness of
`BarrierSpec`, `NoStarvation`, `AllProcessesFinish`, `BusyCpuStops`,
`CallReturns`, `KillallReturns`), which is out of reach of the prover;
and `GetIsLoop`, which uses recursive operators and `ENABLED`. Every other
invariant and action property of the passing runs has a theorem.

## Not modelled, and the plan

Not modelled for good: parsing of configuration and process files
(`read_config`, `get_opcode`); printing and dumps; the code that this build does
not compile or call (`mem.c`, `paging.c`, the `#else` branches, `free_pcb_memph`,
`queue_empty`); sequential access to a memory device.

Also not modelled: the swap branch of `pg_getpage`, the search of
`find_victim_page` through a list, `pte_set_swap` and `MEMPHY_put_freefp`, which
need a mapped page, and none ever is; the contents of the swap devices; an
allocation under an ID beyond the first behind the symbol table, and `memmap`
with numbers outside a device, which write to memory the model does not have;
the loop of `killall` that reads the name, whose missing bound is a hazard; `killall` beside other CPUs, whose races on the arrays
of the queues and on `pc` are listed as hazards; names longer than the five
characters that `load` keeps.

Planned, in this order:

1. a second CPU in `KillAll`, with `pc` as a number, to show the race between
   `killall` and `run`;
2. `OS` and `VMem` composed, so that instructions act on memory in the slot in
   which they run.

-------------------------------- MODULE VMem --------------------------------
(***************************************************************************)
(* libmem.c, mm.c, mm-vm.c and mm-memphy.c: the paged memory of the        *)
(* processes and the RAM frames they share.  __alloc and __free run under  *)
(* mmvm_lock from beginning to end, and a process is in the hands of one   *)
(* CPU at a time (OS.tla, EachProcessOnce), so one instruction is one      *)
(* step here.  Every process has the one area, vmaid 0, that init_mm       *)
(* gives it.  The memmap call does not take mmvm_lock; that it is one step *)
(* here too is right as long as no other CPU is inside __alloc (Frames.tla *)
(* is about what happens otherwise).                                       *)
(*                                                                         *)
(* Memory from malloc that the code reads without setting it (symrgtbl,    *)
(* fifo_pgn, pgd, the tail of vm_freerg_list, fp_next) is zero in the      *)
(* build: it comes from a fresh arena, or from a thread cache that clears  *)
(* that word.                                                              *)
(***************************************************************************)
EXTENDS Integers, FiniteSets, SequencesExt, PTE

CONSTANTS
  Proc,           \* processes
  PAGING_MAX_SYMTBL_SZ,  \* number of entries of symrgtbl
  NULL,
  PAGING_PAGESZ,
  PAGING_MAX_PGN, \* number of page table entries
  numfp,          \* number of RAM frames, memramsz / PAGING_PAGESZ
  numswp,         \* number of frames of the active swap device
  NODE,           \* the address of a list node, as a number
  Sizes,          \* sizes that programs ask for
  Offsets,        \* offsets they read and write at
  Bytes,          \* bytes they write
  Calls,          \* numbers of the system calls they make
  Args,           \* second and third arguments of those calls
  MaxEnd          \* bound: vm_end does not grow beyond MaxEnd

ASSUME VMemAssumption ==
  /\ NULL \notin Int
  /\ PAGING_PAGESZ \in Nat \ {0}
  /\ PAGING_MAX_PGN \in Nat \ {0}
  /\ PAGING_MAX_SYMTBL_SZ \in Nat \ {0}
  /\ numfp \in Nat \ {0, 1} /\ numswp \in Nat
  /\ NODE \in Nat \ {0}
  /\ Sizes \subseteq Nat /\ Offsets \subseteq Nat /\ Bytes \subseteq Nat
  /\ Calls \subseteq Nat /\ Args \subseteq Nat
  /\ MaxEnd \in Nat

VARIABLES
  free_fp_list,   \* of mram: the frames that MEMPHY_get_freefp hands out
  storage,        \* of mram: storage[f][o] is byte o of frame f
  vm_end, sbrk,   \* of the area of each process
  vm_freerg_list, \* its free regions; nobody depends on their order
  symrgtbl,       \* symrgtbl[p][r]: the region r of process p
  pgd,            \* pgd[p][n]: the page table entry of page n
  fifo_pgn,       \* the pointer to its mapped pages as a number, 0 for NULL
  destination,    \* what the last read returned, -1 if it failed
  crashed,        \* the program was stopped by the operating system
  wrote           \* history: the last write, if its region still is there

vars == <<free_fp_list, storage, vm_end, sbrk, vm_freerg_list,
          symrgtbl, pgd, fifo_pgn, destination, crashed, wrote>>

Reg == 0..(PAGING_MAX_SYMTBL_SZ - 1)
Frame == 0..(numfp - 1)
Page == [0..(PAGING_PAGESZ - 1) -> Nat]
PageNumber == 0..(PAGING_MAX_PGN - 1)
Region == [rg_start : Nat, rg_end : Nat]
rg(start, end) == [rg_start |-> start, rg_end |-> end]

TypeOK ==
  /\ free_fp_list \in Seq(Frame)
  /\ storage \in [Frame -> Page]
  /\ vm_end \in [Proc -> Nat]
  /\ sbrk \in [Proc -> Nat]
  /\ vm_freerg_list \in [Proc -> SUBSET Region]
  /\ symrgtbl \in [Proc -> [Reg -> Region]]
  /\ pgd \in [Proc -> [PageNumber -> Word]]
  /\ fifo_pgn \in [Proc -> Nat]
  /\ destination \in Int \cup {NULL}
  /\ crashed \in BOOLEAN
  /\ wrote \in [p : Proc, r : Reg, off : Nat, value : Nat] \cup {NULL}

\* Mutant: frames are numbered from 1.
init_memphy_from1 ==
  /\ free_fp_list = [k \in 1..numfp |-> k]
  /\ storage = [f \in Frame |-> [o \in 0..(PAGING_PAGESZ - 1) |-> 0]]

\* init_memphy and MEMPHY_format, of mram.  What is on the swap devices is
\* not modelled: only pg_getpage would read it, and never does.
init_memphy ==
  /\ free_fp_list = [k \in 1..numfp |-> k - 1]
  /\ storage = [f \in Frame |-> [o \in 0..(PAGING_PAGESZ - 1) |-> 0]]

\* The loader calls init_mm for each process before it adds it.
init_mm ==
  /\ vm_end = [p \in Proc |-> 0]
  /\ sbrk = [p \in Proc |-> 0]
  /\ vm_freerg_list = [p \in Proc |-> {rg(0, 0)}]
  /\ symrgtbl = [p \in Proc |-> [r \in Reg |-> rg(0, 0)]]
  /\ pgd = [p \in Proc |-> [n \in PageNumber |-> {}]]
  /\ fifo_pgn = [p \in Proc |-> 0]

Init ==
  /\ init_memphy
  /\ init_mm
  /\ destination = NULL
  /\ crashed = FALSE
  /\ wrote = NULL

-----------------------------------------------------------------------------
(* Allocation. *)

PAGING_PAGE_ALIGNSZ(sz) ==
  ((sz + PAGING_PAGESZ - 1) \div PAGING_PAGESZ) * PAGING_PAGESZ

PAGING_PGN(addr) == (addr \div PAGING_PAGESZ) % PAGING_MAX_PGN
PAGING_OFFST(addr) == addr % PAGING_PAGESZ

\* The new region at the break meets no free region.
validate_overlap_vm_area(p, start, end) ==
  \A f \in vm_freerg_list[p] : end <= f.rg_start \/ start >= f.rg_end

\* Mutant: off by one in the frames taken.
FramesLeft_more(n) == SubSeq(free_fp_list, IF n = 0 THEN 1 ELSE n,
                             Len(free_fp_list))

\* alloc_pages_range takes n frames from the front of the list, or all
\* there are.  It builds a list of them for its caller and then does not
\* store it in *frm_lst: the caller is left with NULL.
FramesLeft(n) == SubSeq(free_fp_list, n + 1, Len(free_fp_list))
frm_lst(n) == <<>>

\* A new free region; an empty one is refused.
enlist_vm_freerg_list(p, f) ==
  IF f.rg_start >= f.rg_end THEN vm_freerg_list[p]
  ELSE vm_freerg_list[p] \cup {f}

\* vmap_page_range maps the pages from addr on to the frames of the list.
vmap_page_range(p, addr, frames) ==
  LET first == PAGING_PGN(addr)
  IN  pgd' = [pgd EXCEPT ![p] =
        [k \in PageNumber |->
           IF k - first \in 0..(Len(frames) - 1)
           THEN pte_set_fpn({}, frames[k - first + 1])
           ELSE @[k]]]

\* fifo_pgn when it has put those pages on the list that it points to.
enlist_pgn_node(p, frames) == IF Len(frames) = 0 THEN fifo_pgn[p] ELSE NODE

\* The last write went to region r of process p.
WroteTo(p, r) == wrote # NULL /\ wrote.p = p /\ wrote.r = r

PagesOf(inc_sz) == PAGING_PAGE_ALIGNSZ(inc_sz) \div PAGING_PAGESZ

\* Mutant: vm_end is not raised.
inc_vma_limit_kept(p, inc_sz) ==
  LET n == PagesOf(inc_sz)
  IN  /\ vm_end[p] + inc_sz <= MaxEnd
      /\ validate_overlap_vm_area(p, sbrk[p], sbrk[p] + inc_sz)
      /\ n <= Len(free_fp_list)
      /\ free_fp_list' = FramesLeft(n)
      /\ vmap_page_range(p, vm_end[p], frm_lst(n))
      /\ UNCHANGED vm_end

\* inc_vma_limit succeeds: no overlap at the break, and enough frames.
inc_vma_limit(p, inc_sz) ==
  LET n == PagesOf(inc_sz)
  IN  /\ vm_end[p] + inc_sz <= MaxEnd
      /\ validate_overlap_vm_area(p, sbrk[p], sbrk[p] + inc_sz)
      /\ n <= Len(free_fp_list)
      /\ vm_end' = [vm_end EXCEPT ![p] = @ + inc_sz]
      /\ free_fp_list' = FramesLeft(n)
      /\ vmap_page_range(p, vm_end[p], frm_lst(n))

\* inc_vma_limit fails, after an overlap at once, without enough frames when
\* it has raised vm_end and used up the list.  The clean-up of
\* alloc_pages_range tests the end of its own list, so it returns no frame.
inc_vma_limit_fails(p, inc_sz) ==
  LET apart == validate_overlap_vm_area(p, sbrk[p], sbrk[p] + inc_sz)
      n == PagesOf(inc_sz)
  IN  /\ vm_end[p] + inc_sz <= MaxEnd
      /\ ~(apart /\ n <= Len(free_fp_list))
      /\ vm_end' = [vm_end EXCEPT ![p] = IF apart THEN @ + inc_sz ELSE @]
      /\ free_fp_list' = IF apart THEN <<>> ELSE free_fp_list
      /\ UNCHANGED pgd

\* __alloc grows the area in every case, since get_free_vmrg_area only has
\* ways out that return -1.  It does not look at the region ID.  The first
\* one behind the table has its rg_start where fifo_pgn is; its rg_end lies
\* behind the mm_struct, in the header of a heap chunk that is never freed.
\* (Further IDs write to memory that is not modelled.)
liballoc(p, size, r) ==
  LET inc_sz == PAGING_PAGE_ALIGNSZ(size)
      old_sbrk == sbrk[p]
  IN  /\ inc_vma_limit(p, inc_sz)
      /\ vm_freerg_list' = [vm_freerg_list EXCEPT ![p] =
           enlist_vm_freerg_list(p, rg(old_sbrk + size + 1, old_sbrk + inc_sz))]
      /\ \/ /\ r \in Reg
            /\ symrgtbl' =
                 [symrgtbl EXCEPT ![p][r] = rg(old_sbrk, old_sbrk + size)]
            /\ fifo_pgn' = [fifo_pgn EXCEPT ![p] =
                 enlist_pgn_node(p, frm_lst(PagesOf(inc_sz)))]
         \/ /\ r = PAGING_MAX_SYMTBL_SZ
            /\ fifo_pgn' = [fifo_pgn EXCEPT ![p] = old_sbrk]
            /\ UNCHANGED symrgtbl
      /\ sbrk' = [sbrk EXCEPT ![p] = @ + inc_sz]
      /\ wrote' = IF WroteTo(p, r) THEN NULL ELSE wrote
      /\ UNCHANGED <<storage, destination, crashed>>

liballoc_fails(p, size, r) ==
  /\ inc_vma_limit_fails(p, PAGING_PAGE_ALIGNSZ(size))
  /\ UNCHANGED <<storage, sbrk, vm_freerg_list, symrgtbl, fifo_pgn,
                 destination, crashed, wrote>>

\* Mutant: the region stays in the symbol table.
libfree_kept(p, r) ==
  LET free_rg == symrgtbl[p][r]
  IN  /\ r \in Reg
      /\ free_rg.rg_start < free_rg.rg_end
      /\ vm_freerg_list' =
           [vm_freerg_list EXCEPT ![p] = enlist_vm_freerg_list(p, free_rg)]
      /\ UNCHANGED <<free_fp_list, storage, vm_end, sbrk, symrgtbl,
                     pgd, fifo_pgn, destination, crashed, wrote>>

\* __free; an ID that is not in the table is refused, and a region that is
\* empty or already freed.
libfree(p, r) ==
  LET free_rg == symrgtbl[p][r]
  IN  /\ r \in Reg
      /\ free_rg.rg_start < free_rg.rg_end
      /\ vm_freerg_list' =
           [vm_freerg_list EXCEPT ![p] = enlist_vm_freerg_list(p, free_rg)]
      /\ symrgtbl' = [symrgtbl EXCEPT ![p][r] = rg(0, 0)]
      /\ wrote' = IF WroteTo(p, r) THEN NULL ELSE wrote
      /\ UNCHANGED <<free_fp_list, storage, vm_end, sbrk, pgd,
                     fifo_pgn, destination, crashed>>

-----------------------------------------------------------------------------
(* Access. *)

\* get_symrg_byid: where the region with ID rgid starts, NULL if the ID is
\* refused.  The check lets the first ID behind the table pass, and there
\* the pointer fifo_pgn is read as an address.
get_symrg_byid(p, rgid) ==
  IF rgid > PAGING_MAX_SYMTBL_SZ THEN NULL
  ELSE IF rgid \in Reg THEN symrgtbl[p][rgid].rg_start ELSE fifo_pgn[p]

\* pg_getpage: the frame of page n.  A page that is not present needs a
\* victim; without one, when fifo_pgn is NULL, pg_getpage fails.
pg_getpage(p, n) ==
  IF PAGING_PAGE_PRESENT(pgd[p][n]) THEN PAGING_FPN(pgd[p][n]) ELSE NULL

\* Mutant: the pointer is followed without a test for NULL.
find_victim_page_null(p, rgid, offset) ==
  LET start == get_symrg_byid(p, rgid)
  IN  /\ start # NULL
      /\ pg_getpage(p, PAGING_PGN(start + offset)) = NULL

\* Otherwise find_victim_page follows fifo_pgn.  As no page is ever mapped
\* there is no list, only what an allocation behind the table has left there:
\* a small number, no address of the program.
find_victim_page(p, rgid, offset) ==
  LET start == get_symrg_byid(p, rgid)
  IN  /\ start # NULL
      /\ pg_getpage(p, PAGING_PGN(start + offset)) = NULL
      /\ fifo_pgn[p] # 0

\* What pg_getval gives for addr, -1 if the page cannot be had.
pg_getval(p, addr) ==
  LET f == pg_getpage(p, PAGING_PGN(addr))
  IN  IF f = NULL THEN -1 ELSE storage[f][PAGING_OFFST(addr)]

\* RAM after pg_setval.
pg_setval(p, addr, value) ==
  LET f == pg_getpage(p, PAGING_PGN(addr))
  IN  IF f = NULL THEN storage
      ELSE [storage EXCEPT ![f][PAGING_OFFST(addr)] = value]

libread(p, rgid, offset) ==
  LET start == get_symrg_byid(p, rgid)
  IN  /\ ~find_victim_page(p, rgid, offset)
      /\ destination' = IF start = NULL THEN -1 ELSE pg_getval(p, start + offset)
      /\ UNCHANGED <<free_fp_list, storage, vm_end, sbrk, vm_freerg_list,
                     symrgtbl, pgd, fifo_pgn, crashed, wrote>>

libwrite(p, data, rgid, offset) ==
  LET start == get_symrg_byid(p, rgid)
  IN  /\ ~find_victim_page(p, rgid, offset)
      /\ storage' = IF start = NULL THEN storage
                    ELSE pg_setval(p, start + offset, data)
      /\ wrote' = IF rgid \in Reg
                  THEN [p |-> p, r |-> rgid, off |-> offset, value |-> data]
                  ELSE wrote
      /\ UNCHANGED <<free_fp_list, vm_end, sbrk, vm_freerg_list,
                     symrgtbl, pgd, fifo_pgn, destination, crashed>>

\* Either of them, when it follows a pointer that is none.
access_crashes(p, rgid, offset) ==
  /\ find_victim_page(p, rgid, offset)
  /\ crashed' = TRUE
  /\ UNCHANGED <<free_fp_list, storage, vm_end, sbrk, vm_freerg_list,
                 symrgtbl, pgd, fifo_pgn, destination, wrote>>

-----------------------------------------------------------------------------
(* System calls.  The arguments are the numbers of the instruction.  The   *)
(* code checks none of them: a frame or an address outside of a device,    *)
(* or an area other than 0, is undefined and left out.                     *)

SYSMEM_INC_OP == 2
SYSMEM_SWP_OP == 3
SYSMEM_IO_WRITE == 5

\* inc_vma_limit raises vm_end by the size as it is, not by whole pages, and
\* leaves the break where it was.
memmap_inc(p, vmaid, inc_sz) ==
  /\ vmaid = 0
  /\ \/ /\ inc_vma_limit(p, inc_sz)
        /\ fifo_pgn' = [fifo_pgn EXCEPT ![p] =
             enlist_pgn_node(p, frm_lst(PagesOf(inc_sz)))]
     \/ inc_vma_limit_fails(p, inc_sz) /\ UNCHANGED fifo_pgn
  /\ UNCHANGED <<storage, sbrk, vm_freerg_list, symrgtbl,
                 destination, crashed, wrote>>

\* __mm_swap_page copies a frame of RAM to the swap device; no page table
\* and no free list hears of it.
memmap_swap(vicfpn, swpfpn) ==
  /\ vicfpn \in Frame /\ swpfpn \in 0..(numswp - 1)
  /\ UNCHANGED vars

\* MEMPHY_write of a byte at a physical address.
memmap_io_write(addr, data) ==
  /\ addr \div PAGING_PAGESZ \in Frame
  /\ storage' = [storage EXCEPT ![addr \div PAGING_PAGESZ][PAGING_OFFST(addr)] =
                   data % 256]
  /\ UNCHANGED <<free_fp_list, vm_end, sbrk, vm_freerg_list, symrgtbl, pgd,
                 fifo_pgn, destination, crashed, wrote>>

\* MAP_OP is reserved; IO_READ leaves its byte in a register that is gone
\* when libsyscall returns; other codes are printed.
sys_memmap(p, a1, a2, a3) ==
  \/ a1 = SYSMEM_INC_OP /\ memmap_inc(p, a2, a3)
  \/ a1 = SYSMEM_SWP_OP /\ memmap_swap(a2, a3)
  \/ a1 = SYSMEM_IO_WRITE /\ memmap_io_write(a2, a3)
  \/ a1 \notin {SYSMEM_INC_OP, SYSMEM_SWP_OP, SYSMEM_IO_WRITE} /\ UNCHANGED vars

\* syscall, through libsyscall: 17 is memmap.  0 prints; 101 is killall,
\* which reads its caller's memory (KillAll.tla); the rest does nothing.
libsyscall(p, nr, a1, a2, a3) ==
  \/ nr = 17 /\ sys_memmap(p, a1, a2, a3)
  \/ nr # 17 /\ UNCHANGED vars

-----------------------------------------------------------------------------
\* run executes an instruction of p.
Run(p) ==
  \/ \E r \in 0..PAGING_MAX_SYMTBL_SZ, size \in Sizes :
       liballoc(p, size, r) \/ liballoc_fails(p, size, r)
  \/ \E rgid \in 0..(PAGING_MAX_SYMTBL_SZ + 1) :
       \/ libfree(p, rgid)
       \/ \E o \in Offsets : libread(p, rgid, o)
       \/ \E o \in Offsets, v \in Bytes : libwrite(p, v, rgid, o)
       \/ \E o \in Offsets : access_crashes(p, rgid, o)
  \/ \E nr \in Calls, a1 \in 1..5, a2, a3 \in Args :
       libsyscall(p, nr, a1, a2, a3)

Next ==
  \/ ~crashed /\ \E p \in Proc : Run(p)
  \/ crashed /\ UNCHANGED vars

Safety == Init /\ [][Next]_vars

-----------------------------------------------------------------------------
(* Correctness. *)

Apart(a, b) == a.rg_end <= b.rg_start \/ b.rg_end <= a.rg_start

(* The regions of a process - the ones its programs use and the free ones -
   lie below its break and never overlap, whatever is allocated, freed,
   freed twice or allocated again under the same ID. *)
RegionsApart ==
  \A p \in Proc :
    /\ \A r \in Reg : symrgtbl[p][r].rg_end <= sbrk[p]
    /\ \A f \in vm_freerg_list[p] : f.rg_end <= sbrk[p]
    /\ \A r, s \in Reg : r # s => Apart(symrgtbl[p][r], symrgtbl[p][s])
    /\ \A f, g \in vm_freerg_list[p] : f # g => Apart(f, g)
    /\ \A r \in Reg, f \in vm_freerg_list[p] : Apart(symrgtbl[p][r], f)

(* RAM backs the address space: the frames that are off free_fp_list can be
   shared out among the processes, none to two of them, so that each has
   enough for all that lies below its break; and no frame is listed twice. *)
FramesCoverSpace ==
  /\ \E own \in [Proc -> SUBSET (Frame \ ToSet(free_fp_list))] :
       /\ \A p, q \in Proc : p # q => own[p] \cap own[q] = {}
       /\ \A p \in Proc : sbrk[p] <= PAGING_PAGESZ * Cardinality(own[p])
  /\ IsInjective(free_fp_list)

(* The break of a process never passes the end of its area, although the
   two part: memmap and an allocation that fails half way raise vm_end and
   leave sbrk behind.  With RegionsApart, all regions lie in the area. *)
BreakInArea == \A p \in Proc : sbrk[p] <= vm_end[p]

(* An access to a page that cannot be had fails and the program goes on,
   with one exception: a process has allocated under the first ID behind the
   table, and what find_victim_page follows in place of fifo_pgn is an
   earlier break of that process.  Nothing else stops the program. *)
StoppedOnlyBehindTable ==
  crashed => \E p \in Proc : fifo_pgn[p] \in 1..sbrk[p]

-----------------------------------------------------------------------------
(* What the comments and the expected outputs say and the code does not do. *)

(* "read region=1 offset=20 value=100": a read within an allocated region
   returns what was written there. *)
ReadReturnsWritten ==
  [][\A p \in Proc, r \in Reg, o \in Offsets :
       /\ libread(p, r, o)
       /\ symrgtbl[p][r].rg_start + o < symrgtbl[p][r].rg_end
       /\ WroteTo(p, r) /\ wrote.off = o
       => destination' = wrote.value]_vars
=============================================================================

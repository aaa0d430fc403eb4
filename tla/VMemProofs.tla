----------------------------- MODULE VMemProofs -----------------------------
(***************************************************************************)
(* Proofs about VMem.tla, for any number of processes and regions, any     *)
(* page size and any RAM.                                                  *)
(***************************************************************************)
EXTENDS VMem, SequenceTheorems, FiniteSetTheorems, TLAPS

\* No page is present: vmap_page_range never has a frame to map.
NoneMapped == \A p \in Proc, n \in PageNumber : pgd[p][n] = {}

IInv == TypeOK /\ RegionsApart /\ BreakInArea /\ NoneMapped

-----------------------------------------------------------------------------
(* Facts about the operators. *)

(* Rounding up to whole pages never rounds down. *)
LEMMA AlignUp ==
  ASSUME NEW sz \in Nat
  PROVE  PAGING_PAGE_ALIGNSZ(sz) \in Nat /\ sz <= PAGING_PAGE_ALIGNSZ(sz)
<1> DEFINE P == PAGING_PAGESZ
           q == (sz + P - 1) \div P
<1>1. P \in Nat /\ P > 0
  BY VMemAssumption
<1>2. q \in Nat
  BY <1>1
<1>3. sz + P - 1 < (q + 1) * P
  BY <1>1
<1>4. (q + 1) * P = q * P + P
  BY <1>1, <1>2
<1>5. q * P \in Nat
  BY <1>1, <1>2
<1>6. sz <= q * P
  BY <1>1, <1>3, <1>4, <1>5
<1>7. QED BY <1>5, <1>6 DEF PAGING_PAGE_ALIGNSZ

(* A number of pages is a number. *)
LEMMA PagesNat == ASSUME NEW a \in Nat PROVE a \div PAGING_PAGESZ \in Nat
BY VMemAssumption

(* A page number is within the page table. *)
LEMMA PgnInTable ==
  ASSUME NEW a \in Nat
  PROVE  PAGING_PGN(a) \in PageNumber
BY VMemAssumption DEF PAGING_PGN, PageNumber

(* The frames left over are frames. *)
LEMMA FramesLeftType ==
  ASSUME free_fp_list \in Seq(Frame), NEW n \in Nat, n <= Len(free_fp_list)
  PROVE  FramesLeft(n) \in Seq(Frame)
BY SubSeqProperties DEF FramesLeft

(* With the NULL list that alloc_pages_range leaves behind, vmap_page_range
   maps nothing. *)
LEMMA MapsNothing ==
  ASSUME TypeOK, NEW p \in Proc, NEW a \in Nat, NEW n \in Nat,
         vmap_page_range(p, a, frm_lst(n))
  PROVE  pgd' = pgd
<1>1. Len(frm_lst(n)) = 0
  BY DEF frm_lst
<1>2. QED BY <1>1 DEF vmap_page_range, TypeOK

-----------------------------------------------------------------------------
(* The invariant holds when the program starts. *)
LEMMA InitIInv == Init => IInv
<1> SUFFICES ASSUME Init PROVE IInv
  OBVIOUS
<1> USE VMemAssumption DEF Init, init_memphy, init_mm
<1>1. TypeOK
  <2>1. free_fp_list \in Seq(Frame) /\ storage \in [Frame -> Page]
    BY DEF Frame, Page
  <2>2. /\ vm_end \in [Proc -> Nat]
        /\ sbrk \in [Proc -> Nat]
        /\ fifo_pgn \in [Proc -> Nat]
        /\ vm_freerg_list \in [Proc -> SUBSET Region]
        /\ symrgtbl \in [Proc -> [Reg -> Region]]
    BY DEF Region, rg
  <2>3. pgd \in [Proc -> [PageNumber -> Word]]
    BY DEF Word
  <2>4. QED BY <2>1, <2>2, <2>3 DEF TypeOK
<1>2. RegionsApart
  BY DEF RegionsApart, Apart, rg
<1>3. BreakInArea /\ NoneMapped
  BY DEF BreakInArea, NoneMapped
<1>4. QED BY <1>1, <1>2, <1>3 DEF IInv

(* Growing the area moves the end up, whether it succeeds or fails half way,
   and touches the types of vm_end and free_fp_list only. *)
LEMMA IncType ==
  ASSUME IInv, NEW p \in Proc, NEW inc_sz \in Nat,
         inc_vma_limit(p, inc_sz) \/ inc_vma_limit_fails(p, inc_sz)
  PROVE  /\ pgd' = pgd
         /\ vm_end' \in [Proc -> Nat]
         /\ \A q \in Proc : vm_end[q] <= vm_end'[q]
         /\ free_fp_list' \in Seq(Frame)
<1> DEFINE n == PagesOf(inc_sz)
<1>1. n \in Nat /\ vm_end \in [Proc -> Nat]
  <2>1. n \in Nat
    BY AlignUp, PagesNat DEF PagesOf
  <2>2. QED BY <2>1 DEF IInv, TypeOK
<1>2. CASE inc_vma_limit(p, inc_sz)
  <2>1. pgd' = pgd
    BY <1>1, <1>2, MapsNothing DEF IInv, inc_vma_limit
  <2>2. free_fp_list' \in Seq(Frame)
    BY <1>1, <1>2, FramesLeftType DEF IInv, TypeOK, inc_vma_limit
  <2>3. vm_end' \in [Proc -> Nat] /\ \A q \in Proc : vm_end[q] <= vm_end'[q]
    BY <1>1, <1>2 DEF inc_vma_limit
  <2>4. QED BY <2>1, <2>2, <2>3
<1>3. CASE inc_vma_limit_fails(p, inc_sz)
  <2>1. pgd' = pgd /\ free_fp_list' \in Seq(Frame)
    BY <1>3 DEF IInv, TypeOK, inc_vma_limit_fails
  <2>2. vm_end' \in [Proc -> Nat] /\ \A q \in Proc : vm_end[q] <= vm_end'[q]
    BY <1>1, <1>3 DEF inc_vma_limit_fails
  <2>3. QED BY <2>1, <2>2
<1>4. QED BY <1>2, <1>3

(* With the NULL list fifo_pgn stays what it is. *)
LEMMA EnlistsNothing ==
  ASSUME IInv, NEW p \in Proc, NEW n
  PROVE  [fifo_pgn EXCEPT ![p] = enlist_pgn_node(p, frm_lst(n))] = fifo_pgn
<1>1. enlist_pgn_node(p, frm_lst(n)) = fifo_pgn[p]
  BY DEF enlist_pgn_node, frm_lst
<1>2. QED BY <1>1 DEF IInv, TypeOK

(* An allocation puts the new region, and the rest of its last page, above
   the old break. *)
LEMMA AllocIInv ==
  ASSUME IInv, NEW p \in Proc, NEW size \in Sizes,
         NEW r \in 0..PAGING_MAX_SYMTBL_SZ, liballoc(p, size, r)
  PROVE  IInv'
<1> DEFINE inc_sz == PAGING_PAGE_ALIGNSZ(size)
           old == sbrk[p]
           new == rg(old, old + size)
           rest == rg(old + size + 1, old + inc_sz)
<1>1. size \in Nat /\ inc_sz \in Nat /\ size <= inc_sz
  BY AlignUp, VMemAssumption
<1>2. old \in Nat
  BY DEF IInv, TypeOK
<1>3. /\ pgd' = pgd
      /\ vm_end' = [vm_end EXCEPT ![p] = @ + inc_sz]
      /\ vm_end' \in [Proc -> Nat]
      /\ free_fp_list' \in Seq(Frame)
  BY <1>1, IncType DEF liballoc, inc_vma_limit
<1>4. /\ sbrk' = [sbrk EXCEPT ![p] = old + inc_sz]
      /\ symrgtbl' = IF r \in Reg THEN [symrgtbl EXCEPT ![p][r] = new]
                     ELSE symrgtbl
      /\ vm_freerg_list' =
           [vm_freerg_list EXCEPT ![p] = enlist_vm_freerg_list(p, rest)]
  BY VMemAssumption DEF liballoc, Reg
<1>5. new \in Region /\ rest \in Region
  BY <1>1, <1>2 DEF Region, rg
<1>6. TypeOK'
  <2>2. wrote' \in [p : Proc, r : Reg, off : Nat, value : Nat] \cup {NULL}
    BY DEF IInv, TypeOK, liballoc
  <2>3. sbrk' \in [Proc -> Nat]
    BY <1>1, <1>2, <1>4 DEF IInv, TypeOK
  <2>4. symrgtbl' \in [Proc -> [Reg -> Region]]
    BY <1>4, <1>5 DEF IInv, TypeOK
  <2>5. vm_freerg_list' \in [Proc -> SUBSET Region]
    BY <1>4, <1>5 DEF IInv, TypeOK, enlist_vm_freerg_list
  <2>6. fifo_pgn' \in [Proc -> Nat]
    <3>1. fifo_pgn' = fifo_pgn \/ fifo_pgn' = [fifo_pgn EXCEPT ![p] = old]
      BY EnlistsNothing DEF liballoc
    <3>2. QED BY <1>2, <3>1 DEF IInv, TypeOK
  <2>7. QED
    BY <1>3, <2>2, <2>3, <2>4, <2>5, <2>6 DEF IInv, TypeOK, liballoc
<1>7. RegionsApart'
  <2> SUFFICES ASSUME NEW q \in Proc
               PROVE  /\ \A s \in Reg : symrgtbl'[q][s].rg_end <= sbrk'[q]
                      /\ \A f \in vm_freerg_list'[q] : f.rg_end <= sbrk'[q]
                      /\ \A s, t \in Reg :
                           s # t => Apart(symrgtbl'[q][s], symrgtbl'[q][t])
                      /\ \A f, g \in vm_freerg_list'[q] : f # g => Apart(f, g)
                      /\ \A s \in Reg, f \in vm_freerg_list'[q] :
                           Apart(symrgtbl'[q][s], f)
    BY DEF RegionsApart, Apart
  <2>1. CASE q # p
    BY <1>4, <2>1 DEF IInv, TypeOK, RegionsApart
  <2>2. CASE q = p
    <3>1. sbrk'[q] = old + inc_sz
      BY <1>4, <2>2 DEF IInv, TypeOK
    <3>2. \A s \in Reg : symrgtbl'[q][s] = IF s = r THEN new ELSE symrgtbl[p][s]
      BY <1>4, <2>2 DEF IInv, TypeOK
    <3>3. \A f \in vm_freerg_list'[q] :
            f \in vm_freerg_list[p] \/ (f = rest /\ rest.rg_start < rest.rg_end)
      BY <1>1, <1>2, <1>4, <1>5, <2>2
      DEF IInv, TypeOK, enlist_vm_freerg_list, Region
    <3>4. /\ new.rg_start = old /\ new.rg_end = old + size
          /\ rest.rg_start = old + size + 1 /\ rest.rg_end = old + inc_sz
      BY DEF rg
    <3>5. \A s \in Reg : symrgtbl[p][s] \in Region /\ symrgtbl[p][s].rg_end <= old
      BY DEF IInv, TypeOK, RegionsApart
    <3>6. \A f \in vm_freerg_list[p] : f \in Region /\ f.rg_end <= old
      BY DEF IInv, TypeOK, RegionsApart
    <3>7. /\ \A s, t \in Reg : s # t => Apart(symrgtbl[p][s], symrgtbl[p][t])
          /\ \A f, g \in vm_freerg_list[p] : f # g => Apart(f, g)
          /\ \A s \in Reg, f \in vm_freerg_list[p] : Apart(symrgtbl[p][s], f)
      BY DEF IInv, RegionsApart
    <3> HIDE DEF inc_sz, old, new, rest
    <3>8. \A s \in Reg : symrgtbl'[q][s].rg_end <= sbrk'[q]
      BY <1>1, <1>2, <3>1, <3>2, <3>4, <3>5 DEF Region
    <3>9. \A f \in vm_freerg_list'[q] : f.rg_end <= sbrk'[q]
      BY <1>1, <1>2, <3>1, <3>3, <3>4, <3>6 DEF Region
    <3>10. \A s, t \in Reg : s # t => Apart(symrgtbl'[q][s], symrgtbl'[q][t])
      BY <3>2, <3>4, <3>5, <3>7 DEF Apart
    <3>11. \A f, g \in vm_freerg_list'[q] : f # g => Apart(f, g)
      BY <1>1, <1>2, <3>3, <3>4, <3>6, <3>7 DEF Apart, Region
    <3>12. \A s \in Reg, f \in vm_freerg_list'[q] : Apart(symrgtbl'[q][s], f)
      BY <1>1, <1>2, <3>2, <3>3, <3>4, <3>5, <3>6, <3>7 DEF Apart, Region
    <3>13. QED BY <3>8, <3>9, <3>10, <3>11, <3>12
  <2>3. QED BY <2>1, <2>2
<1>8. BreakInArea' /\ NoneMapped'
  BY <1>1, <1>2, <1>3, <1>4 DEF IInv, TypeOK, BreakInArea, NoneMapped
<1>9. QED BY <1>6, <1>7, <1>8 DEF IInv

(* Freeing moves a region from the symbol table to the free list. *)
LEMMA FreeIInv ==
  ASSUME IInv, NEW p \in Proc, NEW r \in Reg, libfree(p, r)
  PROVE  IInv'
<1> DEFINE free_rg == symrgtbl[p][r]
<1>1. /\ symrgtbl' = [symrgtbl EXCEPT ![p][r] = rg(0, 0)]
      /\ vm_freerg_list' =
           [vm_freerg_list EXCEPT ![p] = vm_freerg_list[p] \cup {free_rg}]
      /\ UNCHANGED <<sbrk, vm_end, pgd, fifo_pgn>>
  <2>1. free_rg.rg_start \in Nat /\ free_rg.rg_end \in Nat
    BY DEF IInv, TypeOK, Region
  <2>2. ~(free_rg.rg_start >= free_rg.rg_end)
    BY <2>1 DEF libfree
  <2>3. enlist_vm_freerg_list(p, free_rg) = vm_freerg_list[p] \cup {free_rg}
    BY <2>2 DEF enlist_vm_freerg_list
  <2>4. QED BY <2>3 DEF libfree
<1>2. rg(0, 0) \in Region /\ rg(0, 0).rg_start = 0 /\ rg(0, 0).rg_end = 0
  BY DEF Region, rg
<1>3. TypeOK'
  <2>1. wrote' \in [p : Proc, r : Reg, off : Nat, value : Nat] \cup {NULL}
    BY DEF IInv, TypeOK, libfree
  <2>2. symrgtbl' \in [Proc -> [Reg -> Region]]
    BY <1>1, <1>2 DEF IInv, TypeOK
  <2>3. vm_freerg_list' \in [Proc -> SUBSET Region]
    BY <1>1 DEF IInv, TypeOK
  <2>4. QED BY <2>1, <2>2, <2>3 DEF IInv, TypeOK, libfree
<1>4. RegionsApart'
  <2> SUFFICES ASSUME NEW q \in Proc
               PROVE  /\ \A s \in Reg : symrgtbl'[q][s].rg_end <= sbrk'[q]
                      /\ \A f \in vm_freerg_list'[q] : f.rg_end <= sbrk'[q]
                      /\ \A s, t \in Reg :
                           s # t => Apart(symrgtbl'[q][s], symrgtbl'[q][t])
                      /\ \A f, g \in vm_freerg_list'[q] : f # g => Apart(f, g)
                      /\ \A s \in Reg, f \in vm_freerg_list'[q] :
                           Apart(symrgtbl'[q][s], f)
    BY DEF RegionsApart, Apart
  <2>1. CASE q # p
    BY <1>1, <2>1 DEF IInv, TypeOK, RegionsApart
  <2>2. CASE q = p
    <3>1. \A s \in Reg :
            symrgtbl'[q][s] = IF s = r THEN rg(0, 0) ELSE symrgtbl[p][s]
      BY <1>1, <2>2 DEF IInv, TypeOK
    <3>2. \A f \in vm_freerg_list'[q] : f \in vm_freerg_list[p] \/ f = free_rg
      BY <1>1, <2>2 DEF IInv, TypeOK
    <3>3. /\ sbrk'[q] = sbrk[p] /\ sbrk[p] \in Nat
          /\ \A s \in Reg : symrgtbl[p][s] \in Region
          /\ \A f \in vm_freerg_list[p] : f \in Region
      BY <1>1, <2>2 DEF IInv, TypeOK
    <3>4. /\ \A s \in Reg : symrgtbl[p][s].rg_end <= sbrk[p]
          /\ \A f \in vm_freerg_list[p] : f.rg_end <= sbrk[p]
          /\ \A s, t \in Reg : s # t => Apart(symrgtbl[p][s], symrgtbl[p][t])
          /\ \A f, g \in vm_freerg_list[p] : f # g => Apart(f, g)
          /\ \A s \in Reg, f \in vm_freerg_list[p] : Apart(symrgtbl[p][s], f)
      BY DEF IInv, RegionsApart
    <3>5. /\ \A s \in Reg : symrgtbl'[q][s].rg_end <= sbrk'[q]
          /\ \A f \in vm_freerg_list'[q] : f.rg_end <= sbrk'[q]
      BY <1>2, <3>1, <3>2, <3>3, <3>4
    <3>6. \A s, t \in Reg : s # t => Apart(symrgtbl'[q][s], symrgtbl'[q][t])
      BY <1>2, <3>1, <3>3, <3>4 DEF Apart, Region
    <3>7. \A f, g \in vm_freerg_list'[q] : f # g => Apart(f, g)
      BY <3>2, <3>4 DEF Apart
    <3>8. \A s \in Reg, f \in vm_freerg_list'[q] : Apart(symrgtbl'[q][s], f)
      BY <1>2, <3>1, <3>2, <3>3, <3>4 DEF Apart, Region
    <3>9. QED BY <3>5, <3>6, <3>7, <3>8
  <2>3. QED BY <2>1, <2>2
<1>5. BreakInArea' /\ NoneMapped'
  BY <1>1 DEF IInv, BreakInArea, NoneMapped
<1>6. QED BY <1>3, <1>4, <1>5 DEF IInv

(* A region that is enlisted was not on the list: it is apart from all that
   are, and not empty.  So a set is enough for the list. *)
LEMMA EnlistedIsNew ==
  ASSUME IInv, NEW p \in Proc, NEW f \in Region, f.rg_start < f.rg_end,
         \/ f.rg_start >= sbrk[p]
         \/ \E r \in Reg : f = symrgtbl[p][r]
  PROVE  f \notin vm_freerg_list[p]
<1>1. CASE f.rg_start >= sbrk[p]
  <2>1. sbrk[p] \in Nat /\ f.rg_start \in Nat /\ f.rg_end \in Nat
    BY DEF IInv, TypeOK, Region
  <2>2. \A g \in vm_freerg_list[p] : g.rg_end <= sbrk[p]
    BY DEF IInv, RegionsApart
  <2>3. QED BY <1>1, <2>1, <2>2
<1>2. ASSUME NEW r \in Reg, f = symrgtbl[p][r]
      PROVE  f \notin vm_freerg_list[p]
  <2>1. \A g \in vm_freerg_list[p] : Apart(f, g)
    BY <1>2 DEF IInv, RegionsApart
  <2>2. f.rg_start \in Nat /\ f.rg_end \in Nat
    BY DEF Region
  <2>3. QED BY <2>1, <2>2 DEF Apart
<1>3. QED BY <1>1, <1>2

(* No page is present, so no page can be had. *)
LEMMA NoPage ==
  ASSUME IInv, NEW p \in Proc, NEW a \in Nat
  PROVE  pg_getpage(p, PAGING_PGN(a)) = NULL
<1>1. PAGING_PGN(a) \in PageNumber
  BY PgnInTable
<1>2. pgd[p][PAGING_PGN(a)] = {}
  BY <1>1 DEF IInv, NoneMapped
<1>3. QED BY <1>2 DEF pg_getpage, PAGING_PAGE_PRESENT

(* An access therefore fails, whatever the region ID. *)
LEMMA AccessFails ==
  ASSUME IInv, NEW p \in Proc, NEW rgid \in Nat, NEW o \in Offsets
  PROVE  /\ libread(p, rgid, o) => destination' = -1
         /\ \A v \in Bytes : libwrite(p, v, rgid, o) => storage' = storage
<1> DEFINE start == get_symrg_byid(p, rgid)
<1>1. start = NULL \/ start \in Nat
  BY DEF get_symrg_byid, IInv, TypeOK, Region
<1>2. start \in Nat => start + o \in Nat
  BY VMemAssumption
<1>3. start # NULL => pg_getpage(p, PAGING_PGN(start + o)) = NULL
  BY <1>1, <1>2, NoPage
<1> HIDE DEF start
<1>4. start # NULL => pg_getval(p, start + o) = -1
  BY <1>3 DEF pg_getval
<1>5. \A v \in Bytes : start # NULL => pg_setval(p, start + o, v) = storage
  BY <1>3 DEF pg_setval
<1>6. QED BY <1>4, <1>5 DEF libread, libwrite, start

(* An end that moves up stays above the break. *)
LEMMA Raised ==
  ASSUME IInv, sbrk' = sbrk, vm_end' \in [Proc -> Nat],
         \A q \in Proc : vm_end[q] <= vm_end'[q]
  PROVE  BreakInArea'
<1>1. \A q \in Proc : sbrk[q] \in Nat /\ vm_end[q] \in Nat /\ vm_end'[q] \in Nat
  BY DEF IInv, TypeOK
<1>2. QED BY <1>1 DEF IInv, BreakInArea

(* A refused allocation and an access leave the regions alone. *)
LEMMA OthersIInv ==
  ASSUME IInv, NEW p \in Proc
  PROVE  /\ \A size \in Sizes : \A r : liballoc_fails(p, size, r) => IInv'
         /\ \A rgid \in Nat, o \in Offsets : libread(p, rgid, o) => IInv'
         /\ \A rgid \in Nat, o \in Offsets, v \in Bytes :
              libwrite(p, v, rgid, o) => IInv'
         /\ \A rgid, o : access_crashes(p, rgid, o) => IInv'
<1>1. ASSUME NEW size \in Sizes, NEW r, liballoc_fails(p, size, r)
      PROVE  IInv'
  <2>1. PAGING_PAGE_ALIGNSZ(size) \in Nat
    BY AlignUp, VMemAssumption
  <2>2. /\ pgd' = pgd
        /\ vm_end' \in [Proc -> Nat] /\ free_fp_list' \in Seq(Frame)
        /\ \A q \in Proc : vm_end[q] <= vm_end'[q]
    BY <1>1, <2>1, IncType DEF liballoc_fails
  <2>3. TypeOK' /\ RegionsApart' /\ NoneMapped'
    BY <1>1, <2>2 DEF IInv, TypeOK, RegionsApart, NoneMapped, liballoc_fails
  <2>4. BreakInArea'
    BY <1>1, <2>2, Raised DEF liballoc_fails
  <2>5. QED BY <2>3, <2>4 DEF IInv
<1>2. ASSUME NEW rgid \in Nat, NEW o \in Offsets, libread(p, rgid, o)
      PROVE  IInv'
  <2>1. destination' = -1
    BY <1>2, AccessFails
  <2>2. QED
    BY <1>2, <2>1 DEF IInv, TypeOK, RegionsApart, BreakInArea, NoneMapped, libread
<1>3. ASSUME NEW rgid \in Nat, NEW o \in Offsets, NEW v \in Bytes,
             libwrite(p, v, rgid, o)
      PROVE  IInv'
  <2>1. storage' = storage
    BY <1>3, AccessFails
  <2>2. v \in Nat /\ o \in Nat
    BY VMemAssumption
  <2>3. wrote' \in [p : Proc, r : Reg, off : Nat, value : Nat] \cup {NULL}
    BY <1>3, <2>2 DEF IInv, TypeOK, libwrite
  <2>4. QED
    BY <1>3, <2>1, <2>3 DEF IInv, TypeOK, RegionsApart, BreakInArea, NoneMapped, libwrite
<1>4. ASSUME NEW rgid, NEW o, access_crashes(p, rgid, o) PROVE IInv'
  BY <1>4 DEF IInv, TypeOK, RegionsApart, BreakInArea, NoneMapped, access_crashes
<1>5. QED BY <1>1, <1>2, <1>3, <1>4

(* Nor does a system call touch them. *)
LEMMA SyscallIInv ==
  ASSUME IInv, NEW p \in Proc, NEW nr \in Calls, NEW a1 \in 1..5,
         NEW a2 \in Args, NEW a3 \in Args, libsyscall(p, nr, a1, a2, a3)
  PROVE  IInv'
<1>1. a2 \in Nat /\ a3 \in Nat
  BY VMemAssumption
<1>2. CASE memmap_inc(p, a2, a3)
  <2>1. /\ pgd' = pgd
        /\ vm_end' \in [Proc -> Nat] /\ free_fp_list' \in Seq(Frame)
        /\ \A q \in Proc : vm_end[q] <= vm_end'[q]
    BY <1>1, <1>2, IncType DEF memmap_inc
  <2>2. fifo_pgn' = fifo_pgn
    BY <1>2, EnlistsNothing DEF memmap_inc
  <2>3. TypeOK' /\ RegionsApart' /\ NoneMapped'
    BY <1>2, <2>1, <2>2 DEF IInv, TypeOK, RegionsApart, NoneMapped, memmap_inc
  <2>4. BreakInArea'
    BY <1>2, <2>1, Raised DEF memmap_inc
  <2>5. QED BY <2>3, <2>4 DEF IInv
<1>4. CASE memmap_io_write(a2, a3)
  <2>1. PAGING_OFFST(a2) \in 0..(PAGING_PAGESZ - 1)
    BY <1>1, VMemAssumption DEF PAGING_OFFST
  <2>2. storage' \in [Frame -> Page]
    BY <1>1, <1>4, <2>1 DEF IInv, TypeOK, Page, memmap_io_write
  <2>3. QED
    BY <1>4, <2>2 DEF IInv, TypeOK, RegionsApart, BreakInArea, NoneMapped, memmap_io_write
<1>5. CASE UNCHANGED vars
  BY <1>5 DEF IInv, TypeOK, RegionsApart, BreakInArea, NoneMapped, vars
<1>6. QED BY <1>2, <1>4, <1>5 DEF libsyscall, sys_memmap, memmap_swap

(* Every instruction preserves the invariant. *)
LEMMA NextIInv == IInv /\ [Next]_vars => IInv'
<1> SUFFICES ASSUME IInv, [Next]_vars PROVE IInv'
  OBVIOUS
<1>1. ASSUME NEW p \in Proc, Run(p) PROVE IInv'
  <2>1. \A rgid \in 0..(PAGING_MAX_SYMTBL_SZ + 1) : rgid \in Nat
    BY VMemAssumption
  <2>2. \A rgid : libfree(p, rgid) => rgid \in Reg
    BY DEF libfree
  <2>3. QED
    BY <1>1, <2>1, <2>2, AllocIInv, FreeIInv, OthersIInv, SyscallIInv DEF Run
<1>2. CASE UNCHANGED vars
  BY <1>2 DEF IInv, TypeOK, RegionsApart, BreakInArea, NoneMapped, vars
<1>3. QED BY <1>1, <1>2 DEF Next

(* The invariant holds in every reachable state. *)
THEOREM Invariance == Safety => []IInv
BY InitIInv, NextIInv, PTL DEF Safety

-----------------------------------------------------------------------------
(* The memory manager's variables keep their types. *)
THEOREM TypeCorrect == Safety => []TypeOK
<1>1. IInv => TypeOK
  BY DEF IInv
<1>2. QED BY Invariance, <1>1, PTL

(* The regions of a process lie below its break and never overlap. *)
THEOREM RegionsApartHolds == Safety => []RegionsApart
<1>1. IInv => RegionsApart
  BY DEF IInv
<1>2. QED BY Invariance, <1>1, PTL

(* The break stays within the area. *)
THEOREM BreakInAreaHolds == Safety => []BreakInArea
<1>1. IInv => BreakInArea
  BY DEF IInv
<1>2. QED BY Invariance, <1>1, PTL

-----------------------------------------------------------------------------
(* What find_victim_page can follow. *)

\* fifo_pgn is NULL or an earlier break.
StopInv ==
  /\ \A p \in Proc : fifo_pgn[p] <= sbrk[p]
  /\ StoppedOnlyBehindTable

(* A step that leaves fifo_pgn, the break and the program alone. *)
LEMMA StopStays ==
  ASSUME StopInv, fifo_pgn' = fifo_pgn, sbrk' = sbrk, crashed' = crashed
  PROVE  StopInv'
BY DEF StopInv, StoppedOnlyBehindTable

(* Every instruction preserves it: an allocation behind the table puts the
   old break there, and only a pointer that is not NULL is followed. *)
LEMMA NextStopInv == IInv /\ StopInv /\ [Next]_vars => StopInv'
<1> SUFFICES ASSUME IInv, StopInv, [Next]_vars PROVE StopInv'
  OBVIOUS
<1>t. \A q \in Proc : fifo_pgn[q] \in Nat /\ sbrk[q] \in Nat
  BY DEF IInv, TypeOK
<1>1. ASSUME NEW p \in Proc, NEW size \in Sizes, NEW r, ~crashed,
             liballoc(p, size, r)
      PROVE  StopInv'
  <2> DEFINE inc_sz == PAGING_PAGE_ALIGNSZ(size)
  <2>1. inc_sz \in Nat
    BY AlignUp, VMemAssumption
  <2>2. sbrk' = [sbrk EXCEPT ![p] = @ + inc_sz] /\ ~crashed'
    BY <1>1 DEF liballoc
  <2>3. fifo_pgn' = fifo_pgn \/ fifo_pgn' = [fifo_pgn EXCEPT ![p] = sbrk[p]]
    <3>1. \/ fifo_pgn' = [fifo_pgn EXCEPT ![p] =
               enlist_pgn_node(p, frm_lst(PagesOf(inc_sz)))]
          \/ fifo_pgn' = [fifo_pgn EXCEPT ![p] = sbrk[p]]
      BY <1>1 DEF liballoc
    <3>2. QED BY <3>1, EnlistsNothing
  <2>4. \A q \in Proc : sbrk[q] <= sbrk'[q]
    BY <1>t, <2>1, <2>2 DEF IInv, TypeOK
  <2>5. \A q \in Proc : fifo_pgn'[q] <= sbrk[q]
    <3>1. fifo_pgn \in [Proc -> Nat] /\ \A q \in Proc : fifo_pgn[q] <= sbrk[q]
      BY DEF IInv, TypeOK, StopInv
    <3>2. QED BY <1>t, <2>3, <3>1
  <2>6. \A q \in Proc : fifo_pgn'[q] \in Nat /\ sbrk'[q] \in Nat
    BY <1>t, <2>1, <2>2, <2>3 DEF IInv, TypeOK
  <2>7. QED BY <1>t, <2>2, <2>4, <2>5, <2>6 DEF StopInv, StoppedOnlyBehindTable
<1>2. ASSUME NEW p \in Proc, NEW rgid, NEW o, access_crashes(p, rgid, o)
      PROVE  StopInv'
  <2>1. fifo_pgn[p] \in 1..sbrk[p]
    BY <1>t, <1>2 DEF access_crashes, find_victim_page, StopInv
  <2>2. QED
    BY <1>2, <2>1 DEF access_crashes, StopInv, StoppedOnlyBehindTable
<1>3. ASSUME NEW p \in Proc, NEW nr \in Calls, NEW a1 \in 1..5,
             NEW a2 \in Args, NEW a3 \in Args, libsyscall(p, nr, a1, a2, a3)
      PROVE  StopInv'
  <2>1. CASE memmap_inc(p, a2, a3)
    <3>1. fifo_pgn' = fifo_pgn
      BY <2>1, EnlistsNothing DEF memmap_inc
    <3>2. QED BY <2>1, <3>1, StopStays DEF memmap_inc
  <2>2. CASE memmap_io_write(a2, a3)
    BY <2>2, StopStays DEF memmap_io_write
  <2>3. CASE UNCHANGED vars
    BY <2>3, StopStays DEF vars
  <2>4. QED BY <1>3, <2>1, <2>2, <2>3 DEF libsyscall, sys_memmap, memmap_swap
<1>4. ASSUME NEW p \in Proc, NEW rgid, NEW o, NEW v, NEW size,
             \/ liballoc_fails(p, size, rgid) \/ libfree(p, rgid)
             \/ libread(p, rgid, o) \/ libwrite(p, v, rgid, o)
      PROVE  StopInv'
  BY <1>4, StopStays DEF liballoc_fails, libfree, libread, libwrite
<1>5. CASE UNCHANGED vars
  BY <1>5, StopStays DEF vars
<1>6. QED BY <1>1, <1>2, <1>3, <1>4, <1>5 DEF Next, Run

(* Nothing stops the program but an access after an allocation under the
   first ID behind the symbol table. *)
THEOREM StoppedOnlyBehindTableHolds == Safety => []StoppedOnlyBehindTable
<1>1. Init => StopInv
  BY DEF Init, init_mm, StopInv, StoppedOnlyBehindTable
<1>2. StopInv => StoppedOnlyBehindTable
  BY DEF StopInv
<1>3. QED BY <1>1, <1>2, Invariance, NextStopInv, PTL DEF Safety

-----------------------------------------------------------------------------
(* Frames and breaks. *)

\* The first n frames of the list.
FirstFrames(n) == {free_fp_list[k] : k \in 1..n}

(* The first n frames are n frames, and none of them is left. *)
LEMMA FirstFramesLeave ==
  ASSUME free_fp_list \in Seq(Frame), IsInjective(free_fp_list),
         NEW n \in Nat, n <= Len(free_fp_list)
  PROVE  /\ FirstFrames(n) \subseteq ToSet(free_fp_list) /\ FirstFrames(n) \subseteq Frame
         /\ IsFiniteSet(FirstFrames(n)) /\ Cardinality(FirstFrames(n)) = n
         /\ ToSet(FramesLeft(n)) \subseteq ToSet(free_fp_list) \ FirstFrames(n)
         /\ IsInjective(FramesLeft(n))
<1> DEFINE s == free_fp_list
           m == Len(free_fp_list)
           t == FramesLeft(n)
           f == [k \in 1..n |-> s[k]]
<1>1. m \in Nat /\ DOMAIN s = 1..m /\ \A k \in 1..m : s[k] \in Frame
  OBVIOUS
<1>2. \A k \in 1..n : k \in 1..m
  BY <1>1
<1>3. \A j, k \in 1..m : s[j] = s[k] => j = k
  BY <1>1 DEF IsInjective
<1>4. ToSet(s) = {s[k] : k \in 1..m}
  BY <1>1 DEF ToSet
<1>5. FirstFrames(n) \subseteq ToSet(s) /\ FirstFrames(n) \subseteq Frame
  BY <1>1, <1>2, <1>4 DEF FirstFrames
<1>6. IsFiniteSet(FirstFrames(n)) /\ Cardinality(FirstFrames(n)) = n
  <2>1. /\ f \in [1..n -> FirstFrames(n)]
        /\ \A x \in FirstFrames(n) : \E k \in 1..n : f[k] = x
    BY DEF FirstFrames
  <2>2. f \in Surjection(1..n, FirstFrames(n))
    BY <2>1 DEF Surjection
  <2>3. \A j, k \in 1..n : f[j] = f[k] => j = k
    BY <1>2, <1>3
  <2>4. DOMAIN f = 1..n
    OBVIOUS
  <2> HIDE DEF f
  <2>5. f \in Injection(1..n, FirstFrames(n))
    BY <2>1, <2>3, <2>4 DEF Injection, IsInjective
  <2>6. IsFiniteSet(1..n) /\ Cardinality(1..n) = n
    BY FS_Interval
  <2>7. QED BY <2>2, <2>5, <2>6, FS_Surjection
<1>7. /\ t \in Seq(Frame) /\ Len(t) = m - n /\ DOMAIN t = 1..(m - n)
      /\ \A k \in 1..(m - n) : t[k] = s[n + k]
  <2>1. \A k \in (n + 1)..m : s[k] \in Frame
    BY <1>1
  <2>2. /\ t \in Seq(Frame)
        /\ Len(t) = IF n + 1 <= m THEN m - (n + 1) + 1 ELSE 0
        /\ \A k \in 1..(m - (n + 1) + 1) : t[k] = s[(n + 1) + k - 1]
    BY <1>1, <2>1, SubSeqProperties DEF FramesLeft
  <2>3. n <= m /\ m \in Nat
    BY <1>1
  <2> HIDE DEF t, m, s
  <2>5. Len(t) = m - n
    BY <2>2, <2>3
  <2>6. DOMAIN t = 1..(m - n)
    BY <2>2, <2>5
  <2>7. ASSUME NEW k \in 1..(m - n) PROVE t[k] = s[n + k]
    <3>1. k \in 1..(m - (n + 1) + 1) /\ (n + 1) + k - 1 = n + k
      BY <2>3
    <3>2. t[k] = s[(n + 1) + k - 1]
      BY <2>2, <3>1
    <3>3. QED BY <3>1, <3>2
  <2>8. QED BY <2>2, <2>5, <2>6, <2>7
<1> HIDE DEF t
<1>8. \A k \in 1..(m - n) : n + k \in 1..m /\ n + k \notin 1..n
  BY <1>1
<1>9. ToSet(t) \subseteq ToSet(s) \ FirstFrames(n)
  <2>1. ToSet(t) = {s[n + k] : k \in 1..(m - n)}
    BY <1>7 DEF ToSet
  <2>2. ASSUME NEW k \in 1..(m - n) PROVE s[n + k] \notin FirstFrames(n)
    BY <1>2, <1>3, <1>8 DEF FirstFrames
  <2>3. QED BY <1>4, <1>8, <2>1, <2>2
<1>10. IsInjective(t)
  <2> SUFFICES ASSUME NEW j \in 1..(m - n), NEW k \in 1..(m - n), t[j] = t[k]
               PROVE  j = k
    BY <1>7 DEF IsInjective
  <2>1. n + j = n + k
    BY <1>3, <1>7, <1>8
  <2>2. QED BY <2>1
<1>11. QED BY <1>5, <1>6, <1>9, <1>10 DEF t

(* The pages counted for a size hold it. *)
LEMMA PagesHold ==
  ASSUME NEW a \in Nat
  PROVE  PagesOf(a) \in Nat /\ a <= PAGING_PAGESZ * PagesOf(a)
<1> DEFINE P == PAGING_PAGESZ
           q == (a + P - 1) \div P
           n == PagesOf(a)
<1>1. P \in Nat /\ P > 0
  BY VMemAssumption
<1>2. q \in Nat /\ a <= q * P /\ q * P \in Nat
  BY <1>1, AlignUp DEF PAGING_PAGE_ALIGNSZ
<1>3. n = (q * P) \div P
  BY DEF PAGING_PAGE_ALIGNSZ, PagesOf
<1> HIDE DEF q, P, n
<1>4. (q * P) \div P = q
  BY <1>1, <1>2
<1>5. q * P = P * q
  BY <1>1, <1>2
<1>6. QED BY <1>2, <1>3, <1>4, <1>5 DEF P, n

(* With the same breaks, a list that has lost frames is no worse. *)
LEMMA ListShrinks ==
  ASSUME FramesCoverSpace, sbrk' = sbrk, IsInjective(free_fp_list'),
         ToSet(free_fp_list') \subseteq ToSet(free_fp_list)
  PROVE  FramesCoverSpace'
<1>1. PICK own \in [Proc -> SUBSET (Frame \ ToSet(free_fp_list))] :
        /\ \A p, q \in Proc : p # q => own[p] \cap own[q] = {}
        /\ \A p \in Proc : sbrk[p] <= PAGING_PAGESZ * Cardinality(own[p])
  BY DEF FramesCoverSpace
<1>2. own \in [Proc -> SUBSET (Frame \ ToSet(free_fp_list'))]
  BY <1>1
<1>3. QED BY <1>1, <1>2 DEF FramesCoverSpace

(* inc_vma_limit takes frames from the front of the list, or all of them. *)
LEMMA IncShrinks ==
  ASSUME TypeOK, IsInjective(free_fp_list), NEW p \in Proc, NEW a \in Nat,
         inc_vma_limit(p, a) \/ inc_vma_limit_fails(p, a)
  PROVE  /\ IsInjective(free_fp_list')
         /\ ToSet(free_fp_list') \subseteq ToSet(free_fp_list)
<1> DEFINE n == PagesOf(a)
<1>1. n \in Nat /\ free_fp_list \in Seq(Frame)
  BY PagesHold DEF TypeOK
<1>2. CASE inc_vma_limit(p, a)
  <2>1. n <= Len(free_fp_list) /\ free_fp_list' = FramesLeft(n)
    BY <1>2 DEF inc_vma_limit
  <2> HIDE DEF n
  <2>2. QED BY <1>1, <2>1, FirstFramesLeave
<1>3. CASE inc_vma_limit_fails(p, a)
  <2>1. free_fp_list' = <<>> \/ free_fp_list' = free_fp_list
    BY <1>3 DEF inc_vma_limit_fails
  <2>2. IsInjective(<<>>) /\ ToSet(<<>>) = {}
    BY DEF IsInjective, ToSet
  <2>3. QED BY <2>1, <2>2
<1>4. QED BY <1>2, <1>3

(* An allocation moves the break by no more than the frames it takes. *)
LEMMA AllocCovers ==
  ASSUME TypeOK, FramesCoverSpace, NEW p \in Proc, NEW size \in Sizes,
         NEW r, liballoc(p, size, r)
  PROVE  FramesCoverSpace'
<1> DEFINE inc == PAGING_PAGE_ALIGNSZ(size)
           n == PagesOf(inc)
           P == PAGING_PAGESZ
<1>1. size \in Nat /\ inc \in Nat /\ P \in Nat
  BY AlignUp, VMemAssumption
<1>2. n \in Nat /\ inc <= P * n
  BY <1>1, PagesHold
<1>3. /\ n <= Len(free_fp_list) /\ free_fp_list' = FramesLeft(n)
      /\ sbrk' = [sbrk EXCEPT ![p] = @ + inc]
  BY DEF liballoc, inc_vma_limit
<1>4. /\ free_fp_list \in Seq(Frame) /\ IsInjective(free_fp_list)
      /\ sbrk \in [Proc -> Nat]
  BY DEF TypeOK, FramesCoverSpace
<1> HIDE DEF inc, n, P
<1>5. /\ FirstFrames(n) \subseteq ToSet(free_fp_list) /\ FirstFrames(n) \subseteq Frame
      /\ IsFiniteSet(FirstFrames(n)) /\ Cardinality(FirstFrames(n)) = n
      /\ ToSet(free_fp_list') \subseteq ToSet(free_fp_list) \ FirstFrames(n)
      /\ IsInjective(free_fp_list')
  BY <1>2, <1>3, <1>4, FirstFramesLeave
<1>6. PICK own \in [Proc -> SUBSET (Frame \ ToSet(free_fp_list))] :
        /\ \A q, s \in Proc : q # s => own[q] \cap own[s] = {}
        /\ \A q \in Proc : sbrk[q] <= P * Cardinality(own[q])
  BY DEF FramesCoverSpace, P
<1> DEFINE new == [own EXCEPT ![p] = @ \cup FirstFrames(n)]
<1>7. \A q \in Proc : new[q] = IF q = p THEN own[p] \cup FirstFrames(n) ELSE own[q]
  BY <1>6
<1>8. new \in [Proc -> SUBSET (Frame \ ToSet(free_fp_list'))]
  BY <1>5, <1>6
<1>9. \A q \in Proc : own[q] \cap FirstFrames(n) = {}
  BY <1>5, <1>6
<1>10. \A q, s \in Proc : q # s => new[q] \cap new[s] = {}
  BY <1>6, <1>7, <1>9
<1>11. Cardinality(new[p]) = Cardinality(own[p]) + n /\ Cardinality(own[p]) \in Nat
  <2>1. IsFiniteSet(Frame)
    BY FS_Interval, VMemAssumption DEF Frame
  <2>2. own[p] \subseteq Frame
    BY <1>6
  <2>3. IsFiniteSet(own[p]) /\ Cardinality(own[p]) \in Nat
    BY <2>1, <2>2, FS_Subset, FS_CardinalityType
  <2>4. Cardinality(own[p] \cup FirstFrames(n)) =
          Cardinality(own[p]) + Cardinality(FirstFrames(n))
            - Cardinality(own[p] \cap FirstFrames(n))
    BY <1>5, <2>3, FS_Union
  <2>5. Cardinality(own[p] \cap FirstFrames(n)) = 0
    BY <1>9, FS_EmptySet
  <2>6. new[p] = own[p] \cup FirstFrames(n)
    BY <1>7
  <2>7. QED BY <1>2, <1>5, <2>3, <2>4, <2>5, <2>6
<1>12. sbrk'[p] <= P * Cardinality(new[p])
  <2> DEFINE c == Cardinality(own[p])
  <2>1. /\ sbrk'[p] = sbrk[p] + inc /\ sbrk[p] <= P * c /\ sbrk[p] \in Nat
        /\ c \in Nat /\ Cardinality(new[p]) = c + n
    BY <1>3, <1>4, <1>6, <1>11
  <2> HIDE DEF c, new
  <2>2. P * (c + n) = P * c + P * n
    BY <1>1, <1>2, <2>1
  <2>3. P * c \in Nat /\ P * n \in Nat
    BY <1>1, <1>2, <2>1
  <2>4. QED BY <1>1, <1>2, <2>1, <2>2, <2>3
<1> HIDE DEF new
<1>13. \A q \in Proc : sbrk'[q] <= P * Cardinality(new[q])
  BY <1>3, <1>4, <1>6, <1>7, <1>12
<1>14. QED BY <1>5, <1>8, <1>10, <1>13 DEF FramesCoverSpace, P

(* RAM backs what lies below the breaks, after any sequence of allocations,
   refused allocations and memmap calls of any number of processes. *)
THEOREM FramesCoverSpaceHolds == Safety => []FramesCoverSpace
<1>1. ASSUME Init PROVE FramesCoverSpace
  <2> DEFINE own == [p \in Proc |-> {}]
  <2>1. sbrk = [p \in Proc |-> 0] /\ free_fp_list = [k \in 1..numfp |-> k - 1]
    BY <1>1 DEF Init, init_mm, init_memphy
  <2>2. IsInjective(free_fp_list)
    BY <2>1, VMemAssumption DEF IsInjective
  <2>3. \A p \in Proc : sbrk[p] <= PAGING_PAGESZ * Cardinality(own[p])
    <3>1. Cardinality({}) = 0
      BY FS_EmptySet
    <3>2. PAGING_PAGESZ * 0 = 0
      BY VMemAssumption
    <3>3. QED BY <2>1, <3>1, <3>2
  <2>4. /\ own \in [Proc -> SUBSET (Frame \ ToSet(free_fp_list))]
        /\ \A p, q \in Proc : p # q => own[p] \cap own[q] = {}
    OBVIOUS
  <2> HIDE DEF own
  <2>5. QED BY <2>2, <2>3, <2>4 DEF FramesCoverSpace
<1>2. ASSUME TypeOK, FramesCoverSpace, [Next]_vars PROVE FramesCoverSpace'
  <2>1. ASSUME UNCHANGED <<free_fp_list, sbrk>> PROVE FramesCoverSpace'
    BY <1>2, <2>1 DEF FramesCoverSpace
  <2>2. IsInjective(free_fp_list)
    BY <1>2 DEF FramesCoverSpace
  <2>3. ASSUME NEW p \in Proc, NEW a \in Nat, sbrk' = sbrk,
               inc_vma_limit(p, a) \/ inc_vma_limit_fails(p, a)
        PROVE  FramesCoverSpace'
    BY <1>2, <2>2, <2>3, IncShrinks, ListShrinks
  <2>4. ASSUME NEW p \in Proc, NEW r, NEW size \in Sizes,
               liballoc_fails(p, size, r)
        PROVE  FramesCoverSpace'
    <3>1. PAGING_PAGE_ALIGNSZ(size) \in Nat
      BY AlignUp, VMemAssumption
    <3>2. QED BY <2>3, <2>4, <3>1 DEF liballoc_fails
  <2>5. ASSUME NEW p \in Proc, NEW nr \in Calls, NEW a1 \in 1..5,
               NEW a2 \in Args, NEW a3 \in Args, libsyscall(p, nr, a1, a2, a3)
        PROVE  FramesCoverSpace'
    <3>1. a3 \in Nat
      BY VMemAssumption
    <3>2. CASE memmap_inc(p, a2, a3)
      BY <2>3, <3>1, <3>2 DEF memmap_inc
    <3>3. CASE memmap_swap(a2, a3) \/ memmap_io_write(a2, a3) \/ UNCHANGED vars
      BY <2>1, <3>3 DEF memmap_swap, memmap_io_write, vars
    <3>4. QED BY <2>5, <3>2, <3>3 DEF libsyscall, sys_memmap
  <2>6. ASSUME NEW p \in Proc, NEW rgid, NEW o, NEW v,
               \/ libfree(p, rgid) \/ libread(p, rgid, o)
               \/ libwrite(p, v, rgid, o) \/ access_crashes(p, rgid, o)
        PROVE  FramesCoverSpace'
    BY <2>1, <2>6 DEF libfree, libread, libwrite, access_crashes
  <2>7. CASE UNCHANGED vars
    BY <2>1, <2>7 DEF vars
  <2>8. ASSUME NEW p \in Proc, Run(p) PROVE FramesCoverSpace'
    BY <1>2, <2>4, <2>5, <2>6, <2>8, AllocCovers DEF Run
  <2>9. QED BY <1>2, <2>7, <2>8 DEF Next
<1>3. QED BY <1>1, <1>2, TypeCorrect, PTL DEF Safety
=============================================================================

--------------------------------- MODULE PTE ---------------------------------
(***************************************************************************)
(* Page table entries: the bit fields of mm.h and bitops.h, and            *)
(* pte_set_fpn of mm.c.  A 32-bit word is the set of its bits that are 1,  *)
(* so | is union, &~ is difference and & is intersection.                  *)
(***************************************************************************)
EXTENDS Naturals, FiniteSetsExt

Word == SUBSET (0..31)

BIT(nr) == {nr}
GENMASK(h, l) == l..h

\* The bits of a number below 2^31.
Bits(n) == {b \in 0..30 : (n \div 2^b) % 2 = 1}

SETBIT(v, mask) == v \cup mask
CLRBIT(v, mask) == v \ mask
SETVAL(v, value, mask, offst) ==
  (v \ mask) \cup ({b + offst : b \in Bits(value)} \cap mask)
GETVAL(v, mask, offst) ==
  MapThenSumSet(LAMBDA b : 2^(b - offst), v \cap mask)

PAGING_PTE_PRESENT_MASK == BIT(31)
PAGING_PTE_SWAPPED_MASK == BIT(30)
PAGING_PTE_FPN_MASK == GENMASK(12, 0)

PAGING_PAGE_PRESENT(pte) == pte \cap PAGING_PTE_PRESENT_MASK # {}
PAGING_FPN(pte) == GETVAL(pte, PAGING_PTE_FPN_MASK, 0)

\* The entry of a page that is in RAM, in frame fpn.
pte_set_fpn(pte, fpn) ==
  SETVAL(CLRBIT(SETBIT(pte, PAGING_PTE_PRESENT_MASK), PAGING_PTE_SWAPPED_MASK),
         fpn, PAGING_PTE_FPN_MASK, 0)
=============================================================================

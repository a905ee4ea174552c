-------------------------------- MODULE Paging --------------------------------
(* The shape of a page table: PagingConstsTrait of ostd/src/mm/mod.rs and the *)
(* address arithmetic of ostd/src/mm/page_table/mod.rs.  Addresses are        *)
(* counted in base pages.                                                     *)
EXTENDS Integers

CONSTANTS
    NR_LEVELS,
    NR_ENTRIES      \* nr_subpage_per_huge: PTEs per node

ASSUME PagingAssumption ==
    NR_LEVELS \in Nat \ {0, 1} /\ NR_ENTRIES \in Nat \ {0, 1}

\* page_size and pte_index, in base pages.
page_size(l) == NR_ENTRIES ^ (l - 1)
pte_index(va, l) == (va \div page_size(l)) % NR_ENTRIES

align_down(va, size) == va - (va % size)

Page == 0 .. page_size(NR_LEVELS + 1) - 1
Index == 0 .. NR_ENTRIES - 1
===============================================================================

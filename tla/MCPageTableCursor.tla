--------------------------- MODULE MCPageTableCursor ---------------------------
(* Instances of PageTableCursor for TLC.                                      *)
EXTENDS PageTableCursor, TLC

Base == <<8, 1, "rw">>
Huge == <<4, 2, "rw">>
MCItems == {Base, Huge}

\* The table, an unaligned range that begins and ends within level 2 entries,
\* and a page within a huge page.
MCRanges == {<<0, 8>>, <<1, 7>>, <<3, 4>>}

\* A huge page, and a base page in another level 2 node.
MapsTwo(v) == CASE v = 2 -> {Huge} [] v = 5 -> {Base} [] OTHER -> {}
================================================================================

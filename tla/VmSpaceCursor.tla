---------------------------- MODULE VmSpaceCursor ----------------------------
(***************************************************************************)
(* The cursors of mm/vm_space.rs: a page table cursor together with the    *)
(* TLB flusher of the space.                                               *)
(*                                                                         *)
(* The page table cursor is taken at its promise, AbstractPageTable, which *)
(* PageTableCursor is checked to implement; the flusher is reduced to what *)
(* its next dispatch flushes and keeps alive (TlbFlush has the protocol    *)
(* behind dispatch_tlb_flush).  A UFrame is one base page.                 *)
(***************************************************************************)
EXTENDS Integers, FiniteSets

CONSTANTS
    VmPage,         \* the pages of the user address space
    UFrame,         \* physical pages that may be mapped
    VmProp,         \* page properties
    MaxVmChanges    \* bound on the calls of map, unmap and protect_next

VARIABLES
    mapping, barrier, pos, req, ret,    \* AbstractPageTable
    mutable,        \* whether the open cursor is a CursorMut
    vm_pc,          \* "idle", or where unmap is
    end_va, num_unmapped,
    issued,         \* pages the operations in the flusher cover
    page_keeper,    \* what is kept until the flush: <<page, what it held>>
    stale,          \* history: pages other CPUs may still translate the old way
    before,         \* history: where unmap began, and the mapping it began with
    vm_changes

flusherVars == <<issued, page_keeper, stale>>
unmapVars == <<end_va, num_unmapped, before>>
vmCursorVars == <<mapping, barrier, pos, req, ret, mutable, vm_pc, vm_changes, flusherVars, unmapVars>>

P == INSTANCE AbstractPageTable WITH
        Page <- VmPage, Props <- VmProp,
        Items <- [pa : UFrame, len : {1}, prop : VmProp]

\* The promise constrains the answer and the position; these are the candidates.
Result(kinds) ==
    ret' \in [kind : kinds, va : VmPage \union {Cardinality(VmPage)}, len : 0 .. Cardinality(VmPage),
              item : {<<>>} \union (UFrame \X VmProp)]
Answer(kinds) == pos' \in pos .. Cardinality(VmPage) /\ Result(kinds)

Mapped(pages) == {p \in pages : mapping[p] # <<>>}

VmCursorInit ==
    /\ P!AInit
    /\ mutable = FALSE /\ vm_pc = "idle" /\ vm_changes = 0
    /\ end_va = 0 /\ num_unmapped = 0 /\ before = [start |-> 0, mapping |-> mapping]
    /\ issued = {} /\ page_keeper = {} /\ stale = {}

\* VmSpace::cursor and VmSpace::cursor_mut; a bad range is AccessDenied.
OpenCursor(m, start, end) ==
    /\ P!New(start, end) /\ mutable' = m
    /\ UNCHANGED <<vm_pc, vm_changes, flusherVars, unmapVars>>

\* The cursor goes out of scope, and the flusher with it.
DropCursor ==
    /\ vm_pc = "idle" /\ P!Close
    /\ issued' = {} /\ page_keeper' = {}
    /\ UNCHANGED <<mutable, vm_pc, vm_changes, stale, unmapVars>>

\* query, find_next and jump go to the page table cursor.
Reads ==
    /\ \/ Result({"state", "err"}) /\ P!Query
       \/ Answer({"found", "none"}) /\ \E len \in 0 .. (barrier[2] - pos) : P!FindNext(len)
       \/ Result({"ok", "err", "panic"}) /\ \E va \in VmPage : P!Jump(va)
    /\ UNCHANGED <<req, mutable, vm_pc, vm_changes, flusherVars, unmapVars>>

Ready == barrier # <<>> /\ vm_pc = "idle"

Cursor == Ready /\ ~mutable /\ Reads
CursorMut == Ready /\ mutable /\ Reads

Count == vm_changes < MaxVmChanges /\ vm_changes' = vm_changes + 1

\* issue_tlb_flush_with: the operation covers `pages`, what they held is kept.
issue_tlb_flush_with(pages) ==
    /\ issued' = issued \union pages
    /\ page_keeper' = page_keeper \union {<<p, mapping[p]>> : p \in pages}
    /\ stale' = stale \union Mapped(pages)

dispatch_tlb_flush ==
    /\ stale' = stale \ issued
    /\ issued' = {} /\ page_keeper' = {}

\* map; what was there is flushed at once.  The entry is at the lowest level,
\* so that no page table is mapped out.
map(frame, prop) ==
    /\ Ready /\ mutable /\ Count
    /\ Answer({"ok", "mapped"}) /\ P!Map([pa |-> frame, len |-> 1, prop |-> prop])
    /\ IF ret'.kind = "mapped"
       THEN /\ issued' = {} /\ page_keeper' = {}
            /\ stale' = (stale \union {pos}) \ (issued \union {pos})
       ELSE UNCHANGED flusherVars
    /\ UNCHANGED <<req, mutable, vm_pc, unmapVars>>

\* unmap asserts that the range ends within the cursor's.
unmap(len) ==
    /\ Ready /\ mutable /\ Count
    /\ pos + len <= barrier[2]
    /\ vm_pc' = "unmap" /\ end_va' = pos + len /\ num_unmapped' = 0
    /\ before' = [start |-> pos, mapping |-> mapping]
    /\ UNCHANGED <<mapping, barrier, pos, req, ret, mutable, flusherVars>>

\* take_next returned a mapping: its address is flushed.
UnmapMapped ==
    /\ vm_pc = "unmap" /\ Answer({"mapped"}) /\ P!TakeNext(end_va - pos)
    /\ ret'.len = 1
    /\ num_unmapped' = num_unmapped + 1
    /\ issue_tlb_flush_with({ret'.va})
    /\ UNCHANGED <<req, mutable, vm_pc, vm_changes, end_va, before>>

\* Mutant: only the first address of the subtree's range is flushed.
UnmapStrayFirst ==
    /\ vm_pc = "unmap" /\ Answer({"stray"}) /\ P!TakeNext(end_va - pos)
    /\ num_unmapped' = num_unmapped + Cardinality(Mapped(P!Pages(ret'.va, ret'.len)))
    /\ issued' = issued \union {ret'.va}
    /\ page_keeper' = page_keeper \union {<<p, mapping[p]>> : p \in P!Pages(ret'.va, ret'.len)}
    /\ stale' = stale \union Mapped(P!Pages(ret'.va, ret'.len))
    /\ UNCHANGED <<req, mutable, vm_pc, vm_changes, end_va, before>>

\* take_next returned a page table: the range it translated is flushed, and the
\* frames mapped under it are counted.
UnmapStray ==
    /\ vm_pc = "unmap" /\ Answer({"stray"}) /\ P!TakeNext(end_va - pos)
    /\ num_unmapped' = num_unmapped + Cardinality(Mapped(P!Pages(ret'.va, ret'.len)))
    /\ issue_tlb_flush_with(P!Pages(ret'.va, ret'.len))
    /\ UNCHANGED <<req, mutable, vm_pc, vm_changes, end_va, before>>

\* take_next returned nothing: the loop ends.
UnmapBreak ==
    /\ vm_pc = "unmap" /\ Answer({"none"}) /\ P!TakeNext(end_va - pos)
    /\ vm_pc' = "unmapped"
    /\ UNCHANGED <<req, mutable, vm_changes, flusherVars, unmapVars>>

UnmapReturn ==
    /\ vm_pc = "unmapped" /\ dispatch_tlb_flush
    /\ vm_pc' = "idle"
    /\ end_va' = 0 /\ num_unmapped' = 0
    /\ before' = [start |-> 0, mapping |-> [p \in VmPage |-> <<>>]]
    /\ UNCHANGED <<mapping, barrier, pos, req, ret, mutable, vm_changes>>

\* protect_next leaves the flush to the caller.
protect_next(len, prop) ==
    /\ Ready /\ mutable /\ Count
    /\ pos + len <= barrier[2] /\ Answer({"protected", "none"}) /\ P!ProtectNext(len, prop)
    /\ UNCHANGED <<req, mutable, vm_pc, flusherVars, unmapVars>>

VmCursorNext ==
    \/ \E m \in BOOLEAN, start, end \in VmPage : OpenCursor(m, start, end + 1)
    \/ DropCursor
    \/ Cursor \/ CursorMut
    \/ \E frame \in UFrame, prop \in VmProp : map(frame, prop)
    \/ \E len \in 0 .. Cardinality(VmPage) : unmap(len)
    \/ UnmapMapped \/ UnmapStray \/ UnmapBreak \/ UnmapReturn
    \/ \E len \in 0 .. Cardinality(VmPage), prop \in VmProp : protect_next(len, prop)

-----------------------------------------------------------------------------
\* unmap removes exactly what was mapped in its range and counts it, whichever
\* mix of single mappings and whole subtrees take_next hands out; the cursor
\* does not stop before the end of the range.  No mapping or subtree leaves the
\* table without a flush operation that covers every page it translated, and
\* what it held is kept until that flush has been dispatched.
UnmapExact ==
    /\ stale \subseteq issued
    /\ \A p \in stale : \E k \in page_keeper : k[1] = p /\ k[2] # <<>>
    /\ vm_pc = "idle" => stale = {}
    /\ vm_pc # "idle" =>
        LET gone == before.start .. (pos - 1)
        IN  /\ mapping = [p \in VmPage |-> IF p \in gone THEN <<>> ELSE before.mapping[p]]
            /\ num_unmapped = Cardinality({p \in gone : before.mapping[p] # <<>>})
    /\ vm_pc = "unmapped" => pos >= end_va
=============================================================================

------------------------------- MODULE PtNode -------------------------------
(***************************************************************************)
(* Page table nodes, their entries and what the entries own                *)
(* (mm/page_table/node, the PageTableConfigs of mm/vm_space.rs and         *)
(* mm/kspace/mod.rs): an entry owns a reference of the child node or of    *)
(* the tracked frame it maps, which items and children give up when they   *)
(* are turned into entries and get back when an entry is turned into them. *)
(* The kernel's tables map untracked memory as well, and tell the two      *)
(* apart by the flag AVAIL1.                                               *)
(*                                                                         *)
(* One holder of the guards works on a root of level 2 and its children;   *)
(* who may hold them is the subject of PtLocking.                          *)
(***************************************************************************)
EXTENDS Integers, Sequences, FiniteSets, SequencesExt

CONSTANTS
    PtKind,       \* the configurations: "user", "kernel"
    PtRoot,       \* the frame of the root node
    PtChildren,   \* the frames other nodes may use
    PtFrames,     \* tracked frames
    HugePa,       \* the address of an untracked huge page, and of its first subpage
    NR_ENTRIES,
    MaxHeld       \* children the holder keeps at a time

VARIABLES
    pt_kind,
    pt_node,      \* the nodes: entries and nr_children
    pt_refs,      \* reference counts of nodes and tracked frames, 0 when unused
    pt_held,      \* the children and items the holder of the guards owns
    pt_entry,     \* the Entry that is borrowed from a guard: node, index, copy of the entry
    pt_panic      \* a debug assertion of an item conversion has failed

nodeVars == <<pt_kind, pt_node, pt_refs, pt_held, pt_entry, pt_panic>>

Idx == 0 .. NR_ENTRIES - 1
PtNodes == {PtRoot} \cup PtChildren
level(n) == IF n = PtRoot THEN 2 ELSE 1

absent == [kind |-> "absent", pa |-> 0, w |-> FALSE, avail1 |-> FALSE]
new_pt(n) == [absent EXCEPT !.kind = "pt", !.pa = n]
new_page(pa, w, avail1) == [kind |-> "page", pa |-> pa, w |-> w, avail1 |-> avail1]
NoEntry == [node |-> 0, idx |-> 0, pte |-> absent]
Item(tracked, pa, lvl, w, avail1) ==
    [kind |-> "item", tracked |-> tracked, pa |-> pa, level |-> lvl, w |-> w, avail1 |-> avail1]
NodeHandle(n) == [kind |-> "node", pa |-> n]

(* PageTablePageMeta::new and a zeroed frame. *)
EmptyNode == [entries |-> [i \in Idx |-> absent], nr_children |-> 0]

Init ==
    /\ pt_kind \in PtKind
    /\ pt_node = [n \in PtNodes |-> EmptyNode]
    /\ pt_refs = [f \in PtNodes \cup PtFrames |-> IF f = PtRoot THEN 1 ELSE 0]
    /\ pt_held = <<>>
    /\ pt_entry = NoEntry
    /\ pt_panic = FALSE

-----------------------------------------------------------------------------
(* item_into_raw: the entry of an item, which gives its reference up.       *)
user_item_into_raw(item) == new_page(item.pa, item.w, FALSE)
kernel_item_into_raw(item) == new_page(item.pa, item.w, item.tracked)
item_into_raw(item) ==
    IF pt_kind = "user" THEN user_item_into_raw(item) ELSE kernel_item_into_raw(item)
IntoRawPanics(item) == pt_kind = "kernel" /\ item.avail1

(* item_from_raw: whether a kernel item is tracked is read off the flag,    *)
(* which is taken out of its property.                                      *)
kernel_item_from_raw(pte, lvl) == Item(pte.avail1, pte.pa, lvl, pte.w, FALSE)

user_item_from_raw(pte, lvl) == Item(TRUE, pte.pa, lvl, pte.w, FALSE)
item_from_raw(pte, lvl) ==
    IF pt_kind = "user" THEN user_item_from_raw(pte, lvl) ELSE kernel_item_from_raw(pte, lvl)

is_last(pte) == pte.kind = "page"

(* Child::from_pte: the reference of the entry becomes the one of a handle. *)
from_pte(pte, lvl) ==
    CASE pte.kind = "absent" -> <<>>
      [] pte.kind = "pt" -> <<NodeHandle(pte.pa)>>
      [] pte.kind = "page" -> <<item_from_raw(pte, lvl)>>

write_pte(nodes, n, i, pte) == [nodes EXCEPT ![n].entries[i] = pte]
ChildrenCounted(nodes, n, before, after) ==
    [nodes EXCEPT ![n].nr_children = @ + (IF before.kind = "absent" /\ after.kind # "absent" THEN 1
                                          ELSE IF before.kind # "absent" /\ after.kind = "absent"
                                          THEN -1 ELSE 0)]

(* A node the holder can have a guard of: the root, or a child of it. *)
Guarded(n) ==
    /\ pt_refs[PtRoot] > 0
    /\ n = PtRoot \/ \E i \in Idx : pt_node[PtRoot].entries[i] = new_pt(n)
Unused(n) == pt_refs[n] = 0

-----------------------------------------------------------------------------
(* The caller gets an item: a handle of a tracked frame, or untracked       *)
(* memory when the table is the kernel's.                                   *)
GetFrame(f) ==
    /\ Len(pt_held) < MaxHeld
    /\ pt_refs' = [pt_refs EXCEPT ![f] = @ + 1]
    /\ pt_held' = Append(pt_held, Item(TRUE, f, 1, TRUE, FALSE))
    /\ UNCHANGED <<pt_kind, pt_node, pt_entry, pt_panic>>

GetUntracked(lvl) ==
    /\ pt_kind = "kernel"
    /\ Len(pt_held) < MaxHeld
    /\ pt_held' = Append(pt_held, Item(FALSE, HugePa, lvl, TRUE, FALSE))
    /\ UNCHANGED <<pt_kind, pt_node, pt_refs, pt_entry, pt_panic>>

(* PageTableGuard::replace_child: with an item of the level of the node, or *)
(* with nothing; the old child goes to the caller.                          *)
replace_child(n, i, h) ==
    LET old == pt_node[n].entries[i]
        new == IF h = 0 THEN absent ELSE item_into_raw(pt_held[h]) IN
    /\ pt_entry.node # n
    /\ Guarded(n)
    /\ h # 0 => pt_held[h].kind = "item" /\ pt_held[h].level = level(n)
    /\ h = 0 => Len(pt_held) < MaxHeld
    /\ pt_panic' = (h # 0 /\ IntoRawPanics(pt_held[h]))
    /\ pt_node' = write_pte(ChildrenCounted(pt_node, n, old, new), n, i, new)
    /\ pt_held' = (IF h = 0 THEN pt_held ELSE RemoveAt(pt_held, h)) \o from_pte(old, level(n))
    /\ UNCHANGED <<pt_kind, pt_refs, pt_entry>>

(* PageTableGuard::protect_child: the property changes, the rest stays. *)
protect_child(n, i) ==
    /\ pt_entry.node # n
    /\ Guarded(n)
    /\ is_last(pt_node[n].entries[i])
    /\ pt_node' = [pt_node EXCEPT ![n].entries[i].w = ~ @]
    /\ UNCHANGED <<pt_kind, pt_refs, pt_held, pt_entry, pt_panic>>

(* A fresh node, locked before its parent's entry points to it. *)
alloc(refs, n) == [refs EXCEPT ![n] = 1]

(* PageTableGuard::alloc_absent_child. *)
alloc_absent_child(n, i, c) ==
    /\ pt_entry.node # n
    /\ Guarded(n) /\ level(n) > 1
    /\ pt_node[n].entries[i].kind = "absent"
    /\ Unused(c)
    /\ pt_refs' = alloc(pt_refs, c)
    /\ pt_node' = [write_pte(ChildrenCounted(pt_node, n, absent, new_pt(c)), n, i, new_pt(c))
                     EXCEPT ![c] = EmptyNode]
    /\ UNCHANGED <<pt_kind, pt_held, pt_entry, pt_panic>>

-----------------------------------------------------------------------------
(* PageTableGuard::entry: an Entry keeps a copy of what it has read. *)
new_at(n, i) == [node |-> n, idx |-> i, pte |-> pt_node[n].entries[i]]

entry(n, i) ==
    /\ pt_entry = NoEntry
    /\ Guarded(n)
    /\ pt_entry' = new_at(n, i)
    /\ UNCHANGED <<pt_kind, pt_node, pt_refs, pt_held, pt_panic>>

EntryEnds ==
    /\ pt_entry # NoEntry
    /\ pt_entry' = NoEntry
    /\ UNCHANGED <<pt_kind, pt_node, pt_refs, pt_held, pt_panic>>

is_none == pt_entry.pte.kind = "absent"

(* Entry::protect. *)
protect ==
    LET pte == [pt_entry.pte EXCEPT !.w = ~ @] IN
    /\ pt_entry # NoEntry /\ is_last(pt_entry.pte)
    /\ pt_node' = write_pte(pt_node, pt_entry.node, pt_entry.idx, pte)
    /\ pt_entry' = [pt_entry EXCEPT !.pte = pte]
    /\ UNCHANGED <<pt_kind, pt_refs, pt_held, pt_panic>>

(* Entry::replace: what it was is known from the copy. *)
replace(h) ==
    LET n == pt_entry.node
        new == IF h = 0 THEN absent ELSE item_into_raw(pt_held[h]) IN
    /\ pt_entry # NoEntry
    /\ h # 0 => pt_held[h].kind = "item" /\ pt_held[h].level = level(n)
    /\ h = 0 => Len(pt_held) < MaxHeld
    /\ pt_panic' = (h # 0 /\ IntoRawPanics(pt_held[h]))
    /\ pt_node' = write_pte(ChildrenCounted(pt_node, n, pt_entry.pte, new), n, pt_entry.idx, new)
    /\ pt_held' = (IF h = 0 THEN pt_held ELSE RemoveAt(pt_held, h)) \o from_pte(pt_entry.pte, level(n))
    /\ pt_entry' = [pt_entry EXCEPT !.pte = new]
    /\ UNCHANGED <<pt_kind, pt_refs>>

(* Entry::alloc_if_none. *)
alloc_if_none(c) ==
    LET n == pt_entry.node IN
    /\ pt_entry # NoEntry /\ is_none /\ level(n) > 1
    /\ Unused(c)
    /\ pt_refs' = alloc(pt_refs, c)
    /\ pt_node' = [write_pte(ChildrenCounted(pt_node, n, absent, new_pt(c)), n, pt_entry.idx, new_pt(c))
                     EXCEPT ![c] = EmptyNode]
    /\ pt_entry' = [pt_entry EXCEPT !.pte = new_pt(c)]
    /\ UNCHANGED <<pt_kind, pt_held, pt_panic>>

(* replace_absent_with_frame, once for every subpage of the huge page. *)
replace_absent_with_frame(huge) ==
    [entries |-> [i \in Idx |-> [huge EXCEPT !.pa = @ + i]], nr_children |-> NR_ENTRIES]

(* Entry::split_if_mapped_huge: the number of children stays. *)
split_if_mapped_huge(c) ==
    LET n == pt_entry.node IN
    /\ pt_entry # NoEntry /\ is_last(pt_entry.pte) /\ level(n) > 1
    /\ Unused(c)
    /\ pt_refs' = alloc(pt_refs, c)
    /\ pt_node' = [write_pte(pt_node, n, pt_entry.idx, new_pt(c))
                     EXCEPT ![c] = replace_absent_with_frame(pt_entry.pte)]
    /\ pt_entry' = [pt_entry EXCEPT !.pte = new_pt(c)]
    /\ UNCHANGED <<pt_kind, pt_held, pt_panic>>

(* Entry::to_ref, and what a query does with it: the item is cloned and the *)
(* borrowed one forgotten.                                                  *)
to_ref ==
    LET item == item_from_raw(pt_entry.pte, level(pt_entry.node)) IN
    /\ pt_entry # NoEntry /\ is_last(pt_entry.pte)
    /\ Len(pt_held) < MaxHeld
    /\ pt_refs' = IF item.tracked THEN [pt_refs EXCEPT ![item.pa] = @ + 1] ELSE pt_refs
    /\ pt_held' = Append(pt_held, item)
    /\ UNCHANGED <<pt_kind, pt_node, pt_entry, pt_panic>>

-----------------------------------------------------------------------------
(* A reference less: the last one of a node runs on_drop, which turns every *)
(* present entry back into a node or an item and drops that.                *)
RECURSIVE Dropped(_, _)
Dropped(refs, f) ==
    LET less == [refs EXCEPT ![f] = @ - 1]
        owned(pte, lvl) == IF pte.kind = "pt" \/ (pte.kind = "page" /\ item_from_raw(pte, lvl).tracked)
                           THEN {pte.pa} ELSE {} IN
    IF less[f] > 0 \/ f \in PtFrames THEN less
    ELSE FoldSeq(LAMBDA i, acc : IF owned(pt_node[f].entries[i], level(f)) = {} THEN acc
                                 ELSE Dropped(acc, pt_node[f].entries[i].pa),
                 less, [i \in 1 .. NR_ENTRIES |-> i - 1])

(* A node goes through RcuDrop: not while a guard of the same grace period   *)
(* may have an entry of it.                                                 *)
DropHeld(h) ==
    /\ pt_held[h].kind = "node" => pt_entry = NoEntry
    /\ pt_refs' = IF pt_held[h].kind = "node" \/ pt_held[h].tracked
                  THEN Dropped(pt_refs, pt_held[h].pa) ELSE pt_refs
    /\ pt_held' = RemoveAt(pt_held, h)
    /\ pt_node' = [n \in PtNodes |-> IF pt_refs'[n] = 0 THEN EmptyNode ELSE pt_node[n]]
    /\ UNCHANGED <<pt_kind, pt_entry, pt_panic>>

(* The page table itself is dropped, with all guards gone. *)
DropRoot ==
    /\ pt_entry = NoEntry
    /\ pt_refs[PtRoot] = 1
    /\ pt_refs' = Dropped(pt_refs, PtRoot)
    /\ pt_node' = [n \in PtNodes |-> IF pt_refs'[n] = 0 THEN EmptyNode ELSE pt_node[n]]
    /\ UNCHANGED <<pt_kind, pt_held, pt_entry, pt_panic>>

GuardOps ==
    \E n \in PtNodes, i \in Idx :
       \/ entry(n, i) \/ protect_child(n, i)
       \/ \E h \in 0 .. Len(pt_held) : replace_child(n, i, h)
       \/ \E c \in PtChildren : alloc_absent_child(n, i, c)

EntryOps ==
    \/ EntryEnds \/ protect \/ to_ref
    \/ \E h \in 0 .. Len(pt_held) : replace(h)
    \/ \E c \in PtChildren : alloc_if_none(c) \/ split_if_mapped_huge(c)

Next ==
    /\ ~ pt_panic
    /\ \/ \E f \in PtFrames : GetFrame(f)
       \/ \E lvl \in {1, 2} : GetUntracked(lvl)
       \/ GuardOps \/ EntryOps \/ DropRoot
       \/ \E h \in 1 .. Len(pt_held) : DropHeld(h)

-----------------------------------------------------------------------------
HeldOf(f) == {h \in 1 .. Len(pt_held) : pt_held[h].pa = f
                                        /\ (pt_held[h].kind = "node" \/ pt_held[h].tracked)}
EntriesOf(f) == {<<n, i>> \in PtNodes \X Idx :
                   LET pte == pt_node[n].entries[i] IN
                   /\ pt_refs[n] > 0
                   /\ pte.pa = f /\ pte.kind # "absent"
                   /\ pte.kind = "page" => pt_kind = "user" \/ pte.avail1}

(* However items and nodes are put into entries, replaced, split, queried   *)
(* and dropped: a node or tracked frame has exactly one reference for every *)
(* entry of a live node and every handle that owns it, so it is freed with  *)
(* the last one and never earlier; nr_children is the number of present     *)
(* entries; the copy a borrowed Entry works from is what the node holds;    *)
(* and an item that comes out of a table can be mapped again, its property  *)
(* free of the flag that marks tracked entries.                             *)
EntriesOwn ==
    /\ ~ pt_panic
    /\ \A f \in PtNodes \cup PtFrames :
          pt_refs[f] = Cardinality(HeldOf(f)) + Cardinality(EntriesOf(f))
                       + (IF f = PtRoot /\ pt_refs[f] > 0 THEN 1 ELSE 0)
    /\ \A n \in PtNodes : pt_node[n].nr_children =
          Cardinality({i \in Idx : pt_node[n].entries[i].kind # "absent"})
    /\ pt_entry # NoEntry => pt_node[pt_entry.node].entries[pt_entry.idx] = pt_entry.pte
=============================================================================

---------------------------- MODULE PageTableCursor ----------------------------
(* A page table and the cursor over it: ostd/src/mm/page_table/cursor/mod.rs  *)
(* and the entries and nodes it works on, node/entry.rs and node/mod.rs.  The *)
(* cursor holds the locks of its range (module PtLocking), so nothing else    *)
(* changes the tree while a call is under way; every iteration of a loop of   *)
(* the code is a step, and so is the end of the call.                         *)
(*                                                                            *)
(* Node <<l, m>> is the m-th node of level l, counted over the address space; *)
(* its entries are <<l, m * NR_ENTRIES + i>>, and the node below entry        *)
(* <<l, k>> is <<l - 1, k>>.  Addresses, virtual and physical, are counted in *)
(* base pages.  A call that breaks an assertion of its caller's making (an    *)
(* unaligned address, a length beyond the range) panics before it changes     *)
(* anything and is not enumerated.                                            *)
EXTENDS Paging, FiniteSets, FiniteSetsExt

CONSTANTS
    Items,                      \* <<pa, level, prop>>: C::item_into_raw of an item
    Props,
    Ranges,                     \* the <<start, end>> cursors are created for
    MapsAt(_),                  \* bound: the items that are mapped at an address
    NewProps,                   \* bound: what protect_next's op turns properties into
    HIGHEST_TRANSLATION_LEVEL,
    TOP_LEVEL_CAN_UNMAP

ASSUME PageTableCursorAssumption ==
    /\ HIGHEST_TRANSLATION_LEVEL \in 1 .. NR_LEVELS - 1
    /\ TOP_LEVEL_CAN_UNMAP \in BOOLEAN
    /\ \A r \in Ranges : r[1] \in Page /\ r[2] - 1 \in Page /\ r[1] < r[2]
    /\ \A i \in Items : /\ i[1] \in Nat /\ i[1] % page_size(i[2]) = 0
                        /\ i[2] \in 1 .. HIGHEST_TRANSLATION_LEVEL /\ i[3] \in Props
    /\ \A v \in Page : MapsAt(v) \subseteq Items
    /\ NewProps \subseteq Props

Level == 1 .. NR_LEVELS
Node == {<<l, m>> \in Level \X Page : m < page_size(NR_LEVELS - l + 1)}
Entry == {<<l, k>> \in Level \X Page : k < page_size(NR_LEVELS - l + 2)}

None == <<>>                \* Child::None
PageTable == <<"node">>     \* Child::PageTable
\* Child::Frame(pa, level, prop): the level is that of the entry.
Frame(pa, prop) == <<pa, prop>>
is_frame(c) == c \notin {None, PageTable}

NoGuard == -1               \* path[level - 1] is None

VARIABLES
    pte,            \* what an entry holds; an entry of a node that is not there holds None
    nr_children,    \* PageTablePageMeta::nr_children
    barrier_va,     \* <<start, end>>; <<>> without a cursor
    guard_level,
    va,
    level,
    path,           \* level -> the number of the node whose guard the cursor holds
    pc,             \* the call under way
    len, end,       \* of find_next_impl
    item,           \* the item to map
    prop,           \* the property protect_next sets
    target,         \* of jump
    ret,            \* what the last call returned
    num_frames      \* of the last StrayPageTable

treeVars == <<pte, nr_children>>
cursorVars == <<barrier_va, guard_level, va, level, path>>
argVars == <<len, end, item, prop, target>>
callVars == <<pc, argVars, ret, num_frames>>
vars == <<treeVars, cursorVars, callVars>>

-----------------------------------------------------------------------------
EntriesOf(n) == {<<n[1], n[2] * NR_ENTRIES + i>> : i \in Index}
NodeOf(e) == <<e[1], e[2] \div NR_ENTRIES>>
ChildNode(e) == <<e[1] - 1, e[2]>>

\* The entries, and the nodes, of the tree below e.
EntriesBelow(e) ==
    {x \in Entry : x[1] < e[1] /\ x[2] \div page_size(e[1] - x[1] + 1) = e[2]}
NodesBelow(e) ==
    {n \in Node : n[1] < e[1] /\ n[2] \div page_size(e[1] - n[1]) = e[2]}

\* A node that is part of the tree.
Live(n) == n[1] = NR_LEVELS \/ pte[<<n[1] + 1, n[2]>>] = PageTable

\* page_walk, the software walk: the translation of a page.
page_walk(p) ==
    LET l == Max({x \in Level : pte[<<x, p \div page_size(x)>>] # PageTable})
        c == pte[<<l, p \div page_size(l)>>]
    IN  IF c = None THEN None ELSE Frame(c[1] + (p % page_size(l)), c[2])

-----------------------------------------------------------------------------
(* Entries and nodes: node/entry.rs *)

\* Mutant: the parent does not count the new node.
AllocUncounted(e) ==
    /\ pte' = [pte EXCEPT ![e] = PageTable]
    /\ nr_children' = [nr_children EXCEPT ![ChildNode(e)] = 0]

\* An empty node below an absent entry.
alloc_absent_child(e) ==
    /\ pte' = [pte EXCEPT ![e] = PageTable]
    /\ nr_children' = [nr_children EXCEPT ![NodeOf(e)] = @ + 1, ![ChildNode(e)] = 0]

\* Mutant: every part of a huge page maps its first frame.
SplitWithoutOffset(e) ==
    /\ pte' = [x \in Entry |-> CASE x = e -> PageTable
                                 [] x \in EntriesOf(ChildNode(e)) -> pte[e]
                                 [] OTHER -> pte[x]]
    /\ nr_children' = [nr_children EXCEPT ![ChildNode(e)] = NR_ENTRIES]

\* split_if_mapped_huge: a node whose entries map the parts of the huge page.
split_if_mapped_huge(e) ==
    LET part(x) == Frame(pte[e][1] + (x[2] % NR_ENTRIES) * page_size(e[1] - 1), pte[e][2])
    IN  /\ pte' = [x \in Entry |-> CASE x = e -> PageTable
                                     [] x \in EntriesOf(ChildNode(e)) -> part(x)
                                     [] OTHER -> pte[x]]
        /\ nr_children' = [nr_children EXCEPT ![ChildNode(e)] = NR_ENTRIES]

\* replace_child: the new child, and the nodes of a subtree that goes with the
\* old one are no longer part of the tree.
replace_child(e, child) ==
    /\ pte' = [x \in Entry |-> CASE x = e -> child
                                 [] x \in EntriesBelow(e) -> None
                                 [] OTHER -> pte[x]]
    /\ nr_children' =
         [n \in Node |->
            CASE n = NodeOf(e) /\ pte[e] = None /\ child # None -> nr_children[n] + 1
              [] n = NodeOf(e) /\ pte[e] # None /\ child = None -> nr_children[n] - 1
              [] n \in NodesBelow(e) -> 0
              [] OTHER -> nr_children[n]]

\* dfs_mark_stray_and_unlock: what it counts in the subtree below e.
dfs_num_frames(e) ==
    MapThenSumSet(LAMBDA n : nr_children[n], {n \in NodesBelow(e) : n[1] = 1})

-----------------------------------------------------------------------------
(* Moving the cursor *)

cur_entry == <<level, path[level] * NR_ENTRIES + pte_index(va, level)>>
cur_va_start == align_down(va, page_size(level))
cur_va_end == cur_va_start + page_size(level)

\* make_guard_unchecked of the child and push_level
push_level ==
    /\ level' = level - 1
    /\ path' = [path EXCEPT ![level - 1] = cur_entry[2]]
    /\ UNCHANGED <<barrier_va, guard_level, va>>

\* The path with the guards of the levels below l given up.
PoppedTo(l) == [x \in Level |-> IF x < l THEN NoGuard ELSE path[x]]

\* path[level - 1].take().unwrap_or_panic() finds no guard.
NothingToPop == \A l \in Level : l = level => path[l] = NoGuard

pop_level ==
    /\ ~NothingToPop
    /\ path' = PoppedTo(level + 1) /\ level' = level + 1
    /\ UNCHANGED <<barrier_va, guard_level, va>>

\* On to the next entry, up to where the next entry is in the same node.
move_forward ==
    LET next_va == cur_va_end
        l == Min({x \in level .. guard_level : x = guard_level \/ pte_index(next_va, x) # 0})
    IN  /\ level' = l /\ path' = PoppedTo(l) /\ va' = next_va
        /\ UNCHANGED <<barrier_va, guard_level>>

-----------------------------------------------------------------------------
Result(kind, lo, n, i) == [kind |-> kind, va |-> lo, len |-> n, item |-> i]
NoResult == Result("none", 0, 0, <<>>)

Enter(call) ==
    /\ pc = "ready" /\ pc' = call
    /\ UNCHANGED <<treeVars, cursorVars, ret, num_frames>>

Continue == UNCHANGED callVars

Return(r, frames) ==
    /\ pc' = "ready" /\ ret' = r /\ num_frames' = frames
    /\ len' = 0 /\ end' = 0 /\ item' = <<>> /\ prop' = "" /\ target' = 0

Init ==
    /\ pte = [e \in Entry |-> None]
    /\ nr_children = [n \in Node |-> 0]
    /\ barrier_va = <<>> /\ guard_level = NR_LEVELS /\ va = 0 /\ level = NR_LEVELS
    /\ path = [l \in Level |-> NoGuard]
    /\ pc = "closed" /\ len = 0 /\ end = 0 /\ item = <<>> /\ prop = "" /\ target = 0
    /\ ret = NoResult /\ num_frames = 0

-----------------------------------------------------------------------------
(* Creating and dropping a cursor *)

level_too_high(r, l) == l > 1 /\ pte_index(r[1], l) = pte_index(r[2] - 1, l)

\* lock_range: down to the lowest node that covers the range, allocating the
\* nodes on the way, or to the node whose entry maps an item over the range.
New(r) ==
    LET at(l) == <<l, r[1] \div page_size(l)>>
        g == Max({l \in Level : ~level_too_high(r, l) \/ is_frame(pte[at(l)])})
        allocated == {e \in {at(l) : l \in g + 1 .. NR_LEVELS} : pte[e] = None}
    IN  /\ pc = "closed" /\ pc' = "ready"
        /\ pte' = [e \in Entry |-> IF e \in allocated THEN PageTable ELSE pte[e]]
        /\ nr_children' =
             [n \in Node |-> nr_children[n] + Cardinality(allocated \cap EntriesOf(n))]
        /\ barrier_va' = r /\ va' = r[1] /\ guard_level' = g /\ level' = g
        /\ path' = [path EXCEPT ![g] = r[1] \div page_size(g + 1)]
        /\ UNCHANGED <<argVars, ret, num_frames>>

Drop ==
    /\ pc = "ready" /\ pc' = "closed"
    /\ barrier_va' = <<>> /\ guard_level' = NR_LEVELS /\ va' = 0 /\ level' = NR_LEVELS
    /\ path' = [l \in Level |-> NoGuard]
    /\ ret' = NoResult /\ num_frames' = 0
    /\ UNCHANGED <<treeVars, argVars>>

-----------------------------------------------------------------------------
(* find_next_impl, for find_next, take_next and protect_next *)

Finding == pc \in {"find_next", "take_next", "protect_next"}

Find(call, n) ==
    /\ n <= barrier_va[2] - va
    /\ len' = n /\ end' = va + n /\ UNCHANGED <<item, target>>
    /\ Enter(call)

cur_entry_fits_range == va = cur_va_start /\ cur_va_end <= end

\* Whether the scan stops at a node to take the whole subtree.
StopsAtNode ==
    /\ pc = "take_next" /\ cur_entry_fits_range
    /\ TOP_LEVEL_CAN_UNMAP \/ level # NR_LEVELS

\* Whether the scan stops at an item: find_next does not split.
StopsAtFrame == cur_entry_fits_range \/ pc = "find_next"

\* Mutant: an empty node is neither entered nor passed.
SkipAbsentOnly ==
    /\ Finding /\ va < end
    /\ pte[cur_entry] = None
    /\ move_forward /\ UNCHANGED treeVars /\ Continue

SkipEntry ==
    /\ Finding /\ va < end
    /\ \/ pte[cur_entry] = None
       \/ /\ pte[cur_entry] = PageTable /\ ~StopsAtNode
          /\ nr_children[ChildNode(cur_entry)] = 0
    /\ move_forward /\ UNCHANGED treeVars /\ Continue

FindDescend ==
    /\ Finding /\ va < end
    /\ pte[cur_entry] = PageTable /\ ~StopsAtNode
    /\ nr_children[ChildNode(cur_entry)] # 0
    /\ push_level /\ UNCHANGED treeVars /\ Continue

FindSplit ==
    /\ Finding /\ va < end
    /\ is_frame(pte[cur_entry]) /\ ~StopsAtFrame
    /\ split_if_mapped_huge(cur_entry) /\ push_level /\ Continue

\* Out of the loop without a result; move_forward may have left the range.
FindNone ==
    /\ Finding /\ va >= end
    /\ va' = Min({va, barrier_va[2]})
    /\ Return(NoResult, 0)
    /\ UNCHANGED <<treeVars, barrier_va, guard_level, level, path>>

Found ==
    /\ Finding /\ va < end
    /\ \/ pte[cur_entry] = PageTable /\ StopsAtNode
       \/ is_frame(pte[cur_entry]) /\ StopsAtFrame

\* replace_cur_entry: the fragment for the old child.
Fragment(old) ==
    Result(IF old = PageTable THEN "stray" ELSE "mapped", va, page_size(level),
           IF old = PageTable THEN <<>> ELSE old)

FindFound ==
    /\ pc = "find_next" /\ Found
    /\ Return(Result("found", va, 0, <<>>), 0)
    /\ UNCHANGED <<treeVars, cursorVars>>

TakeFound ==
    /\ pc = "take_next" /\ Found
    /\ replace_child(cur_entry, None) /\ move_forward
    /\ Return(Fragment(pte[cur_entry]), dfs_num_frames(cur_entry))

protect_cur_entry ==
    pte' = [pte EXCEPT ![cur_entry] = Frame(@[1], prop)] /\ UNCHANGED nr_children

ProtectFound ==
    /\ pc = "protect_next" /\ Found
    /\ protect_cur_entry
    /\ Return(Result("protected", cur_va_start, page_size(level), <<>>), 0)
    /\ move_forward

-----------------------------------------------------------------------------
(* map *)

Map(i) ==
    /\ va < barrier_va[2]
    /\ i[2] <= HIGHEST_TRANSLATION_LEVEL /\ i[2] <= guard_level
    /\ va % page_size(i[2]) = 0
    /\ page_size(i[2]) <= barrier_va[2] - va
    /\ item' = i /\ UNCHANGED <<len, end, prop, target>>
    /\ Enter("map")

MapUp ==
    /\ pc = "map" /\ level < item[2]
    /\ pop_level /\ UNCHANGED treeVars /\ Continue

\* A page table is entered with the lock its lock_range took.
map_branch_pt == pte[cur_entry] = PageTable /\ push_level /\ UNCHANGED treeVars

MapAlloc == pte[cur_entry] = None /\ alloc_absent_child(cur_entry) /\ push_level

MapSplit == is_frame(pte[cur_entry]) /\ split_if_mapped_huge(cur_entry) /\ push_level

MapDown ==
    /\ pc = "map" /\ level > item[2]
    /\ map_branch_pt \/ MapAlloc \/ MapSplit
    /\ Continue

MapHere ==
    /\ pc = "map" /\ level = item[2]
    /\ replace_child(cur_entry, Frame(item[1], item[3])) /\ move_forward
    /\ Return(IF pte[cur_entry] = None THEN Result("ok", 0, 0, <<>>)
              ELSE Fragment(pte[cur_entry]),
              IF pte[cur_entry] = PageTable THEN dfs_num_frames(cur_entry) ELSE 0)

-----------------------------------------------------------------------------
(* query and jump *)

QueryOutOfRange ==
    /\ pc = "query" /\ va >= barrier_va[2]
    /\ Return(Result("err", 0, 0, <<>>), 0) /\ UNCHANGED <<treeVars, cursorVars>>

QueryDown ==
    /\ pc = "query" /\ va < barrier_va[2] /\ pte[cur_entry] = PageTable
    /\ push_level /\ UNCHANGED treeVars /\ Continue

QueryHere ==
    /\ pc = "query" /\ va < barrier_va[2] /\ pte[cur_entry] # PageTable
    /\ Return(Result("state", cur_va_start, page_size(level), pte[cur_entry]), 0)
    /\ UNCHANGED <<treeVars, cursorVars>>

InBarrier == barrier_va[1] <= target /\ target < barrier_va[2]

JumpOutOfRange ==
    /\ pc = "jump" /\ ~InBarrier
    /\ Return(Result("err", 0, 0, <<>>), 0) /\ UNCHANGED <<treeVars, cursorVars>>

InCurrentNode ==
    LET node_start == align_down(va, page_size(level + 1))
    IN  /\ level <= guard_level
        /\ node_start <= target /\ target - node_start < page_size(level + 1)

JumpHere ==
    /\ pc = "jump" /\ InBarrier /\ InCurrentNode
    /\ va' = target /\ Return(Result("ok", 0, 0, <<>>), 0)
    /\ UNCHANGED <<treeVars, barrier_va, guard_level, level, path>>

JumpUp ==
    /\ pc = "jump" /\ InBarrier /\ ~InCurrentNode
    /\ pop_level /\ UNCHANGED treeVars /\ Continue

\* pop_level above the guard level: unwrap_or_panic
JumpPanics ==
    /\ pc = "jump" /\ InBarrier /\ ~InCurrentNode /\ NothingToPop
    /\ pc' = "panicked" /\ ret' = Result("panic", 0, 0, <<>>)
    /\ UNCHANGED <<treeVars, cursorVars, argVars, num_frames>>

-----------------------------------------------------------------------------
Call ==
    /\ pc = "ready"
    /\ \/ \E n \in 0 .. (barrier_va[2] - va) :
             \/ Find("find_next", n) /\ UNCHANGED prop
             \/ Find("take_next", n) /\ UNCHANGED prop
             \/ Find("protect_next", n) /\ prop' \in NewProps
       \/ \E i \in MapsAt(va) : Map(i)
       \/ Enter("query") /\ UNCHANGED argVars
       \/ Enter("jump") /\ target' \in Page /\ UNCHANGED <<len, end, item, prop>>
       \/ Drop

Step ==
    \/ SkipEntry \/ FindDescend \/ FindSplit \/ FindNone
    \/ FindFound \/ TakeFound \/ ProtectFound
    \/ MapUp \/ MapDown \/ MapHere
    \/ QueryOutOfRange \/ QueryDown \/ QueryHere
    \/ JumpOutOfRange \/ JumpHere \/ JumpUp \/ JumpPanics

Next == (\E r \in Ranges : New(r)) \/ Call \/ Step

Spec == Init /\ [][Next]_vars /\ WF_vars(Step)

-----------------------------------------------------------------------------

\* Cursor::path through every pop_level, push_level and move_forward: the cursor
\* holds exactly the guards from its level up to the guard level, they are
\* guards of nodes of the tree, and they are the nodes its address lies in,
\* except that a cursor at the end of its range may stand behind its top node.
PathSound ==
    pc \notin {"closed", "panicked"} =>
        /\ \A l \in Level : path[l] # NoGuard <=> l \in level .. guard_level
        /\ \A l \in level .. guard_level : Live(<<l, path[l]>>)
        /\ \/ \A l \in level .. guard_level : path[l] = va \div page_size(l + 1)
           \/ level >= guard_level /\ va >= barrier_va[2]

\* nr_children, which find_next_impl trusts to skip a node, is the number of
\* present entries of every node of the tree, through splits, replacements and
\* the allocations of lock_range; a node that is not in the tree has no entries.
NrChildrenCounts ==
    \A n \in Node :
        nr_children[n] = Cardinality({e \in EntriesOf(n) : pte[e] # None})
            /\ (nr_children[n] # 0 => Live(n))

\* A page table whose top level is shared (TOP_LEVEL_CAN_UNMAP is false for the
\* kernel's) never loses a node of it, whatever is mapped and taken.
TopLevelKept ==
    [][\A e \in EntriesOf(<<NR_LEVELS, 0>>) :
            pte[e] = PageTable => pte'[e] = PageTable]_vars

\* The cursor and the tree fit together in every state, and the shared top level
\* only grows (push_level, pop_level, replace, take_next).
CursorSound == [](PathSound /\ NrChildrenCounts) /\ TopLevelKept

\* Every call on a cursor returns: the scans and descents terminate.
CallsReturn == []<>(pc \in {"closed", "ready", "panicked"})

\* The documentation of jump: it panics for a badly aligned address only.
JumpReturns == pc # "panicked"

\* A cursor is a position in a map from pages to frames: no call loses, moves
\* or invents a translation, and every result describes the map.
AbstractItem(i) == [pa |-> i[1], len |-> page_size(i[2]), prop |-> i[3]]
Args ==
    CASE pc = "map" -> <<AbstractItem(item)>>
      [] pc = "protect_next" -> <<prop>>
      [] pc = "jump" -> <<target>>
      [] OTHER -> <<>>
Abstract ==
    INSTANCE AbstractPageTable WITH
        Items <- {AbstractItem(i) : i \in Items},
        mapping <- [p \in Page |-> page_walk(p)],
        barrier <- barrier_va,
        pos <- IF Finding THEN end - len ELSE va,
        req <- IF pc \in {"closed", "ready", "panicked"} THEN <<>>
               ELSE <<pc, len, Args>>
Refines == Abstract!ASpec
================================================================================

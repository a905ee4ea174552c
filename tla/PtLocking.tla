------------------------------ MODULE PtLocking ------------------------------
(* The page table lock protocol of ostd/src/mm/page_table/cursor/locking.rs,  *)
(* and the cursor operations of cursor/mod.rs that change the tree.           *)
(*                                                                            *)
(* CursorMut::new walks down from the root without locks, guarded by RCU      *)
(* only, allocating the nodes that are missing, until it finds the lowest     *)
(* node that covers the whole range; it locks that node and then, in          *)
(* pre-order, every node below it that overlaps the range.  A cursor may cut  *)
(* a subtree off: its nodes become stray, and a walker that reaches a stray   *)
(* node starts again.                                                         *)
(*                                                                            *)
(* A node is named by the part of the address space it serves and a number    *)
(* that tells successive nodes for the same part from each other, so          *)
(* pre-order is the order of (base, higher level).                            *)
(* A virtual address is counted in base pages.  Every PTE write and every     *)
(* lock operation is a step; a lock taken, a field read under it and the      *)
(* lock released again with at most one PTE write between are one step.  The  *)
(* entries of a level 1 node point to no nodes, and the protocol never reads  *)
(* them: they are not kept.                                                   *)
EXTENDS Paging, FiniteSets, FiniteSetsExt

CONSTANTS
    Thread,
    NodesPerPosition,   \* bound: nodes that may exist for one part of the space
    MaxStray,           \* bound: no subtree is cut off beside more stray nodes
    ItemLevels,         \* the levels an item may be mapped at
    ItemPages,          \* bound: the first pages of the items that are mapped
    Ranges,             \* the ranges cursors are created for: sets of pages
    ReleaseEveryChild   \* FALSE: dfs_release_lock with the indices as written

ASSUME PtLockingAssumption ==
    /\ NodesPerPosition \in Nat \ {0} /\ MaxStray \in Nat /\ ReleaseEveryChild \in BOOLEAN
    /\ ItemLevels \subseteq 1 .. NR_LEVELS - 1 /\ ItemPages \subseteq Nat

Node ==
    {<<l, b, k>> \in (1 .. NR_LEVELS) \X Page \X (1 .. NodesPerPosition) :
        b % page_size(l + 1) = 0 /\ (l = NR_LEVELS => k = 1)}
level(n) == n[1]
base(n) == n[2]
Root == <<NR_LEVELS, 0, 1>>
None == <<>>            \* an absent PTE, a free lock
Frame == <<"item">>     \* a PTE that maps an item

VARIABLES
    live,    \* the nodes that are allocated
    pte,     \* the entries of a node
    lock,    \* PageTablePageMeta::lock, with the thread that took it
    stray,   \* PageTablePageMeta::stray: the nodes it is set for
    grace,   \* the threads whose RCU section must end before a stray node is freed
    pc,      \* where a thread is
    range,   \* Cursor::barrier_va
    root,    \* the node at Cursor::guard_level
    cur,     \* cur_pt_addr of the walk; the node an operation is at
    goal     \* <<va, level>> of the item being mapped

nodeVars == <<live, pte, lock, stray, grace>>
threadVars == <<pc, range, root, cur, goal>>
vars == <<nodeVars, threadVars>>

-----------------------------------------------------------------------------
\* The pages below entry i of a node, and below the node.
EntrySpan(n, i) ==
    (base(n) + i * page_size(level(n))) .. (base(n) + (i + 1) * page_size(level(n)) - 1)
Span(n) == base(n) .. (base(n) + page_size(level(n) + 1) - 1)

PreOrderBefore(m, n) ==
    base(m) < base(n) \/ (base(m) = base(n) /\ level(m) > level(n))
FirstInPreOrder(S) == CHOOSE m \in S : \A n \in S \ {m} : PreOrderBefore(m, n)

\* The order in which a depth-first traversal leaves the nodes.
PostOrderBefore(m, n) ==
    Max(Span(m)) < Max(Span(n)) \/ (Max(Span(m)) = Max(Span(n)) /\ level(m) < level(n))
FirstInPostOrder(S) == CHOOSE m \in S : \A n \in S \ {m} : PostOrderBefore(m, n)

\* Threads whose cursor has its subtree locked.
Owns(t) == pc[t] \in {"held", "map", "stray"}

\* The nodes the PTEs of the nodes of S point to, and the nodes of the trees
\* rooted at the nodes of S.
ChildrenOf(S) == {pte[n][i] : n \in S, i \in Index} \cap Node
Below(S) ==
    LET below[d \in 0 .. NR_LEVELS - 1] ==
            IF d = 0 THEN S ELSE below[d - 1] \cup ChildrenOf(below[d - 1])
    IN  below[NR_LEVELS - 1]

TypeOK ==
    /\ live \subseteq Node /\ stray \subseteq live
    /\ pte \in [Node -> [Index -> {None, Frame} \cup Node]]
    /\ lock \in [Node -> {None} \cup Thread]
    /\ grace \in [Node -> SUBSET Thread]
    /\ pc \in [Thread -> {"idle", "walk", "alloc", "lock", "dfs", "held", "map",
                          "stray"}]
    /\ range \in [Thread -> Ranges \cup {{}}]
    /\ root \in [Thread -> {None} \cup Node]
    /\ cur \in [Thread -> {None} \cup Node]
    /\ goal \in [Thread -> {<<>>} \cup Page \X ItemLevels]

Init ==
    /\ live = {Root}
    /\ pte = [n \in Node |-> [i \in Index |-> None]]
    /\ lock = [n \in Node |-> None]
    /\ stray = {}
    /\ grace = [n \in Node |-> {}]
    /\ pc = [t \in Thread |-> "idle"]
    /\ range = [t \in Thread |-> {}]
    /\ root = [t \in Thread |-> None]
    /\ cur = [t \in Thread |-> None]
    /\ goal = [t \in Thread |-> <<>>]

-----------------------------------------------------------------------------
(* Allocating a node.  PageTableNode::alloc zeroes it; the callers lock it    *)
(* before they write the PTE that publishes it.                               *)
\* n is the new node below entry i of p; all its entries are e.
Link(p, i, n, e) ==
    /\ level(n) = level(p) - 1 /\ base(n) = base(p) + i * page_size(level(p))
    /\ n \notin live
    /\ \A k \in 1 .. n[3] - 1 : <<level(n), base(n), k>> \in live
    /\ live' = live \cup {n}
    /\ pte' = [pte EXCEPT ![p][i] = n, 
                        ![n] = [j \in Index |-> IF level(p) = 2 THEN None ELSE e]]
    /\ UNCHANGED <<stray, grace>>

-----------------------------------------------------------------------------
(* lock_range *)

CursorNew(t, r) ==
    /\ pc[t] = "idle"
    /\ pc' = [pc EXCEPT ![t] = "walk"]
    /\ range' = [range EXCEPT ![t] = r]
    /\ cur' = [cur EXCEPT ![t] = Root]
    /\ UNCHANGED <<nodeVars, root, goal>>

\* The range lies below a single entry of a node of this level.
level_too_high(r, l) == l > 1 /\ pte_index(Min(r), l) = pte_index(Max(r), l)

WalkIndex(t) == pte_index(Min(range[t]), level(cur[t]))

\* Dropping cur_node_guard, which is Some only for a node just allocated.
DropCurGuard(t) ==
    lock' = IF lock[cur[t]] = t THEN [lock EXCEPT ![cur[t]] = None] ELSE lock

\* One iteration of the walk: the entry is loaded without a lock.  An absent
\* one sends the thread to lock the node and allocate the child.
Walk(t) ==
    LET e == pte[cur[t]][WalkIndex(t)] IN
    /\ pc[t] = "walk"
    /\ \/ /\ ~level_too_high(range[t], level(cur[t])) \/ e = Frame
          /\ pc' = [pc EXCEPT ![t] = "lock"]
          /\ UNCHANGED <<nodeVars, range, root, cur, goal>>
       \/ /\ level_too_high(range[t], level(cur[t])) /\ e \in Node
          /\ cur' = [cur EXCEPT ![t] = e]
          /\ DropCurGuard(t)
          /\ UNCHANGED <<live, pte, stray, grace, pc, range, root, goal>>
       \/ /\ level_too_high(range[t], level(cur[t])) /\ e = None
          /\ pc' = [pc EXCEPT ![t] = "alloc"]
          /\ UNCHANGED <<nodeVars, range, root, cur, goal>>

\* try_traverse_and_lock_subtree_root returns None: lock_range starts again.
Retry(t) ==
    /\ pc' = [pc EXCEPT ![t] = "walk"]
    /\ cur' = [cur EXCEPT ![t] = Root]
    /\ DropCurGuard(t)
    /\ UNCHANGED <<live, pte, stray, grace, range, root, goal>>

\* What the walk does with the entry once the node is locked: allocate a
\* child, follow the one another thread has put there, or stop above an item.
\* The guard of the node is dropped at the end of the iteration.
DescendLocked(t, p, i) ==
    \/ /\ pte[p][i] = None
       /\ \E n \in Node :
            /\ Link(p, i, n, None)
            /\ lock' = [lock EXCEPT ![p] = None, ![n] = t]
            /\ cur' = [cur EXCEPT ![t] = n]
       /\ pc' = [pc EXCEPT ![t] = "walk"]
       /\ UNCHANGED <<range, root, goal>>
    \/ /\ pte[p][i] \in Node
       /\ lock' = [lock EXCEPT ![p] = None]
       /\ cur' = [cur EXCEPT ![t] = pte[p][i]]
       /\ pc' = [pc EXCEPT ![t] = "walk"]
       /\ UNCHANGED <<live, pte, stray, grace, range, root, goal>>
    \/ /\ pte[p][i] = Frame
       /\ lock' = [lock EXCEPT ![p] = None]
       /\ pc' = [pc EXCEPT ![t] = "lock"]
       /\ UNCHANGED <<live, pte, stray, grace, range, root, cur, goal>>

\* Mutant: the child is allocated without asking whether the node is stray.
LockAndAllocUnchecked(t) ==
    /\ pc[t] = "alloc"
    /\ lock[cur[t]] \in {None, t}
    /\ DescendLocked(t, cur[t], WalkIndex(t))

\* The entry was absent: lock the node, unless it is the one just allocated.
LockAndAlloc(t) ==
    /\ pc[t] = "alloc"
    /\ lock[cur[t]] \in {None, t}
    /\ \/ cur[t] \in stray /\ Retry(t)
       \/ cur[t] \notin stray /\ DescendLocked(t, cur[t], WalkIndex(t))

\* Mutant: the root of the subtree is taken although it may be stray.
LockSubtreeRootUnchecked(t) ==
    /\ pc[t] = "lock"
    /\ lock[cur[t]] \in {None, t}
    /\ lock' = [lock EXCEPT ![cur[t]] = t]
    /\ root' = [root EXCEPT ![t] = cur[t]]
    /\ pc' = [pc EXCEPT ![t] = "dfs"]
    /\ UNCHANGED <<live, pte, stray, grace, range, cur, goal>>

\* The end of try_traverse_and_lock_subtree_root.
LockSubtreeRoot(t) ==
    /\ pc[t] = "lock"
    /\ lock[cur[t]] \in {None, t}
    /\ \/ cur[t] \in stray /\ Retry(t)
       \/ /\ cur[t] \notin stray
          /\ lock' = [lock EXCEPT ![cur[t]] = t]
          /\ root' = [root EXCEPT ![t] = cur[t]]
          /\ pc' = [pc EXCEPT ![t] = "dfs"]
          /\ UNCHANGED <<live, pte, stray, grace, range, cur, goal>>

\* The nodes dfs_acquire_lock has still to lock whose parent is locked.  Being
\* below locked nodes, they stay where they are.
Unlocked(t) ==
    {n \in ChildrenOf({m \in Node : lock[m] = t /\ m \notin stray}) :
        lock[n] # t /\ Span(n) \cap range[t] # {}}

\* dfs_acquire_lock: the next node in pre-order; with none left, lock_range
\* returns the cursor.
DfsAcquireLock(t) ==
    /\ pc[t] = "dfs"
    /\ \/ /\ Unlocked(t) # {}
          /\ LET n == FirstInPreOrder(Unlocked(t)) IN
               /\ lock[n] = None
               /\ lock' = [lock EXCEPT ![n] = t]
          /\ UNCHANGED <<live, pte, stray, grace, threadVars>>
       \/ /\ Unlocked(t) = {}
          /\ pc' = [pc EXCEPT ![t] = "held"]
          /\ UNCHANGED <<nodeVars, range, root, cur, goal>>

-----------------------------------------------------------------------------
(* CursorMut::map, take_next *)

\* A bound of the model on the stray nodes that wait for RCU.
MayCut == Cardinality(stray) <= MaxStray

\* map asserts that the item fits in what is left of the range and is not
\* larger than the subtree.
Map(t, va, l) ==
    /\ pc[t] = "held"
    /\ l <= level(root[t]) /\ va % page_size(l) = 0 /\ (l = 1 \/ MayCut)
    /\ va .. (va + page_size(l) - 1) \subseteq range[t]
    /\ pc' = [pc EXCEPT ![t] = "map"]
    /\ cur' = [cur EXCEPT ![t] = root[t]]
    /\ goal' = [goal EXCEPT ![t] = <<va, l>>]
    /\ UNCHANGED <<nodeVars, range, root>>

\* replace_cur_entry: a subtree that was there is now to be marked stray.
Replace(t, n, i, e) ==
    /\ pte' = IF level(n) = 1 THEN pte ELSE [pte EXCEPT ![n][i] = e]
    /\ pc' = [pc EXCEPT ![t] = IF pte[n][i] \in Node THEN "stray" ELSE "held"]
    /\ cur' = [cur EXCEPT ![t] = IF pte[n][i] \in Node THEN pte[n][i] ELSE None]
    /\ goal' = [goal EXCEPT ![t] = <<>>]
    /\ UNCHANGED <<live, lock, stray, grace, range, root>>

\* One turn of map_loop (map_branch_pt, alloc_absent_child and
\* split_if_mapped_huge), and the write of the item.
MapStep(t) ==
    LET p == cur[t]
        i == pte_index(goal[t][1], level(p))
    IN  /\ pc[t] = "map"
        /\ \/ /\ level(p) # goal[t][2] /\ pte[p][i] \in Node
              /\ cur' = [cur EXCEPT ![t] = pte[p][i]]
              /\ UNCHANGED <<nodeVars, pc, range, root, goal>>
           \/ /\ level(p) # goal[t][2] /\ pte[p][i] \in {None, Frame}
              /\ \E n \in Node :
                   /\ Link(p, i, n, pte[p][i])
                   /\ lock' = [lock EXCEPT ![n] = t]
                   /\ cur' = [cur EXCEPT ![t] = n]
              /\ UNCHANGED <<pc, range, root, goal>>
           \/ /\ level(p) = goal[t][2]
              /\ Replace(t, p, i, Frame)

\* take_next: cut off an entry all of whose pages are in the range.
Take(t, n, i) ==
    /\ pc[t] = "held"
    /\ lock[n] = t /\ pte[n][i] # None /\ MayCut
    /\ EntrySpan(n, i) \subseteq range[t]
    /\ Replace(t, n, i, None)

\* The node of the subtree cut off that the depth-first traversal leaves next.
NextStray(t) ==
    FirstInPostOrder({m \in Below({cur[t]}) : lock[m] = t})

\* Mutant: the subtree is marked, and its locks are kept.
MarkStrayStillLocked(t) ==
    /\ pc[t] = "stray"
    /\ stray' = stray \cup Below({cur[t]})
    /\ grace' = [n \in Node |-> IF n \in Below({cur[t]})
                                THEN {u \in Thread : pc[u] # "idle"} ELSE grace[n]]
    /\ pc' = [pc EXCEPT ![t] = "held"]
    /\ cur' = [cur EXCEPT ![t] = None]
    /\ UNCHANGED <<live, pte, lock, range, root, goal>>

\* dfs_mark_stray_and_unlock: a node is marked under its lock, which is
\* dropped when the recursion leaves the node, after its children's.
MarkStray(t) ==
    LET n == NextStray(t) IN
        /\ pc[t] = "stray"
        /\ stray' = stray \cup {n}
        /\ grace' = [grace EXCEPT ![n] = {u \in Thread : pc[u] # "idle"}]
        /\ lock' = [lock EXCEPT ![n] = None]
        /\ pc' = [pc EXCEPT ![t] = IF n = cur[t] THEN "held" ELSE "stray"]
        /\ cur' = [cur EXCEPT ![t] = IF n = cur[t] THEN None ELSE cur[t]]
        /\ UNCHANGED <<live, pte, range, root, goal>>

\* split_if_mapped_huge as find_next_impl calls it for take_next and
\* protect_next: the new node maps the parts of the item.
SplitHuge(t, n, i) ==
    /\ pc[t] = "held"
    /\ lock[n] = t /\ pte[n][i] = Frame /\ level(n) > 1
    /\ EntrySpan(n, i) \cap range[t] # {}
    /\ \E c \in Node :
         /\ Link(n, i, c, Frame)
         /\ lock' = [lock EXCEPT ![c] = t]
    /\ UNCHANGED threadVars

-----------------------------------------------------------------------------
(* unlock_range *)

\* The entries of p that dfs_release_lock looks at: those of
\* dfs_get_idx_range, from the last to the first; as written, end - i for i
\* in start .. end - 1.
ReleaseIndices(t, p) ==
    LET idx_range == {i \in Index : EntrySpan(p, i) \cap range[t] # {}} IN
    IF ReleaseEveryChild THEN idx_range
    ELSE {Max(idx_range) + 1 - i : i \in idx_range} \cap Index

\* The nodes dfs_release_lock reaches, and the subtree root.
Released(t) ==
    LET step(S) == UNION {{pte[p][i] : i \in ReleaseIndices(t, p)} : p \in S}
        reach[d \in 0 .. NR_LEVELS - 1] ==
            IF d = 0 THEN {root[t]}
            ELSE reach[d - 1] \cup (step(reach[d - 1]) \cap Node)
    IN  reach[NR_LEVELS - 1]

\* Dropping the cursor.  Nobody waits for a lock to be taken, so the unlocks
\* may all happen at once; the thread's RCU section ends with the cursor.
UnlockRange(t) ==
    /\ pc[t] = "held"
    /\ lock' = [n \in Node |-> IF n \in Released(t) THEN None ELSE lock[n]]
    /\ grace' = [n \in Node |-> grace[n] \ {t}]
    /\ pc' = [pc EXCEPT ![t] = "idle"]
    /\ range' = [range EXCEPT ![t] = {}]
    /\ root' = [root EXCEPT ![t] = None]
    /\ cur' = [cur EXCEPT ![t] = None]
    /\ UNCHANGED <<live, pte, stray, goal>>

\* RCU: stray nodes are freed when the sections that might see them are over.
Reclaim ==
    LET free == {n \in stray : grace[n] = {}} IN
    /\ free # {}
    /\ live' = live \ free
    /\ pte' = [n \in Node |-> IF n \in free THEN [i \in Index |-> None] ELSE pte[n]]
    /\ stray' = stray \ free
    /\ UNCHANGED <<lock, grace, threadVars>>

-----------------------------------------------------------------------------

Call(t) ==
    \/ \E r \in Ranges : CursorNew(t, r)
    \/ \E va \in range[t] \cap ItemPages, l \in ItemLevels : Map(t, va, l)
    \/ \E n \in Node, i \in Index : Take(t, n, i) \/ SplitHuge(t, n, i)

Step(t) ==
    \/ Walk(t) \/ LockAndAlloc(t) \/ LockSubtreeRoot(t) \/ DfsAcquireLock(t)
    \/ MapStep(t) \/ MarkStray(t)

Next ==
    \/ \E t \in Thread : Call(t) \/ Step(t) \/ UnlockRange(t)
    \/ Reclaim

\* Cursors live in atomic mode: their threads are not preempted, and drop them.
Fairness ==
    /\ \A t \in Thread : WF_vars(Step(t) \/ UnlockRange(t))
    /\ WF_vars(Reclaim)

Spec == Init /\ [][Next]_vars /\ Fairness

-----------------------------------------------------------------------------

\* The guarantee of the lock protocol (cursor/mod.rs:12): cursors whose ranges
\* overlap are not there at the same time.
CursorsExclude ==
    \A t, u \in Thread :
        t # u /\ Owns(t) /\ Owns(u) => range[t] \cap range[u] = {}

\* What every make_guard_unchecked of the cursor relies on: the nodes of the
\* cursor's subtree that overlap its range are locked by its thread, and no
\* one has cut them off.
SubtreeLocked ==
    \A t \in Thread : Owns(t) =>
        \A n \in Below({root[t]}) :
            Span(n) \cap range[t] # {} => lock[n] = t /\ n \notin stray

\* A cursor has its range for itself: overlapping cursors are never there at the
\* same time, and no node a cursor may step on is unlocked or cut off.
RangeOwned == CursorsExclude /\ SubtreeLocked

\* A thread without a cursor holds no page table lock: unlock_range returns
\* what lock_range, map and take_next have taken.
LocksReturned == \A n \in Node : lock[n] # None => pc[lock[n]] # "idle"

\* The tree consists of live nodes, none of them stray, and every live node
\* that is not stray is in it, or in a subtree just cut off: no child is ever
\* allocated below a node that is gone.
TreeAccounts ==
    LET tree == Below({Root})
        cut == Below({cur[t] : t \in {u \in Thread : pc[u] = "stray"}})
    IN  /\ tree \subseteq live \ stray
        /\ live \ stray \subseteq tree \cup cut

\* A walker without a lock never stands on a node that has been freed: the
\* RCU section is what keeps it (locking.rs, SAFETY comments of the walk).
WalkersOnLiveNodes ==
    \A t \in Thread : cur[t] # None => cur[t] \in live

\* No node is lost, freed too early or left locked, whatever walks, splits,
\* unmaps and unlocks at the same time (locking.rs, node/entry.rs).
NodesAccounted == TreeAccounts /\ WalkersOnLiveNodes /\ LocksReturned

\* Lock-order freedom from deadlock and livelock: as long as someone wants a
\* cursor, someone gets one.
SomeoneGetsTheRange ==
    []<>(\/ \A t \in Thread : pc[t] = "idle"
         \/ \E t \in Thread : pc[t] = "held")

=============================================================================

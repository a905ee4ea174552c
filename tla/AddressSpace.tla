----------------------------- MODULE AddressSpace -----------------------------
(* Page table roots and the CPUs that use them: PageTable and PageTableNode of  *)
(* ostd/src/mm/page_table, VmSpace of ostd/src/mm/vm_space.rs and the kernel    *)
(* page table of ostd/src/mm/kspace/mod.rs.                                     *)
(* A root has one entry per top-level index.  The kernel half of every root     *)
(* points to the nodes of the kernel page table; a user root holds no reference *)
(* to them.  No kernel cursor takes a top-level node out of the kernel root     *)
(* (TOP_LEVEL_CAN_UNMAP).  The user half of a space is one subtree.             *)
EXTENDS Integers, FiniteSets

CONSTANTS
    SpaceCpu,
    Space,          \* VmSpace objects
    KernelIndex,    \* KernelPtConfig::TOP_LEVEL_INDEX_RANGE
    UserIndex,      \* UserPtConfig::TOP_LEVEL_INDEX_RANGE
    MaxHandles      \* bound on the RoArc handles of one space

VARIABLES
    kernel_up,          \* KERNEL_PAGE_TABLE is set
    node_refs,          \* reference count of every page table node
    root_entry,         \* root -> top-level index -> child node or absent
    handles,            \* space -> RoArc handles outside this module
    strong,             \* space -> strong count of the Arc
    cpus,               \* space -> VmSpace::cpus
    ACTIVATED_VM_SPACE, \* CPU -> space or "null"
    cr3,                \* CPU -> root in use, "boot" before the kernel's
    activating          \* CPU -> [at, this, last]: where activate() is

spaceVars == <<kernel_up, node_refs, root_entry, handles, strong,
               cpus, ACTIVATED_VM_SPACE, cr3, activating>>

Roots == {"kernel"} \cup Space
Root(r) == <<"root", r>>
KernelNode(i) == <<"kernel", i>>
UserNode(s) == <<"user", s>>
absent == <<"absent", "absent">>
Nodes == {Root(r) : r \in Roots} \cup {KernelNode(i) : i \in KernelIndex} \cup {UserNode(s) : s \in Space}

Idle == [at |-> "idle", this |-> "null", last |-> "null"]

Init ==
    /\ kernel_up = FALSE
    /\ node_refs = [n \in Nodes |-> 0]
    /\ root_entry = [r \in Roots |-> [i \in KernelIndex \cup UserIndex |-> absent]]
    /\ handles = [s \in Space |-> 0]
    /\ strong = [s \in Space |-> 0]
    /\ cpus = [s \in Space |-> {}]
    /\ ACTIVATED_VM_SPACE = [c \in SpaceCpu |-> "null"]
    /\ cr3 = [c \in SpaceCpu |-> "boot"]
    /\ activating = [c \in SpaceCpu |-> Idle]

-------------------------------------------------------------------------------
(* Reference counts of nodes.                                                  *)

\* PageTablePageMeta::on_drop: the children a freed root releases, those of the
\* index range of its own configuration only.
on_drop(r) == {root_entry[r][i] : i \in UserIndex} \ {absent}

\* Frame::drop of a user root, with `refs` the counts before it.
Released(refs, r) ==
    IF refs[Root(r)] > 1
    THEN [refs EXCEPT ![Root(r)] = @ - 1]
    ELSE [n \in Nodes |-> IF n = Root(r) THEN 0
                          ELSE IF n \in on_drop(r) THEN refs[n] - 1 ELSE refs[n]]

-------------------------------------------------------------------------------
(* The kernel page table.                                                      *)

\* new_kernel_page_table allocates every top-level child; init_kernel_page_table
\* stores the table.
new_kernel_page_table ==
    /\ ~kernel_up
    /\ kernel_up' = TRUE
    /\ root_entry' = [root_entry EXCEPT !["kernel"] =
                        [i \in DOMAIN @ |-> IF i \in KernelIndex THEN KernelNode(i) ELSE absent]]
    /\ node_refs' = [n \in Nodes |->
                        IF n = Root("kernel") \/ n \in {KernelNode(i) : i \in KernelIndex} THEN 1
                        ELSE node_refs[n]]
    /\ UNCHANGED <<handles, strong, cpus, ACTIVATED_VM_SPACE, cr3, activating>>

\* activate_kernel_page_table: once per CPU, from the boot page table.
activate_kernel_page_table(c) ==
    /\ kernel_up
    /\ cr3[c] = "boot"
    /\ cr3' = [cr3 EXCEPT ![c] = "kernel"]
    /\ node_refs' = [node_refs EXCEPT ![Root("kernel")] = @ + 1]
    /\ UNCHANGED <<kernel_up, root_entry, handles, strong, cpus,
                   ACTIVATED_VM_SPACE, activating>>

-------------------------------------------------------------------------------
(* Spaces.                                                                     *)

\* create_user_page_table: an empty root whose kernel entries are copies of the
\* kernel root's; it panics on one that is not a node.
create_user_page_table ==
    [i \in KernelIndex \cup UserIndex |->
        IF i \in KernelIndex THEN root_entry["kernel"][i] ELSE absent]

new(s) ==
    /\ kernel_up
    /\ strong[s] = 0
    /\ node_refs[Root(s)] = 0
    /\ \A i \in KernelIndex : root_entry["kernel"][i] # absent
    /\ root_entry' = [root_entry EXCEPT ![s] = create_user_page_table]
    /\ node_refs' = [node_refs EXCEPT ![Root(s)] = 1]
    /\ handles' = [handles EXCEPT ![s] = 1]
    /\ strong' = [strong EXCEPT ![s] = 1]
    /\ cpus' = [cpus EXCEPT ![s] = {}]
    /\ UNCHANGED <<kernel_up, ACTIVATED_VM_SPACE, cr3, activating>>

CloneHandle(s) ==
    /\ handles[s] \in 1 .. MaxHandles - 1
    /\ handles' = [handles EXCEPT ![s] = @ + 1]
    /\ strong' = [strong EXCEPT ![s] = @ + 1]
    /\ UNCHANGED <<kernel_up, node_refs, root_entry, cpus,
                   ACTIVATED_VM_SPACE, cr3, activating>>

\* activate borrows a handle: it cannot be dropped before the call returns.
Borrowed(s) == Cardinality({c \in SpaceCpu : activating[c].this = s})

\* Arc::drop: the last one drops the VmSpace and so its root.
ArcDrop(s) ==
    /\ strong' = [strong EXCEPT ![s] = @ - 1]
    /\ node_refs' = IF strong[s] = 1 THEN Released(node_refs, s) ELSE node_refs

DropHandle(s) ==
    /\ handles[s] > 0
    /\ handles[s] > 1 \/ Borrowed(s) = 0
    /\ handles' = [handles EXCEPT ![s] = @ - 1]
    /\ ArcDrop(s)
    /\ UNCHANGED <<kernel_up, root_entry, cpus, ACTIVATED_VM_SPACE,
                   cr3, activating>>

\* A cursor of the space maps a page below a top-level entry that had no child.
MapUser(s) ==
    /\ handles[s] > 0
    /\ \E i \in UserIndex :
        /\ root_entry[s][i] = absent
        /\ node_refs[UserNode(s)] = 0
        /\ root_entry' = [root_entry EXCEPT ![s][i] = UserNode(s)]
    /\ node_refs' = [node_refs EXCEPT ![UserNode(s)] = 1]
    /\ UNCHANGED <<kernel_up, handles, strong, cpus, ACTIVATED_VM_SPACE,
                   cr3, activating>>

-------------------------------------------------------------------------------
(* VmSpace::activate, with preemption disabled: every line can interleave with  *)
(* the other CPUs.                                                              *)

At(c, pc) == activating[c].at = pc
Goto(c, pc) == activating' = [activating EXCEPT ![c].at = pc]

activate(c, s) ==
    /\ At(c, "idle")
    /\ cr3[c] # "boot"
    /\ handles[s] > 0
    /\ ACTIVATED_VM_SPACE[c] # s
    /\ activating' = [activating EXCEPT ![c] =
                        [at |-> "add", this |-> s, last |-> ACTIVATED_VM_SPACE[c]]]
    /\ UNCHANGED <<kernel_up, node_refs, root_entry, handles, strong,
                   cpus, ACTIVATED_VM_SPACE, cr3>>

AddCpu(c) ==
    LET s == activating[c].this IN
    /\ At(c, "add")
    /\ cpus' = [cpus EXCEPT ![s] = @ \cup {c}]
    /\ Goto(c, "store")
    /\ UNCHANGED <<kernel_up, node_refs, root_entry, handles, strong,
                   ACTIVATED_VM_SPACE, cr3>>

StoreActivated(c) ==
    LET s == activating[c].this IN
    /\ At(c, "store")
    /\ strong' = [strong EXCEPT ![s] = @ + 1]
    /\ ACTIVATED_VM_SPACE' = [ACTIVATED_VM_SPACE EXCEPT ![c] = s]
    /\ Goto(c, IF activating[c].last = "null" THEN "switch" ELSE "remove")
    /\ UNCHANGED <<kernel_up, node_refs, root_entry, handles, cpus, cr3>>

\* `last.cpus.remove(cpu)`, then the end of the block drops `last`.
RemoveCpu(c) ==
    LET last == activating[c].last IN
    /\ At(c, "remove")
    /\ cpus' = [cpus EXCEPT ![last] = @ \ {c}]
    /\ ArcDrop(last)
    /\ Goto(c, "switch")
    /\ UNCHANGED <<kernel_up, root_entry, handles, ACTIVATED_VM_SPACE, cr3>>

\* PageTableNode::activate: a CPU owns a reference to the root it uses.
SwitchRootUncounted(c) ==
    LET s == activating[c].this IN
    /\ At(c, "switch")
    /\ cr3' = [cr3 EXCEPT ![c] = s]
    /\ activating' = [activating EXCEPT ![c] = Idle]
    /\ UNCHANGED <<kernel_up, node_refs, root_entry, handles, strong, cpus,
                   ACTIVATED_VM_SPACE>>
SwitchRoot(c) ==
    LET s == activating[c].this
        taken == [node_refs EXCEPT ![Root(s)] = @ + 1]
    IN
    /\ At(c, "switch")
    /\ cr3' = [cr3 EXCEPT ![c] = s]
    /\ node_refs' = IF cr3[c] = s THEN node_refs ELSE Released(taken, cr3[c])
    /\ activating' = [activating EXCEPT ![c] = Idle]
    /\ UNCHANGED <<kernel_up, root_entry, handles, strong, cpus,
                   ACTIVATED_VM_SPACE>>

Next ==
    \/ new_kernel_page_table
    \/ \E c \in SpaceCpu : activate_kernel_page_table(c)
    \/ \E s \in Space : new(s) \/ CloneHandle(s) \/ DropHandle(s) \/ MapUser(s)
    \/ \E c \in SpaceCpu, s \in Space : activate(c, s)
    \/ \E c \in SpaceCpu : AddCpu(c) \/ StoreActivated(c) \/ RemoveCpu(c) \/ SwitchRoot(c)

Spec == Init /\ [][Next]_spaceVars

-------------------------------------------------------------------------------
Live(n) == node_refs[n] > 0
Users(r) == {c \in SpaceCpu : cr3[c] = r}

\* Every root a handle or a CPU can reach is alive, its kernel half is the
\* kernel's own and every kernel node is still there; a node is freed exactly
\* when its owner is.  A CPU between two calls of activate is recorded in the
\* cpus of the one space it runs on (create_user_page_table, on_drop, activate).
SpacesAccounted ==
    /\ \A s \in Space :
        /\ node_refs[Root(s)] = (IF strong[s] > 0 THEN 1 ELSE 0) + Cardinality(Users(s))
        /\ handles[s] > 0 => strong[s] > 0
        /\ Live(Root(s)) => \A i \in KernelIndex : root_entry[s][i] = KernelNode(i)
        /\ Live(UserNode(s)) <=> Live(Root(s)) /\ \E i \in UserIndex : root_entry[s][i] = UserNode(s)
    /\ kernel_up => /\ node_refs[Root("kernel")] = 1 + Cardinality(Users("kernel"))
                    /\ \A i \in KernelIndex : node_refs[KernelNode(i)] = 1
    /\ \A c \in SpaceCpu :
        At(c, "idle") =>
            /\ ACTIVATED_VM_SPACE[c] = IF cr3[c] \in Space THEN cr3[c] ELSE "null"
            /\ \A s \in Space : c \in cpus[s] <=> strong[s] > 0 /\ cr3[c] = s
===============================================================================

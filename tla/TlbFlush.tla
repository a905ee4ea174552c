------------------------------- MODULE TlbFlush -------------------------------
(***************************************************************************)
(* mm/tlb.rs with the parts of mm/vm_space.rs and smp.rs it works with:      *)
(* CPUs activate VM spaces, change mappings through cursors, and have the    *)
(* other CPUs flush what they cached before the old frames are reused.       *)
(*                                                                           *)
(* The thread on a CPU is at `at[c]`; an inter-processor interrupt may run    *)
(* do_remote_flush on top of it wherever interrupts are enabled.  The TLB     *)
(* has no address space tags.  What is done under the lock of FLUSH_OPS is    *)
(* one step.  page_keeper and the bodies of dispatch_tlb_flush,               *)
(* sync_tlb_flush, do_remote_flush and activate are comments in the source.   *)
(***************************************************************************)
EXTENDS Naturals, FiniteSets

CONSTANTS
    CPU,
    Space,          \* the VmSpaces
    Edited,         \* the ones whose mappings are changed
    Page,           \* virtual pages
    Frame,          \* physical frames
    NoSpace,        \* no VmSpace activated yet
    NoFrame,        \* no mapping
    FLUSH_ALL_OPS_THRESHOLD,
    MaxCalls,       \* queued inter-processor calls per CPU that are told apart
    MaxChanges      \* bound on the changes made to page tables

ASSUME TlbAssumption ==
    /\ Edited \subseteq Space
    /\ NoSpace \notin Space /\ NoFrame \notin Frame
    /\ FLUSH_ALL_OPS_THRESHOLD \in Nat \ {0} /\ MaxCalls \in Nat \ {0}
    /\ MaxChanges \in Nat

VARIABLES
    pt,             \* the page table of each space
    cpus,           \* VmSpace::cpus
    activated,      \* ACTIVATED_VM_SPACE of each CPU
    cr3,            \* the space whose page table the CPU walks
    tlb,            \* the translations each CPU has cached
    at,             \* where the thread on each CPU is
    cursor,         \* the space and pages its CursorMut has locked
    ops_stack,      \* TlbFlusher::ops_stack
    have_unsynced_flush,
    targets,        \* dispatch_tlb_flush: the CPUs loaded from target_cpus
    left,           \* the ones its current loop has not come to
    FLUSH_OPS,
    ACK_REMOTE_FLUSH,
    calls,          \* length of CALL_QUEUES
    handling,       \* CPUs in do_inter_processor_call
    new_op_queue,   \* do_remote_flush: taken, not flushed yet
    gone,           \* history: what the cursor on each CPU has unmapped
    changes         \* history: the number of changes to page tables

spaceVars == <<pt, cpus, activated, cr3>>
flusherVars == <<ops_stack, have_unsynced_flush, targets, left>>
remoteVars == <<FLUSH_OPS, ACK_REMOTE_FLUSH, calls>>
handlerVars == <<handling, new_op_queue>>
historyVars == <<gone, changes>>
vars == <<spaceVars, tlb, at, cursor, flusherVars, remoteVars, handlerVars, historyVars>>

-----------------------------------------------------------------------------
\* OpsStack.  `ops` keeps the addresses of the first `size` slots.

OpsStack ==
    [ops : SUBSET Page, size : 0..FLUSH_ALL_OPS_THRESHOLD,
     need_flush_all : BOOLEAN, page_keeper : SUBSET Frame]

EmptyOps == [ops |-> {}, size |-> 0, need_flush_all |-> FALSE, page_keeper |-> {}]

is_empty(o) == ~o.need_flush_all /\ o.size = 0

FlushAll(o) == [o EXCEPT !.ops = {}, !.size = 0, !.need_flush_all = TRUE]

push(o, v, frames) ==
    LET k == [o EXCEPT !.page_keeper = @ \cup frames] IN
    IF o.need_flush_all THEN k
    ELSE IF o.size >= FLUSH_ALL_OPS_THRESHOLD THEN FlushAll(k)
    ELSE [k EXCEPT !.ops = @ \cup {v}, !.size = @ + 1]

\* Mutant: the remote queue does not keep the frames.
PushFromWithoutKeeper(o, other) ==
    IF o.need_flush_all THEN o
    ELSE IF other.need_flush_all \/ o.size + other.size >= FLUSH_ALL_OPS_THRESHOLD
         THEN FlushAll(o)
         ELSE [o EXCEPT !.ops = @ \cup other.ops, !.size = @ + other.size]

push_from(o, other) ==
    LET k == [o EXCEPT !.page_keeper = @ \cup other.page_keeper] IN
    IF o.need_flush_all THEN k
    ELSE IF other.need_flush_all \/ o.size + other.size >= FLUSH_ALL_OPS_THRESHOLD
         THEN FlushAll(k)
         ELSE [k EXCEPT !.ops = @ \cup other.ops, !.size = @ + other.size]

\* The TLB `cached` after OpsStack::flush_all has performed the operations of o.
Flushed(o, cached) ==
    [v \in Page |-> IF o.need_flush_all \/ v \in o.ops THEN NoFrame ELSE cached[v]]

NothingCached == [v \in Page |-> NoFrame]

-----------------------------------------------------------------------------
\* Interrupts are disabled here.
Dispatching == {"push", "call", "self"}
Points == {"user", "kernel", "added", "removed", "cursor", "unmap", "load", "sync"} \cup Dispatching

NoCursor == [space |-> NoSpace, pages |-> {}]

TypeOK ==
    /\ pt \in [Space -> [Page -> Frame \cup {NoFrame}]]
    /\ cpus \in [Space -> SUBSET CPU]
    /\ activated \in [CPU -> Space \cup {NoSpace}]
    /\ cr3 \in [CPU -> Space \cup {NoSpace}]
    /\ tlb \in [CPU -> [Page -> Frame \cup {NoFrame}]]
    /\ at \in [CPU -> Points]
    /\ cursor \in [CPU -> [space : Space \cup {NoSpace}, pages : SUBSET Page]]
    /\ ops_stack \in [CPU -> OpsStack]
    /\ have_unsynced_flush \in [CPU -> SUBSET CPU]
    /\ targets \in [CPU -> SUBSET CPU]
    /\ left \in [CPU -> SUBSET CPU]
    /\ FLUSH_OPS \in [CPU -> OpsStack]
    /\ ACK_REMOTE_FLUSH \in [CPU -> BOOLEAN]
    /\ calls \in [CPU -> 0..MaxCalls]
    /\ handling \subseteq CPU
    /\ new_op_queue \in [CPU -> OpsStack]
    /\ gone \in [CPU -> SUBSET (Page \X Frame)]
    /\ changes \in 0..MaxChanges

\* Every CPU starts in the kernel with the kernel's page table.
Init ==
    /\ pt = [s \in Space |-> NothingCached]
    /\ cpus = [s \in Space |-> {}]
    /\ activated = [c \in CPU |-> NoSpace]
    /\ cr3 = [c \in CPU |-> NoSpace]
    /\ tlb = [c \in CPU |-> NothingCached]
    /\ at = [c \in CPU |-> "kernel"]
    /\ cursor = [c \in CPU |-> NoCursor]
    /\ ops_stack = [c \in CPU |-> EmptyOps]
    /\ have_unsynced_flush = [c \in CPU |-> {}]
    /\ targets = [c \in CPU |-> {}]
    /\ left = [c \in CPU |-> {}]
    /\ FLUSH_OPS = [c \in CPU |-> EmptyOps]
    /\ ACK_REMOTE_FLUSH = [c \in CPU |-> TRUE]
    /\ calls = [c \in CPU |-> 0]
    /\ handling = {}
    /\ new_op_queue = [c \in CPU |-> EmptyOps]
    /\ gone = [c \in CPU |-> {}]
    /\ changes = 0

\* The thread on c takes its next step from p to q; a handler runs to its end first.
Step(c, p, q) ==
    /\ at[c] = p /\ c \notin handling
    /\ at' = [at EXCEPT ![c] = q]

\* The frames something keeps from being reused.
Kept ==
    UNION {ops_stack[c].page_keeper \cup FLUSH_OPS[c].page_keeper
             \cup new_op_queue[c].page_keeper : c \in CPU}

InUse == Kept \cup UNION {{pt[s][v] : v \in Page} : s \in Space}

-----------------------------------------------------------------------------
\* The processor: it may cache what it finds in the page table it walks at any
\* time, and enters the kernel or goes back to the user program.

Walk(c) ==
    /\ cr3[c] # NoSpace
    /\ \E v \in Page :
         /\ tlb[c][v] = NoFrame /\ pt[cr3[c]][v] # NoFrame
         /\ tlb' = [tlb EXCEPT ![c][v] = pt[cr3[c]][v]]
    /\ UNCHANGED <<spaceVars, at, cursor, flusherVars, remoteVars, handlerVars, historyVars>>

EnterKernel(c) ==
    /\ Step(c, "user", "kernel")
    /\ UNCHANGED <<spaceVars, tlb, cursor, flusherVars, remoteVars, handlerVars, historyVars>>

ReturnToUser(c) ==
    /\ cr3[c] # NoSpace
    /\ Step(c, "kernel", "user")
    /\ UNCHANGED <<spaceVars, tlb, cursor, flusherVars, remoteVars, handlerVars, historyVars>>

-----------------------------------------------------------------------------
\* VmSpace::activate: add this CPU to the new space, remove it from the last
\* one, then switch the page table, which empties the TLB.

Activate(c, s) ==
    /\ activated[c] # s
    /\ Step(c, "kernel", "added")
    /\ cpus' = [cpus EXCEPT ![s] = @ \cup {c}]
    /\ activated' = [activated EXCEPT ![c] = s]
    /\ UNCHANGED <<pt, cr3, tlb, cursor, flusherVars, remoteVars, handlerVars, historyVars>>

ActivateRemove(c) ==
    /\ Step(c, "added", "removed")
    /\ cpus' = IF cr3[c] = NoSpace THEN cpus ELSE [cpus EXCEPT ![cr3[c]] = @ \ {c}]
    /\ UNCHANGED <<pt, activated, cr3, tlb, cursor, flusherVars, remoteVars, handlerVars, historyVars>>

ActivateLoad(c) ==
    /\ Step(c, "removed", "kernel")
    /\ cr3' = [cr3 EXCEPT ![c] = activated[c]]
    /\ tlb' = [tlb EXCEPT ![c] = NothingCached]
    /\ UNCHANGED <<pt, cpus, activated, cursor, flusherVars, remoteVars, handlerVars, historyVars>>

-----------------------------------------------------------------------------
\* VmSpace::cursor_mut and the CursorMut it returns.

CursorMut(c, s, P) ==
    /\ Step(c, "kernel", "cursor")
    /\ \A d \in CPU : cursor[d].space = s => cursor[d].pages \cap P = {}
    /\ cursor' = [cursor EXCEPT ![c] = [space |-> s, pages |-> P]]
    /\ UNCHANGED <<spaceVars, tlb, flusherVars, remoteVars, handlerVars, historyVars>>

\* The flusher goes with the cursor.
DropCursor(c) ==
    /\ Step(c, "cursor", "kernel")
    /\ cursor' = [cursor EXCEPT ![c] = NoCursor]
    /\ ops_stack' = [ops_stack EXCEPT ![c] = EmptyOps]
    /\ have_unsynced_flush' = [have_unsynced_flush EXCEPT ![c] = {}]
    /\ gone' = [gone EXCEPT ![c] = {}]
    /\ UNCHANGED <<spaceVars, tlb, targets, left, remoteVars, handlerVars, changes>>

Count == changes < MaxChanges /\ changes' = changes + 1

\* The mapping of v is replaced by f, and the frame it had waits for the flush.
Replace(c, v, f) ==
    LET s == cursor[c].space
        frame == pt[s][v]
    IN  /\ pt' = [pt EXCEPT ![s][v] = f]
        /\ ops_stack' = [ops_stack EXCEPT ![c] = push(@, v, {frame})]
        /\ gone' = [gone EXCEPT ![c] = (@ \cup {<<v, frame>>}) \ {<<v, f>>}]

\* map, where no mapping exists
Map(c, v, f) ==
    /\ pt[cursor[c].space][v] = NoFrame
    /\ Step(c, "cursor", "cursor") /\ Count
    /\ pt' = [pt EXCEPT ![cursor[c].space][v] = f]
    /\ gone' = [gone EXCEPT ![c] = @ \ {<<v, f>>}]
    /\ UNCHANGED <<cpus, activated, cr3, tlb, cursor, flusherVars, remoteVars, handlerVars>>

\* map, over a mapping
MapOver(c, v, f) ==
    /\ pt[cursor[c].space][v] # NoFrame
    /\ Step(c, "cursor", "load") /\ Count
    /\ Replace(c, v, f)
    /\ UNCHANGED <<cpus, activated, cr3, tlb, cursor, have_unsynced_flush, targets, left,
                   remoteVars, handlerVars>>

\* unmap takes the mappings of its range out one by one, and dispatches at the end.
Unmap(c, v) ==
    /\ pt[cursor[c].space][v] # NoFrame
    /\ Step(c, "cursor", "unmap") \/ Step(c, "unmap", "unmap")
    /\ Count
    /\ Replace(c, v, NoFrame)
    /\ UNCHANGED <<cpus, activated, cr3, tlb, cursor, have_unsynced_flush, targets, left,
                   remoteVars, handlerVars>>

UnmapEnd(c) ==
    /\ Step(c, "unmap", "load")
    /\ UNCHANGED <<spaceVars, tlb, cursor, flusherVars, remoteVars, handlerVars, historyVars>>

-----------------------------------------------------------------------------
\* dispatch_tlb_flush, with interrupts disabled.

\* The loop over the targets at point p: when none is left, the next one starts.
LoopEnd(c, rest, p, q, after) ==
    /\ at' = [at EXCEPT ![c] = IF rest = {} THEN q ELSE p]
    /\ left' = [left EXCEPT ![c] = IF rest = {} THEN after ELSE rest]

\* With an empty stack (an unmap that found nothing) it returns without a change.
LoadTargets(c) ==
    /\ at[c] = "load" /\ c \notin handling
    /\ targets' = [targets EXCEPT ![c] = cpus[cursor[c].space]]
    /\ LoopEnd(c, cpus[cursor[c].space] \ {c}, "push", "self", {})
    /\ UNCHANGED <<spaceVars, tlb, cursor, ops_stack, have_unsynced_flush,
                   remoteVars, handlerVars, historyVars>>

\* Mutant: the acknowledgement of an earlier request is left in place.
PushToStaleAck(c, d) ==
    /\ at[c] = "push" /\ d \in left[c]
    /\ FLUSH_OPS' = [FLUSH_OPS EXCEPT ![d] = push_from(@, ops_stack[c])]
    /\ have_unsynced_flush' = [have_unsynced_flush EXCEPT ![c] = @ \cup {d}]
    /\ LoopEnd(c, left[c] \ {d}, "push", "call", targets[c] \ {c})
    /\ UNCHANGED <<spaceVars, tlb, cursor, ops_stack, targets, calls, ACK_REMOTE_FLUSH,
                   handlerVars, historyVars>>

PushTo(c, d) ==
    /\ at[c] = "push" /\ d \in left[c]
    /\ FLUSH_OPS' = [FLUSH_OPS EXCEPT ![d] = push_from(@, ops_stack[c])]
    /\ ACK_REMOTE_FLUSH' = [ACK_REMOTE_FLUSH EXCEPT ![d] = FALSE]
    /\ have_unsynced_flush' = [have_unsynced_flush EXCEPT ![c] = @ \cup {d}]
    /\ LoopEnd(c, left[c] \ {d}, "push", "call", targets[c] \ {c})
    /\ UNCHANGED <<spaceVars, tlb, cursor, ops_stack, targets, calls, handlerVars, historyVars>>

\* inter_processor_call, one target at a time.  The handler holds the lock of its
\* queue as long as it runs.
InterProcessorCall(c, d) ==
    /\ at[c] = "call" /\ d \in left[c]
    /\ d \notin handling
    /\ calls' = [calls EXCEPT ![d] = IF @ < MaxCalls THEN @ + 1 ELSE @]
    /\ LoopEnd(c, left[c] \ {d}, "call", "self", {})
    /\ UNCHANGED <<spaceVars, tlb, cursor, ops_stack, have_unsynced_flush, targets,
                   FLUSH_OPS, ACK_REMOTE_FLUSH, handlerVars, historyVars>>

FlushSelf(c) ==
    /\ Step(c, "self", "cursor")
    /\ tlb' = IF c \in targets[c] THEN [tlb EXCEPT ![c] = Flushed(ops_stack[c], @)] ELSE tlb
    /\ ops_stack' = [ops_stack EXCEPT ![c] = EmptyOps]
    /\ targets' = [targets EXCEPT ![c] = {}]
    /\ UNCHANGED <<spaceVars, cursor, have_unsynced_flush, left, remoteVars, handlerVars, historyVars>>

-----------------------------------------------------------------------------
\* sync_tlb_flush waits for the CPUs one after the other.

sync_tlb_flush(c) ==
    /\ have_unsynced_flush[c] # {}
    /\ Step(c, "cursor", "sync")
    /\ left' = [left EXCEPT ![c] = have_unsynced_flush[c]]
    /\ UNCHANGED <<spaceVars, tlb, cursor, ops_stack, have_unsynced_flush, targets,
                   remoteVars, handlerVars, historyVars>>

Acknowledged(c, d) ==
    /\ at[c] = "sync" /\ c \notin handling
    /\ d \in left[c] /\ ACK_REMOTE_FLUSH[d]
    /\ LoopEnd(c, left[c] \ {d}, "sync", "cursor", {})
    /\ have_unsynced_flush' =
         [have_unsynced_flush EXCEPT ![c] = IF left[c] = {d} THEN {} ELSE @]
    /\ UNCHANGED <<spaceVars, tlb, cursor, ops_stack, targets, remoteVars, handlerVars, historyVars>>

-----------------------------------------------------------------------------
\* do_inter_processor_call pops and runs the queued calls of do_remote_flush.

TakeOps(c) ==
    /\ calls[c] > 0 /\ at[c] \notin Dispatching
    /\ is_empty(new_op_queue[c])
    /\ calls' = [calls EXCEPT ![c] = @ - 1]
    /\ new_op_queue' = [new_op_queue EXCEPT ![c] = FLUSH_OPS[c]]
    /\ FLUSH_OPS' = [FLUSH_OPS EXCEPT ![c] = EmptyOps]
    /\ ACK_REMOTE_FLUSH' = [ACK_REMOTE_FLUSH EXCEPT ![c] = TRUE]
    /\ handling' = handling \cup {c}
    /\ UNCHANGED <<spaceVars, tlb, at, cursor, flusherVars, historyVars>>

\* Mutant: the operations are dropped without being performed.
RemoteClear(c) ==
    /\ c \in handling
    /\ new_op_queue' = [new_op_queue EXCEPT ![c] = EmptyOps]
    /\ handling' = IF calls[c] = 0 THEN handling \ {c} ELSE handling
    /\ UNCHANGED <<spaceVars, tlb, at, cursor, flusherVars, remoteVars, historyVars>>

\* The handler returns when the queue of calls is empty.
RemoteFlush(c) ==
    /\ c \in handling
    /\ tlb' = [tlb EXCEPT ![c] = Flushed(new_op_queue[c], @)]
    /\ new_op_queue' = [new_op_queue EXCEPT ![c] = EmptyOps]
    /\ handling' = IF calls[c] = 0 THEN handling \ {c} ELSE handling
    /\ UNCHANGED <<spaceVars, at, cursor, flusherVars, remoteVars, historyVars>>

-----------------------------------------------------------------------------
\* The steps a call makes once it is made.
Call(c) ==
    \/ ActivateRemove(c) \/ ActivateLoad(c)
    \/ UnmapEnd(c) \/ LoadTargets(c) \/ FlushSelf(c)
    \/ \E d \in CPU : PushTo(c, d) \/ InterProcessorCall(c, d) \/ Acknowledged(c, d)

Handler(c) == TakeOps(c) \/ RemoteFlush(c)

Request(c) ==
    \/ \E s \in Space : Activate(c, s)
    \/ \E s \in Edited, P \in SUBSET Page \ {{}} : CursorMut(c, s, P)
    \/ \E v \in cursor[c].pages, f \in Frame \ InUse : Map(c, v, f) \/ MapOver(c, v, f)
    \/ \E v \in cursor[c].pages : Unmap(c, v)
    \/ sync_tlb_flush(c) \/ DropCursor(c)

Next ==
    \E c \in CPU :
       \/ Walk(c) \/ EnterKernel(c) \/ ReturnToUser(c)
       \/ Request(c) \/ Call(c) \/ Handler(c)

\* A call goes on once it is made, and a CPU with interrupts enabled takes them.
Fairness == \A c \in CPU : WF_vars(Call(c)) /\ WF_vars(Handler(c))

Spec == Init /\ [][Next]_vars /\ Fairness

-----------------------------------------------------------------------------
\* The user program runs on c, with no handler on top of it.
InUser(c) == at[c] = "user" /\ c \notin handling

Stale(c, v) == tlb[c][v] # NoFrame /\ tlb[c][v] # pt[cr3[c]][v]

\* "we can only recycle the page after all the relevant TLB entries in all CPUs
\* are flushed" (issue_tlb_flush_with): what a user program can reach through the
\* TLB is mapped there, or is still kept from being reused.
FramesOutliveTlb ==
    \A c \in CPU, v \in Page :
       InUser(c) /\ Stale(c, v) => tlb[c][v] \in Kept

\* "After this function, all TLB entries corresponding to previous dispatched TLB
\* flush requests are guaranteed to be coherent" (sync_tlb_flush): when the cursor
\* on c has no flush to wait for, no user program sees a mapping it has removed.
CoherentAfterSync ==
    \A c, d \in CPU : \A v \in Page :
       /\ at[c] = "cursor" /\ have_unsynced_flush[c] = {}
       /\ InUser(d) /\ cr3[d] = cursor[c].space
       => <<v, tlb[d][v]>> \notin gone[c]

\* Flushes are waited for and performed, as the changes that CPUs dispatch come to
\* an end: sync_tlb_flush returns, since CPUs that wait for each other serve each
\* other's requests, and every TLB becomes coherent, whether the owner of a cursor
\* waits for the flush or not (sync_tlb_flush, dispatch_tlb_flush).
FlushesComplete ==
    <>[](\A c \in CPU : at[c] # "sync" /\ \A v \in Page : ~Stale(c, v))
=============================================================================

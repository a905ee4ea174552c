# A TLA+ model of OSTD

This project models OSTD, the kernel framework under `ostd/src`: its locks and
wait queues, RCU, the scheduler, physical memory from the firmware's map to the
heap, page tables from the entry formats to the cursors of user spaces, TLB
flushing across CPUs, I/O resources, PCI, the IOMMU, interrupts and the start of
the processors. TLC checks every model on a small instance. TLAPS proves the
central results about `RwLock`, `SpinLock`, the wait queue with `Mutex` and
`RwMutex`, RCU, the scheduler, the reference counts of frames and TLB flushing for
every value of the constants.

## How the source is read

* The code is compiled with Verus; its ghost state (`Tracked`, `proof!`,
  `*_spec`) has no run-time effect and is not modelled.
* Several `Drop` implementations are comments, and an inherent `drop(self)` with
  the same body is "called manually". The models follow the inherent methods and
  where they are called. Where a call is missing, as in `wait_until`, a constant
  (`WaiterDrop`) selects the code as written or the code with the `Drop` it
  replaces; a run of its own shows what the code as written does.
* Some functions, and some whole files (`trap/irq.rs`, parts of `mm/dma`), have no
  body other than one in a comment. The commented body is then the definition,
  and its lines are the ones mapped. So it is with the `Drop` of `KVirtArea`; the
  line in it that would free the range is a comment even there, and the model keeps
  the range allocated. `unlock_range` is read as giving back the
  guards of the path below the guard level and then the guard level's subtree:
  its loop index taken literally would visit the guard level's own node.
* Atomic operations are sequentially consistent steps. Weaker orderings are not
  modelled.
* A section under a spin lock is one step when nothing it changes is read without
  the lock. `num_wakers`, `is_monitoring` and `ACK_REMOTE_FLUSH` are read without
  it, and are steps or part of the step that publishes them.
* An arithmetic overflow, a failed assertion and an `unwrap` of nothing are panics:
  the step sets a panic flag or has no successor, as each module says.

## The parts and their modules

Each module names the source functions in its comments; `map` in `PROJECT.json`
gives the lines, and `components` lists every part with its files.

### Synchronization and tasks

| Part | Module | State and actions |
|---|---|---|
| lock word of `RwLock` and `RwMutex` | `RwWord` | The word as a number: `WRITER`, `UPGRADEABLE_READER`, `BEING_UPGRADED`, the overflow sentinel and the count. `MAX_READER` is a parameter; the other bits keep their ratio to it. |
| `RwLock` | `RwLock`, `AbstractRwLock`, `RwLockProofs` | `lock`, and for each thread where it is (`pc`) and whether its call retries. A failed `try_read` or `try_upread` has changed the word and takes the change back in a later step; `upgrade` sets `BEING_UPGRADED` and then tries until the readers are gone. The abstract lock says who holds it in which mode, with one step per acquisition. |
| `WaitQueue`, `Waiter`, `Waker` | `WaitQueue`, `WaitQueueProofs` | The queue, `num_wakers`, and wakers as objects with a flag that outlive a wait. `park_current` and `unpark_target` are external here; `Scheduler` has them. |
| `Mutex`, `RwMutex` | `Mutex`, `WaitQueueProofs`, `RwMutex`, `RwMutexProofs` | They supply the condition `wait_until` retries, and whom a release wakes. A `workload`, fixed initially, says whether the threads of `RwMutex` make sleeping calls only or `try_` calls too. |
| `SpinLock` | `SpinLock`, `RcuProofs` | CPUs with tasks that are preempted and a handler that interrupts them; the guardian (`PreemptDisabled`, `LocalIrqDisabled`, `WriteIrqDisabled`) is chosen initially. |
| `RwArc`, `RoArc`; `NonNullPtr` | `OwnedPointers` | The count of writing handles, guards, and `get` without the lock; raw pointers of boxes, arcs, frames and nested `Either`s with a tag in an alignment bit, as numbers. |
| RCU | `Rcu`, `RcuProofs` | One slot, read guards per CPU, updates by tasks, and the monitor with the current grace period and the next callbacks. Tasks may be preempted and moved between the test of `is_monitoring` and the lock; addresses are reused as soon as they are freed. |
| scheduler, task switch, preemption | `Scheduler`, `SchedulerSteps`, `SchedulerProofs` | Run queues, the `Arc` of every task, the packed preemption word, `switch_to_task` in its phases on every CPU, `park`, `unpark`, `yield`, `exit`, ticks, halting. A second policy stands for an injected scheduler that moves tasks. |

### Memory

| Part | Module | State and actions |
|---|---|---|
| frame metadata, `Frame`, `UniqueFrame` | `FrameMeta`, `FrameMetaProofs` | `ref_count` with its special values (unused, unique, busy), metadata that is initialized or not, handles. Every function runs atomic access by atomic access. |
| lists of frames | `LinkedList`, `AbstractFrameList` | Links, sizes, identities drawn lazily, cursors; the abstract list is a sequence with a position. |
| segments, frame allocation | `Segment` | Page by page loops of `from_unused` and `drop` between other threads' operations; the free pages of the injected allocator. |
| boot memory | `BootMemory` | From the firmware's list through `into_non_overlapping`, the early allocator and the metadata slots to the pages handed to the frame allocator and the device memory beside them. |
| heap | `Heap` | Slabs with the free list threaded through the words of their slots, slot lists, large slots. |
| range and identifier allocators | `KVirtArea`, `IoResources` | Free blocks with first fit, given ranges and merging; a bitmap with a hint. |
| kernel virtual areas | `KVirtArea` | Mapping and dropping page by page, with the largest pages that fit and the level at which the cursor is locked, over the range allocator of the same module. |
| virtual address ranges, entry formats | `PteFormat` | Machine-word arithmetic with sign extension; entries of x86, RISC-V, LoongArch and the IOMMU as flags and a number, with the bits hardware sets. |
| page table nodes and entries | `PtNode` | What an entry owns, over `replace`, `alloc_if_none`, `split_if_mapped_huge`, `protect` and the drop of a node. |
| page table lock protocol | `Paging`, `PtLocking` | A cursor is created by walking down under RCU, locking the lowest node that covers the range, then every node below in pre-order. Cursors cut subtrees off, which makes nodes stray under other walkers. |
| page table cursor | `Paging`, `PageTableCursor`, `AbstractPageTable` | The tree, the path of guards and the calls, one iteration of the code's loops per step. The abstract table is a map from pages to frames with a position in it; `page_walk` is the refinement mapping. |
| cursors of user spaces | `VmSpaceCursor` (over `AbstractPageTable`) | The calls of `vm_space.rs` with the flushes and the kept frames of `unmap`. |
| address spaces | `AddressSpace` | Handles, roots and the page tables CPUs have loaded, with `activate` step by step. |
| TLB flushing | `TlbFlush`, `TlbFlushProofs` | CPUs run a kernel thread or a user program; an interrupt may put `do_remote_flush` on top of either, except where dispatching has interrupts disabled. The processor may cache any translation of the page table in use at any time. `gone` and `changes` are history variables. |
| `VmReader`, `VmWriter`, `VmIo` | `VmIo` | Windows of kernel and user bytes, user pages that fault at any byte, the calls and what they report. |
| DMA mappings | `Dma` | The set of mapped pages, IOMMU entries, cache policy, clones and slices; drop step by step. |

### Devices, interrupts and boot

| Part | Module | State and actions |
|---|---|---|
| I/O memory and ports | `IoResources` | What boot withholds, and what drivers acquire, slice, access and give back. |
| PCI | `Pci` | Registers that answer probing as the hardware does, the capability list, MSI-X; the bus with devices and drivers in any order of arrival. |
| IOMMU | `Iommu` | The command and status registers, the tables, the invalidation queue and the registers that stand in for it, with the hardware as an actor that answers later. |
| interrupts | `Interrupts` | Lines, clones and callbacks; guards, nested interrupts, top and bottom halves on one CPU. |
| CPU sets, CPU-local objects | `Cpu` | Sets as words; atomic sets, loaded and stored word by word; objects with a copy on each CPU. |
| boot page table | `BootPageTable` | Mapping over the firmware's tables, splits of huge pages, dismissal, and the walk that frees the tables. |
| start of the processors | `SmpBoot` | The bootstrap processor and every other one, with STARTUP interrupts that are missed. |

`Pci`, `Interrupts`, `OwnedPointers` and `PteFormat` have two parts each, `Cpu` and
`IoResources` have three, which share no state; each part has its own initial
predicate and next-state relation. The range allocator in `KVirtArea` has its own
too (`RangeInit`, `RangeNext`), and the areas above it call its operations.

### Runs with many components

`MCMemory` and `MCSystem` check components that share no state in one run each. A
variable `component` is chosen initially and never changes; the component's
variables are kept in the cells `s1`, `s2`, ..., which the `INSTANCE` substitutions
name, and the remaining cells stay unused. A behaviour of such a run is a behaviour
of one component, so nothing is multiplied; a property of the run is a conjunction
of `component = ... => ...`. `MCSystem` extends `Rcu`, whose invariant is also
proved, and keeps Rcu's own variables.

## What the runs check

| Run | Instance | Shows |
|---|---|---|
| `rwlock` | 3 threads, `MAX_READER` 2 | `WordAccounts`: the word is the sum of guards and failed attempts. `ReaderTurnedAwayForCause`. `UpgradeCompletes`. `ImplementsAbstract`: refinement of `AbstractRwLock`. |
| `mutex` | 3 threads, 2 wakers each | `MutualExclusion`; `NoSleeperWhenUnlocked`: no lost wake-up; `EveryLockReturns` once calls stop coming. |
| `mutex_as_written` | 2 threads | **violation**: without `Waiter::drop` a thread sleeps on a free mutex. |
| `rwmutex` | 3 threads, `MAX_READER` 4 | `ImplementsAbstract`, downgrade included; `NoSleeperIfAllBlock`. |
| `rwmutex_try` | 3 threads, all calls | **violation**: a failing `try_read` puts a writer to sleep on a free mutex. |
| `pt_locking` | 2 threads, 3 levels of 2 entries | `RangeOwned`: cursors own their ranges with every node below. `NodesAccounted`: no node is lost, linked twice, left locked or freed under a walker. `SomeoneGetsTheRange`. |
| `pt_locking_as_written` | 2 levels of 3 entries | **violation**: `dfs_release_lock` leaves the first child locked. |
| `cursor` | 3 levels of 2 entries, base and huge pages | `Refines`: the map. `CursorSound`: the path is the nodes of the address, `nr_children` is right, the shared top level stays. `CallsReturn`. |
| `tlb_flush` | 2 CPUs, 2 spaces, 2 pages, 2 frames, 3 changes | `FramesOutliveTlb`, `CoherentAfterSync`, `FlushesComplete`: CPUs that wait for each other both return, and every TLB becomes coherent. |
| `scheduler` | 2 CPUs, 2 tasks, 2 policies | `TasksAccounted`: one CPU per task, queued once, freed exactly when nobody needs it. `NoRequestLost`: wake-ups and preemption requests. `IdleTaskWakes`. |
| `memory` | 23 components | one property for each kind of resource, below |
| `system` | 9 components | RCU, boot, pointers, user spaces, and what must come to an end, below |

In `memory`: `FramesSound` (counts, metadata, reuse between load and
compare_exchange), `ListIsSequence` (refinement of sequences),
`PhysicalMemoryAccounted` (boot, segments, heap), `TranslationsExact` (kernel
areas, the range allocator alone, address ranges, entries), `VmIoExact`,
`PageTablesOwn` (nodes, spaces),
`PciDevicesKept`, `IoResourcesKept` (device memory, ports, DMA),
`InterruptsAccounted` (lines, contexts), `BitmapsExact` (CPU sets, atomic
CPU sets, CPU-local objects, identifiers).

In `system`: `SafeReclamation` (RCU), `BootHandsOver` (processors, boot page table),
`RemappingComplete` (IOMMU), `SpinsEnd` (spin lock), `PointersOwn` (`RwArc`, raw
pointers), `UnmapExact` (user spaces), and the liveness properties
`RetiredIsDropped` (RCU), `BusyEnds` (frames) and `BootCompletes` (processors,
IOMMU).

Every property of a passing run is broken by a plausible slip in the code it is
about. The slips are the definitions commented as mutants or described as such
right before the definition they replace; `mutants` lists them.

The three violations are described under `findings`, with the line of the
documentation each of them contradicts.

### Bounds, and why they are enough

* **Threads.** Two conflicting threads and a third that interferes (a failed
  attempt between the two, a second sleeper, a second handle) are the cases the
  code distinguishes. The page table lock protocol has two, because three-level
  tables with cuts are the harder dimension. Atomic CPU sets have two that load and
  store, beside additions and removals of single CPUs at any time.
* **`MAX_READER`** 2 puts the reader limit in reach of three threads in `rwlock`.
  In `rwmutex` it is 4, so the limit is not reached there; the proofs cover every
  limit for the word and the refinement, and every limit that the threads do not
  exceed for the wake-ups. The code's limit is 2^60.
* **`MaxWakers`** limits the wakers a thread has alive. Two are one of a finished
  wait and one of the current wait.
* **`REF_COUNT_MAX`** 4 lets three threads saturate the count.
* **`NodesPerPosition`** names successive nodes at one place in the table, so that
  a stray node and its replacement exist together. `MaxStray` 0 lets a subtree be
  cut off only when the nodes cut off before it have been freed; walkers still
  meet it.
* **`MapsAt`, `NewProps`** limit the mappings to a huge page and a base page in
  different level 2 nodes, and `protect_next` to one new property. The ranges are
  the whole table, an unaligned one, and one page within the huge page. Calls that
  break an assertion on their arguments are not enumerated.
  `HIGHEST_TRANSLATION_LEVEL` is below `NR_LEVELS`, as on x86 and LoongArch; on
  RISC-V both are 4, and huge pages in the root are not in the instance.
* **`Obj`** 3 in `Rcu`: one object in the slot, one retired in the current grace
  period, one in the next.
* **`MaxChanges`** 3 in `tlb_flush`: map a frame, take it out, and map it again
  elsewhere. `Edited` lets one of the spaces be activated only. `MaxCalls` 2: more
  queued calls to a CPU are merged with those, as they run the same function. The
  threshold of 2 operations is passed by two requests that meet in a queue; the
  code's is 32.
* **`MaxGuards`** in `Scheduler` and `Interrupts`: one and two guards a context
  keeps, so that nesting occurs.
* **`MAX_LIST_ID`** 4: the identities run out after each list has drawn its own and
  one more; the code aborts there.
* **Segments** have three pages and two handles: a split, a slice of a part, and a
  page that is in use in the middle of a range. **Heap** pages have two slots, so a
  slab is empty, half and full. **Kernel areas** have four pages with huge pages of
  two, so that a range may be exactly one, and physical addresses aligned and not.
  **Boot memory** takes up to three
  reports out of ten that overlap, touch, contain each other, are empty or cross
  the low memory boundary.
* **`MaxIoOps`** 2 in `VmIo`: a second call starts from the cursors the first left,
  after a fault too. **`MaxHeld`, `MaxHandles`, `MaxClones`** 2: one handle that
  goes and one that stays.
* **PCI** devices have three registers: a 64-bit pair before, behind or without a
  32-bit or I/O register; their capabilities are linked in and out of order, with
  MSI-X in a memory BAR, in none, or not there, and a table whose entries are masked
  or not. **CPU sets** have part of a word, a word, and a word and a
  half. **Words** of address ranges in `PteFormat` have six bits.
* **`MaxVmChanges`** 4: map, unmap, map the address again and unmap a range that
  has both.
* **Processors**: three beside the bootstrap processor, listed by the firmware twice
  or with an identity above 255. The **boot page table** starts from a firmware
  table shared by two entries of the root, or from a huge page in the root (level 3)
  beside one of level 2.

Deadlock is not checked in `rwmutex` (a sleeper as in `rwmutex_try`), `cursor`
(panics), `scheduler` (with the second policy two CPUs can each wait for the other's
task in `before_switching_to`), `memory` and `system` (panics, and boot, which
ends).

### Fairness

* A thread that has started a call keeps taking steps (weak fairness of `Step`,
  `Attempt`, `Retract`, `Call`): the scheduler runs every runnable thread. Nothing
  makes a thread start a call.
* Guards are dropped in the end (`Drop`, `UnlockRange`, `DropGuard`): spinning
  guards disable preemption and may not be held across a sleep. In `pt_locking` a
  thread either goes on with its call or drops its cursor, and the nodes whose grace
  period is over are reclaimed.
* RCU: every CPU switches tasks again and again; a task that has seen
  `is_monitoring` gets the spin lock although others compete for it (strong
  fairness of `finish_grace_period`).
* `tlb_flush`: a CPU that has interrupts enabled takes a pending one.
* `scheduler`: CPUs keep running what they are in the middle of.
* `system`: every processor that has been started, the bootstrap processor, and the
  IOMMU's driver and hardware keep going: the hardware services the command
  register, the invalidation queue and the request bits of the invalidation
  registers. A processor that missed the first STARTUP
  takes the second, which is what the second one is sent for.
* `EveryLockReturns` and `FlushesComplete` speak of callers that stop coming: the
  mutex is not fair, and a new request to a CPU clears the ACK that an earlier
  `sync_tlb_flush` polls.

## What is proved

**RwLockProofs**, for every finite set of fewer than `2 * MAX_READER` threads and
every `MAX_READER` above 0. `ThreadAssumption` stands for `no_max_reader_overflow`,
which the code assumes before each increment:

* `TypeCorrect`, `WordAlwaysAccounts`, `GuardsExclude`. The inductive invariant is
  `TypeOK /\ WordAccounts /\ Exclusion`. Exclusion alone is not inductive: what an
  atomic operation admits depends on the word, so the word has to tell who is
  there. `Decode` shows that the bit tests recover the fields of the sum; one
  lemma per action adds or removes the thread's contribution.
* `NoSpuriousReadFailure`, the action property `ReaderTurnedAwayForCause`.
* `Refinement`: the lock implements `AbstractRwLock`.

**RcuProofs**, for all sets of CPUs (not empty), tasks and objects, finite or not:

* `TypeCorrect`, `GuardsAreSafe`, `ObjectsDroppedOnce`, `FastPathSound`, and
  `ReclamationIsSafe`, which is the invariant `SafeReclamation` of the run `system`.
  The inductive invariant adds to `TypeOK` and `DroppedOnce` the reason a guard is
  safe (`GuardsWait`: while the object waits in the current grace period the
  reading CPU has not been counted, and an object that is read is never among the
  callbacks being invoked) and that a grace period is under way exactly while
  callbacks wait (`MonitorConsistent`).

**FrameMetaProofs**, for all frames, all metadata, and every finite set of fewer than
`REF_COUNT_MAX` threads (`Bounds`; the code's maximum is 2^63 - 1): `FrameCounts`,
`FrameMetaInitialized` and `FrameMetaImmutable`, the three parts of `FramesSound` of
the run `memory`. The inductive invariant sorts every frame into one of four kinds by
its count and adds what keeps them apart: the handles of a shared frame never exceed
the maximum, and increments lost in a panic come on top at most once per thread, so a
shared count never reaches `REF_COUNT_UNIQUE`; a `compare_exchange` is only tried with
a count between 0 and the maximum (`LoadedShared`); and who is about to publish a
frame has written its metadata (`MetaWritten`). How many threads are busy with a frame
is the size of a set that each step changes by at most one (`SizeMoves`); there is one
lemma per action.

**RcuProofs** also has the spin lock, for all sets of CPUs and tasks and every guardian:
`SpinLockSafe`, the statement `system` checks as `SpinsEnd`. The inductive invariant
says who holds the lock, that whoever is between the guard and its drop has
disabled what the guardian disables, and that interrupts and preemption on a CPU
are accounted for by the contexts on it.

**SchedulerSteps** and **SchedulerProofs**, for all finite sets of CPUs and tasks, both
policies and any number of preemption guards below the flag of the preemption word
(`SchedulerAssumption`):

* `TypeCorrect`; `TasksAccountedFor` and `RequestsKept`, which are the invariants
  `TasksAccounted` and `NoRequestLost` of the run `scheduler`.

None of the parts of `TasksAccounted` is inductive. That a task has one CPU rests on
`switched_to_cpu`, which a CPU sets before it switches to the task and clears after it
has switched away, so `Foreground` says that the flag is set exactly while a CPU executes
the task or saves its context. That a task is queued once rests on the `cpu` field, which
`enqueue` claims before it takes the lock of the run queue; `Queues` says that a task
with a CPU is in that CPU's run queue or claimed by a call of `enqueue`, which is the only
one.
`CpusControlled` and `TasksControlled` say what a CPU is in the middle of (deciding,
arriving from a switch, executing, retrying, booting) and what its run queue, its pending
switch and its interrupt flag are there. `Arcs` counts the references of a task by what
these hold. A wake-up is kept because a task that is about to leave its run queue with
`has_woken` set has an `enqueue` coming that will find it gone (`WakeUps`), and a request
to preempt because halting tests it with interrupts disabled (`Halts`). The invariant
`SchedInv` was model-checked on the instance of the run before it was proved.
`SchedulerSteps` has one lemma per action, `SchedulerProofs` the initial states and that
the invariant implies the properties: the places and claims of a task are sets of at most
one element. `SchedInv` includes `CpuCounts`, the arithmetic of sets of CPUs, which the
constants decide.

**WaitQueueProofs** begins with lemmas on what the sleeping locks rely on, whatever the
condition of `wait_until` is: every step of the queue preserves `QueueInv` (`num_wakers`
is exact outside the critical sections), `WaitInv` (a waker that has not been
woken belongs to a thread inside `wait_until`, and is in the queue or
in the hand of a thread about to wake it; a parked thread whose waker has been woken is
about to be unparked) and `Answered` (while a thread sleeps, another will test the
condition or look at the queue). `RwMutexProofs` extends it.

Its theorems are those of `Mutex`, for all sets of threads and every bound on the wakers:

* `MutexExcludes`, and `QueueLengthExact`, that `num_wakers`, which is read without the
  lock, is the length of the queue whenever nobody holds the queue's lock; both with and
  without `Waiter::drop`.
* `NoLostWakeup`, the invariant `NoSleeperWhenUnlocked` of the run `mutex`, with
  `Waiter::drop` (without it `mutex_as_written` violates the statement). The inductive
  invariant joins `QueueInv` and `WaitInv` with exclusion and with `~locked => Answered`:
  the flag is cleared by a thread that goes on to `wake_one`, and a second test that
  fails found the flag set.

**RwMutexProofs**, for every finite set of fewer than `2 * MAX_READER` threads, all
bounds and all workloads:

* `RwMutexWordAccounts`: the word is the sum of what guards and failed attempts have
  put into it. The inductive invariant (`WordInv`) gives every thread a share that its
  place and its call determine; a step moves one share and adds the difference.
* `RwMutexRefines`: the mutex implements `AbstractRwLock`, which is the property
  `ImplementsAbstract` of the run `rwmutex`.
* `RwMutexNoLostWakeup`: `NoSleeperIfAllBlock`, with `Waiter::drop` and at most
  `MAX_READER` threads. A release need not wake anyone here: a reader that is not the
  last and an attempt that takes its share back tell nobody. So the inductive invariant
  (`SleepInv`) also says on whom a thread turned away by such a share counts: a second
  test that failed met a writer or an upgrade, which wakes all when it is over
  (`StuckAnswered`). The bound on the threads is needed: a reader turned away by the
  limit sleeps, and no wake-up tells it that there is room again. The code's limit,
  2^60, is out of reach of threads.

In the statements about sleepers and about the queue's length `NoThread`, the value
that stands for a free lock, is assumed not to be a thread.

**TlbFlushProofs**, for all sets of CPUs, spaces, pages and frames, and every threshold
of the operation stacks: `NoFrameReusedEarly` and `SyncCoherent`, which are the
invariants `FramesOutliveTlb` and `CoherentAfterSync` of the run `tlb_flush`. Neither is
inductive: both say what holds when a user program runs, and a flush may be in a
cursor's stack, in `FLUSH_OPS`, or in the handler's hand when it becomes due. The
inductive invariant `FlushInv` follows it: `StaleKept` says where the flush of every
stale entry is and that the frame is kept there, `GoneAwaited` that the cursor that
removed the mapping waits for it as well. They need `Activation` (a CPU is among the
CPUs of a space while its TLB can be filled from it), `Cursors` (two cursors are
disjoint) and `Stacks` (an acknowledged CPU has taken its operations and performs them
before the handler returns). `FlushInv` was model-checked with two and three CPUs
before it was proved.

Only model-checked:

* all liveness properties, which are out of the prover's reach;
* the refinements of the lists and of the page table cursor;
* `RangeOwned` and `NodesAccounted` of the page table locks, and the invariants of the
  page table cursor, segments, boot memory and the allocators: they speak of trees and
  sequences through recursive functions, minima and folds, for which induction over
  data would be needed;
* the modules with recursive operators (`BootPageTable`, `Heap`, `PtNode`,
  `OwnedPointers`) or `Bitwise` (`PteFormat`);
* the remaining components of `memory` and `system`.

## Where code and documents part

Three disagreements have a run and are under `findings`. The following were met
while modelling. Those with a name in parentheses are stated in the module as a
definition that the model violates; the invariants that are checked say what holds
nevertheless.

* `Cursor::jump` panics from the end of a range that ends with the top node
  (`JumpReturns` in `PageTableCursor`).
* A task that exits can be enqueued once more by a wake-up that was under way
  (`ExitedNotEnqueued` in `Scheduler`; documentation of `LocalRunQueue`).
* `IoPortAllocator::acquire` tests the range with `any`, which consumes it, and
  then marks nothing behind the test (`PortsExclusive` in `IoResources`).
* `VmIo::read` of `IoMem` adds the offset twice (`ReadsAtOffset` in `IoResources`).
* Callbacks are found by the address of their closure, which zero-sized closures
  share (`CallbacksFollowHandles` in `Interrupts`); an `IrqLine` gives up its number
  before its callbacks (`FreshLineSilent`).
* `get_item_index` accepts an address one past the area of the first CPU. With one
  CPU that is an object of the adjacent chunk, and `try_dealloc` panics in the bitmap
  (`ForeignObjectReturned` in `Cpu`, with `DYN_CPUS = 1`).
* `dismiss` tests a flag for the firmware's tables that a rewritten entry has lost
  (`FirmwareTablesKept` in `BootPageTable`).
* `protect_base_page` splits a huge page of any level in steps of a base page, so
  from level 3 on the split changes translations (`SplitsKeepTranslations` in
  `BootPageTable`). `arch/riscv/boot/boot.S:54-63` leaves such pages.
* `map_untracked_frames` panics in the cursor when the physical range is exactly one
  aligned huge page, because the cursor is locked below the node that would hold it;
  the range it has taken is not given back. The documented panics do not have the
  case; the specification at `kvirt_area.rs:713-719` excludes it. `AreasTranslate` in
  `KVirtArea`, which holds, says exactly when it happens.
* A `DisabledLocalIrqGuard` that is dropped before a later one enables interrupts
  while the later one is still held (`GuardsKeepIrqsOff` in `Interrupts`).
* The insertion into the set of DMA mappings is commented out, so that a page can be
  mapped twice; `InsertsPages` selects the loop as intended (`MappedOnce` in `Dma`).
* `unmap` may leave the cursor beyond the end of its range, after a huge page.
* The read of an untyped frame past its end transfers less without an error; the
  range test of the vendor capability is off by one; `protect_flush_tlb` flushes the
  first page of its range; a 64-bit BAR of 4 GiB or more has size 0;
  the remapping of DMA addresses is changed without invalidating the IOTLB.

## What is not modelled

* Weak memory orderings, and the contents of frames and protected data.
* `pause_until` and `wait_until_or_cancelled` with their cancellation condition:
  the condition reads state of the caller's outside OSTD.
* In `TlbFlush`: flushes without a frame, `protect_next` and operations on large
  ranges, which become a flush of everything; `VmSpaceCursor` has what is issued.
  An endless stream of requests is excluded by `MaxChanges`.
* `PageTableCursor` does not follow the ownership of mapped items (`PtNode` does),
  and `PtLocking` not the entries of the lowest level.
* `Dma`: cache maintenance and memory shared with a confidential-computing host.
  `Iommu`: fault reporting. `Pci`: vendor capabilities, the two ways to reach the
  configuration space, and the base addresses that are allocated on LoongArch.
* Debug assertions of the identifier allocator: `IoResources` has the behaviour of
  a release build.
* The construction of the kernel page table at boot and kernel stacks: sequential
  uses of the cursor and of `KVirtArea`. Static CPU-local cells: offsets into the
  areas `SmpBoot` copies.
* Timers, traps and user mode, boot protocols, device registers of the
  architectures, console and logging, macros, build scripts and the test harness:
  hardware access, assembly, sequential set-up or text. RISC-V and LoongArch appear
  with their entry formats only.
* Ghost code, because it does not run.

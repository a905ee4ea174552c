------------------------------ MODULE Scheduler ------------------------------
(***************************************************************************)
(* task/: the scheduling core (reschedule and its callers park_current,     *)
(* unpark_target, run_new_task, yield_now, exit_current, might_preempt,     *)
(* halt_cpu), the FIFO scheduler behind the Scheduler and LocalRunQueue     *)
(* traits, the preemption word of each CPU, and switch_to_task.             *)
(*                                                                          *)
(* An execution context is a task, or the bootstrap code of a CPU.  What    *)
(* is done under a run queue's spin lock is one step, except where another  *)
(* CPU may look at the same fields without the lock; the decision to switch,*)
(* the wait for the next task's switched_to_cpu flag and the clean-up after *)
(* the switch are separate steps.                                           *)
(***************************************************************************)
EXTENDS Integers, Sequences, FiniteSets

CONSTANTS
    Cpu, Bsp,           \* the processors, and the one that boots
    Task,
    NEED_PREEMPT_MASK,  \* 1 << 31 in the code; above any number of guards
    MaxGuards           \* bound: preemption guards alive on a CPU

NONE == "none"

\* A call of enqueue: its flag, whether it has a CPU for the task yet, which, and
\* whether the task was still in a run queue then.
Calls ==
    [target : Task, flag : {"Spawn", "Wake"}, cpu : Cpu \cup {NONE}, still_in_rq : BOOLEAN]

NoCall == [target |-> NONE]

ASSUME SchedulerAssumption ==
    /\ IsFiniteSet(Cpu) /\ IsFiniteSet(Task)
    /\ Bsp \in Cpu /\ Cpu \cap Task = {} /\ NONE \notin Cpu \cup Task
    /\ MaxGuards \in Nat /\ NEED_PREEMPT_MASK \in Nat /\ MaxGuards < NEED_PREEMPT_MASK

VARIABLES
    policy,          \* what the injected scheduler may do; see Init
    rq,              \* of each CPU: the run queue's current task and its queue
    cpu,             \* TaskScheduleInfo::cpu of each task
    on,              \* CURRENT_TASK_PTR: the context executing on each CPU
    previous,        \* PREVIOUS_TASK_PTR
    next,            \* the task a CPU has decided to switch to
    switched_to_cpu,
    irq,             \* local interrupts are enabled
    info,            \* PREEMPT_INFO
    ipi,             \* a queued call of set_need_preempt from another CPU
    pc,              \* where each context is
    has_woken,       \* of the Waker of each task
    call,            \* the enqueue a CPU is in the middle of, for its context or in
                     \* an interrupt: the context on that CPU waits
    arc              \* strong count of each task's Arc

vars == <<policy, rq, cpu, on, previous, next, switched_to_cpu, irq, info, ipi,
          pc, has_woken, call, arc>>

Context == Task \cup Cpu

Locations ==
    {"built", "new", "run", "spawn", "preempt_point", "wait", "park", "park_locked",
     "park_retry", "exit_retry", "halting", "halted", "switch_run", "switch_wait", "switch_exit",
     "unreachable"}

RunQueue == [current : Task \cup {NONE}, queue : Seq(Task)]

\* A number of guards, with the bit of NEED_PREEMPT_MASK or without it.
PreemptInfo == (0 .. MaxGuards) \cup (NEED_PREEMPT_MASK .. NEED_PREEMPT_MASK + MaxGuards)

TypeOK ==
    /\ policy \in [select : SUBSET Cpu, preempts : BOOLEAN]
    /\ rq \in [Cpu -> RunQueue]
    /\ cpu \in [Task -> Cpu \cup {NONE}]
    /\ on \in [Cpu -> Context]
    /\ previous \in [Cpu -> Task \cup {NONE}]
    /\ next \in [Cpu -> Task \cup {NONE}]
    /\ switched_to_cpu \in [Task -> BOOLEAN]
    /\ irq \in [Cpu -> BOOLEAN]
    /\ info \in [Cpu -> PreemptInfo]
    /\ ipi \in [Cpu -> BOOLEAN]
    /\ pc \in [Context -> Locations]
    /\ has_woken \in [Task -> BOOLEAN]
    /\ call \in [Cpu -> Calls \cup {NoCall}]
    /\ arc \in [Task -> Nat]

\* The FIFO scheduler of OSTD puts every task on the bootstrap processor and
\* never asks for preemption.  A scheduler that OSTD's user injects may do both:
\* the traits allow it.
Policies ==
    {[select |-> {Bsp}, preempts |-> FALSE], [select |-> Cpu, preempts |-> TRUE]}

Init ==
    /\ policy \in Policies
    /\ rq = [c \in Cpu |-> [current |-> NONE, queue |-> <<>>]]
    /\ cpu = [t \in Task |-> NONE]
    /\ on = [c \in Cpu |-> c]
    /\ previous = [c \in Cpu |-> NONE]
    /\ next = [c \in Cpu |-> NONE]
    /\ switched_to_cpu = [t \in Task |-> FALSE]
    /\ irq = [c \in Cpu |-> TRUE]
    /\ info = [c \in Cpu |-> NEED_PREEMPT_MASK]
    /\ ipi = [c \in Cpu |-> FALSE]
    /\ pc = [x \in Context |-> IF x \in Cpu THEN "run" ELSE "built"]
    /\ has_woken = [t \in Task |-> FALSE]
    /\ call = [c \in Cpu |-> NoCall]
    /\ arc = [t \in Task |-> 1]

-----------------------------------------------------------------------------
(* preempt/cpu_local.rs: the preemption word.  The low bits count guards, the *)
(* top bit is the negation of need_preempt. *)

need_preempt(w) == (w \div NEED_PREEMPT_MASK) % 2 = 0

should_preempt(w) == w = 0

get_guard_count(w) == w % NEED_PREEMPT_MASK

set_need_preempt(w) == get_guard_count(w)

clear_need_preempt(w) == get_guard_count(w) + NEED_PREEMPT_MASK

\* The lock of c's run queue, taken with interrupts off, is free.  Only park_current
\* holds it over more than one step.
Unlocked(c) == pc[on[c]] # "park_locked"

\* The context on CPU c is at one of the locations and can take a step.
At(c, locs) == pc[on[c]] \in locs /\ next[c] = NONE /\ call[c] = NoCall

\* DisabledPreemptGuard::new and drop, by the context on CPU c.
GuardNew(c) ==
    /\ At(c, {"run"})
    /\ on[c] \in Task
    /\ get_guard_count(info[c]) < MaxGuards
    /\ info' = [info EXCEPT ![c] = @ + 1]
    /\ UNCHANGED <<policy, rq, cpu, on, previous, next, switched_to_cpu, irq, ipi,
                   pc, has_woken, call, arc>>

GuardDrop(c) ==
    /\ At(c, {"run"})
    /\ get_guard_count(info[c]) > 0
    /\ info' = [info EXCEPT ![c] = @ - 1]
    /\ UNCHANGED <<policy, rq, cpu, on, previous, next, switched_to_cpu, irq, ipi,
                   pc, has_woken, call, arc>>

-----------------------------------------------------------------------------
(* scheduler/info.rs: AtomicCpuId, the cpu field of a task *)

\* Err(previous) leaves the field as it is.
set_if_is_none(t, c) == cpu' = [cpu EXCEPT ![t] = IF @ = NONE THEN c ELSE @]

set_to_none(t) == cpu' = [cpu EXCEPT ![t] = NONE]

-----------------------------------------------------------------------------
(* FifoRunQueue: what its methods make of a run queue r *)

try_pick_next(r) ==
    IF r.queue = <<>> THEN r
    ELSE [current |-> Head(r.queue),
          queue |-> IF r.current = NONE THEN Tail(r.queue)
                    ELSE Append(Tail(r.queue), r.current)]

dequeue_current(r) == [r EXCEPT !.current = NONE]

\* Wait, Yield and Exit: the current task is replaced if another is runnable.
update_current(r) == r.queue # <<>>

-----------------------------------------------------------------------------
(* reschedule: each operation makes a decision under the lock of the local run *)
(* queue, after clearing need_preempt.  A context in a location "switch_.." has *)
(* decided to switch to next[c]; the suffix is where it goes on once it runs again. *)

\* A context may reschedule outside atomic mode (might_sleep).
MaySleep(c) == get_guard_count(info[c]) = 0 /\ irq[c]

ClearNeedPreempt(c) == info' = [info EXCEPT ![c] = clear_need_preempt(@)]

\* ReschedAction::SwitchTo(next_task.clone()), with r the run queue after picking.
SwitchTo(c, r, back) ==
    /\ rq' = [rq EXCEPT ![c] = r]
    /\ next' = [next EXCEPT ![c] = r.current]
    /\ pc' = [pc EXCEPT ![on[c]] = back]

Keeps(c) == UNCHANGED <<policy, on, previous, switched_to_cpu, irq, ipi, has_woken, call>>

YieldNow(c) ==
    /\ At(c, {"run"})
    /\ MaySleep(c)
    /\ ClearNeedPreempt(c)
    /\ IF update_current(rq[c])
       THEN /\ SwitchTo(c, try_pick_next(rq[c]), "switch_run")
            /\ arc' = [arc EXCEPT ![try_pick_next(rq[c]).current] = @ + 1]
       ELSE UNCHANGED <<rq, next, pc, arc>>
    /\ UNCHANGED cpu
    /\ Keeps(c)

\* Waker::do_wait, its loop condition: has_woken.swap(false).
DoWait(c) ==
    LET t == on[c] IN
    /\ t \in Task
    /\ At(c, {"wait"}) \/ (At(c, {"run"}) /\ MaySleep(c))
    /\ has_woken' = [has_woken EXCEPT ![t] = FALSE]
    /\ pc' = [pc EXCEPT ![t] = IF has_woken[t] THEN "run" ELSE "park"]
    /\ UNCHANGED <<policy, rq, cpu, on, previous, next, switched_to_cpu, irq, info,
                   ipi, call, arc>>

\* Mutant: has_unparked is not asked.
ParkCheckSkipped(c) ==
    LET t == on[c] IN
    /\ At(c, {"park"})
    /\ ClearNeedPreempt(c)
    /\ pc' = [pc EXCEPT ![t] = "park_locked"]
    /\ UNCHANGED <<rq, cpu, next, arc>>
    /\ Keeps(c)

\* park_current, the first call of its closure: has_unparked, under the lock.  A
\* waker sets has_woken and looks at the task's cpu without that lock.
ParkCheck(c) ==
    LET t == on[c] IN
    /\ At(c, {"park"})
    /\ ClearNeedPreempt(c)
    /\ pc' = [pc EXCEPT ![t] = IF has_woken[t] THEN "wait" ELSE "park_locked"]
    /\ UNCHANGED <<rq, cpu, next, arc>>
    /\ Keeps(c)

\* ... update_current, dequeue_current and pick_next.  The Arc taken from the run
\* queue stays in park_current's variable `current`.
ParkDequeue(c) ==
    LET t == on[c]
        r == dequeue_current(rq[c]) IN
    /\ At(c, {"park_locked"})
    /\ set_to_none(t)
    /\ IF update_current(rq[c])
       THEN /\ SwitchTo(c, try_pick_next(r), "switch_wait")
            /\ arc' = [arc EXCEPT ![try_pick_next(r).current] = @ + 1]
       ELSE /\ rq' = [rq EXCEPT ![c] = r]
            /\ pc' = [pc EXCEPT ![t] = "park_retry"]
            /\ UNCHANGED <<next, arc>>
    /\ UNCHANGED info
    /\ Keeps(c)

\* park_current, every further call: the task itself may be the one picked.
ParkRetry(c) ==
    LET t == on[c]
        r == try_pick_next(rq[c]) IN
    /\ At(c, {"park_retry"})
    /\ update_current(rq[c])
    /\ IF r.current = t
       THEN /\ rq' = [rq EXCEPT ![c] = r]
            /\ pc' = [pc EXCEPT ![t] = "wait"]
            /\ arc' = [arc EXCEPT ![t] = @ - 1]
            /\ UNCHANGED next
       ELSE /\ SwitchTo(c, r, "switch_wait")
            /\ arc' = [arc EXCEPT ![r.current] = @ + 1]
    /\ UNCHANGED <<cpu, info>>
    /\ Keeps(c)

\* exit_current, at the end of kernel_task_entry; the run queue's Arc is dropped.
ExitFirst(c) ==
    LET t == on[c]
        r == dequeue_current(rq[c]) IN
    /\ t \in Task
    /\ At(c, {"run"})
    /\ MaySleep(c)
    /\ ClearNeedPreempt(c)
    /\ set_to_none(t)
    /\ IF update_current(rq[c])
       THEN /\ SwitchTo(c, try_pick_next(r), "switch_exit")
            /\ arc' = [[arc EXCEPT ![t] = @ - 1] EXCEPT ![try_pick_next(r).current] = @ + 1]
       ELSE /\ rq' = [rq EXCEPT ![c] = r]
            /\ pc' = [pc EXCEPT ![t] = "exit_retry"]
            /\ arc' = [arc EXCEPT ![t] = @ - 1]
            /\ UNCHANGED next
    /\ Keeps(c)

ExitRetry(c) ==
    LET r == try_pick_next(rq[c]) IN
    /\ At(c, {"exit_retry"})
    /\ update_current(rq[c])
    /\ SwitchTo(c, r, "switch_exit")
    /\ arc' = [arc EXCEPT ![r.current] = @ + 1]
    /\ UNCHANGED <<cpu, info>>
    /\ Keeps(c)

\* might_preempt, called before entering user space, after a spawn, and when a
\* halted CPU continues.
MightPreempt(c) ==
    LET r == try_pick_next(rq[c]) IN
    /\ At(c, {"run", "preempt_point"})
    /\ IF should_preempt(info[c])
       THEN /\ ClearNeedPreempt(c)
            /\ IF update_current(rq[c])
               THEN /\ SwitchTo(c, r, "switch_run")
                    /\ arc' = [arc EXCEPT ![r.current] = @ + 1]
               ELSE /\ pc' = [pc EXCEPT ![on[c]] = "run"]
                    /\ UNCHANGED <<rq, next, arc>>
       ELSE /\ pc' = [pc EXCEPT ![on[c]] = "run"]
            /\ UNCHANGED <<rq, next, info, arc>>
    /\ UNCHANGED cpu
    /\ Keeps(c)

-----------------------------------------------------------------------------
(* processor.rs: switch_to_task *)

\* might_sleep, and interrupts off.
SwitchBegin(c) ==
    /\ next[c] # NONE /\ call[c] = NoCall
    /\ MaySleep(c)
    /\ irq' = [irq EXCEPT ![c] = FALSE]
    /\ UNCHANGED <<policy, rq, cpu, on, previous, next, switched_to_cpu, info, ipi,
                   pc, has_woken, call, arc>>

\* Mutant: a task that runs in the foreground is only logged.
SwitchContextAnyway(c) ==
    /\ next[c] # NONE
    /\ ~irq[c]
    /\ switched_to_cpu' = [switched_to_cpu EXCEPT ![next[c]] = TRUE]
    /\ previous' = [previous EXCEPT ![c] = IF on[c] \in Task THEN on[c] ELSE NONE]
    /\ on' = [on EXCEPT ![c] = next[c]]
    /\ next' = [next EXCEPT ![c] = NONE]
    /\ UNCHANGED <<policy, rq, cpu, irq, info, ipi, pc, has_woken, call, arc>>

\* before_switching_to spins until it wins the flag of the next task; then the
\* CPU-local pointers and context_switch, which nobody else sees.
SwitchContext(c) ==
    /\ next[c] # NONE
    /\ ~irq[c]
    /\ ~switched_to_cpu[next[c]]
    /\ switched_to_cpu' = [switched_to_cpu EXCEPT ![next[c]] = TRUE]
    /\ previous' = [previous EXCEPT ![c] = IF on[c] \in Task THEN on[c] ELSE NONE]
    /\ on' = [on EXCEPT ![c] = next[c]]
    /\ next' = [next EXCEPT ![c] = NONE]
    /\ UNCHANGED <<policy, rq, cpu, irq, info, ipi, pc, has_woken, call, arc>>

\* after_switching_to, in the context that runs now: the previous task may run
\* elsewhere again, interrupts are enabled, its Arc is dropped.  A new task enters
\* kernel_task_entry; one that was parked returns from park_current, which drops
\* the Arc it took off the run queue; one that had exited would reach unreachable!().
AfterSwitchingTo(c) ==
    LET t == on[c] IN
    /\ ~irq[c]
    /\ At(c, {"new", "switch_run", "switch_wait", "switch_exit"})
    /\ previous' = [previous EXCEPT ![c] = NONE]
    /\ switched_to_cpu' = [u \in Task |-> switched_to_cpu[u] /\ u # previous[c]]
    /\ irq' = [irq EXCEPT ![c] = TRUE]
    /\ pc' = [pc EXCEPT ![t] = CASE pc[t] = "switch_wait" -> "wait"
                                 [] pc[t] = "switch_exit" -> "unreachable"
                                 [] OTHER -> "run"]
    /\ arc' = [u \in Task |->
                arc[u] - (IF u = previous[c] THEN 1 ELSE 0)
                       - (IF u = t /\ pc[t] = "switch_wait" THEN 1 ELSE 0)]
    /\ UNCHANGED <<policy, rq, cpu, on, next, info, ipi, has_woken, call>>

-----------------------------------------------------------------------------
(* Enqueueing: run_new_task and Waker::wake_up with unpark_target *)

\* An interrupt ends halt_cpu.
Interrupted(c) ==
    pc' = [pc EXCEPT ![on[c]] = IF @ = "halted" THEN "preempt_point" ELSE @]

\* Task::run on a task just built.
RunNewTask(c, t) ==
    /\ At(c, {"run"})
    /\ pc[t] = "built"
    /\ pc' = [pc EXCEPT ![t] = "new", ![on[c]] = "spawn"]
    /\ call' = [call EXCEPT ![c] = [target |-> t, flag |-> "Spawn", cpu |-> NONE,
                                    still_in_rq |-> FALSE]]
    /\ UNCHANGED <<policy, rq, cpu, on, previous, next, switched_to_cpu, irq, info,
                   ipi, has_woken, arc>>

\* A task with a Waiter; a task that exits has dropped its own, which closes it.
MayWait(t) ==
    pc[t] \in {"run", "wait", "park", "park_locked", "park_retry", "switch_run", "switch_wait",
               "halting", "halted", "preempt_point", "spawn"}

\* wake_up by code or by an interrupt handler on CPU c: has_woken.swap(true), and
\* enqueue with a clone of the Arc if it was false.
WakeUp(c, t) ==
    /\ irq[c] /\ Unlocked(c)
    /\ call[c] = NoCall
    /\ MayWait(t)
    /\ ~has_woken[t]
    /\ has_woken' = [has_woken EXCEPT ![t] = TRUE]
    /\ call' = [call EXCEPT ![c] = [target |-> t, flag |-> "Wake", cpu |-> NONE,
                                    still_in_rq |-> FALSE]]
    /\ arc' = [arc EXCEPT ![t] = @ + 1]
    /\ Interrupted(c)
    /\ UNCHANGED <<policy, rq, cpu, on, previous, next, switched_to_cpu, irq, info, ipi>>

\* FifoScheduler::enqueue before it takes a lock: set_if_is_none(select_cpu()).
EnqueueSelect(c) ==
    /\ call[c] # NoCall
    /\ call[c].cpu = NONE
    /\ LET t == call[c].target IN
       \E s \in policy.select :
          /\ set_if_is_none(t, s)
          /\ call' = [call EXCEPT ![c] =
                        [target |-> t, flag |-> @.flag, cpu |-> IF cpu[t] = NONE THEN s ELSE cpu[t],
                         still_in_rq |-> cpu[t] # NONE]]
    /\ UNCHANGED <<policy, rq, on, previous, next, switched_to_cpu, irq, info, ipi, pc,
                   has_woken, arc>>

\* set_need_preempt(target) called on CPU c: at once, or by an inter-processor call.
SetNeedPreempt(c, target) ==
    IF c = target
    THEN info' = [info EXCEPT ![c] = set_need_preempt(@)] /\ UNCHANGED ipi
    ELSE ipi' = [ipi EXCEPT ![target] = TRUE] /\ UNCHANGED info

\* The end of the call; run_new_task goes on to might_preempt.
CallReturns(c) ==
    /\ call' = [call EXCEPT ![c] = NoCall]
    /\ pc' = [pc EXCEPT ![on[c]] = IF call[c].flag = "Spawn" THEN "preempt_point" ELSE @]

\* Mutant: a task that still has a CPU is taken to be runnable without the lock.
EnqueuePushStale(c) ==
    LET t == call[c].target
        target == call[c].cpu IN
    /\ call[c] # NoCall
    /\ target # NONE
    /\ Unlocked(target)
    /\ IF call[c].still_in_rq
       THEN /\ arc' = [arc EXCEPT ![t] = @ - 1]
            /\ UNCHANGED <<rq, cpu, info, ipi>>
       ELSE /\ set_if_is_none(t, target)
            /\ rq' = [rq EXCEPT ![target].queue = Append(@, t)]
            /\ \/ policy.preempts /\ SetNeedPreempt(c, target)
               \/ UNCHANGED <<info, ipi>>
            /\ UNCHANGED arc
    /\ CallReturns(c)
    /\ UNCHANGED <<policy, on, previous, next, switched_to_cpu, irq, has_woken>>

\* ... and under the lock of the target's run queue: a task that had a CPU is
\* looked at again, and left alone if it still has one.
EnqueuePush(c) ==
    LET t == call[c].target
        target == call[c].cpu IN
    /\ call[c] # NoCall
    /\ target # NONE
    /\ Unlocked(target)
    /\ IF call[c].still_in_rq /\ cpu[t] # NONE
       THEN /\ arc' = [arc EXCEPT ![t] = @ - 1]
            /\ UNCHANGED <<rq, cpu, info, ipi>>
       ELSE /\ set_if_is_none(t, target)
            /\ rq' = [rq EXCEPT ![target].queue = Append(@, t)]
            /\ \/ policy.preempts /\ SetNeedPreempt(c, target)
               \/ UNCHANGED <<info, ipi>>
            /\ UNCHANGED arc
    /\ CallReturns(c)
    /\ UNCHANGED <<policy, on, previous, next, switched_to_cpu, irq, has_woken>>

-----------------------------------------------------------------------------
(* Interrupts and halting *)

\* The timer callback: update_current(Tick), which FIFO answers with false.
Tick(c) ==
    /\ irq[c] /\ Unlocked(c)
    /\ call[c] = NoCall
    /\ policy.preempts
    /\ rq[c].queue # <<>>
    /\ info' = [info EXCEPT ![c] = set_need_preempt(@)]
    /\ Interrupted(c)
    /\ UNCHANGED <<policy, rq, cpu, on, previous, next, switched_to_cpu, irq, ipi,
                   has_woken, call, arc>>

\* do_inter_processor_call runs the queued closure.
Ipi(c) ==
    /\ irq[c] /\ Unlocked(c)
    /\ call[c] = NoCall
    /\ ipi[c]
    /\ ipi' = [ipi EXCEPT ![c] = FALSE]
    /\ info' = [info EXCEPT ![c] = set_need_preempt(@)]
    /\ Interrupted(c)
    /\ UNCHANGED <<policy, rq, cpu, on, previous, next, switched_to_cpu, irq, has_woken,
                   call, arc>>

\* halt_cpu: might_sleep, interrupts off; return to a preemption point if
\* preemption is wanted already ...
HaltCpu(c) ==
    /\ At(c, {"run"})
    /\ on[c] \in Task
    /\ MaySleep(c)
    /\ IF need_preempt(info[c])
       THEN pc' = [pc EXCEPT ![on[c]] = "preempt_point"] /\ UNCHANGED irq
       ELSE /\ pc' = [pc EXCEPT ![on[c]] = "halting"]
            /\ irq' = [irq EXCEPT ![c] = FALSE]
    /\ UNCHANGED <<policy, rq, cpu, on, previous, next, switched_to_cpu, info, ipi,
                   has_woken, call, arc>>

\* ... else enable_local_and_halt, which lets no interrupt in before the halt.
EnableLocalAndHalt(c) ==
    /\ At(c, {"halting"})
    /\ irq' = [irq EXCEPT ![c] = TRUE]
    /\ pc' = [pc EXCEPT ![on[c]] = "halted"]
    /\ UNCHANGED <<policy, rq, cpu, on, previous, next, switched_to_cpu, info, ipi,
                   has_woken, call, arc>>

-----------------------------------------------------------------------------
(* Specification *)

\* What a CPU does on its own once it is in the middle of it.
Proceed(c) ==
    \/ DoWait(c) /\ pc[on[c]] = "wait"
    \/ ParkCheck(c)
    \/ ParkDequeue(c)
    \/ ParkRetry(c)
    \/ ExitRetry(c)
    \/ SwitchBegin(c)
    \/ SwitchContext(c)
    \/ AfterSwitchingTo(c)
    \/ EnqueueSelect(c)
    \/ EnqueuePush(c)
    \/ EnableLocalAndHalt(c)

\* A panic ends everything.
Panicked == \E t \in Task : pc[t] = "unreachable"

Next ==
    /\ ~Panicked
    /\ \E c \in Cpu :
         \/ Proceed(c)
         \/ DoWait(c)
         \/ GuardNew(c)
         \/ GuardDrop(c)
         \/ YieldNow(c)
         \/ ExitFirst(c)
         \/ MightPreempt(c)
         \/ HaltCpu(c)
         \/ Tick(c)
         \/ Ipi(c)
         \/ \E t \in Task : RunNewTask(c, t) \/ WakeUp(c, t)

\* Processors do not stop in the middle of kernel code.
Spec == Init /\ [][Next]_vars /\ \A c \in Cpu : WF_vars(~Panicked /\ Proceed(c))

-----------------------------------------------------------------------------
(* Properties *)

\* "A task must not be scheduled to run on more than one CPU at a time": no two
\* CPUs execute a task or are still saving its context, whatever the scheduler
\* decides (switch_to_task, before_switching_to, after_switching_to).
OneCpuPerTask ==
    \A t \in Task : Cardinality({c \in Cpu : t \in {on[c], previous[c]}}) <= 1

InQueue(t, c) == {i \in DOMAIN rq[c].queue : rq[c].queue[i] = t}

\* A runnable task is in one run queue, once, and its cpu field names that CPU; a
\* task that is in no run queue has no CPU, unless an enqueue has just claimed it
\* (enqueue, dequeue_current, try_pick_next).
QueuedOnce ==
    \A t \in Task :
        LET places == {p \in Cpu \X (0 .. Cardinality(Task)) :
                          IF p[2] = 0 THEN rq[p[1]].current = t ELSE p[2] \in InQueue(t, p[1])}
            claims == {c \in Cpu : /\ call[c] # NoCall
                                   /\ call[c].target = t
                                   /\ call[c].cpu # NONE
                                   /\ ~call[c].still_in_rq} IN
        /\ Cardinality(places) + Cardinality(claims) = (IF cpu[t] = NONE THEN 0 ELSE 1)
        /\ \A p \in places : p[1] = cpu[t]

\* A wake-up is not lost: a task that has been taken off its run queue and whose
\* Waker has been woken since is back in a run queue, about to be put there, or
\* already running on (park_current racing with enqueue).
NoLostWakeup ==
    \A t \in Task :
        (has_woken[t] /\ pc[t] \in {"park_retry", "switch_wait"} /\ cpu[t] = NONE)
            => \E c \in Cpu : call[c] # NoCall /\ call[c].target = t

\* The strong count of a task's Arc is the number of places that hold one: run
\* queues, current and previous pointers, pending switches, park_current's
\* variable, calls of enqueue.  In particular a task that runs is not freed, and one
\* that has exited and was switched away from is.
ArcAccounts ==
    \A t \in Task :
        arc[t] = Cardinality({c \in Cpu : rq[c].current = t})
               + Cardinality(UNION {{<<c, i>> : i \in InQueue(t, c)} : c \in Cpu})
               + Cardinality({c \in Cpu : on[c] = t}) + Cardinality({c \in Cpu : previous[c] = t})
               + Cardinality({c \in Cpu : next[c] = t})
               + (IF pc[t] \in {"park_retry", "switch_wait"} THEN 1 ELSE 0)
               + Cardinality({c \in Cpu : call[c] # NoCall /\ call[c].target = t})
               + (IF pc[t] = "built" THEN 1 ELSE 0)

\* Every task is where its fields say, once, and is kept alive by who needs it
\* (enqueue, switch_to_task, the run queues).
TasksAccounted == OneCpuPerTask /\ QueuedOnce /\ ArcAccounts

\* A CPU that sleeps in halt_cpu has not been asked to preempt: the request would
\* be overlooked until the next interrupt (halt_cpu, set_need_preempt).
HaltedWithoutRequest ==
    \A c \in Cpu : pc[on[c]] = "halted" /\ call[c] = NoCall => ~need_preempt(info[c])

\* Nothing that asks for a CPU is overlooked: no wake-up (park_current racing
\* with enqueue), no request to preempt (halt_cpu racing with an interrupt).
NoRequestLost == NoLostWakeup /\ HaltedWithoutRequest

\* "the task is exiting and will never be enqueued again" (the documentation of
\* LocalRunQueue on exit_current): a wake_up that has set has_woken before the
\* task saw it may reach enqueue only after the task has exited.
ExitedNotEnqueued ==
    \A t \in Task : pc[t] \in {"exit_retry", "switch_exit"} =>
        \A c \in Cpu : rq[c].current # t /\ InQueue(t, c) = {}

\* With the FIFO scheduler, a woken task whose CPU has nothing else to run leaves
\* the retry loop of park_current.
IdleTaskWakes ==
    []<>(policy.select = {Bsp} =>
            Panicked \/ \A t \in Task : ~(has_woken[t] /\ pc[t] = "park_retry"))
=============================================================================

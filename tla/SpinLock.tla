------------------------------ MODULE SpinLock ------------------------------
(***************************************************************************)
(* The spin lock (sync/spin.rs) and its guardians (sync/guard.rs): on      *)
(* every CPU tasks that are switched when preemption is enabled, and an    *)
(* interrupt handler that runs on top of them when interrupts are enabled. *)
(* Handlers use the lock only when its guardian disables interrupts        *)
(* (LocalIrqDisabled, or disable_irq of a PreemptDisabled lock).           *)
(***************************************************************************)
EXTENDS Integers, FiniteSets

CONSTANTS
    SpinCpu,
    SpinTask        \* the tasks of a CPU

Contexts == SpinCpu \X (SpinTask \cup {"handler"})

VARIABLES
    guardian,       \* the SpinGuardian of the lock
    sp_lock,        \* SpinLockInner.lock
    sp_at,          \* where each context is in lock, try_lock or the critical section
    sp_cur,         \* the current task of each CPU
    sp_handling,    \* the CPUs on which the handler runs on top of the task
    sp_irq,         \* the CPUs with interrupts enabled
    sp_was,         \* the contexts whose DisabledLocalIrqGuard enables them again
    sp_preempt      \* preemption counter of each CPU

spinVars == <<guardian, sp_lock, sp_at, sp_cur, sp_handling, sp_irq, sp_was, sp_preempt>>

SpinInit ==
    /\ guardian \in {"PreemptDisabled", "LocalIrqDisabled", "WriteIrqDisabled"}
    /\ sp_lock = FALSE
    /\ sp_at = [x \in Contexts |-> "out"]
    /\ sp_cur = [c \in SpinCpu |-> CHOOSE t \in SpinTask : TRUE]
    /\ sp_handling = {}
    /\ sp_irq = SpinCpu
    /\ sp_was = {}
    /\ sp_preempt = [c \in SpinCpu |-> 0]

Running(c) == <<c, IF c \in sp_handling THEN "handler" ELSE sp_cur[c]>>
Uses(x) == x[2] = "handler" => guardian # "PreemptDisabled"
GoTo(x, place) == sp_at' = [sp_at EXCEPT ![x] = place]

-----------------------------------------------------------------------------
(* G::guard, the first thing lock and try_lock do. *)
disable_local(x) ==
    /\ sp_irq' = sp_irq \ {x[1]}
    /\ sp_was' = IF x[1] \in sp_irq THEN sp_was \cup {x} ELSE sp_was \ {x}
    /\ UNCHANGED sp_preempt
disable_preempt(x) ==
    /\ sp_preempt' = [sp_preempt EXCEPT ![x[1]] = @ + 1]
    /\ UNCHANGED <<sp_irq, sp_was>>
guard(x) == IF guardian = "PreemptDisabled" THEN disable_preempt(x) ELSE disable_local(x)
GuardDropped(x) ==
    /\ IF guardian = "PreemptDisabled"
       THEN sp_preempt' = [sp_preempt EXCEPT ![x[1]] = @ - 1] /\ UNCHANGED sp_irq
       ELSE /\ sp_irq' = IF x \in sp_was THEN sp_irq \cup {x[1]} ELSE sp_irq \ {x[1]}
            /\ UNCHANGED sp_preempt
    /\ UNCHANGED sp_was

(* The guard comes after the lock word. *)
lockGuardLate(x) ==
    /\ sp_at[x] = "out" /\ Uses(x)
    /\ GoTo(x, "lock")
    /\ UNCHANGED <<guardian, sp_lock, sp_cur, sp_handling, sp_irq, sp_was, sp_preempt>>

lock(x) ==
    /\ sp_at[x] = "out" /\ Uses(x)
    /\ guard(x)
    /\ GoTo(x, "lock")
    /\ UNCHANGED <<guardian, sp_lock, sp_cur, sp_handling>>

try_lock(x) ==
    /\ sp_at[x] = "out" /\ Uses(x)
    /\ guard(x)
    /\ GoTo(x, "try")
    /\ UNCHANGED <<guardian, sp_lock, sp_cur, sp_handling>>

(* try_acquire_lock, a compare-exchange; acquire_lock repeats it until it   *)
(* succeeds, try_lock gives up.                                             *)
acquire_lock(x) ==
    /\ sp_at[x] = "lock"
    /\ ~ sp_lock
    /\ sp_lock' = TRUE
    /\ GoTo(x, "in")
    /\ UNCHANGED <<guardian, sp_cur, sp_handling, sp_irq, sp_was, sp_preempt>>

try_acquire_lock(x) ==
    /\ sp_at[x] = "try"
    /\ GoTo(x, IF sp_lock THEN "unguard" ELSE "in")
    /\ sp_lock' = TRUE
    /\ UNCHANGED <<guardian, sp_cur, sp_handling, sp_irq, sp_was, sp_preempt>>

(* SpinLockGuard::drop: the word first, then the field guard. *)
release_lock(x) ==
    /\ sp_at[x] = "in"
    /\ sp_lock' = FALSE
    /\ GoTo(x, "unguard")
    /\ UNCHANGED <<guardian, sp_cur, sp_handling, sp_irq, sp_was, sp_preempt>>

DropSpinGuard(x) ==
    /\ sp_at[x] = "unguard"
    /\ GuardDropped(x)
    /\ GoTo(x, "out")
    /\ UNCHANGED <<guardian, sp_lock, sp_cur, sp_handling>>

-----------------------------------------------------------------------------
(* The rest of the CPU: interrupts and the scheduler. *)
Interrupt(c) ==
    /\ c \in sp_irq /\ c \notin sp_handling
    /\ sp_handling' = sp_handling \cup {c}
    /\ sp_irq' = sp_irq \ {c}
    /\ UNCHANGED <<guardian, sp_lock, sp_at, sp_cur, sp_was, sp_preempt>>

InterruptReturns(c) ==
    /\ c \in sp_handling
    /\ sp_at[<<c, "handler">>] = "out"
    /\ sp_handling' = sp_handling \ {c}
    /\ sp_irq' = sp_irq \cup {c}
    /\ UNCHANGED <<guardian, sp_lock, sp_at, sp_cur, sp_was, sp_preempt>>

Preempt(c, t) ==
    /\ c \notin sp_handling
    /\ c \in sp_irq /\ sp_preempt[c] = 0
    /\ t # sp_cur[c]
    /\ sp_cur' = [sp_cur EXCEPT ![c] = t]
    /\ UNCHANGED <<guardian, sp_lock, sp_at, sp_handling, sp_irq, sp_was, sp_preempt>>

SpinNext ==
    \E c \in SpinCpu :
       \/ LET x == Running(c) IN
          \/ lock(x) \/ try_lock(x) \/ acquire_lock(x) \/ try_acquire_lock(x)
          \/ release_lock(x) \/ DropSpinGuard(x)
       \/ Interrupt(c) \/ InterruptReturns(c)
       \/ \E t \in SpinTask : Preempt(c, t)

SpinSpec == SpinInit /\ [][SpinNext]_spinVars

-----------------------------------------------------------------------------
(* A spinning context spins only for a while: the holder of the lock is     *)
(* never suspended below it on the same CPU, by the scheduler or by an      *)
(* interrupt, whoever tries, fails and releases in between; at most one     *)
(* context is in the critical section; and when no context of a CPU is near *)
(* the lock, its interrupts and preemption are enabled again.               *)
SpinsEnd ==
    /\ \A c \in SpinCpu : \A t \in SpinTask :
          sp_at[<<c, t>>] = "in" /\ Running(c) # <<c, t>> => sp_at[Running(c)] # "lock"
    /\ Cardinality({x \in Contexts : sp_at[x] = "in"}) = IF sp_lock THEN 1 ELSE 0
    /\ \A c \in SpinCpu :
          (\A t \in SpinTask : sp_at[<<c, t>>] = "out") /\ c \notin sp_handling =>
             c \in sp_irq /\ sp_preempt[c] = 0
=============================================================================

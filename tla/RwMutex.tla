------------------------------- MODULE RwMutex -------------------------------
(***************************************************************************)
(* sync/rwmutex.rs: the sleeping readers-writer lock.  It has the lock word *)
(* of RwLock, but read, write and upread are wait_until on the try_ methods,*)
(* and guards wake sleepers as they go: the last reader wakes one, a writer *)
(* or a lone upreader all.                                                  *)
(***************************************************************************)
EXTENDS RwWord, WaitQueue, TLC

CONSTANT Workloads  \* sets of calls threads may make: "block" (read, ...), "try" (try_read, ...)

\* no_max_reader_overflow: the reader field never overflows.
ASSUME RwMutexAssumption ==
    /\ IsFiniteSet(Thread) /\ Cardinality(Thread) < 2 * MAX_READER
    /\ Workloads \subseteq SUBSET {"block", "try"}

VARIABLES
    lock,       \* the atomic word
    call,       \* the mode the thread's running call acquires or gives up
    kind,       \* whether that call sleeps
    workload    \* the kinds of call this program makes

vars == <<lock, call, kind, workload, pc, wqVars>>

Calls == {"read", "write", "upread"}

GuardOf == [read |-> "reading", write |-> "writing", upread |-> "upreading"]

\* Where a thread is between two calls.
Resting == {"idle", "reading", "upreading", "writing"}

Init ==
    /\ lock = 0
    /\ call = [t \in Thread |-> "none"]
    /\ kind = [t \in Thread |-> "try"]
    /\ workload \in Workloads
    /\ pc = [t \in Thread |-> "idle"]
    /\ wqInit

-----------------------------------------------------------------------------
\* read/write/upread ("block") or try_read/try_write/try_upread ("try").
Call(t, c, k) ==
    /\ pc[t] = "idle"
    /\ call' = [call EXCEPT ![t] = c]
    /\ kind' = [kind EXCEPT ![t] = k]
    /\ Goto(t, "attempt")
    /\ UNCHANGED <<lock, workload, wqVars>>

\* The arguments of a call live until it returns.
KeepArguments(t) ==
    /\ IF pc'[t] \in Resting
       THEN call' = [call EXCEPT ![t] = "none"] /\ kind' = [kind EXCEPT ![t] = "try"]
       ELSE UNCHANGED <<call, kind>>
    /\ UNCHANGED workload

\* try_* is evaluated by itself, as the first test of wait_until or as the test
\* after enqueue.
Attempting(t, c) == pc[t] \in {"attempt", "recheck"} /\ call[t] = c

\* try_* returns a guard; wait_until then drops its waiter if it has one.
Succeed(t) ==
    /\ Goto(t, IF waiter[t] = NoWaker THEN GuardOf[call[t]] ELSE "close")
    /\ UNCHANGED wqVars

\* try_* returns None: to wait_until with or without a waiter, or to the caller.
Fail(t) ==
    \/ /\ waiter[t] # NoWaker
       /\ Goto(t, "wait")
       /\ UNCHANGED wqVars
    \/ /\ waiter[t] = NoWaker /\ kind[t] = "block"
       /\ NewPair(t)
       /\ Goto(t, "enqueue")
       /\ UNCHANGED <<wakers, num_wakers, wq_lock, popped, parked>>
    \/ /\ waiter[t] = NoWaker /\ kind[t] = "try"
       /\ Goto(t, "idle")
       /\ UNCHANGED wqVars

\* try_read: fetch_add first, look at the previous value second.
TryRead(t) ==
    /\ Attempting(t, "read")
    /\ lock' = FetchAdd(lock, READER)
    /\ IF AdmitsReader(lock) THEN Succeed(t) ELSE Goto(t, "read_retract") /\ UNCHANGED wqVars
    /\ KeepArguments(t)

RetractRead(t) ==
    /\ pc[t] = "read_retract"
    /\ lock' = FetchSub(lock, READER)
    /\ Fail(t)
    /\ KeepArguments(t)

\* try_write: compare_exchange(0, WRITER).
TryWrite(t) ==
    /\ Attempting(t, "write")
    /\ IF lock = 0 THEN lock' = WRITER /\ Succeed(t) ELSE UNCHANGED lock /\ Fail(t)
    /\ KeepArguments(t)

\* try_upread: the attempt that set the bit under a writer must clear it.
TryUpread(t) ==
    /\ Attempting(t, "upread")
    /\ lock' = FetchOrUpreader(lock)
    /\ IF HasUpreader(lock) THEN Fail(t)
       ELSE IF HasWriter(lock) THEN Goto(t, "upread_retract") /\ UNCHANGED wqVars
       ELSE Succeed(t)
    /\ KeepArguments(t)

RetractUpread(t) ==
    /\ pc[t] = "upread_retract"
    /\ lock' = FetchSub(lock, UPGRADEABLE_READER)
    /\ Fail(t)
    /\ KeepArguments(t)

-----------------------------------------------------------------------------
\* Mutant: the previous value is taken for the new one.
DropReadTestingZero(t) ==
    /\ pc[t] = "reading"
    /\ lock' = FetchSub(lock, READER)
    /\ Goto(t, IF lock = 0 THEN "is_empty" ELSE "idle")
    /\ call' = [call EXCEPT ![t] = IF lock = 0 THEN "read" ELSE "none"]
    /\ UNCHANGED <<kind, workload, wqVars>>

\* RwMutexReadGuard::drop: the last one out of an otherwise unused mutex calls
\* wake_one.
DropRead(t) ==
    /\ pc[t] = "reading"
    /\ lock' = FetchSub(lock, READER)
    /\ Goto(t, IF lock = READER THEN "is_empty" ELSE "idle")
    /\ call' = [call EXCEPT ![t] = IF lock = READER THEN "read" ELSE "none"]
    /\ UNCHANGED <<kind, workload, wqVars>>

\* RwMutexWriteGuard::drop: wake_all.
DropWrite(t) ==
    /\ pc[t] = "writing"
    /\ lock' = FetchAndNotWriter(lock)
    /\ call' = [call EXCEPT ![t] = "write"]
    /\ Goto(t, "is_empty")
    /\ UNCHANGED <<kind, workload, wqVars>>

\* RwMutexUpgradeableGuard::drop: wake_all if nothing else was in the word.
DropUpread(t) ==
    /\ pc[t] = "upreading"
    /\ lock' = FetchSub(lock, UPGRADEABLE_READER)
    /\ call' = [call EXCEPT ![t] = IF lock = UPGRADEABLE_READER THEN "upread" ELSE "none"]
    /\ Goto(t, IF lock = UPGRADEABLE_READER THEN "is_empty" ELSE "idle")
    /\ UNCHANGED <<kind, workload, wqVars>>

\* upgrade: fetch_or(BEING_UPGRADED), then spin on try_upgrade.
Upgrade(t) ==
    /\ pc[t] = "upreading"
    /\ lock' = FetchOrUpgrading(lock)
    /\ Goto(t, "upgrading")
    /\ UNCHANGED <<call, kind, workload, wqVars>>

TryUpgrade(t) ==
    /\ pc[t] = "upgrading"
    /\ IF lock = UPGRADEABLE_READER + BEING_UPGRADED
       THEN lock' = WRITER + UPGRADEABLE_READER /\ Goto(t, "upgrade_retract")
       ELSE UNCHANGED <<lock, pc>>
    /\ UNCHANGED <<call, kind, workload, wqVars>>

RetractUpgrade(t) ==
    /\ pc[t] = "upgrade_retract"
    /\ lock' = FetchSub(lock, UPGRADEABLE_READER)
    /\ Goto(t, "writing")
    /\ UNCHANGED <<call, kind, workload, wqVars>>

\* downgrade: compare_exchange(WRITER, UPGRADEABLE_READER) until it succeeds ...
TryDowngrade(t) ==
    /\ pc[t] = "writing"
    /\ lock = WRITER
    /\ lock' = UPGRADEABLE_READER
    /\ call' = [call EXCEPT ![t] = "downgrade"]
    /\ Goto(t, "downgrade")
    /\ UNCHANGED <<kind, workload, wqVars>>

\* ... then the write guard goes: fetch_and(!WRITER) and wake_all.
FinishDowngrade(t) ==
    /\ pc[t] = "downgrade"
    /\ lock' = FetchAndNotWriter(lock)
    /\ Goto(t, "is_empty")
    /\ UNCHANGED <<call, kind, workload, wqVars>>

-----------------------------------------------------------------------------
QueueStep(t) ==
    /\ \/ WaitStep(t, GuardOf[call[t]])
       \/ WakeStep(t, call[t] # "read", IF call[t] = "downgrade" THEN "upreading" ELSE "idle")
    /\ UNCHANGED lock
    /\ KeepArguments(t)

Attempt(t) == TryRead(t) \/ TryWrite(t) \/ TryUpread(t) \/ TryUpgrade(t)

Retract(t) == RetractRead(t) \/ RetractUpread(t) \/ RetractUpgrade(t) \/ FinishDowngrade(t)

Drop(t) == DropRead(t) \/ DropWrite(t) \/ DropUpread(t)

Next ==
    \E t \in Thread :
        \/ \E c \in Calls, k \in workload : Call(t, c, k)
        \/ Attempt(t)
        \/ Retract(t)
        \/ Drop(t)
        \/ Upgrade(t)
        \/ TryDowngrade(t)
        \/ QueueStep(t)

Spec == Init /\ [][Next]_vars

-----------------------------------------------------------------------------
\* The mode a thread holds the mutex in.
ModeOf(t) ==
    CASE pc[t] = "close" -> call[t]
      [] pc[t] = "reading" -> "read"
      [] pc[t] \in {"upreading", "downgrade"} -> "upread"
      [] pc[t] \in WakeLocations /\ call[t] = "downgrade" -> "upread"
      [] pc[t] = "upgrading" -> "upgrading"
      [] pc[t] \in {"upgrade_retract", "writing"} -> "write"
      [] OTHER -> "none"

InMode(modes) == {t \in Thread : ModeOf(t) \in modes}

\* The threads that owe the word the UPGRADEABLE_READER bit.
UpreaderBitOwners == InMode({"upread", "upgrading"}) \cup At({"upgrade_retract", "upread_retract"})

\* What the threads of S together contribute when they own one bit of the word.
Bit(S, bit) == IF S = {} THEN 0 ELSE bit

\* The word is at all times the sum of what guards and failed attempts have put
\* into it (the atomic invariant of RwMutex), through upgrades and downgrades.
WordAccounts ==
    /\ \A s, t \in UpreaderBitOwners : s = t
    /\ \A s, t \in InMode({"write"}) : s = t
    /\ lock = Bit(InMode({"write"}), WRITER)
              + Bit(UpreaderBitOwners, UPGRADEABLE_READER)
              + Bit(InMode({"upgrading"}), BEING_UPGRADED)
              + Cardinality(InMode({"read"}) \cup At({"read_retract"}))

Abstract == INSTANCE AbstractRwLock WITH holding <- [t \in Thread |-> ModeOf(t)]

\* The mutex implements the abstract readers-writer lock, downgrade included:
\* it is atomic although WRITER is cleared twice and sleepers are woken late.
ImplementsAbstract == Abstract!Spec

\* Nobody holds a guard or is inside one of the mutex's operations, other than
\* asleep.
Settled == \A t \in Thread : t \in parked \/ pc[t] = "idle"

\* "The calling thread will sleep until there are no writers, upreaders, or
\* readers present": when nobody holds the mutex or is about to, nobody sleeps.
NoSleeperOnFreeMutex == Settled => parked = {}

\* ... which is what a program gets that only makes the sleeping calls, whatever
\* the order of the releases and of the wake-ups.
NoSleeperIfAllBlock == workload = {"block"} => NoSleeperOnFreeMutex

\* Threads are interchangeable.
Symmetry == Permutations(Thread)
=============================================================================

-------------------------------- MODULE Mutex --------------------------------
(***************************************************************************)
(* sync/mutex.rs: the sleeping mutex, on top of WaitQueue.  lock is         *)
(* wait_until(try_lock); dropping the guard stores false and wakes one      *)
(* waiter, so a thread that comes by in between takes the mutex first.      *)
(***************************************************************************)
EXTENDS WaitQueue

VARIABLE locked

mutexVars == <<locked, pc, wqVars>>

Locations ==
    {"idle", "lock", "try_lock", "locked"} \cup WaitLocations \cup WakeLocations

TypeOK ==
    /\ locked \in BOOLEAN
    /\ pc \in [Thread -> Locations]
    /\ wqTypeOK

MutexInit ==
    /\ locked = FALSE
    /\ pc = [t \in Thread |-> "idle"]
    /\ wqInit

\* lock or try_lock is called.
CallLock(t, call) ==
    /\ pc[t] = "idle"
    /\ Goto(t, call)
    /\ UNCHANGED <<locked, wqVars>>

\* acquire_lock: compare_exchange(false, true), going to ok or else to no.
AcquireLock(t, ok, no) ==
    /\ locked' = TRUE
    /\ Goto(t, IF locked THEN no ELSE ok)

\* Mutant: acquire_lock().then_some(guard), whose unused guard unlocks the mutex.
TryLockThenSome(t) ==
    /\ pc[t] = "try_lock"
    /\ locked' = ~locked
    /\ Goto(t, IF locked THEN "is_empty" ELSE "locked")
    /\ UNCHANGED wqVars

\* try_lock returns the guard or None.
TryLock(t) ==
    /\ pc[t] = "try_lock"
    /\ AcquireLock(t, "locked", "idle")
    /\ UNCHANGED wqVars

\* lock, that is wait_until: the condition is tried first without a waiter, ...
FirstTry(t) ==
    /\ pc[t] = "lock"
    /\ AcquireLock(t, "locked", "enqueue")
    /\ IF locked THEN NewPair(t) ELSE UNCHANGED <<has_woken, waiter>>
    /\ UNCHANGED <<wakers, num_wakers, wq_lock, popped, parked>>

\* Mutant: the condition is not tried again after enqueue.
RecheckSkipped(t) ==
    /\ pc[t] = "recheck"
    /\ Goto(t, "wait")
    /\ UNCHANGED <<locked, wqVars>>

\* ... then again each time the waker has been enqueued.
Recheck(t) ==
    /\ pc[t] = "recheck"
    /\ AcquireLock(t, "close", "wait")
    /\ UNCHANGED wqVars

\* Mutant: unlock wakes nobody.
UnlockWithoutWake(t) ==
    /\ pc[t] = "locked"
    /\ locked' = FALSE
    /\ Goto(t, "idle")
    /\ UNCHANGED wqVars

\* MutexGuard::drop: release_lock, then queue.wake_one().
Unlock(t) ==
    /\ pc[t] = "locked"
    /\ locked' = FALSE
    /\ Goto(t, "is_empty")
    /\ UNCHANGED wqVars

MutexQueueStep(t) ==
    /\ WaitStep(t, "locked") \/ WakeStep(t, FALSE, "idle")
    /\ UNCHANGED locked

Step(t) == TryLock(t) \/ FirstTry(t) \/ Recheck(t) \/ Unlock(t) \/ MutexQueueStep(t)

MutexNext == \E t \in Thread : CallLock(t, "lock") \/ CallLock(t, "try_lock") \/ Step(t)

\* The scheduler keeps running every thread that is not parked, and a guard is
\* dropped in the end; nobody has to lock the mutex.
Fairness == \A t \in Thread : WF_mutexVars(Step(t))

MutexSpec == MutexInit /\ [][MutexNext]_mutexVars /\ Fairness

-----------------------------------------------------------------------------
Holders == At({"locked", "close"})

\* At most one thread has a guard, and the flag is set exactly while one has
\* (the atomic invariant of Mutex): also while the waiter of a thread that got
\* the mutex is still to be dropped and others are woken.
MutualExclusion ==
    /\ \A s, t \in Holders : s = t
    /\ locked <=> Holders # {}

\* No wake-up is lost: once the mutex is free and every thread is either outside
\* its operations or asleep, nobody is asleep.
NoSleeperWhenUnlocked ==
    (~locked /\ \A t \in Thread : pc[t] = "idle" \/ t \in parked) => parked = {}

\* Once no more calls are made every thread inside lock gets the mutex, drops it
\* and returns: the wake-ups handed on by unlock reach all sleepers.
EveryLockReturns ==
    <>[][\A t \in Thread : ~CallLock(t, "lock") /\ ~CallLock(t, "try_lock")]_mutexVars =>
        <>[](\A t \in Thread : pc[t] = "idle")
=============================================================================

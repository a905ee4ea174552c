------------------------------ MODULE WaitQueue ------------------------------
(***************************************************************************)
(* sync/wait.rs: WaitQueue, Waiter and Waker, with the scheduler's          *)
(* park_current and unpark_target below them.  The steps are parts of the   *)
(* sleeping locks (Mutex, RwMutex), which EXTEND this module and supply the *)
(* condition of wait_until and the places a thread goes back to.            *)
(*                                                                          *)
(* The queue is protected by a spin lock, its length is copied into the     *)
(* atomic num_wakers, which is_empty reads without the lock: taking the lock*)
(* and changing the queue is one step, updating num_wakers and releasing the*)
(* lock the next one.                                                       *)
(***************************************************************************)
EXTENDS Integers, Sequences, FiniteSets

CONSTANTS
    Thread,
    MaxWakers,  \* bound: Waker objects of one thread alive at the same time
    WaiterDrop  \* a Waiter that goes out of scope is closed

\* Waiter::drop is an ordinary method here ("call it manually"), and wait_until
\* returns without calling it: WaiterDrop is FALSE for wait_until as written and
\* TRUE for wait_until with the Drop implementation the method stands for.
ASSUME WaitQueueAssumption == MaxWakers \in Nat \ {0} /\ WaiterDrop \in BOOLEAN

NoThread == "no thread"

\* A Waker object belongs to the thread that made it.
Waker == Thread \X (1 .. MaxWakers)

NoWaker == <<>>

\* Waker::task
Task(w) == w[1]

VARIABLES
    pc,          \* where each thread is
    wakers,      \* the VecDeque of wakers
    num_wakers,  \* its length, as is_empty sees it
    wq_lock,     \* owner of the spin lock around wakers
    has_woken,   \* of each Waker object
    waiter,      \* the waker of the Waiter a thread has on its stack
    popped,      \* the waker a thread is about to wake up
    parked       \* threads the scheduler has taken off its run queue

wqVars == <<wakers, num_wakers, wq_lock, has_woken, waiter, popped, parked>>

WaitLocations == {"enqueue", "count", "recheck", "wait", "park", "parked", "close"}

WakeLocations == {"is_empty", "pop", "uncount", "wake_up", "unpark"}

wqTypeOK ==
    /\ wakers \in Seq(Waker)
    /\ num_wakers \in Nat
    /\ wq_lock \in Thread \cup {NoThread}
    /\ has_woken \in [Waker -> BOOLEAN]
    /\ waiter \in [Thread -> Waker \cup {NoWaker}]
    /\ popped \in [Thread -> Waker \cup {NoWaker}]
    /\ parked \subseteq Thread

wqInit ==
    /\ wakers = <<>>
    /\ num_wakers = 0
    /\ wq_lock = NoThread
    /\ has_woken = [w \in Waker |-> TRUE]
    /\ waiter = [t \in Thread |-> NoWaker]
    /\ popped = [t \in Thread |-> NoWaker]
    /\ parked = {}

Goto(t, loc) == pc' = [pc EXCEPT ![t] = loc]

At(locs) == {t \in Thread : pc[t] \in locs}

InQueue(w) == \E i \in DOMAIN wakers : wakers[i] = w

-----------------------------------------------------------------------------
(* Waiter and Waker *)

\* Arc<Waker>: an object nobody refers to is free to be allocated again.
Unreferenced(t) ==
    {n \in 1 .. MaxWakers :
        ~InQueue(<<t, n>>) /\ waiter[t] # <<t, n>> /\ \A s \in Thread : popped[s] # <<t, n>>}

FreshWaker(t) == <<t, CHOOSE n \in Unreferenced(t) : TRUE>>

\* Waiter::new_pair, called by wait_until once its condition has failed.
NewPair(t) ==
    /\ Unreferenced(t) # {}
    /\ has_woken' = [has_woken EXCEPT ![FreshWaker(t)] = FALSE]
    /\ waiter' = [waiter EXCEPT ![t] = FreshWaker(t)]

\* do_wait: while !has_woken.swap(false) { park_current(..) }; wait_until then
\* enqueues the waker again.
DoWait(t) ==
    /\ pc[t] = "wait"
    /\ has_woken' = [has_woken EXCEPT ![waiter[t]] = FALSE]
    /\ Goto(t, IF has_woken[waiter[t]] THEN "enqueue" ELSE "park")
    /\ UNCHANGED <<wakers, num_wakers, wq_lock, waiter, popped, parked>>

\* park_current: checks has_unparked and leaves the run queue under its lock.
ParkCurrent(t) ==
    /\ pc[t] = "park"
    /\ IF has_woken[waiter[t]]
       THEN Goto(t, "wait") /\ UNCHANGED parked
       ELSE Goto(t, "parked") /\ parked' = parked \cup {t}
    /\ UNCHANGED <<wakers, num_wakers, wq_lock, has_woken, waiter, popped>>

\* The scheduler runs the thread again.
Resume(t) ==
    /\ pc[t] = "parked"
    /\ t \notin parked
    /\ Goto(t, "wait")
    /\ UNCHANGED wqVars

\* Waker::wake_up: has_woken.swap(true); nothing to do if it was set.
WakeUp(t) ==
    /\ pc[t] = "wake_up"
    /\ has_woken' = [has_woken EXCEPT ![popped[t]] = TRUE]
    /\ IF has_woken[popped[t]]
       THEN Goto(t, "pop") /\ popped' = [popped EXCEPT ![t] = NoWaker]
       ELSE Goto(t, "unpark") /\ UNCHANGED popped
    /\ UNCHANGED <<wakers, num_wakers, wq_lock, waiter, parked>>

\* unpark_target, the second half of a successful wake_up; wake_one returns
\* then, wake_all goes on.
UnparkTarget(t, all, done) ==
    /\ pc[t] = "unpark"
    /\ parked' = parked \ {Task(popped[t])}
    /\ popped' = [popped EXCEPT ![t] = NoWaker]
    /\ Goto(t, IF all THEN "pop" ELSE done)
    /\ UNCHANGED <<wakers, num_wakers, wq_lock, has_woken, waiter>>

\* The waiter goes out of scope; Waiter::drop closes its waker with
\* has_woken.swap(true).
Close(t, done) ==
    /\ pc[t] = "close"
    /\ has_woken' = [has_woken EXCEPT ![waiter[t]] = @ \/ WaiterDrop]
    /\ waiter' = [waiter EXCEPT ![t] = NoWaker]
    /\ Goto(t, done)
    /\ UNCHANGED <<wakers, num_wakers, wq_lock, popped, parked>>

-----------------------------------------------------------------------------
(* WaitQueue *)

\* enqueue: lock, push_back ...
EnqueuePush(t) ==
    /\ pc[t] = "enqueue"
    /\ wq_lock = NoThread
    /\ wq_lock' = t
    /\ wakers' = Append(wakers, waiter[t])
    /\ Goto(t, "count")
    /\ UNCHANGED <<num_wakers, has_woken, waiter, popped, parked>>

\* ... num_wakers.fetch_add(1), unlock.
EnqueueCount(t) ==
    /\ pc[t] = "count"
    /\ num_wakers' = num_wakers + 1
    /\ wq_lock' = NoThread
    /\ Goto(t, "recheck")
    /\ UNCHANGED <<wakers, has_woken, waiter, popped, parked>>

\* wake_one, wake_all: the fast path without the lock.
IsEmpty(t, done) ==
    /\ pc[t] = "is_empty"
    /\ Goto(t, IF num_wakers = 0 THEN done ELSE "pop")
    /\ UNCHANGED wqVars

\* lock, pop_front; an empty queue ends the call.
PopFront(t, done) ==
    /\ pc[t] = "pop"
    /\ wq_lock = NoThread
    /\ IF wakers = <<>>
       THEN Goto(t, done) /\ UNCHANGED wqVars
       ELSE /\ popped' = [popped EXCEPT ![t] = Head(wakers)]
            /\ wakers' = Tail(wakers)
            /\ wq_lock' = t
            /\ Goto(t, "uncount")
            /\ UNCHANGED <<num_wakers, has_woken, waiter, parked>>

\* num_wakers.fetch_sub(1), unlock.
PopCount(t) ==
    /\ pc[t] = "uncount"
    /\ num_wakers' = num_wakers - 1
    /\ wq_lock' = NoThread
    /\ Goto(t, "wake_up")
    /\ UNCHANGED <<wakers, has_woken, waiter, popped, parked>>

\* The steps of a thread inside wait_until, its condition apart.
WaitStep(t, closed) ==
    \/ EnqueuePush(t)
    \/ EnqueueCount(t)
    \/ DoWait(t)
    \/ ParkCurrent(t)
    \/ Resume(t)
    \/ Close(t, closed)

\* The steps of a thread inside wake_one (~all) or wake_all (all).
WakeStep(t, all, done) ==
    \/ IsEmpty(t, done)
    \/ PopFront(t, done)
    \/ PopCount(t)
    \/ WakeUp(t)
    \/ UnparkTarget(t, all, done)
=============================================================================

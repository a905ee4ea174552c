--------------------------- MODULE WaitQueueProofs ---------------------------
(***************************************************************************)
(* What the sleeping locks rely on in WaitQueue, Waiter and Waker, whatever *)
(* the condition of wait_until is and wherever wake_one and wake_all return *)
(* to.                                                                      *)
(*                                                                          *)
(* QueueInv: whoever is between changing the queue and changing num_wakers  *)
(* holds the spin lock, so num_wakers is off by one for the time of one     *)
(* critical section and exact whenever the lock is free.                    *)
(*                                                                          *)
(* WaitInv: a waker that has not been woken belongs to a thread that is     *)
(* inside wait_until; it is in the queue or in the hand of a thread that is *)
(* about to wake it; and a parked thread whose waker has been woken is      *)
(* about to be unparked.                                                    *)
(*                                                                          *)
(* Answered: while a thread sleeps somebody is on the move, who will test   *)
(* the condition again or wake a thread that does.                          *)
(*                                                                          *)
(* Every step of the queue preserves the three, and so do the steps of a    *)
(* lock that use the queue as its callers must.                             *)
(***************************************************************************)
EXTENDS Mutex, TLAPS

\* The places inside a critical section of the queue.
Counting == {"count", "uncount"}

\* num_wakers is the length of the queue, save for the thread inside a critical
\* section, which has pushed and not yet counted, or popped and not yet counted:
\* is_empty, which reads it without the lock, is never off by more than that.
QueueCounted ==
    /\ \A t \in Thread : wq_lock = t <=> pc[t] \in Counting
    /\ wq_lock = NoThread => num_wakers = Len(wakers)
    /\ \A t \in Thread : pc[t] = "count" => num_wakers = Len(wakers) - 1
    /\ \A t \in Thread : pc[t] = "uncount" => num_wakers = Len(wakers) + 1

QueueTypes ==
    /\ \E S : wakers \in Seq(S)
    /\ num_wakers \in Int
    /\ wq_lock \in Thread \cup {NoThread}

QueueInv == NoThread \notin Thread /\ DOMAIN pc = Thread /\ QueueTypes /\ QueueCounted

\* A thread that pops a waker has it in hand until it has been woken up.
Popping == {"uncount", "wake_up"}

InHand == {"uncount", "wake_up", "unpark"}

WaitTypes ==
    /\ DOMAIN pc = Thread
    /\ wakers \in Seq(Waker)
    /\ has_woken \in [Waker -> BOOLEAN]
    /\ waiter \in [Thread -> Waker \cup {NoWaker}]
    /\ popped \in [Thread -> Waker \cup {NoWaker}]
    /\ parked \subseteq Thread

WaiterOwned ==
    \A t \in Thread :
        /\ waiter[t] # NoWaker => Task(waiter[t]) = t
        /\ pc[t] \in WaitLocations => waiter[t] # NoWaker

PoppedInHand == \A t \in Thread : pc[t] \in InHand => popped[t] # NoWaker

\* A waker nobody sleeps on any more counts as woken: Waiter::drop.
UnwokenIsWaiter == \A w \in Waker : ~has_woken[w] => waiter[Task(w)] = w

\* A waker is about to be woken, or will be once it is popped.
Reachable(w) == InQueue(w) \/ \E s \in Thread : pc[s] \in Popping /\ popped[s] = w

UnwokenReachable ==
    \A t \in Thread :
        pc[t] # "enqueue" /\ waiter[t] # NoWaker /\ ~has_woken[waiter[t]] => Reachable(waiter[t])

\* Between the two halves of wake_up: has_woken is set, the thread still parked.
Unparking(t) == \E s \in Thread : pc[s] = "unpark" /\ Task(popped[s]) = t

ParkedWaits ==
    \A t \in parked : pc[t] = "parked" /\ (has_woken[waiter[t]] => Unparking(t))

WaitInv ==
    /\ WaitTypes /\ WaiterOwned /\ PoppedInHand
    /\ UnwokenIsWaiter /\ UnwokenReachable /\ ParkedWaits

\* Inside wait_until, past the first test.
Sleeping == {"wait", "park", "parked"}

\* A thread that is about to test its condition, or to look at the queue.
Moving(t) ==
    \/ pc[t] \in {"is_empty", "pop", "uncount", "wake_up", "enqueue", "count", "recheck", "close"}
    \/ waiter[t] # NoWaker /\ has_woken[waiter[t]]

Answered == (\E t \in Thread : pc[t] \in Sleeping) => \E t \in Thread : Moving(t)

-----------------------------------------------------------------------------
(* num_wakers and the queue *)

\* A step that neither enters nor leaves a critical section.
LEMMA MoveQueue ==
    ASSUME QueueInv, NEW t \in Thread, NEW loc, loc \notin Counting, Goto(t, loc),
           pc[t] \notin Counting, UNCHANGED <<wakers, num_wakers, wq_lock>>
    PROVE  QueueInv'
<1>1. DOMAIN pc' = Thread /\ QueueTypes'
  BY Zenon DEF QueueInv, QueueTypes, Goto
<1>2. \A s \in Thread : pc'[s] \in Counting \/ pc[s] \in Counting => pc'[s] = pc[s]
  BY Zenon DEF QueueInv, Goto
<1>3. QueueCounted'
  BY <1>2, Zenon DEF QueueInv, QueueCounted, Counting
<1>. QED
  BY <1>1, <1>3, Zenon DEF QueueInv

LEMMA EnqueuePushQueue == ASSUME QueueInv, NEW t \in Thread, EnqueuePush(t) PROVE QueueInv'
<1>1. DOMAIN pc' = Thread
  BY Zenon DEF QueueInv, EnqueuePush, Goto
<1>2. PICK S : wakers \in Seq(S)
  BY Zenon DEF QueueInv, QueueTypes
<1>3. wakers \in Seq(S \cup {waiter[t]})
  BY <1>2, SMTT(30)
<1>4. wakers' \in Seq(S \cup {waiter[t]}) /\ Len(wakers') = Len(wakers) + 1
  BY <1>3, SMTT(30) DEF EnqueuePush
<1>5. QueueTypes'
  BY <1>4, Zenon DEF QueueInv, QueueTypes, EnqueuePush
<1>6. \A s \in Thread : pc[s] \notin Counting
  BY Zenon DEF QueueInv, QueueCounted, EnqueuePush
<1>7. \A s \in Thread : pc'[s] = IF s = t THEN "count" ELSE pc[s]
  BY Zenon DEF QueueInv, EnqueuePush, Goto
<1>8. Len(wakers) \in Nat /\ num_wakers = Len(wakers) /\ num_wakers' = num_wakers
  BY <1>2, SMTT(30) DEF QueueInv, QueueCounted, EnqueuePush
<1>9. QueueCounted'
  BY <1>4, <1>6, <1>7, <1>8, SMTT(30) DEF QueueInv, QueueCounted, EnqueuePush, Counting
<1>. QED
  BY <1>1, <1>5, <1>9, Zenon DEF QueueInv

\* fetch_add or fetch_sub and the release of the spin lock.
LEMMA CountQueue ==
    ASSUME QueueInv, NEW t \in Thread, NEW loc, loc \notin Counting, Goto(t, loc),
           pc[t] \in Counting, wq_lock' = NoThread, UNCHANGED wakers,
           num_wakers' = IF pc[t] = "count" THEN num_wakers + 1 ELSE num_wakers - 1
    PROVE  QueueInv'
<1>1. DOMAIN pc' = Thread /\ QueueTypes'
  BY SMTT(30) DEF QueueInv, QueueTypes, Goto
<1>2. \A s \in Thread : pc'[s] = IF s = t THEN loc ELSE pc[s]
  BY Zenon DEF QueueInv, Goto
<1>3. \A s \in Thread : pc'[s] \notin Counting
  BY <1>2, Zenon DEF QueueInv, QueueCounted
<1>4. PICK S : wakers \in Seq(S)
  BY Zenon DEF QueueInv, QueueTypes
<1>5. num_wakers' = Len(wakers)
  BY <1>4, SMTT(30) DEF QueueInv, QueueCounted, Counting
<1>6. QueueCounted'
  BY <1>3, <1>5, Zenon DEF QueueInv, QueueCounted, Counting
<1>. QED
  BY <1>1, <1>6, Zenon DEF QueueInv

LEMMA PopFrontQueue ==
    ASSUME QueueInv, NEW t \in Thread, NEW done, done \notin Counting, PopFront(t, done) PROVE QueueInv'
<1>1. CASE wakers = <<>>
  BY <1>1, MoveQueue, Zenon DEF PopFront, wqVars, QueueInv, Counting
<1>2. CASE wakers # <<>>
  <2>1. DOMAIN pc' = Thread
    BY <1>2, Zenon DEF QueueInv, PopFront, Goto
  <2>2. PICK S : wakers \in Seq(S)
    BY Zenon DEF QueueInv, QueueTypes
  <2>3. wakers' \in Seq(S) /\ Len(wakers') = Len(wakers) - 1 /\ Len(wakers) \in Nat
    BY <1>2, <2>2, SMTT(30) DEF PopFront
  <2>4. QueueTypes'
    BY <1>2, <2>3, Zenon DEF QueueInv, QueueTypes, PopFront
  <2>5. \A s \in Thread : pc[s] \notin Counting
    BY Zenon DEF QueueInv, QueueCounted, PopFront
  <2>6. \A s \in Thread : pc'[s] = IF s = t THEN "uncount" ELSE pc[s]
    BY <1>2, Zenon DEF QueueInv, PopFront, Goto
  <2>7. num_wakers = Len(wakers) /\ num_wakers' = num_wakers /\ wq_lock' = t
    BY <1>2, Zenon DEF QueueInv, QueueCounted, PopFront
  <2>8. QueueCounted'
    BY <2>3, <2>5, <2>6, <2>7, SMTT(30) DEF QueueInv, QueueCounted, Counting
  <2>. QED
    BY <2>1, <2>4, <2>8, Zenon DEF QueueInv
<1>. QED
  BY <1>1, <1>2, Zenon

LEMMA WaitStepQueue ==
    ASSUME QueueInv, NEW t \in Thread, NEW closed, closed \notin Counting, WaitStep(t, closed)
    PROVE  QueueInv'
<1>1. CASE EnqueueCount(t)
  BY <1>1, CountQueue, Zenon DEF EnqueueCount, Counting
<1>2. CASE DoWait(t) \/ ParkCurrent(t) \/ Resume(t) \/ Close(t, closed)
  BY <1>2, MoveQueue, Zenon DEF DoWait, ParkCurrent, Resume, Close, wqVars, Counting
<1>. QED
  BY <1>1, <1>2, EnqueuePushQueue, Zenon DEF WaitStep

LEMMA WakeStepQueue ==
    ASSUME QueueInv, NEW t \in Thread, NEW all, NEW done, done \notin Counting, WakeStep(t, all, done)
    PROVE  QueueInv'
<1>1. CASE PopCount(t)
  BY <1>1, CountQueue, Zenon DEF PopCount, Counting
<1>2. CASE IsEmpty(t, done) \/ WakeUp(t) \/ UnparkTarget(t, all, done)
  BY <1>2, MoveQueue, Zenon DEF IsEmpty, WakeUp, UnparkTarget, wqVars, Counting
<1>. QED
  BY <1>1, <1>2, PopFrontQueue, Zenon DEF WakeStep

LEMMA InitQueue ==
    ASSUME NoThread \notin Thread, wqInit, NEW idle, idle \notin Counting, pc = [t \in Thread |-> idle]
    PROVE  QueueInv
<1>1. <<>> \in Seq({}) /\ Len(<<>>) = 0
  BY SMTT(30)
<1>2. QueueTypes
  BY <1>1, SMTT(30) DEF wqInit, QueueTypes
<1>3. QueueCounted
  BY <1>1, Zenon DEF wqInit, QueueCounted, Counting
<1>. QED
  BY <1>2, <1>3, Zenon DEF QueueInv

-----------------------------------------------------------------------------
(* Facts about wakers and queues *)

LEMMA WakerTask ==
    /\ NoWaker \notin Waker
    /\ \A w \in Waker : Task(w) \in Thread
  BY SMTT(30) DEF NoWaker, Waker, Task

LEMMA FreshWakerType ==
    ASSUME NEW t \in Thread, Unreferenced(t) # {}
    PROVE  FreshWaker(t) \in Waker /\ Task(FreshWaker(t)) = t
<1>1. PICK n \in Unreferenced(t) : n = CHOOSE m \in Unreferenced(t) : TRUE
  BY Zenon
<1>2. n \in 1 .. MaxWakers
  BY <1>1, Zenon DEF Unreferenced
<1>3. FreshWaker(t) = <<t, n>>
  BY <1>1, Zenon DEF FreshWaker
<1>. QED
  BY <1>2, <1>3, SMTT(30) DEF Waker, Task

\* push_back keeps what is in the queue and adds its argument.
LEMMA AppendInQueue ==
    ASSUME wakers \in Seq(Waker), NEW v \in Waker, wakers' = Append(wakers, v)
    PROVE  /\ wakers' \in Seq(Waker)
           /\ InQueue(v)'
           /\ \A w : InQueue(w) => InQueue(w)'
<1>1. wakers' \in Seq(Waker) /\ Len(wakers') = Len(wakers) + 1 /\ Len(wakers) \in Nat
  BY SMTT(30)
<1>2. wakers'[Len(wakers) + 1] = v /\ \A i \in 1 .. Len(wakers) : wakers'[i] = wakers[i]
  BY SMTT(30)
<1>3. DOMAIN wakers = 1 .. Len(wakers) /\ DOMAIN wakers' = 1 .. Len(wakers) + 1
  BY <1>1, SMTT(30)
<1>. QED
  BY <1>1, <1>2, <1>3, SMTT(30) DEF InQueue

\* pop_front takes the head out of the queue and leaves the others.
LEMMA PopInQueue ==
    ASSUME wakers \in Seq(Waker), wakers # <<>>, wakers' = Tail(wakers)
    PROVE  /\ wakers' \in Seq(Waker)
           /\ Head(wakers) \in Waker
           /\ \A w : InQueue(w) => w = Head(wakers) \/ InQueue(w)'
<1>1. wakers' \in Seq(Waker) /\ Len(wakers') = Len(wakers) - 1 /\ Len(wakers) \in Nat \ {0}
  BY SMTT(30)
<1>2. Head(wakers) = wakers[1] /\ \A i \in 1 .. Len(wakers) - 1 : wakers'[i] = wakers[i + 1]
  BY SMTT(30)
<1>3. DOMAIN wakers = 1 .. Len(wakers) /\ DOMAIN wakers' = 1 .. Len(wakers) - 1
  BY <1>1, SMTT(30)
<1>4. Head(wakers) \in Waker
  BY <1>1, SMTT(30)
<1>5. ASSUME NEW w, NEW i \in DOMAIN wakers, wakers[i] = w, w # Head(wakers) PROVE InQueue(w)'
  <2>1. i \in 2 .. Len(wakers)
    BY <1>1, <1>2, <1>3, <1>5, SMTT(30)
  <2>2. i - 1 \in DOMAIN wakers' /\ wakers'[i - 1] = wakers[i]
    BY <1>1, <1>2, <1>3, <2>1, SMTT(30)
  <2>. QED
    BY <1>5, <2>2, Zenon DEF InQueue
<1>. QED
  BY <1>1, <1>4, <1>5, Zenon DEF InQueue

-----------------------------------------------------------------------------
(* Wakers in the queue, in hand and woken *)

\* A step that only moves its thread, and not out of a place WaitInv speaks of.
LEMMA MoveWait ==
    ASSUME WaitInv, NEW t \in Thread, NEW loc, Goto(t, loc),
           UNCHANGED <<wakers, has_woken, waiter, popped, parked>>,
           pc[t] \notin InHand \cup {"enqueue"}, t \notin parked, loc \notin InHand,
           loc \in WaitLocations => waiter[t] # NoWaker
    PROVE  WaitInv'
<1>1. \A s \in Thread : pc'[s] = IF s = t THEN loc ELSE pc[s]
  BY Zenon DEF WaitInv, WaitTypes, Goto
<1>2. WaitTypes' /\ WaiterOwned' /\ PoppedInHand' /\ UnwokenIsWaiter'
  BY <1>1, Zenon DEF WaitInv, WaitTypes, WaiterOwned, PoppedInHand, UnwokenIsWaiter, Goto
<1>3. UnwokenReachable'
  BY <1>1, Zenon DEF WaitInv, UnwokenReachable, Reachable, InQueue, InHand, Popping
<1>4. ParkedWaits'
  BY <1>1, SMTT(30) DEF WaitInv, WaitTypes, ParkedWaits, Unparking, InHand
<1>. QED
  BY <1>2, <1>3, <1>4, Zenon DEF WaitInv

\* Waiter::new_pair, called by a thread that has no waiter.
LEMMA NewPairWait ==
    ASSUME WaitInv, NEW t \in Thread, waiter[t] = NoWaker, NewPair(t), Goto(t, "enqueue"),
           UNCHANGED <<wakers, popped, parked>>,
           pc[t] \notin InHand \cup {"parked"}
    PROVE  WaitInv'
<1>1. PICK w \in Waker : w = FreshWaker(t) /\ Task(w) = t
  BY FreshWakerType, Zenon DEF NewPair
<1>2. \A s \in Thread : pc'[s] = IF s = t THEN "enqueue" ELSE pc[s]
  BY Zenon DEF WaitInv, WaitTypes, Goto
<1>3. /\ \A s \in Thread : waiter'[s] = IF s = t THEN w ELSE waiter[s]
      /\ \A v \in Waker \ {w} : has_woken'[v] = has_woken[v]
  BY <1>1, Zenon DEF WaitInv, WaitTypes, NewPair
<1>4. WaitTypes'
  <2>1. DOMAIN pc' = Thread
    BY Zenon DEF WaitInv, WaitTypes, Goto
  <2>2. has_woken' \in [Waker -> BOOLEAN] /\ waiter' \in [Thread -> Waker \cup {NoWaker}]
    BY <1>1, Zenon DEF WaitInv, WaitTypes, NewPair
  <2>. QED
    BY <2>1, <2>2, Zenon DEF WaitInv, WaitTypes
<1>5. WaiterOwned' /\ PoppedInHand'
  BY <1>1, <1>2, <1>3, WakerTask, ZenonT(40) DEF WaitInv, WaiterOwned, PoppedInHand, WaitLocations, InHand
<1>6. UnwokenIsWaiter'
  <2> SUFFICES ASSUME NEW v \in Waker, ~has_woken'[v] PROVE waiter'[Task(v)] = v
    BY Zenon DEF UnwokenIsWaiter
  <2>1. CASE v = w
    BY <1>1, <1>3, <2>1, Zenon
  <2>2. CASE v # w
    <3>1. waiter[Task(v)] = v /\ Task(v) \in Thread
      BY <1>3, <2>2, WakerTask, Zenon DEF WaitInv, UnwokenIsWaiter
    <3>2. Task(v) # t
      BY <3>1, WakerTask, Zenon
    <3>. QED
      BY <1>3, <3>1, <3>2, Zenon
  <2>. QED
    BY <2>1, <2>2, Zenon
<1>7. UnwokenReachable'
  <2> SUFFICES ASSUME NEW s \in Thread, pc'[s] # "enqueue", waiter'[s] # NoWaker,
                      ~has_woken'[waiter'[s]]
               PROVE  Reachable(waiter[s])'
    BY Zenon DEF UnwokenReachable
  <2>1. s # t /\ pc'[s] = pc[s] /\ waiter'[s] = waiter[s] /\ waiter[s] \in Waker /\ Task(waiter[s]) = s
    BY <1>2, <1>3, ZenonT(40) DEF WaitInv, WaitTypes, WaiterOwned
  <2>2. Reachable(waiter[s])
    BY <1>1, <1>3, <2>1, Zenon DEF WaitInv, UnwokenReachable
  <2>. QED
    BY <1>2, <2>1, <2>2, Zenon DEF Reachable, InQueue, InHand, Popping
<1>8. ParkedWaits'
  <2> SUFFICES ASSUME NEW s \in parked' PROVE pc'[s] = "parked" /\ (has_woken'[waiter'[s]] => Unparking(s)')
    BY Zenon DEF ParkedWaits
  <2>1. s \in parked /\ s \in Thread /\ pc[s] = "parked"
    BY Zenon DEF WaitInv, WaitTypes, ParkedWaits
  <2>2. s # t /\ pc'[s] = pc[s] /\ waiter'[s] = waiter[s] /\ waiter[s] \in Waker /\ Task(waiter[s]) = s
    BY <1>2, <1>3, <2>1, ZenonT(40) DEF WaitInv, WaitTypes, WaiterOwned, WaitLocations
  <2>3. has_woken'[waiter'[s]] = has_woken[waiter[s]]
    BY <1>1, <1>3, <2>2, Zenon
  <2>. QED
    BY <1>2, <2>1, <2>2, <2>3, SMTT(30) DEF WaitInv, ParkedWaits, Unparking, InHand
<1>. QED
  BY <1>4, <1>5, <1>6, <1>7, <1>8, Zenon DEF WaitInv

LEMMA EnqueuePushWait == ASSUME WaitInv, NEW t \in Thread, EnqueuePush(t) PROVE WaitInv'
<1>1. \A s \in Thread : pc'[s] = IF s = t THEN "count" ELSE pc[s]
  BY Zenon DEF WaitInv, WaitTypes, EnqueuePush, Goto
<1>2. waiter[t] \in Waker
  BY Zenon DEF WaitInv, WaitTypes, WaiterOwned, EnqueuePush, WaitLocations
<1>3. wakers' \in Seq(Waker) /\ InQueue(waiter[t])' /\ \A w : InQueue(w) => InQueue(w)'
  BY <1>2, AppendInQueue, Zenon DEF WaitInv, WaitTypes, EnqueuePush
<1>4. WaitTypes'
  BY <1>3, Zenon DEF WaitInv, WaitTypes, EnqueuePush, Goto
<1>5. WaiterOwned' /\ PoppedInHand' /\ UnwokenIsWaiter'
  BY <1>1, Zenon DEF WaitInv, WaiterOwned, PoppedInHand, UnwokenIsWaiter, EnqueuePush, WaitLocations, InHand
<1>6. UnwokenReachable'
  BY <1>1, <1>3, Zenon DEF WaitInv, UnwokenReachable, Reachable, Popping, EnqueuePush
<1>7. ParkedWaits'
  BY <1>1, SMTT(30) DEF WaitInv, WaitTypes, ParkedWaits, Unparking, EnqueuePush
<1>. QED
  BY <1>4, <1>5, <1>6, <1>7, Zenon DEF WaitInv

LEMMA PopFrontWait ==
    ASSUME WaitInv, NEW t \in Thread, NEW done, done \notin InHand \cup WaitLocations,
           PopFront(t, done)
    PROVE  WaitInv'
<1>1. CASE wakers = <<>>
  BY <1>1, MoveWait, Zenon DEF PopFront, wqVars, WaitInv, ParkedWaits, InHand
<1>2. CASE wakers # <<>>
  <2>1. \A s \in Thread : pc'[s] = IF s = t THEN "uncount" ELSE pc[s]
    BY <1>2, Zenon DEF WaitInv, WaitTypes, PopFront, Goto
  <2>2. wakers' \in Seq(Waker) /\ Head(wakers) \in Waker
        /\ \A w : InQueue(w) => w = Head(wakers) \/ InQueue(w)'
    BY <1>2, PopInQueue, Zenon DEF WaitInv, WaitTypes, PopFront
  <2>3. \A s \in Thread : popped'[s] = IF s = t THEN Head(wakers) ELSE popped[s]
    BY <1>2, Zenon DEF WaitInv, WaitTypes, PopFront
  <2>4. WaitTypes'
    BY <1>2, <2>2, Zenon DEF WaitInv, WaitTypes, PopFront, Goto
  <2>5. WaiterOwned' /\ UnwokenIsWaiter'
    BY <1>2, <2>1, SMTT(30) DEF WaitInv, WaiterOwned, UnwokenIsWaiter, PopFront, WaitLocations
  <2>6. PoppedInHand'
    BY <2>1, <2>2, <2>3, WakerTask, Zenon DEF WaitInv, PoppedInHand
  <2>7. UnwokenReachable'
    BY <1>2, <2>1, <2>2, <2>3, SMTT(30) DEF WaitInv, UnwokenReachable, Reachable, Popping, PopFront
  <2>8. ParkedWaits'
    BY <1>2, <2>1, <2>3, SMTT(30) DEF WaitInv, WaitTypes, ParkedWaits, Unparking, PopFront
  <2>. QED
    BY <2>4, <2>5, <2>6, <2>7, <2>8, Zenon DEF WaitInv
<1>. QED
  BY <1>1, <1>2, Zenon

LEMMA PopCountWait == ASSUME WaitInv, NEW t \in Thread, PopCount(t) PROVE WaitInv'
<1>1. \A s \in Thread : pc'[s] = IF s = t THEN "wake_up" ELSE pc[s]
  BY Zenon DEF WaitInv, WaitTypes, PopCount, Goto
<1>2. WaitTypes'
  BY Zenon DEF WaitInv, WaitTypes, PopCount, Goto
<1>3. WaiterOwned' /\ PoppedInHand' /\ UnwokenIsWaiter'
  BY <1>1, Zenon DEF WaitInv, WaiterOwned, PoppedInHand, UnwokenIsWaiter, PopCount, WaitLocations, InHand
<1>4. UnwokenReachable'
  BY <1>1, ZenonT(40) DEF WaitInv, UnwokenReachable, Reachable, InQueue, Popping, PopCount
<1>5. ParkedWaits'
  BY <1>1, SMTT(30) DEF WaitInv, WaitTypes, ParkedWaits, Unparking, PopCount
<1>. QED
  BY <1>2, <1>3, <1>4, <1>5, Zenon DEF WaitInv

\* A woken thread goes back to enqueue, another one is still in the queue.
LEMMA DoWaitWait == ASSUME WaitInv, NEW t \in Thread, DoWait(t) PROVE WaitInv'
<1>1. PICK w \in Waker : w = waiter[t] /\ Task(w) = t
  BY Zenon DEF WaitInv, WaitTypes, WaiterOwned, DoWait, WaitLocations
<1>2. \A s \in Thread : pc'[s] = IF s = t THEN IF has_woken[w] THEN "enqueue" ELSE "park" ELSE pc[s]
  BY <1>1, Zenon DEF WaitInv, WaitTypes, DoWait, Goto
<1>3. \A v \in Waker \ {w} : has_woken'[v] = has_woken[v]
  BY <1>1, Zenon DEF WaitInv, WaitTypes, DoWait
<1>4. WaitTypes'
  BY <1>1, Zenon DEF WaitInv, WaitTypes, DoWait, Goto
<1>5. WaiterOwned' /\ PoppedInHand'
  BY <1>1, <1>2, WakerTask, Zenon DEF WaitInv, WaiterOwned, PoppedInHand, DoWait, WaitLocations, InHand
<1>6. UnwokenIsWaiter'
  BY <1>1, <1>3, SMTT(30) DEF WaitInv, UnwokenIsWaiter, DoWait
<1>7. \A s \in Thread \ {t} : waiter[s] # w
  BY <1>1, WakerTask, Zenon DEF WaitInv, WaiterOwned
<1>8. UnwokenReachable'
  <2> SUFFICES ASSUME NEW s \in Thread, pc'[s] # "enqueue", waiter'[s] # NoWaker,
                      ~has_woken'[waiter'[s]]
               PROVE  Reachable(waiter[s])'
    BY Zenon DEF UnwokenReachable
  <2>1. waiter'[s] = waiter[s] /\ waiter[s] \in Waker
    BY Zenon DEF WaitInv, WaitTypes, DoWait
  <2>2. Reachable(waiter[s])
    BY <1>1, <1>2, <1>3, <1>7, <2>1, Zenon DEF WaitInv, UnwokenReachable, DoWait
  <2>. QED
    BY <1>2, <2>1, <2>2, Zenon DEF Reachable, InQueue, Popping, DoWait
<1>9. ParkedWaits'
  <2> SUFFICES ASSUME NEW s \in parked' PROVE pc'[s] = "parked" /\ (has_woken'[waiter'[s]] => Unparking(s)')
    BY Zenon DEF ParkedWaits
  <2>1. s \in parked /\ s \in Thread /\ pc[s] = "parked" /\ s # t /\ waiter'[s] = waiter[s]
    BY Zenon DEF WaitInv, WaitTypes, ParkedWaits, DoWait
  <2>2. has_woken'[waiter'[s]] = has_woken[waiter[s]]
    BY <1>3, <1>7, <2>1, Zenon DEF WaitInv, WaitTypes, WaiterOwned, WaitLocations
  <2>. QED
    BY <1>2, <2>1, <2>2, SMTT(30) DEF WaitInv, ParkedWaits, Unparking, DoWait
<1>. QED
  BY <1>4, <1>5, <1>6, <1>8, <1>9, Zenon DEF WaitInv

\* park_current looks at has_woken and leaves the run queue in one step.
LEMMA ParkCurrentWait == ASSUME WaitInv, NEW t \in Thread, ParkCurrent(t) PROVE WaitInv'
<1>1. CASE has_woken[waiter[t]]
  BY <1>1, MoveWait, Zenon DEF ParkCurrent, WaitInv, WaiterOwned, ParkedWaits, InHand, WaitLocations
<1>2. CASE ~has_woken[waiter[t]]
  <2>1. \A s \in Thread : pc'[s] = IF s = t THEN "parked" ELSE pc[s]
    BY <1>2, Zenon DEF WaitInv, WaitTypes, ParkCurrent, Goto
  <2>2. WaitTypes'
    BY <1>2, Zenon DEF WaitInv, WaitTypes, ParkCurrent, Goto
  <2>3. WaiterOwned' /\ PoppedInHand' /\ UnwokenIsWaiter'
    BY <2>1, Zenon DEF WaitInv, WaiterOwned, PoppedInHand, UnwokenIsWaiter, ParkCurrent, WaitLocations, InHand
  <2>4. UnwokenReachable'
    BY <2>1, Zenon DEF WaitInv, UnwokenReachable, Reachable, InQueue, Popping, ParkCurrent
  <2>5. ParkedWaits'
    BY <1>2, <2>1, SMTT(30) DEF WaitInv, WaitTypes, ParkedWaits, Unparking, ParkCurrent
  <2>. QED
    BY <2>2, <2>3, <2>4, <2>5, Zenon DEF WaitInv
<1>. QED
  BY <1>1, <1>2, Zenon

\* A waker that was not woken yet is one a thread waits on; it has been popped.
LEMMA WakeUpWait == ASSUME WaitInv, NEW t \in Thread, WakeUp(t) PROVE WaitInv'
<1>1. PICK w \in Waker : w = popped[t]
  BY Zenon DEF WaitInv, WaitTypes, PoppedInHand, WakeUp, InHand
<1>2. \A s \in Thread : pc'[s] = IF s = t THEN IF has_woken[w] THEN "pop" ELSE "unpark" ELSE pc[s]
  BY <1>1, Zenon DEF WaitInv, WaitTypes, WakeUp, Goto
<1>3. has_woken'[w] /\ \A v \in Waker \ {w} : has_woken'[v] = has_woken[v]
  BY <1>1, Zenon DEF WaitInv, WaitTypes, WakeUp
<1>4. \A s \in Thread : popped'[s] = IF s = t /\ has_woken[w] THEN NoWaker ELSE popped[s]
  BY <1>1, Zenon DEF WaitInv, WaitTypes, WakeUp
<1>5. WaitTypes'
  <2>1. DOMAIN pc' = Thread
    BY Zenon DEF WaitInv, WaitTypes, WakeUp, Goto
  <2>2. has_woken' \in [Waker -> BOOLEAN] /\ popped' \in [Thread -> Waker \cup {NoWaker}]
    BY Zenon DEF WaitInv, WaitTypes, WakeUp
  <2>. QED
    BY <2>1, <2>2, Zenon DEF WaitInv, WaitTypes, WakeUp
<1>6. WaiterOwned' /\ PoppedInHand'
  BY <1>1, <1>2, <1>4, WakerTask, Zenon DEF WaitInv, WaiterOwned, PoppedInHand, WakeUp, WaitLocations, InHand
<1>7. UnwokenIsWaiter'
  BY <1>3, Zenon DEF WaitInv, UnwokenIsWaiter, WakeUp
<1>8. UnwokenReachable'
  <2> SUFFICES ASSUME NEW s \in Thread, pc'[s] # "enqueue", waiter'[s] # NoWaker,
                      ~has_woken'[waiter'[s]]
               PROVE  Reachable(waiter[s])'
    BY Zenon DEF UnwokenReachable
  <2>1. waiter'[s] = waiter[s] /\ waiter[s] \in Waker \ {w} /\ pc[s] # "enqueue"
    BY <1>2, <1>3, ZenonT(40) DEF WaitInv, WaitTypes, WakeUp
  <2>2. Reachable(waiter[s])
    BY <1>3, <2>1, WakerTask, Zenon DEF WaitInv, UnwokenReachable
  <2>. QED
    BY <1>1, <1>2, <1>4, <2>1, <2>2, Zenon DEF Reachable, InQueue, Popping, WakeUp
<1>9. ParkedWaits'
  <2> SUFFICES ASSUME NEW s \in parked' PROVE pc'[s] = "parked" /\ (has_woken'[waiter'[s]] => Unparking(s)')
    BY Zenon DEF ParkedWaits
  <2>1. s \in parked /\ s \in Thread /\ pc[s] = "parked" /\ s # t /\ waiter'[s] = waiter[s]
    BY Zenon DEF WaitInv, WaitTypes, ParkedWaits, WakeUp
  <2>2. waiter[s] \in Waker /\ Task(waiter[s]) = s
    BY <2>1, Zenon DEF WaitInv, WaitTypes, WaiterOwned, WaitLocations
  <2>3. CASE has_woken[waiter[s]]
    BY <1>2, <1>4, <2>1, <2>3, SMTT(30) DEF WaitInv, ParkedWaits, Unparking, WakeUp
  <2>4. CASE ~has_woken[waiter[s]] /\ waiter[s] = w
    BY <1>1, <1>2, <1>4, <2>1, <2>2, <2>4, SMTT(30) DEF Unparking
  <2>5. CASE ~has_woken[waiter[s]] /\ waiter[s] # w
    BY <1>2, <1>3, <2>1, <2>2, <2>5, Zenon
  <2>. QED
    BY <2>3, <2>4, <2>5, Zenon
<1>. QED
  BY <1>5, <1>6, <1>7, <1>8, <1>9, Zenon DEF WaitInv

LEMMA UnparkTargetWait ==
    ASSUME WaitInv, NEW t \in Thread, NEW all, NEW done, done \notin InHand \cup WaitLocations,
           UnparkTarget(t, all, done)
    PROVE  WaitInv'
<1>1. PICK loc : loc \notin InHand \cup WaitLocations /\ Goto(t, loc)
  BY Zenon DEF UnparkTarget, InHand, WaitLocations
<1>2. \A s \in Thread : pc'[s] = IF s = t THEN loc ELSE pc[s]
  BY <1>1, Zenon DEF WaitInv, WaitTypes, Goto
<1>3. \A s \in Thread \ {t} : popped'[s] = popped[s]
  BY Zenon DEF WaitInv, WaitTypes, UnparkTarget
<1>4. WaitTypes'
  BY <1>1, Zenon DEF WaitInv, WaitTypes, UnparkTarget, Goto
<1>5. WaiterOwned' /\ PoppedInHand' /\ UnwokenIsWaiter'
  BY <1>1, <1>2, <1>3, Zenon DEF WaitInv, WaiterOwned, PoppedInHand, UnwokenIsWaiter, UnparkTarget
<1>6. UnwokenReachable'
  BY <1>2, <1>3, SMTT(30) DEF WaitInv, UnwokenReachable, Reachable, InQueue, Popping, UnparkTarget
<1>7. ParkedWaits'
  BY <1>2, <1>3, SMTT(30) DEF WaitInv, WaitTypes, ParkedWaits, Unparking, UnparkTarget
<1>. QED
  BY <1>4, <1>5, <1>6, <1>7, Zenon DEF WaitInv

\* Waiter::drop, where it is called: the waker counts as woken from then on.
LEMMA CloseWait ==
    ASSUME WaitInv, WaiterDrop, NEW t \in Thread, NEW done, done \notin InHand \cup WaitLocations,
           Close(t, done)
    PROVE  WaitInv'
<1>1. PICK w \in Waker : w = waiter[t] /\ Task(w) = t
  BY Zenon DEF WaitInv, WaitTypes, WaiterOwned, Close, WaitLocations
<1>2. \A s \in Thread : pc'[s] = IF s = t THEN done ELSE pc[s]
  BY Zenon DEF WaitInv, WaitTypes, Close, Goto
<1>3. has_woken'[w] /\ \A v \in Waker \ {w} : has_woken'[v] = has_woken[v]
  BY <1>1, Zenon DEF WaitInv, WaitTypes, Close
<1>4. \A s \in Thread : waiter'[s] = IF s = t THEN NoWaker ELSE waiter[s]
  BY Zenon DEF WaitInv, WaitTypes, Close
<1>5. WaitTypes'
  <2>1. DOMAIN pc' = Thread
    BY Zenon DEF WaitInv, WaitTypes, Close, Goto
  <2>2. has_woken' \in [Waker -> BOOLEAN] /\ waiter' \in [Thread -> Waker \cup {NoWaker}]
    BY <1>1, Zenon DEF WaitInv, WaitTypes, Close
  <2>. QED
    BY <2>1, <2>2, Zenon DEF WaitInv, WaitTypes, Close
<1>6. WaiterOwned' /\ PoppedInHand'
  BY <1>2, <1>4, ZenonT(40) DEF WaitInv, WaiterOwned, PoppedInHand, Close
<1>7. UnwokenIsWaiter'
  BY <1>1, <1>3, <1>4, WakerTask, SMTT(30) DEF WaitInv, UnwokenIsWaiter
<1>8. \A s \in Thread \ {t} : waiter[s] # w
  BY <1>1, WakerTask, Zenon DEF WaitInv, WaiterOwned
<1>9. UnwokenReachable'
  <2> SUFFICES ASSUME NEW s \in Thread, pc'[s] # "enqueue", waiter'[s] # NoWaker,
                      ~has_woken'[waiter'[s]]
               PROVE  Reachable(waiter[s])'
    BY Zenon DEF UnwokenReachable
  <2>1. s # t /\ waiter'[s] = waiter[s] /\ waiter[s] \in Waker \ {w} /\ pc'[s] = pc[s]
    BY <1>2, <1>4, <1>8, Zenon DEF WaitInv, WaitTypes
  <2>2. Reachable(waiter[s])
    BY <1>3, <2>1, WakerTask, Zenon DEF WaitInv, UnwokenReachable
  <2>. QED
    BY <1>2, <2>1, <2>2, Zenon DEF Reachable, InQueue, Popping, Close
<1>10. ParkedWaits'
  <2> SUFFICES ASSUME NEW s \in parked' PROVE pc'[s] = "parked" /\ (has_woken'[waiter'[s]] => Unparking(s)')
    BY Zenon DEF ParkedWaits
  <2>1. s \in parked /\ s \in Thread /\ pc[s] = "parked" /\ s # t /\ waiter'[s] = waiter[s]
    BY <1>4, Zenon DEF WaitInv, WaitTypes, ParkedWaits, Close
  <2>2. has_woken'[waiter'[s]] = has_woken[waiter[s]]
    BY <1>3, <1>8, <2>1, Zenon DEF WaitInv, WaitTypes, WaiterOwned, WaitLocations
  <2>. QED
    BY <1>2, <2>1, <2>2, SMTT(30) DEF WaitInv, ParkedWaits, Unparking, Close
<1>. QED
  BY <1>5, <1>6, <1>7, <1>9, <1>10, Zenon DEF WaitInv

\* Every step of wait_until, its condition apart, and of wake_one and wake_all.
LEMMA WaitStepWait ==
    ASSUME WaitInv, WaiterDrop, NEW t \in Thread, NEW closed, closed \notin InHand \cup WaitLocations,
           WaitStep(t, closed)
    PROVE  WaitInv'
<1>1. CASE EnqueueCount(t)
  BY <1>1, MoveWait, Zenon DEF EnqueueCount, WaitInv, WaiterOwned, ParkedWaits, InHand, WaitLocations
<1>2. CASE Resume(t)
  BY <1>2, MoveWait, Zenon DEF Resume, wqVars, WaitInv, WaiterOwned, InHand, WaitLocations
<1>. QED
  BY <1>1, <1>2, EnqueuePushWait, DoWaitWait, ParkCurrentWait, CloseWait, Zenon DEF WaitStep

LEMMA WakeStepWait ==
    ASSUME WaitInv, NEW t \in Thread, NEW all, NEW done, done \notin InHand \cup WaitLocations,
           WakeStep(t, all, done)
    PROVE  WaitInv'
<1>1. CASE IsEmpty(t, done)
  BY <1>1, MoveWait, Zenon DEF IsEmpty, wqVars, WaitInv, ParkedWaits, InHand, WaitLocations
<1>. QED
  BY <1>1, PopFrontWait, PopCountWait, WakeUpWait, UnparkTargetWait, Zenon DEF WakeStep

LEMMA InitWait ==
    ASSUME wqInit, NEW idle, idle \notin InHand \cup WaitLocations, pc = [t \in Thread |-> idle]
    PROVE  WaitInv
  BY SMTT(30) DEF wqInit, WaitInv, WaitTypes, WaiterOwned, PoppedInHand, UnwokenIsWaiter, UnwokenReachable,
         ParkedWaits, InHand

-----------------------------------------------------------------------------
(* Sleepers are answered *)

\* A sleeper that is not on the move itself is waited for by someone who is, or
\* is in the queue.
LEMMA SleeperQueued ==
    ASSUME WaitInv, NEW t \in Thread, pc[t] \in Sleeping, ~Moving(t)
    PROVE  InQueue(waiter[t]) \/ \E s \in Thread : pc[s] \in Popping
  BY Zenon DEF WaitInv, WaiterOwned, UnwokenReachable, Reachable, Moving, Sleeping, WaitLocations

\* An empty queue, or one that has just been emptied: whoever finds it so leaves
\* no sleeper behind.
LEMMA EmptyAnswers ==
    ASSUME WaitInv, QueueInv, NEW t \in Thread, pc[t] \in {"is_empty", "pop"},
           num_wakers = 0 \/ wakers = <<>>, \E s \in Thread : pc[s] \in Sleeping
    PROVE  \E s \in Thread \ {t} : Moving(s)
<1>1. PICK s \in Thread : pc[s] \in Sleeping
  BY Zenon
<1>2. s # t
  BY <1>1, Zenon DEF Sleeping
<1>3. CASE Moving(s)
  BY <1>2, <1>3, Zenon
<1>4. CASE \E u \in Thread : pc[u] \in Popping
  BY <1>4, Zenon DEF Moving, Popping
<1>5. CASE InQueue(waiter[s])
  <2>1. wakers # <<>> /\ Len(wakers) \in Nat \ {0}
    BY <1>5, SMTT(30) DEF InQueue, WaitInv, WaitTypes
  <2>2. num_wakers = 0
    BY <2>1, Zenon
  <2>3. wq_lock \in Thread
    BY <2>1, <2>2, Zenon DEF QueueInv, QueueTypes, QueueCounted
  <2>4. pc[wq_lock] \in Counting
    BY <2>3, Zenon DEF QueueInv, QueueCounted
  <2>. QED
    BY <2>3, <2>4, Zenon DEF Moving, Counting
<1>. QED
  BY <1>1, <1>3, <1>4, <1>5, SleeperQueued, Zenon

\* What a step of thread t leaves alone: the others' places, waiters and wakers
\* in hand, and what they have been told.
Kept(t) ==
    /\ \A s \in Thread \ {t} : pc'[s] = pc[s] /\ waiter'[s] = waiter[s] /\ popped'[s] = popped[s]
    /\ \A w \in Waker : Task(w) # t => (has_woken[w] => has_woken'[w])

LEMMA OthersMove ==
    ASSUME NEW t \in Thread, NEW s \in Thread \ {t}, Moving(s), WaitInv, Kept(t)
    PROVE  Moving(s)'
<1>1. CASE waiter[s] # NoWaker /\ has_woken[waiter[s]]
  <2>1. waiter[s] \in Waker /\ Task(waiter[s]) = s
    BY <1>1, Zenon DEF WaitInv, WaitTypes, WaiterOwned
  <2>. QED
    BY <1>1, <2>1, Zenon DEF Moving, Kept
<1>2. CASE ~(waiter[s] # NoWaker /\ has_woken[waiter[s]])
  BY <1>2, Zenon DEF Moving, Kept
<1>. QED
  BY <1>1, <1>2, Zenon

\* wake_one and wake_all, seen from outside.
LEMMA WakeStepKeeps ==
    ASSUME WaitInv, NEW t \in Thread, NEW all, NEW done, WakeStep(t, all, done)
    PROVE  Kept(t) /\ waiter' = waiter /\ pc'[t] \in WakeLocations \cup {done}
<1>. USE DEF Kept, Goto, WaitInv, WaitTypes, WakeLocations
<1>1. CASE IsEmpty(t, done)
  BY <1>1, Zenon DEF IsEmpty, wqVars
<1>2. CASE PopFront(t, done)
  BY <1>2, Zenon DEF PopFront, wqVars
<1>3. CASE PopCount(t)
  BY <1>3, Zenon DEF PopCount
<1>4. CASE WakeUp(t)
  BY <1>4, ZenonT(40) DEF WakeUp
<1>5. CASE UnparkTarget(t, all, done)
  BY <1>5, Zenon DEF UnparkTarget
<1>. QED
  BY <1>1, <1>2, <1>3, <1>4, <1>5, Zenon DEF WakeStep

\* wake_one and wake_all end when the queue is empty or when they have set a
\* sleeper going.
LEMMA WakeStepMoves ==
    ASSUME WaitInv, QueueInv, NEW t \in Thread, NEW all, NEW done, WakeStep(t, all, done),
           pc[t] # "unpark", \E s \in Thread : pc[s] \in Sleeping
    PROVE  \E s \in Thread : Moving(s)'
<1>1. \A s \in Thread \ {t} : Moving(s) => Moving(s)'
  BY WakeStepKeeps, OthersMove, Zenon
<1>2. CASE IsEmpty(t, done)
  BY <1>1, <1>2, EmptyAnswers, Zenon DEF IsEmpty, Goto, WaitInv, WaitTypes, Moving
<1>3. CASE PopFront(t, done)
  BY <1>1, <1>3, EmptyAnswers, SMTT(30) DEF PopFront, Goto, WaitInv, WaitTypes, Moving
<1>4. CASE PopCount(t)
  BY <1>4, Zenon DEF PopCount, Goto, WaitInv, WaitTypes, Moving
<1>5. CASE WakeUp(t)
  <2>1. popped[t] \in Waker
    BY <1>5, Zenon DEF WakeUp, WaitInv, WaitTypes, PoppedInHand, InHand
  <2>2. CASE has_woken[popped[t]]
    BY <1>5, <2>2, ZenonT(40) DEF WakeUp, Goto, WaitInv, WaitTypes, Moving
  <2>3. CASE ~has_woken[popped[t]]
    <3>1. PICK s \in Thread : waiter[s] = popped[t]
      BY <2>1, <2>3, WakerTask, Zenon DEF WaitInv, UnwokenIsWaiter
    <3>2. waiter'[s] = popped[t] /\ has_woken'[popped[t]]
      BY <1>5, <2>1, <3>1, Zenon DEF WakeUp, WaitInv, WaitTypes
    <3>. QED
      BY <2>1, <3>2, WakerTask, Zenon DEF Moving
  <2>. QED
    BY <2>2, <2>3, Zenon
<1>. QED
  BY <1>2, <1>3, <1>4, <1>5, Zenon DEF WakeStep, UnparkTarget

LEMMA WakeStepAnswered ==
    ASSUME WaitInv, QueueInv, Answered, NEW t \in Thread, NEW all, NEW done, done \notin Sleeping,
           WakeStep(t, all, done)
    PROVE  Answered'
<1>1. SUFFICES ASSUME NEW u \in Thread, pc'[u] \in Sleeping PROVE \E s \in Thread : Moving(s)'
  BY Zenon DEF Answered
<1>2. pc[u] \in Sleeping
  BY <1>1, WakeStepKeeps, ZenonT(40) DEF Kept, WakeLocations, Sleeping
<1>3. CASE pc[t] # "unpark"
  BY <1>2, <1>3, WakeStepMoves, Zenon
<1>4. CASE pc[t] = "unpark"
  <2>1. UnparkTarget(t, all, done)
    BY <1>4, Zenon DEF WakeStep, IsEmpty, PopFront, PopCount, WakeUp
  <2>2. PICK s \in Thread : Moving(s)
    BY <1>2, Zenon DEF Answered
  <2>3. CASE s = t
    BY <1>4, <2>1, <2>2, <2>3, Zenon DEF UnparkTarget, Moving
  <2>4. CASE s # t
    BY <2>2, <2>4, WakeStepKeeps, OthersMove, Zenon
  <2>. QED
    BY <2>3, <2>4, Zenon
<1>. QED
  BY <1>3, <1>4, Zenon

\* wait_until, seen from outside: who is woken enqueues again and tests again.
LEMMA WaitStepKeeps ==
    ASSUME WaitInv, NEW t \in Thread, NEW closed, WaitStep(t, closed)
    PROVE  /\ pc[t] \in WaitLocations /\ pc'[t] \in WaitLocations \cup {closed}
           /\ Kept(t)
           /\ pc[t] # "close" => /\ waiter' = waiter
                                 /\ pc'[t] \in WaitLocations \ {"close"}
                                 /\ Moving(t) => Moving(t)'
                                 /\ pc'[t] \in Sleeping => pc[t] \in Sleeping
<1>1. pc[t] \in WaitLocations /\ waiter[t] \in Waker /\ Task(waiter[t]) = t
  BY Zenon DEF WaitStep, EnqueuePush, EnqueueCount, DoWait, ParkCurrent, Resume, Close, WaitInv, WaitTypes,
         WaiterOwned, WaitLocations
<1>. USE DEF Goto, WaitInv, WaitTypes, WaitLocations
<1>2. CASE EnqueuePush(t)
  BY <1>1, <1>2, Zenon DEF EnqueuePush, Kept, Moving, Sleeping
<1>3. CASE EnqueueCount(t)
  BY <1>1, <1>3, Zenon DEF EnqueueCount, Kept, Moving, Sleeping
<1>4. CASE DoWait(t)
  <2>1. Kept(t) /\ waiter' = waiter /\ pc[t] \in Sleeping /\ pc'[t] \in {"enqueue", "park"}
    BY <1>1, <1>4, Zenon DEF DoWait, Kept, Sleeping
  <2>2. Moving(t) => Moving(t)'
    BY <1>1, <1>4, Zenon DEF DoWait, Moving
  <2>. QED
    BY <1>1, <2>1, <2>2, Zenon
<1>5. CASE ParkCurrent(t)
  BY <1>1, <1>5, ZenonT(40) DEF ParkCurrent, Kept, Moving, Sleeping
<1>6. CASE Resume(t)
  BY <1>1, <1>6, Zenon DEF Resume, wqVars, Kept, Moving, Sleeping
<1>7. CASE Close(t, closed)
  BY <1>1, <1>7, Zenon DEF Close, Kept
<1>. QED
  BY <1>2, <1>3, <1>4, <1>5, <1>6, <1>7, Zenon DEF WaitStep

LEMMA WaitStepAnswered ==
    ASSUME WaitInv, Answered, NEW t \in Thread, NEW closed, pc[t] # "close", WaitStep(t, closed)
    PROVE  Answered'
<1>1. \A s \in Thread : Moving(s) => Moving(s)'
  BY WaitStepKeeps, OthersMove, Zenon
<1>2. \A s \in Thread : pc'[s] \in Sleeping => pc[s] \in Sleeping
  BY WaitStepKeeps, Zenon DEF Kept
<1>. QED
  BY <1>1, <1>2, Zenon DEF Answered

-----------------------------------------------------------------------------
(* The waker that has been pushed and not yet counted *)

\* Between push_back and fetch_add nobody else changes the queue.
PushedLast ==
    \A t \in Thread : pc[t] = "count" => Len(wakers) > 0 /\ wakers[Len(wakers)] = waiter[t]

LEMMA MovePushed ==
    ASSUME PushedLast, QueueInv, NEW t \in Thread, Kept(t), pc'[t] # "count",
           wakers' = wakers \/ wq_lock = NoThread
    PROVE  PushedLast'
  BY SMTT(30) DEF PushedLast, QueueInv, QueueCounted, Counting, Kept

LEMMA WaitStepPushed ==
    ASSUME PushedLast, WaitInv, QueueInv, NEW t \in Thread, NEW closed, closed # "count",
           WaitStep(t, closed)
    PROVE  PushedLast'
<1>1. Kept(t)
  BY WaitStepKeeps, Zenon
<1>2. CASE EnqueuePush(t)
  <2>1. \A s \in Thread : pc[s] # "count"
    BY <1>2, Zenon DEF EnqueuePush, QueueInv, QueueCounted, Counting
  <2>2. wakers \in Seq(Waker) /\ waiter[t] \in Waker
    BY <1>2, Zenon DEF EnqueuePush, WaitInv, WaitTypes, WaiterOwned, WaitLocations
  <2>3. Len(wakers') > 0 /\ wakers'[Len(wakers')] = waiter[t]
    BY <1>2, <2>2, SMTT(30) DEF EnqueuePush
  <2>4. waiter'[t] = waiter[t]
    BY <1>2, Zenon DEF EnqueuePush
  <2>. QED
    BY <1>1, <2>1, <2>3, <2>4, Zenon DEF PushedLast, Kept
<1>3. CASE ~EnqueuePush(t)
  BY <1>1, <1>3, MovePushed, Zenon DEF WaitStep, EnqueueCount, DoWait, ParkCurrent, Resume, Close, wqVars,
                                Goto, WaitInv, WaitTypes
<1>. QED
  BY <1>2, <1>3, Zenon

LEMMA WakeStepPushed ==
    ASSUME PushedLast, WaitInv, QueueInv, NEW t \in Thread, NEW all, NEW done, done # "count",
           WakeStep(t, all, done)
    PROVE  PushedLast'
<1>1. Kept(t) /\ pc'[t] # "count"
  BY WakeStepKeeps, Zenon DEF WakeLocations
<1>2. wakers' = wakers \/ wq_lock = NoThread
  BY Zenon DEF WakeStep, IsEmpty, PopFront, PopCount, WakeUp, UnparkTarget, wqVars
<1>. QED
  BY <1>1, <1>2, MovePushed, Zenon

\* wake_all that finds nothing to pop has left nobody behind: a waker that is
\* still to be woken is in the hand of someone else.
LEMMA EmptyReachable ==
    ASSUME WaitInv, QueueInv, PushedLast, NEW t \in Thread, pc[t] \in {"is_empty", "pop"},
           num_wakers = 0 \/ wakers = <<>>,
           NEW r \in Thread, pc[r] \notin {"enqueue", "count"}, waiter[r] # NoWaker,
           ~has_woken[waiter[r]]
    PROVE  \E s \in Thread \ {t} : pc[s] \in Popping /\ popped[s] = waiter[r]
<1>1. Reachable(waiter[r])
  BY Zenon DEF WaitInv, UnwokenReachable
<1>2. ~InQueue(waiter[r])
  <2> SUFFICES ASSUME InQueue(waiter[r]) PROVE FALSE
    BY Zenon
  <2>1. PICK i \in DOMAIN wakers : wakers[i] = waiter[r]
    BY Zenon DEF InQueue
  <2>2. wakers # <<>> /\ Len(wakers) \in Nat \ {0} /\ DOMAIN wakers = 1 .. Len(wakers)
    BY <2>1, SMTT(30) DEF WaitInv, WaitTypes
  <2>3. num_wakers = 0
    BY <2>2, Zenon
  <2>4. wq_lock \in Thread
    BY <2>2, <2>3, Zenon DEF QueueInv, QueueTypes, QueueCounted
  <2>5. pc[wq_lock] = "count" /\ Len(wakers) = 1
    BY <2>2, <2>3, <2>4, SMTT(30) DEF QueueInv, QueueCounted, Counting
  <2>6. waiter[wq_lock] = waiter[r]
    BY <2>1, <2>2, <2>4, <2>5, SMTT(30) DEF PushedLast
  <2>7. wq_lock = r
    BY <2>4, <2>6, Zenon DEF WaitInv, WaiterOwned
  <2>. QED
    BY <2>5, <2>7, Zenon
<1>3. pc[t] \notin Popping
  BY Zenon DEF Popping
<1>. QED
  BY <1>1, <1>2, <1>3, Zenon DEF Reachable

-----------------------------------------------------------------------------
(***************************************************************************)
(* Mutex: mutual exclusion, the bookkeeping of its wait queue and the       *)
(* absence of lost wake-ups, for any set of threads and any bound on the    *)
(* wakers.                                                                  *)
(*                                                                          *)
(* Exclusion and the bookkeeping hold for either value of WaiterDrop.       *)
(* Exclusion needs nothing of the queue: only acquire_lock enters the       *)
(* places of a holder, and only the drop of a guard leaves them.            *)
(*                                                                          *)
(* That nobody sleeps on a free mutex needs Waiter::drop, and one thing     *)
(* beyond the invariants of the queue: on a free mutex every sleeper is     *)
(* answered.  The flag is cleared by a thread that goes on to wake_one; a   *)
(* test that fails is one that found the flag set; and a woken thread tests *)
(* again.                                                                   *)
(***************************************************************************)

HolderLocations == {"locked", "close"}

FlagTypes == locked \in BOOLEAN /\ pc \in [Thread -> Locations]

HolderInv == FlagTypes /\ MutualExclusion

\* wait_until has no waiter before its first test and after its return.
WaiterInMutex == \A t \in Thread : waiter[t] # NoWaker => pc[t] \in WaitLocations

MutexSleepInv == HolderInv /\ QueueInv /\ WaitInv /\ WaiterInMutex /\ (~locked => Answered)

-----------------------------------------------------------------------------
(* Mutual exclusion *)

\* A step of a thread that stays among the holders, or among the others.
LEMMA MoveHolder ==
    ASSUME HolderInv, NEW t \in Thread, NEW loc \in Locations, Goto(t, loc), UNCHANGED locked,
           pc[t] \in HolderLocations <=> loc \in HolderLocations
    PROVE  HolderInv'
<1>1. FlagTypes'
  BY Zenon DEF HolderInv, FlagTypes, Goto
<1>2. \A s \in Thread : pc'[s] \in HolderLocations <=> pc[s] \in HolderLocations
  BY Zenon DEF HolderInv, FlagTypes, Goto
<1>3. Holders' = Holders
  BY <1>2, Zenon DEF Holders, At, HolderLocations
<1>. QED
  BY <1>1, <1>3, Zenon DEF HolderInv, MutualExclusion

\* acquire_lock succeeds only when there is no holder.
LEMMA AcquireHolder ==
    ASSUME HolderInv, NEW t \in Thread, NEW ok \in HolderLocations,
           NEW no \in Locations \ HolderLocations, AcquireLock(t, ok, no),
           pc[t] \notin HolderLocations
    PROVE  HolderInv'
<1>1. FlagTypes'
  BY Zenon DEF HolderInv, FlagTypes, AcquireLock, Goto, HolderLocations, Locations, WaitLocations
<1>2. CASE locked
  <2>1. \A s \in Thread : pc'[s] \in HolderLocations <=> pc[s] \in HolderLocations
    BY <1>2, Zenon DEF HolderInv, FlagTypes, AcquireLock, Goto
  <2>2. Holders' = Holders
    BY <2>1, Zenon DEF Holders, At, HolderLocations
  <2>. QED
    BY <1>1, <1>2, <2>2, Zenon DEF HolderInv, MutualExclusion, AcquireLock
<1>3. CASE ~locked
  <2>1. \A s \in Thread : pc'[s] \in HolderLocations <=> s = t
    BY <1>3, Zenon DEF HolderInv, FlagTypes, MutualExclusion, AcquireLock, Goto, Holders, At, HolderLocations
  <2>2. Holders' = {t}
    BY <2>1, Zenon DEF Holders, At, HolderLocations
  <2>. QED
    BY <1>1, <2>2, Zenon DEF HolderInv, MutualExclusion, AcquireLock
<1>. QED
  BY <1>2, <1>3, Zenon

\* Dropping the guard: the only holder leaves.
LEMMA UnlockHolder == ASSUME HolderInv, NEW t \in Thread, Unlock(t) PROVE HolderInv'
<1>1. FlagTypes'
  BY Zenon DEF HolderInv, FlagTypes, Unlock, Goto, Locations, WakeLocations
<1>2. \A s \in Thread : pc'[s] \notin HolderLocations
  BY Zenon DEF HolderInv, FlagTypes, MutualExclusion, Unlock, Goto, Holders, At, HolderLocations
<1>3. Holders' = {}
  BY <1>2, Zenon DEF Holders, At, HolderLocations
<1>. QED
  BY <1>1, <1>3, Zenon DEF HolderInv, MutualExclusion, Unlock

\* The steps of the wait queue move a thread without acquiring or releasing.
LEMMA QueueStepHolder == ASSUME HolderInv, NEW t \in Thread, MutexQueueStep(t) PROVE HolderInv'
<1>. USE DEF HolderLocations, Locations, WaitLocations, WakeLocations
<1>1. UNCHANGED locked
  BY Zenon DEF MutexQueueStep
<1>2. CASE WaitStep(t, "locked")
  <2>1. \E loc \in Locations :
           Goto(t, loc) /\ (pc[t] \in HolderLocations <=> loc \in HolderLocations)
    <3>1. CASE EnqueuePush(t) \/ EnqueueCount(t) \/ Resume(t) \/ Close(t, "locked")
      BY <3>1, SMTT(30) DEF EnqueuePush, EnqueueCount, Resume, Close
    <3>2. CASE DoWait(t)
      BY <3>2, SMTT(30) DEF DoWait
    <3>3. CASE ParkCurrent(t)
      BY <3>3, SMTT(30) DEF ParkCurrent
    <3>. QED
      BY <1>2, <3>1, <3>2, <3>3, Zenon DEF WaitStep
  <2>. QED
    BY <1>1, <2>1, MoveHolder, Zenon
<1>3. CASE WakeStep(t, FALSE, "idle")
  <2>1. \E loc \in Locations :
           Goto(t, loc) /\ (pc[t] \in HolderLocations <=> loc \in HolderLocations)
    <3>1. CASE IsEmpty(t, "idle")
      BY <3>1, SMTT(30) DEF IsEmpty
    <3>2. CASE PopFront(t, "idle")
      BY <3>2, SMTT(30) DEF PopFront
    <3>3. CASE PopCount(t)
      BY <3>3, SMTT(30) DEF PopCount
    <3>4. CASE WakeUp(t)
      BY <3>4, SMTT(30) DEF WakeUp
    <3>5. CASE UnparkTarget(t, FALSE, "idle")
      BY <3>5, SMTT(30) DEF UnparkTarget
    <3>. QED
      BY <1>3, <3>1, <3>2, <3>3, <3>4, <3>5, Zenon DEF WakeStep
  <2>. QED
    BY <1>1, <2>1, MoveHolder, Zenon
<1>. QED
  BY <1>2, <1>3, Zenon DEF MutexQueueStep

LEMMA NextHolder == HolderInv /\ [MutexNext]_mutexVars => HolderInv'
<1> SUFFICES ASSUME HolderInv, [MutexNext]_mutexVars PROVE HolderInv'
  BY Zenon
<1>1. CASE UNCHANGED mutexVars
  BY <1>1, Zenon DEF mutexVars, HolderInv, FlagTypes, MutualExclusion, Holders, At
<1>2. ASSUME NEW t \in Thread, NEW call \in {"lock", "try_lock"}, CallLock(t, call) PROVE HolderInv'
  BY <1>2, MoveHolder, Zenon DEF CallLock, Locations, HolderLocations
<1>3. ASSUME NEW t \in Thread, TryLock(t) PROVE HolderInv'
  BY <1>3, AcquireHolder, Zenon DEF TryLock, Locations, HolderLocations
<1>4. ASSUME NEW t \in Thread, FirstTry(t) PROVE HolderInv'
  BY <1>4, AcquireHolder, Zenon DEF FirstTry, Locations, WaitLocations, HolderLocations
<1>5. ASSUME NEW t \in Thread, Recheck(t) PROVE HolderInv'
  BY <1>5, AcquireHolder, Zenon DEF Recheck, Locations, WaitLocations, HolderLocations
<1>. QED
  BY <1>1, <1>2, <1>3, <1>4, <1>5, UnlockHolder, QueueStepHolder, Zenon DEF MutexNext, Step

\* At most one thread has the guard of the mutex, and the flag says whether one
\* has, with or without the Drop of Waiter.
THEOREM MutexExcludes == MutexSpec => []MutualExclusion
<1>1. MutexInit => HolderInv
  BY Zenon DEF MutexInit, HolderInv, FlagTypes, Locations, MutualExclusion, Holders, At
<1>2. HolderInv => MutualExclusion
  BY Zenon DEF HolderInv
<1>. QED
  BY <1>1, <1>2, NextHolder, PTL DEF MutexSpec

-----------------------------------------------------------------------------
(* The wait queue *)

LEMMA NextQueue == QueueInv /\ [MutexNext]_mutexVars => QueueInv'
<1> SUFFICES ASSUME QueueInv, [MutexNext]_mutexVars PROVE QueueInv'
  BY Zenon
<1>. USE DEF Counting
<1>1. CASE UNCHANGED mutexVars
  BY <1>1, Zenon DEF mutexVars, wqVars, QueueInv, QueueTypes, QueueCounted
<1>2. ASSUME NEW t \in Thread, NEW call \in {"lock", "try_lock"}, CallLock(t, call) PROVE QueueInv'
  BY <1>2, MoveQueue, Zenon DEF CallLock, wqVars
<1>3. ASSUME NEW t \in Thread, TryLock(t) \/ Recheck(t) PROVE QueueInv'
  BY <1>3, MoveQueue, Zenon DEF TryLock, Recheck, AcquireLock, wqVars
<1>4. ASSUME NEW t \in Thread, FirstTry(t) PROVE QueueInv'
  BY <1>4, MoveQueue, Zenon DEF FirstTry, AcquireLock
<1>5. ASSUME NEW t \in Thread, Unlock(t) PROVE QueueInv'
  BY <1>5, MoveQueue, Zenon DEF Unlock, wqVars
<1>6. ASSUME NEW t \in Thread, MutexQueueStep(t) PROVE QueueInv'
  BY <1>6, WaitStepQueue, WakeStepQueue, Zenon DEF MutexQueueStep
<1>. QED
  BY <1>1, <1>2, <1>3, <1>4, <1>5, <1>6, Zenon DEF MutexNext, Step

\* The atomic length of a wait queue follows the queue, whatever the order in
\* which threads enqueue, pop and look at it without the lock.
THEOREM QueueLengthExact ==
    ASSUME NoThread \notin Thread PROVE MutexSpec => []QueueCounted
<1>1. MutexInit => QueueInv
  BY NoThread \notin Thread, InitQueue, Zenon DEF MutexInit, Counting
<1>2. QueueInv => QueueCounted
  BY Zenon DEF QueueInv
<1>. QED
  BY <1>1, <1>2, NextQueue, PTL DEF MutexSpec

-----------------------------------------------------------------------------
(* Wake-ups *)

\* The steps that take the flag leave it set, and give a waiter only to a thread
\* whose first test has failed.
LEMMA AcquireSleep ==
    ASSUME MutexSleepInv, NEW t \in Thread, TryLock(t) \/ FirstTry(t) \/ Recheck(t)
    PROVE  WaitInv' /\ WaiterInMutex' /\ locked'
<1>1. t \notin parked /\ locked'
  BY Zenon DEF MutexSleepInv, WaitInv, ParkedWaits, TryLock, FirstTry, Recheck, AcquireLock
<1>2. CASE TryLock(t)
  <2>1. PICK loc : loc \in {"locked", "idle"} /\ Goto(t, loc)
    BY <1>2, Zenon DEF TryLock, AcquireLock
  <2>2. waiter[t] = NoWaker
    BY <1>2, Zenon DEF MutexSleepInv, WaiterInMutex, TryLock, WaitLocations
  <2>3. WaitInv'
    BY <1>1, <1>2, <2>1, MoveWait, Zenon DEF MutexSleepInv, TryLock, wqVars, InHand, WaitLocations
  <2>. QED
    BY <1>1, <1>2, <2>1, <2>2, <2>3, Zenon DEF MutexSleepInv, WaiterInMutex, TryLock, wqVars, Goto, WaitInv, WaitTypes
<1>3. CASE Recheck(t)
  <2>1. PICK loc : loc \in {"close", "wait"} /\ Goto(t, loc)
    BY <1>3, Zenon DEF Recheck, AcquireLock
  <2>2. waiter[t] # NoWaker
    BY <1>3, Zenon DEF MutexSleepInv, WaitInv, WaiterOwned, Recheck, WaitLocations
  <2>3. WaitInv'
    BY <1>1, <1>3, <2>1, <2>2, MoveWait, Zenon DEF MutexSleepInv, Recheck, wqVars, InHand, WaitLocations
  <2>. QED
    BY <1>1, <1>3, <2>1, <2>3, Zenon DEF MutexSleepInv, WaiterInMutex, Recheck, wqVars, Goto, WaitInv, WaitTypes,
                                  WaitLocations
<1>4. CASE FirstTry(t)
  <2>1. waiter[t] = NoWaker
    BY <1>4, Zenon DEF MutexSleepInv, WaiterInMutex, FirstTry, WaitLocations
  <2>2. CASE locked
    <3>1. Goto(t, "enqueue") /\ NewPair(t)
      BY <1>4, <2>2, Zenon DEF FirstTry, AcquireLock
    <3>2. WaitInv'
      BY <1>4, <2>1, <3>1, NewPairWait, Zenon DEF MutexSleepInv, FirstTry, InHand
    <3>. QED
      BY <1>1, <3>1, <3>2, Zenon DEF MutexSleepInv, WaiterInMutex, NewPair, Goto, WaitInv, WaitTypes, WaitLocations
  <2>3. CASE ~locked
    <3>1. Goto(t, "locked") /\ UNCHANGED <<wakers, has_woken, waiter, popped, parked>>
      BY <1>4, <2>3, Zenon DEF FirstTry, AcquireLock
    <3>2. WaitInv'
      BY <1>1, <1>4, <3>1, MoveWait, Zenon DEF MutexSleepInv, FirstTry, InHand, WaitLocations
    <3>. QED
      BY <1>1, <2>1, <3>1, <3>2, Zenon DEF MutexSleepInv, WaiterInMutex, Goto, WaitInv, WaitTypes
  <2>. QED
    BY <2>2, <2>3, Zenon
<1>. QED
  BY <1>2, <1>3, <1>4, Zenon

\* Clearing the flag is followed by wake_one.
LEMMA UnlockSleep ==
    ASSUME MutexSleepInv, NEW t \in Thread, Unlock(t) PROVE WaitInv' /\ WaiterInMutex' /\ Answered'
<1>1. t \notin parked /\ waiter[t] = NoWaker
  BY Zenon DEF MutexSleepInv, WaitInv, ParkedWaits, WaiterInMutex, Unlock, WaitLocations
<1>2. WaitInv'
  BY <1>1, MoveWait, Zenon DEF MutexSleepInv, Unlock, wqVars, InHand, WaitLocations
<1>3. pc'[t] = "is_empty" /\ WaiterInMutex'
  BY <1>1, Zenon DEF MutexSleepInv, WaiterInMutex, Unlock, wqVars, Goto, WaitInv, WaitTypes
<1>. QED
  BY <1>2, <1>3, Zenon DEF Answered, Moving

LEMMA CallLockSleep ==
    ASSUME MutexSleepInv, NEW t \in Thread, NEW call \in {"lock", "try_lock"}, CallLock(t, call)
    PROVE  WaitInv' /\ WaiterInMutex' /\ (~locked' => Answered')
<1>1. t \notin parked /\ waiter[t] = NoWaker
  BY Zenon DEF MutexSleepInv, WaitInv, ParkedWaits, WaiterInMutex, CallLock, WaitLocations
<1>2. WaitInv'
  BY <1>1, MoveWait, Zenon DEF MutexSleepInv, CallLock, wqVars, InHand, WaitLocations
<1>3. \A s \in Thread : pc'[s] = IF s = t THEN call ELSE pc[s]
  BY Zenon DEF MutexSleepInv, WaitInv, WaitTypes, CallLock, Goto
<1>4. WaiterInMutex'
  BY <1>1, <1>3, Zenon DEF MutexSleepInv, WaiterInMutex, CallLock, wqVars
<1>5. \A s \in Thread : Moving(s) => Moving(s)'
  BY <1>1, <1>3, Zenon DEF Moving, CallLock, wqVars
<1>6. ~locked' => Answered'
  BY <1>3, <1>5, Zenon DEF MutexSleepInv, Answered, Sleeping, CallLock
<1>. QED
  BY <1>2, <1>4, <1>6, Zenon

LEMMA MutexQueueStepSleep ==
    ASSUME MutexSleepInv, WaiterDrop, NEW t \in Thread, MutexQueueStep(t)
    PROVE  WaitInv' /\ WaiterInMutex' /\ (~locked' => Answered')
<1>1. CASE WaitStep(t, "locked")
  <2>1. WaitInv'
    BY <1>1, WaitStepWait, Zenon DEF MutexSleepInv, InHand, WaitLocations
  <2>2. WaiterInMutex'
    <3>. USE DEF MutexSleepInv, WaiterInMutex, WaitInv, WaitTypes, Goto, WaitLocations
    <3>1. CASE EnqueuePush(t) \/ EnqueueCount(t)
      BY <3>1, Zenon DEF EnqueuePush, EnqueueCount
    <3>2. CASE DoWait(t)
      BY <3>2, Zenon DEF DoWait
    <3>3. CASE ParkCurrent(t)
      BY <3>3, ZenonT(40) DEF ParkCurrent
    <3>4. CASE Resume(t)
      BY <3>4, Zenon DEF Resume, wqVars
    <3>5. CASE Close(t, "locked")
      BY <3>5, Zenon DEF Close
    <3>. QED
      BY <1>1, <3>1, <3>2, <3>3, <3>4, <3>5, Zenon DEF WaitStep
  <2>3. pc[t] = "close" => locked'
    BY Zenon DEF MutexSleepInv, HolderInv, MutualExclusion, Holders, At, MutexQueueStep
  <2>4. ~locked' => Answered'
    BY <1>1, <2>3, WaitStepAnswered, Zenon DEF MutexSleepInv, MutexQueueStep
  <2>. QED
    BY <2>1, <2>2, <2>4, Zenon
<1>2. CASE WakeStep(t, FALSE, "idle")
  <2>1. WaitInv'
    BY <1>2, WakeStepWait, Zenon DEF MutexSleepInv, InHand, WaitLocations
  <2>2. WaiterInMutex'
    <3>1. waiter[t] = NoWaker
      BY <1>2, Zenon DEF MutexSleepInv, WaiterInMutex, WaitLocations, WakeStep, IsEmpty, PopFront, PopCount, WakeUp,
                  UnparkTarget
    <3>2. waiter' = waiter /\ \A s \in Thread \ {t} : pc'[s] = pc[s]
      BY <1>2, ZenonT(40) DEF MutexSleepInv, WaitInv, WaitTypes, Goto, WakeStep, IsEmpty, PopFront, PopCount, WakeUp,
                  UnparkTarget, wqVars
    <3>. QED
      BY <3>1, <3>2, Zenon DEF MutexSleepInv, WaiterInMutex
  <2>3. ~locked' => Answered'
    BY <1>2, WakeStepAnswered, Zenon DEF MutexSleepInv, MutexQueueStep, Sleeping
  <2>. QED
    BY <2>1, <2>2, <2>3, Zenon
<1>. QED
  BY <1>1, <1>2, Zenon DEF MutexQueueStep

LEMMA NextMutexSleep == ASSUME WaiterDrop PROVE MutexSleepInv /\ [MutexNext]_mutexVars => MutexSleepInv'
<1> SUFFICES ASSUME MutexSleepInv, [MutexNext]_mutexVars PROVE MutexSleepInv'
  BY Zenon
<1>1. HolderInv' /\ QueueInv'
  BY NextHolder, NextQueue, Zenon DEF MutexSleepInv
<1>2. CASE UNCHANGED mutexVars
  BY <1>2, SMTT(30) DEF mutexVars, wqVars, MutexSleepInv, HolderInv, FlagTypes, MutualExclusion, Holders, At,
              QueueInv, QueueTypes, QueueCounted, WaitInv, WaitTypes, WaiterOwned, PoppedInHand,
              UnwokenIsWaiter, UnwokenReachable, Reachable, InQueue, ParkedWaits, Unparking,
              WaiterInMutex, Answered, Moving
<1>3. WaitInv' /\ WaiterInMutex' /\ (~locked' => Answered') => MutexSleepInv'
  BY <1>1, Zenon DEF MutexSleepInv
<1>. QED
  BY <1>2, <1>3, AcquireSleep, UnlockSleep, CallLockSleep, MutexQueueStepSleep, WaiterDrop, Zenon DEF MutexNext, Step

\* Nobody sleeps on a free mutex when everybody else is outside its operations:
\* between the test that fails and the sleep no unlock goes unnoticed, provided
\* that a waiter that is gone counts as woken.
THEOREM NoLostWakeup ==
    ASSUME NoThread \notin Thread, WaiterDrop PROVE MutexSpec => []NoSleeperWhenUnlocked
<1>1. MutexInit => MutexSleepInv
  <2> SUFFICES ASSUME MutexInit PROVE MutexSleepInv
    BY Zenon
  <2>1. HolderInv
    BY Zenon DEF MutexInit, HolderInv, FlagTypes, Locations, MutualExclusion, Holders, At
  <2>2. QueueInv /\ WaitInv
    BY NoThread \notin Thread, InitQueue, InitWait, Zenon DEF MutexInit, Counting, InHand, WaitLocations
  <2>3. WaiterInMutex /\ Answered
    BY Zenon DEF MutexInit, wqInit, WaiterInMutex, Answered, Sleeping
  <2>. QED
    BY <2>1, <2>2, <2>3, Zenon DEF MutexSleepInv
<1>2. MutexSleepInv => NoSleeperWhenUnlocked
  <2> SUFFICES ASSUME MutexSleepInv, ~locked, \A t \in Thread : pc[t] = "idle" \/ t \in parked,
                      NEW u \in parked
               PROVE  FALSE
    BY Zenon DEF NoSleeperWhenUnlocked
  <2>1. \A t \in Thread : pc[t] \in {"idle", "parked"}
    BY Zenon DEF MutexSleepInv, WaitInv, ParkedWaits
  <2>2. PICK s \in Thread : Moving(s)
    BY Zenon DEF MutexSleepInv, WaitInv, WaitTypes, ParkedWaits, Answered, Sleeping
  <2>3. waiter[s] # NoWaker /\ has_woken[waiter[s]]
    BY <2>1, <2>2, Zenon DEF Moving
  <2>4. s \in parked
    BY <2>1, <2>3, Zenon DEF MutexSleepInv, WaiterInMutex, WaitLocations
  <2>5. Unparking(s)
    BY <2>3, <2>4, Zenon DEF MutexSleepInv, WaitInv, ParkedWaits
  <2>. QED
    BY <2>1, <2>5, Zenon DEF Unparking
<1>. QED
  BY <1>1, <1>2, NextMutexSleep, WaiterDrop, PTL DEF MutexSpec
=============================================================================

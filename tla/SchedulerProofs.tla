--------------------------- MODULE SchedulerProofs ---------------------------
(***************************************************************************)
(* Proofs about the scheduling core: for any number of CPUs and tasks, any  *)
(* number of preemption guards and either policy, TasksAccounted and        *)
(* NoRequestLost hold.  SchedInv holds initially and, by SchedulerSteps,    *)
(* always; it says that every task is accounted for and that no request is  *)
(* lost.                                                                    *)
(***************************************************************************)
EXTENDS SchedulerSteps, FiniteSetTheorems

LEMMA InitInv == Init => SchedInv
<1> SUFFICES ASSUME Init PROVE SchedInv
  BY Zenon
<1>1. TypeOK
  BY InitTypes, Zenon
<1>2. /\ \A c \in Cpu : /\ rq[c] = [current |-> NONE, queue |-> <<>>] /\ on[c] = c /\ previous[c] = NONE
                        /\ next[c] = NONE /\ irq[c] /\ info[c] = NEED_PREEMPT_MASK /\ call[c] = NoCall
      /\ \A t \in Task : /\ cpu[t] = NONE /\ ~switched_to_cpu[t] /\ ~has_woken[t] /\ arc[t] = 1
      /\ \A c \in Cpu : pc[c] = "run" /\ c # NONE /\ c \notin Task
      /\ \A t \in Task : pc[t] = "built" /\ t # NONE
  BY SchedulerAssumption, Zenon DEF Init, Context
<1>3. \A c \in Cpu : rq[c].current = NONE /\ rq[c].queue = <<>> /\ DOMAIN rq[c].queue = {}
  BY <1>2, SMTT(30)
<1>4. \A t \in Task, c \in Cpu : ~Has(rq[c], t) /\ ~Targets(c, t) /\ ~Claims(c, t)
  BY <1>2, <1>3, ZenonT(40) DEF Has, Targets, Claims
<1>5. \A t \in Task : ~InRq(t)
  BY <1>4, ZenonT(40) DEF InRq
<1>6. Queues
  BY <1>2, <1>3, <1>4, <1>5, Zenon DEF Queues, NoRepeats
<1>7. CpusControlled
  <2> SUFFICES ASSUME NEW c \in Cpu PROVE on[c] \in Task \cup {c} /\ CpuControl(c) /\ CallControl(c)
    BY Zenon DEF CpusControlled
  <2>1. CpuBooting(c)
    BY <1>2, <1>3, ZenonT(40) DEF CpuBooting, Booting
  <2>. QED
    BY <1>2, <2>1, ZenonT(40) DEF CpuControl, CallControl
<1>8. TasksControlled
  BY <1>2, <1>4, Zenon DEF TasksControlled
<1>9. Foreground
  BY <1>2, SMTT(30) DEF Foreground
<1>10. Arcs
  <2> SUFFICES ASSUME NEW t \in Task
               PROVE arc[t] = RqArc(t) + OnArc(t) + PreviousArc(t) + NextArc(t) + ParkArc(t)
                              + BuiltArc(t) + CallArcs(t)
    BY Zenon DEF Arcs
  <2>1. RqArc(t) = 0 /\ OnArc(t) = 0 /\ PreviousArc(t) = 0 /\ NextArc(t) = 0
    BY <1>2, <1>5, SMTT(30) DEF RqArc, OnArc, PreviousArc, NextArc, One
  <2>2. ParkArc(t) = 0 /\ BuiltArc(t) = 1
    BY <1>2, Zenon DEF ParkArc, BuiltArc, One
  <2>3. CallArcs(t) = 0
    <3>1. CallsOf(t) = {}
      BY <1>4, Zenon DEF CallsOf
    <3>. QED
      BY <3>1, FS_EmptySet, Zenon DEF CallArcs
  <2>. QED
    BY <1>2, <2>1, <2>2, <2>3, SMTT(30)
<1>11. WakeUps /\ Halts
  BY <1>2, Zenon DEF WakeUps, Halts
<1>12. CpuCounts
  <2>1. \A S \in SUBSET Cpu : IsFiniteSet(S) /\ Cardinality(S) \in Nat
    BY SchedulerAssumption, FS_Subset, FS_CardinalityType, Zenon
  <2>2. \A S \in SUBSET Cpu : \A c \in Cpu \ S : Cardinality(S \cup {c}) = Cardinality(S) + 1
    BY <2>1, FS_AddElement, Zenon
  <2>3. \A S \in SUBSET Cpu : \A c \in S : Cardinality(S \ {c}) = Cardinality(S) - 1
    BY <2>1, FS_RemoveElement, Zenon
  <2>. QED
    BY <2>1, <2>2, <2>3, Zenon DEF CpuCounts
<1>. QED
  BY <1>1, <1>6, <1>7, <1>8, <1>9, <1>10, <1>11, <1>12, ZenonT(40) DEF SchedInv

-----------------------------------------------------------------------------
(* What it means *)

\* How many there are of what there is at most one of.
LEMMA SingleCard ==
    ASSUME NEW S, \A x, y \in S : x = y PROVE Cardinality(S) = One(S # {})
<1>1. CASE S = {}
  BY <1>1, FS_EmptySet, Zenon DEF One
<1>2. CASE S # {}
  <2>1. PICK x : S = {x}
    BY <1>2, SMTT(30)
  <2>. QED
    BY <1>2, <2>1, FS_Singleton, Zenon DEF One
<1>. QED
  BY <1>1, <1>2, Zenon

\* A run queue is no longer than there are tasks.
LEMMA QueueLength ==
    ASSUME NEW r \in RunQueue, NoRepeats(r)
    PROVE  DOMAIN r.queue = 1 .. Len(r.queue) /\ Len(r.queue) <= Cardinality(Task)
<1> DEFINE q == r.queue
<1>1. q \in Seq(Task) /\ Len(q) \in Nat /\ DOMAIN q = 1 .. Len(q)
  BY SMTT(30) DEF RunQueue
<1>2. q \in [1 .. Len(q) -> Task]
  BY <1>1, SMTT(30)
<1>3. \A i, j \in 1 .. Len(q) : q[i] = q[j] => i = j
  BY <1>1, Zenon DEF NoRepeats
<1>. HIDE DEF q
<1>4. q \in Injection(1 .. Len(q), Task)
  BY <1>2, <1>3, Zenon DEF Injection, IsInjective
<1>5. Cardinality(1 .. Len(q)) <= Cardinality(Task)
  BY <1>4, SchedulerAssumption, FS_Injection, Zenon
<1>6. Cardinality(1 .. Len(q)) = Len(q)
  BY <1>1, FS_Interval, SMTT(30)
<1>. QED
  BY <1>1, <1>5, <1>6, Zenon DEF q

\* Where a task is in a run queue.
LEMMA PlaceFacts ==
    ASSUME SchedInv, NEW t \in Task, NEW c \in Cpu
    PROVE  /\ rq[c].current = t => Has(rq[c], t) /\ InRq(t) /\ cpu[t] = c /\ InQueue(t, c) = {}
           /\ \A i \in InQueue(t, c) :
                 /\ Has(rq[c], t) /\ InRq(t) /\ cpu[t] = c
                 /\ i \in 1 .. Cardinality(Task) /\ \A j \in InQueue(t, c) : i = j
<1>1. rq[c] \in RunQueue /\ NoRepeats(rq[c])
  BY Zenon DEF SchedInv, TypeOK, Queues
<1>2. Has(rq[c], t) => InRq(t) /\ cpu[t] = c
  BY Zenon DEF SchedInv, Queues, InRq
<1>3. rq[c].current = t => Has(rq[c], t) /\ InQueue(t, c) = {}
  BY <1>1, Zenon DEF Has, InQueue, NoRepeats
<1>4. ASSUME NEW i \in InQueue(t, c)
      PROVE  Has(rq[c], t) /\ i \in 1 .. Cardinality(Task) /\ \A j \in InQueue(t, c) : i = j
  <2>1. Has(rq[c], t) /\ i \in DOMAIN rq[c].queue
    BY Zenon DEF Has, InQueue
  <2>2. DOMAIN rq[c].queue = 1 .. Len(rq[c].queue) /\ Len(rq[c].queue) <= Cardinality(Task)
    BY <1>1, QueueLength, Zenon
  <2>3. Len(rq[c].queue) \in Nat /\ Cardinality(Task) \in Nat
    BY <1>1, SchedulerAssumption, FS_CardinalityType, SMTT(30) DEF RunQueue
  <2>4. \A j \in InQueue(t, c) : i = j
    BY <1>1, Zenon DEF InQueue, NoRepeats
  <2>. QED
    BY <2>1, <2>2, <2>3, <2>4, SMTT(30)
<1>. QED
  BY <1>2, <1>3, <1>4, Zenon

\* A task is in as many run queues as its cpu field says.
LEMMA InvQueuedOnce == ASSUME SchedInv PROVE QueuedOnce
<1> SUFFICES ASSUME NEW t \in Task
             PROVE LET places == {p \in Cpu \X (0 .. Cardinality(Task)) :
                                     IF p[2] = 0 THEN rq[p[1]].current = t ELSE p[2] \in InQueue(t, p[1])}
                       claims == {c \in Cpu : /\ call[c] # NoCall
                                              /\ call[c].target = t
                                              /\ call[c].cpu # NONE
                                              /\ ~call[c].still_in_rq} IN
                   /\ Cardinality(places) + Cardinality(claims) = (IF cpu[t] = NONE THEN 0 ELSE 1)
                   /\ \A p \in places : p[1] = cpu[t]
  BY Zenon DEF QueuedOnce
<1> DEFINE Place(p) == IF p[2] = 0 THEN rq[p[1]].current = t ELSE p[2] \in InQueue(t, p[1])
           places == {p \in Cpu \X (0 .. Cardinality(Task)) : Place(p)}
           claims == {c \in Cpu : /\ call[c] # NoCall
                                  /\ call[c].target = t
                                  /\ call[c].cpu # NONE
                                  /\ ~call[c].still_in_rq}
<1>1. \A c \in Cpu : c \in claims <=> Claims(c, t)
  BY Zenon DEF Claims, Targets
<1>2. claims \subseteq Cpu
  BY Zenon
<1>3. ASSUME NEW p \in places
      PROVE  /\ p[1] \in Cpu /\ p = <<p[1], p[2]>> /\ p[1] = cpu[t] /\ InRq(t) /\ Place(p)
  <2>1. p[1] \in Cpu /\ p = <<p[1], p[2]>> /\ Place(p)
    BY SMTT(30)
  <2>. QED
    BY <2>1, PlaceFacts, SMTT(30)
<1>4. ASSUME NEW p \in places, NEW q \in places PROVE p = q
  <2>1. p[1] = q[1] /\ p = <<p[1], p[2]>> /\ q = <<q[1], q[2]>> /\ Place(p) /\ Place(q) /\ p[1] \in Cpu
    BY <1>3, <1>4, Zenon
  <2>2. p[2] = q[2]
    BY <2>1, PlaceFacts, SMTT(30)
  <2>. QED
    BY <2>1, <2>2, Zenon
<1>5. InRq(t) <=> places # {}
  <2>1. ASSUME InRq(t) PROVE places # {}
    <3>1. PICK c \in Cpu : Has(rq[c], t)
      BY <2>1, Zenon DEF InRq
    <3>2. Cardinality(Task) \in Nat
      BY SchedulerAssumption, FS_CardinalityType, Zenon
    <3>3. CASE rq[c].current = t
      <4>1. <<c, 0>> \in places
        BY <3>2, <3>3, SMTT(30)
      <4>. QED
        BY <4>1, Zenon
    <3>4. CASE rq[c].current # t
      <4>1. PICK i \in DOMAIN rq[c].queue : rq[c].queue[i] = t
        BY <3>1, <3>4, Zenon DEF Has
      <4>2. i \in InQueue(t, c)
        BY <4>1, Zenon DEF InQueue
      <4>3. i \in 1 .. Cardinality(Task)
        BY <4>2, PlaceFacts, Zenon
      <4>4. <<c, i>> \in places
        BY <3>2, <4>2, <4>3, SMTT(30)
      <4>. QED
        BY <4>4, Zenon
    <3>. QED
      BY <3>3, <3>4, Zenon
  <2>2. ASSUME places # {} PROVE InRq(t)
    <3>1. PICK p : p \in places
      BY <2>2, Zenon
    <3>. QED
      BY <1>3, <3>1, Zenon
  <2>. QED
    BY <2>1, <2>2, Zenon
<1>. HIDE DEF places, claims
<1>6. /\ \A c, d \in Cpu : Claims(c, t) /\ Claims(d, t) => c = d
      /\ \A c \in Cpu : Claims(c, t) => cpu[t] # NONE /\ ~InRq(t)
      /\ cpu[t] # NONE => InRq(t) \/ \E c \in Cpu : Claims(c, t)
      /\ InRq(t) => cpu[t] # NONE
  <2>1. /\ \A c, d \in Cpu : Claims(c, t) /\ Claims(d, t) => c = d
        /\ \A c \in Cpu : Claims(c, t) => cpu[t] = call[c].cpu /\ ~InRq(t)
        /\ cpu[t] # NONE => InRq(t) \/ \E c \in Cpu : Claims(c, t)
        /\ \A c \in Cpu : Has(rq[c], t) => cpu[t] = c
    BY Zenon DEF SchedInv, Queues
  <2>2. \A c \in Cpu : c # NONE
    BY SchedulerAssumption, Zenon
  <2>. QED
    BY <2>1, <2>2, Zenon DEF InRq, Claims
<1>7. Cardinality(places) = One(places # {})
  BY <1>4, SingleCard, Zenon
<1>8. Cardinality(claims) = One(claims # {})
  BY <1>1, <1>2, <1>6, SingleCard, ZenonT(40)
<1>9. claims # {} <=> \E c \in Cpu : Claims(c, t)
  BY <1>1, <1>2, Zenon
<1>10. Cardinality(places) + Cardinality(claims) = (IF cpu[t] = NONE THEN 0 ELSE 1)
  BY <1>5, <1>6, <1>7, <1>8, <1>9, SMTT(30) DEF One
<1>. QED
  BY <1>3, <1>10, Zenon DEF places, claims

\* The terms of Arcs count what the property counts.
LEMMA InvArcAccounts == ASSUME SchedInv PROVE ArcAccounts
<1> SUFFICES ASSUME NEW t \in Task
             PROVE arc[t] = Cardinality({c \in Cpu : rq[c].current = t})
               + Cardinality(UNION {{<<c, i>> : i \in InQueue(t, c)} : c \in Cpu})
               + Cardinality({c \in Cpu : on[c] = t}) + Cardinality({c \in Cpu : previous[c] = t})
               + Cardinality({c \in Cpu : next[c] = t})
               + (IF pc[t] \in {"park_retry", "switch_wait"} THEN 1 ELSE 0)
               + Cardinality({c \in Cpu : call[c] # NoCall /\ call[c].target = t})
               + (IF pc[t] = "built" THEN 1 ELSE 0)
  BY Zenon DEF ArcAccounts
<1> DEFINE A == {c \in Cpu : rq[c].current = t}
           B == UNION {{<<c, i>> : i \in InQueue(t, c)} : c \in Cpu}
<1>0. t # NONE
  BY TypeFacts, Zenon DEF SchedInv
<1>1. Cardinality({c \in Cpu : on[c] = t}) = OnArc(t)
  <2> DEFINE S == {c \in Cpu : on[c] = t}
  <2>1. \A c, d \in S : c = d
    BY OnDistinct, Zenon
  <2>2. Cardinality(S) = One(S # {})
    <3>. HIDE DEF S
    <3>. QED
      BY <2>1, SingleCard, ZenonT(40)
  <2>3. S # {} <=> \E c \in Cpu : on[c] = t
    BY ZenonT(40)
  <2>. QED
    BY <2>2, <2>3, Zenon DEF OnArc, One
<1>2. Cardinality({c \in Cpu : previous[c] = t}) = PreviousArc(t)
  <2> DEFINE S == {c \in Cpu : previous[c] = t}
  <2>1. \A c, d \in S : c = d
    BY ZenonT(40) DEF SchedInv, Foreground
  <2>2. Cardinality(S) = One(S # {})
    <3>. HIDE DEF S
    <3>. QED
      BY <2>1, SingleCard, ZenonT(40)
  <2>3. S # {} <=> \E c \in Cpu : previous[c] = t
    BY Zenon
  <2>. QED
    BY <2>2, <2>3, Zenon DEF PreviousArc, One
<1>3. Cardinality({c \in Cpu : next[c] = t}) = NextArc(t)
  <2> DEFINE S == {c \in Cpu : next[c] = t}
  <2>1. \A c, d \in S : c = d
    BY <1>0, NextCpu, ZenonT(40)
  <2>2. Cardinality(S) = One(S # {})
    <3>. HIDE DEF S
    <3>. QED
      BY <2>1, SingleCard, ZenonT(40)
  <2>3. S # {} <=> \E c \in Cpu : next[c] = t
    BY Zenon
  <2>. QED
    BY <2>2, <2>3, Zenon DEF NextArc, One
<1>4. /\ Cardinality(A) \in Int /\ Cardinality(B) \in Int
      /\ Cardinality(A) + Cardinality(B) = RqArc(t)
  <2>1. \A c, d \in A : c = d
    BY PlaceFacts, SMTT(30)
  <2>2. \A x \in B : \E c \in Cpu : \E i \in InQueue(t, c) : x = <<c, i>>
    BY Zenon
  <2>3. \A c \in Cpu : \A i \in InQueue(t, c) : <<c, i>> \in B
    BY SMTT(30)
  <2>4. ASSUME NEW x \in B, NEW y \in B PROVE x = y
    <3>1. PICK c \in Cpu : \E i \in InQueue(t, c) : x = <<c, i>>
      BY <2>2, Zenon
    <3>2. PICK i \in InQueue(t, c) : x = <<c, i>>
      BY <3>1, Zenon
    <3>3. PICK d \in Cpu : \E j \in InQueue(t, d) : y = <<d, j>>
      BY <2>2, Zenon
    <3>4. PICK j \in InQueue(t, d) : y = <<d, j>>
      BY <3>3, Zenon
    <3>5. c = d
      BY PlaceFacts, SMTT(30)
    <3>6. i = j
      BY <3>5, PlaceFacts, Zenon
    <3>. QED
      BY <3>2, <3>4, <3>5, <3>6, Zenon
  <2>5. A # {} <=> \E c \in Cpu : rq[c].current = t
    BY Zenon
  <2>6. B # {} <=> \E c \in Cpu : InQueue(t, c) # {}
    BY <2>2, <2>3, Zenon
  <2>7. Cardinality(A) = One(A # {}) /\ Cardinality(B) = One(B # {})
    <3>. HIDE DEF A, B
    <3>. QED
      BY <2>1, <2>4, SingleCard, ZenonT(40)
  <2>8. InRq(t) <=> A # {} \/ B # {}
    <3>1. \A c \in Cpu : Has(rq[c], t) <=> rq[c].current = t \/ InQueue(t, c) # {}
      BY Zenon DEF Has, InQueue
    <3>. QED
      BY <2>5, <2>6, <3>1, ZenonT(40) DEF InRq
  <2>9. ~(A # {} /\ B # {})
    <3> SUFFICES ASSUME NEW c \in Cpu, rq[c].current = t, NEW d \in Cpu, NEW i \in InQueue(t, d) PROVE FALSE
      BY <2>5, <2>6, ZenonT(40)
    <3>1. c = d
      BY PlaceFacts, SMTT(30)
    <3>. QED
      BY <3>1, PlaceFacts, ZenonT(40)
  <2>. HIDE DEF A, B
  <2>. QED
    BY <2>7, <2>8, <2>9, SMTT(30) DEF RqArc, One
<1>5. Cardinality({c \in Cpu : call[c] # NoCall /\ call[c].target = t}) = CallArcs(t)
  BY Zenon DEF CallArcs, CallsOf, Targets
<1>6. /\ (IF pc[t] \in {"park_retry", "switch_wait"} THEN 1 ELSE 0) = ParkArc(t)
      /\ (IF pc[t] = "built" THEN 1 ELSE 0) = BuiltArc(t)
  BY Zenon DEF ParkArc, BuiltArc, One
<1>7. arc[t] = RqArc(t) + OnArc(t) + PreviousArc(t) + NextArc(t) + ParkArc(t) + BuiltArc(t) + CallArcs(t)
  BY Zenon DEF SchedInv, Arcs
<1>. QED
  BY <1>1, <1>2, <1>3, <1>4, <1>5, <1>6, <1>7, CountTypes, SMTT(30)

\* No two CPUs hold a task.
LEMMA InvOneCpuPerTask == ASSUME SchedInv PROVE OneCpuPerTask
<1> SUFFICES ASSUME NEW t \in Task PROVE Cardinality({c \in Cpu : t \in {on[c], previous[c]}}) <= 1
  BY Zenon DEF OneCpuPerTask
<1> DEFINE S == {c \in Cpu : t \in {on[c], previous[c]}}
<1>1. \A c, d \in S : c = d
  BY ZenonT(40) DEF SchedInv, Foreground
<1>2. Cardinality(S) = One(S # {})
  <2>. HIDE DEF S
  <2>. QED
    BY <1>1, SingleCard, Zenon
<1>. QED
  BY <1>2, SMTT(30) DEF One

\* The invariant of every reachable state of the scheduler.
LEMMA Invariant == Spec => []SchedInv
<1>1. SchedInv /\ [Next]_vars => SchedInv'
  BY NextInv, Zenon
<1>. QED
  BY InitInv, <1>1, PTL DEF Spec

\* The variables have their types; in particular no strong count of a task's Arc
\* falls below zero, and the preemption word never mixes its count of guards with
\* the bit of need_preempt (park_current, after_switching_to; PREEMPT_INFO).
THEOREM TypeCorrect == Spec => []TypeOK
<1>1. SchedInv => TypeOK
  BY Zenon DEF SchedInv
<1>. QED
  BY Invariant, <1>1, PTL

\* Whatever the injected scheduler selects and however many CPUs there are, no two
\* CPUs execute a task or save its context at a time; a runnable task is in one
\* run queue, once, the one its cpu field names; and the strong count of its Arc is
\* the number of places that hold one (switch_to_task, enqueue, the run queues).
THEOREM TasksAccountedFor == Spec => []TasksAccounted
<1>1. SchedInv => TasksAccounted
  BY InvOneCpuPerTask, InvQueuedOnce, InvArcAccounts, ZenonT(40) DEF TasksAccounted
<1>. QED
  BY Invariant, <1>1, PTL

\* A wake-up that races with park_current is not lost, nor is a request to preempt
\* that races with halt_cpu.
THEOREM RequestsKept == Spec => []NoRequestLost
<1>1. SchedInv => NoRequestLost
  <2> SUFFICES ASSUME SchedInv PROVE NoRequestLost
    BY Zenon
  <2>1. NoLostWakeup
    BY Zenon DEF SchedInv, WakeUps, NoLostWakeup, Targets
  <2>2. HaltedWithoutRequest
    BY Zenon DEF SchedInv, Halts, HaltedWithoutRequest
  <2>. QED
    BY <2>1, <2>2, ZenonT(40) DEF NoRequestLost
<1>. QED
  BY Invariant, <1>1, PTL
=============================================================================

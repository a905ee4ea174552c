--------------------------- MODULE SchedulerSteps ---------------------------
(***************************************************************************)
(* The inductive invariant of the scheduling core, SchedInv, and that every *)
(* step preserves it.                                                       *)
(*                                                                          *)
(* The invariant says what each CPU is in the middle of, which CPU holds a  *)
(* task that runs, where a task with a CPU is queued, what a call of        *)
(* enqueue has done so far, and what the references to a task are.          *)
(***************************************************************************)
EXTENDS Scheduler, TLAPS

-----------------------------------------------------------------------------
(* Run queues *)

\* A task is in a run queue when it is the current one or waits in its queue.
Has(r, t) == r.current = t \/ \E i \in DOMAIN r.queue : r.queue[i] = t

\* A run queue has a task once.
NoRepeats(r) ==
    /\ \A i, j \in DOMAIN r.queue : r.queue[i] = r.queue[j] => i = j
    /\ \A i \in DOMAIN r.queue : r.queue[i] # r.current

\* Picking the next task loses none and adds none.
LEMMA PickFacts ==
    ASSUME NEW r \in RunQueue, NoRepeats(r), r.queue # <<>>
    PROVE  /\ try_pick_next(r) \in RunQueue /\ NoRepeats(try_pick_next(r))
           /\ try_pick_next(r).current \in Task
           /\ \A t \in Task : Has(try_pick_next(r), t) <=> Has(r, t)
<1> DEFINE q == r.queue
           s == IF r.current = NONE THEN Tail(q) ELSE Append(Tail(q), r.current)
<1>1. /\ q \in Seq(Task) /\ Len(q) \in Nat \ {0} /\ DOMAIN q = 1 .. Len(q)
      /\ r.current \in Task \cup {NONE} /\ NONE \notin Task
  BY SchedulerAssumption, SMTT(30) DEF RunQueue
<1>2. /\ Tail(q) \in Seq(Task) /\ Len(Tail(q)) = Len(q) - 1 /\ DOMAIN Tail(q) = 1 .. Len(q) - 1
      /\ \A i \in 1 .. Len(q) - 1 : Tail(q)[i] = q[i + 1]
      /\ Head(q) = q[1] /\ q[1] \in Task
  BY ONLY <1>1, SMTT(30)
<1>3. ASSUME r.current # NONE
      PROVE  /\ s \in Seq(Task) /\ DOMAIN s = 1 .. Len(q)
             /\ \A i \in 1 .. Len(q) - 1 : s[i] = q[i + 1]
             /\ s[Len(q)] = r.current
  BY ONLY <1>1, <1>2, <1>3, SMTT(30)
<1>4. try_pick_next(r) = [current |-> Head(q), queue |-> s]
  BY Zenon DEF try_pick_next
<1>5. try_pick_next(r).current = q[1] /\ try_pick_next(r).queue = s
  BY ONLY <1>2, <1>4, SMTT(30)
<1>6. s \in Seq(Task)
  BY <1>2, <1>3, Zenon
<1>7. try_pick_next(r) \in RunQueue
  BY ONLY <1>2, <1>4, <1>6, SMTT(30) DEF RunQueue
<1>8. NoRepeats(try_pick_next(r))
  <2>1. \A i \in 1 .. Len(q) - 1 : i + 1 \in DOMAIN q /\ i + 1 # 1 /\ 1 \in DOMAIN q
    BY ONLY <1>1, SMTT(30)
  <2>2. ASSUME NEW i \in 1 .. Len(q) - 1, NEW j \in 1 .. Len(q) - 1, q[i + 1] = q[j + 1] PROVE i = j
    <3>1. i + 1 = j + 1
      BY <2>1, <2>2, Zenon DEF NoRepeats
    <3>. QED
      BY ONLY <3>1, SMTT(30)
  <2>3. \A i \in 1 .. Len(q) - 1 : q[i + 1] # q[1] /\ q[i + 1] # r.current /\ q[1] # r.current
    BY <2>1, Zenon DEF NoRepeats
  <2>4. q[1] # r.current
    BY <1>1, SMTT(30) DEF NoRepeats
  <2>5. CASE r.current = NONE
    <3>1. s = Tail(q)
      BY <2>5, Zenon
    <3>2. DOMAIN s = 1 .. Len(q) - 1 /\ \A i \in DOMAIN s : s[i] = q[i + 1]
      BY <1>2, <3>1, Zenon
    <3>3. (\A i, j \in DOMAIN s : s[i] = s[j] => i = j) /\ \A i \in DOMAIN s : s[i] # q[1]
      BY <2>2, <2>3, <3>2, ZenonT(40)
    <3>. QED
      BY <1>5, <3>3, Zenon DEF NoRepeats
  <2>6. CASE r.current # NONE
    <3>1. \A i \in 1 .. Len(q) : i \in 1 .. Len(q) - 1 \/ i = Len(q)
      BY ONLY <1>1, SMTT(30)
    <3>2. ASSUME NEW i \in DOMAIN s, NEW j \in DOMAIN s, s[i] = s[j] PROVE i = j
      <4>1. /\ (i \in 1 .. Len(q) - 1 /\ s[i] = q[i + 1]) \/ (i = Len(q) /\ s[i] = r.current)
            /\ (j \in 1 .. Len(q) - 1 /\ s[j] = q[j + 1]) \/ (j = Len(q) /\ s[j] = r.current)
        BY <1>3, <2>6, <3>1, Zenon
      <4>. HIDE DEF s, q
      <4>. QED
        BY <2>2, <2>3, <3>2, <4>1, Zenon
    <3>3. ASSUME NEW i \in DOMAIN s PROVE s[i] # q[1]
      BY <1>3, <2>3, <2>4, <2>6, <3>1, Zenon
    <3>. QED
      BY <1>5, <3>2, <3>3, Zenon DEF NoRepeats
  <2>. QED
    BY <2>5, <2>6, Zenon
<1>9. ASSUME NEW t \in Task PROVE Has(try_pick_next(r), t) <=> Has(r, t)
  <2>1. CASE r.current = NONE
    <3>1. Has(try_pick_next(r), t) <=> q[1] = t \/ \E i \in 1 .. Len(q) - 1 : q[i + 1] = t
      BY <1>2, <1>5, <2>1, Zenon DEF Has
    <3>2. Has(r, t) <=> \E i \in 1 .. Len(q) : q[i] = t
      BY <1>1, <2>1, Zenon DEF Has
    <3>3. (\E i \in 1 .. Len(q) : q[i] = t) => q[1] = t \/ \E i \in 1 .. Len(q) - 1 : q[i + 1] = t
      <4> SUFFICES ASSUME NEW i \in 1 .. Len(q), q[i] = t, i # 1 PROVE \E j \in 1 .. Len(q) - 1 : q[j + 1] = t
        BY Zenon
      <4>1. i - 1 \in 1 .. Len(q) - 1 /\ (i - 1) + 1 = i
        BY <1>1, SMTT(30)
      <4>. QED
        BY <4>1, Zenon
    <3>. QED
      BY ONLY <1>1, <3>1, <3>2, <3>3, SMTT(30)
  <2>2. CASE r.current # NONE
    <3>1. Has(try_pick_next(r), t) <=> q[1] = t \/ \E i \in 1 .. Len(q) : s[i] = t
      BY <1>3, <1>5, <2>2, Zenon DEF Has
    <3>2. Has(r, t) <=> r.current = t \/ \E i \in 1 .. Len(q) : q[i] = t
      BY <1>1, Zenon DEF Has
    <3>3. ASSUME NEW i \in 1 .. Len(q), q[i] = t, i # 1 PROVE \E j \in 1 .. Len(q) : s[j] = t
      <4>1. i - 1 \in 1 .. Len(q) - 1 /\ (i - 1) + 1 = i /\ i - 1 \in 1 .. Len(q)
        BY ONLY <1>1, <3>3, SMTT(30)
      <4>. QED
        BY <1>3, <2>2, <3>3, <4>1, Zenon
    <3>4. ASSUME NEW i \in 1 .. Len(q), s[i] = t PROVE Has(r, t)
      <4>1. CASE i = Len(q)
        BY <1>3, <2>2, <3>4, <4>1, Zenon DEF Has
      <4>2. CASE i # Len(q)
        <5>1. i \in 1 .. Len(q) - 1 /\ i + 1 \in 1 .. Len(q)
          BY ONLY <1>1, <4>2, SMTT(30)
        <5>. QED
          BY <1>1, <1>3, <2>2, <3>4, <5>1, Zenon DEF Has
      <4>. QED
        BY <4>1, <4>2, Zenon
    <3>5. Len(q) \in 1 .. Len(q) /\ 1 \in 1 .. Len(q)
      BY ONLY <1>1, SMTT(30)
    <3>. QED
      BY <1>3, <2>2, <3>1, <3>2, <3>3, <3>4, <3>5, Zenon
  <2>. QED
    BY <2>1, <2>2, Zenon
<1>. QED
  BY <1>2, <1>5, <1>7, <1>8, <1>9, Zenon

\* Taking the current task off a run queue.
LEMMA DequeueFacts ==
    ASSUME NEW r \in RunQueue, NoRepeats(r)
    PROVE  /\ dequeue_current(r) \in RunQueue /\ NoRepeats(dequeue_current(r))
           /\ dequeue_current(r).current = NONE /\ dequeue_current(r).queue = r.queue
           /\ \A t \in Task : Has(dequeue_current(r), t) <=> Has(r, t) /\ t # r.current
<1>1. /\ dequeue_current(r).current = NONE /\ dequeue_current(r).queue = r.queue
      /\ dequeue_current(r) = [current |-> NONE, queue |-> r.queue]
  BY ONLY SMTT(30) DEF dequeue_current, RunQueue
<1>2. r.queue \in Seq(Task) /\ NONE \notin Task
  BY SchedulerAssumption, Zenon DEF RunQueue
<1>3. dequeue_current(r) \in RunQueue
  BY <1>1, <1>2, Zenon DEF RunQueue
<1>4. NoRepeats(dequeue_current(r))
  BY <1>1, <1>2, SMTT(30) DEF NoRepeats
<1>. QED
  BY <1>1, <1>2, <1>3, <1>4, Zenon DEF Has, NoRepeats

\* Putting a task at the end of a run queue that does not have it.
Appended(r, t) == [r EXCEPT !.queue = Append(@, t)]

LEMMA AppendFacts ==
    ASSUME NEW r \in RunQueue, NoRepeats(r), NEW t \in Task, ~Has(r, t)
    PROVE  /\ Appended(r, t) \in RunQueue /\ NoRepeats(Appended(r, t))
           /\ Appended(r, t).current = r.current
           /\ \A u \in Task : Has(Appended(r, t), u) <=> Has(r, u) \/ u = t
<1> DEFINE q == r.queue
           s == Append(q, t)
<1>1. q \in Seq(Task) /\ Len(q) \in Nat /\ DOMAIN q = 1 .. Len(q)
  BY ONLY SMTT(30) DEF RunQueue
<1>2. /\ s \in Seq(Task) /\ DOMAIN s = 1 .. Len(q) + 1 /\ s[Len(q) + 1] = t
      /\ \A i \in 1 .. Len(q) : s[i] = q[i]
  BY ONLY <1>1, SMTT(30)
<1>3. Appended(r, t) = [current |-> r.current, queue |-> s]
  <2>1. r = [current |-> r.current, queue |-> q]
    BY Zenon DEF RunQueue
  <2>. QED
    BY ONLY <2>1, SMTT(30) DEF Appended
<1>4. Appended(r, t).current = r.current /\ Appended(r, t).queue = s
  BY ONLY <1>3, SMTT(30)
<1>5. Appended(r, t) \in RunQueue
  BY ONLY <1>2, <1>3, SMTT(30) DEF RunQueue
<1>6. \A i \in 1 .. Len(q) + 1 : i \in 1 .. Len(q) \/ i = Len(q) + 1
  BY ONLY <1>1, SMTT(30)
<1>7. NoRepeats(Appended(r, t))
  <2>1. ASSUME NEW i \in DOMAIN s, NEW j \in DOMAIN s, s[i] = s[j] PROVE i = j
    BY <1>1, <1>2, <1>6, <2>1, Zenon DEF NoRepeats, Has
  <2>2. ASSUME NEW i \in DOMAIN s PROVE s[i] # r.current
    BY <1>1, <1>2, <1>6, Zenon DEF NoRepeats, Has
  <2>. QED
    BY <1>4, <2>1, <2>2, Zenon DEF NoRepeats
<1>8. ASSUME NEW u \in Task PROVE Has(Appended(r, t), u) <=> Has(r, u) \/ u = t
  <2>1. 1 .. Len(q) \subseteq 1 .. Len(q) + 1 /\ Len(q) + 1 \in 1 .. Len(q) + 1
    BY ONLY <1>1, SMTT(30)
  <2>. QED
    BY <1>1, <1>2, <1>4, <1>6, <2>1, Zenon DEF Has
<1>. QED
  BY <1>4, <1>5, <1>7, <1>8, Zenon

-----------------------------------------------------------------------------
(* The inductive invariant *)

InRq(t) == \E c \in Cpu : Has(rq[c], t)

Targets(c, t) == call[c] # NoCall /\ call[c].target = t

\* An enqueue has given the task a CPU and is yet to put it into the run queue.
Claims(c, t) == Targets(c, t) /\ call[c].cpu # NONE /\ ~call[c].still_in_rq

Queues ==
    /\ \A c \in Cpu : NoRepeats(rq[c])
    /\ \A t \in Task, c \in Cpu : Has(rq[c], t) => cpu[t] = c
    /\ \A t \in Task : cpu[t] # NONE => InRq(t) \/ \E c \in Cpu : Claims(c, t)
    /\ \A t \in Task, c \in Cpu : Claims(c, t) => cpu[t] = call[c].cpu /\ ~InRq(t)
    /\ \A t \in Task, c, d \in Cpu : Claims(c, t) /\ Claims(d, t) => c = d

Switching == {"switch_run", "switch_wait", "switch_exit"}

Arriving == {"new"} \cup Switching

Executing == {"run", "spawn", "preempt_point", "wait", "park", "park_locked", "halting", "halted",
              "unreachable"}

Retrying == {"park_retry", "exit_retry"}

Booting == {"run", "spawn", "preempt_point"}

\* What a CPU is in the middle of: it has decided to switch; it has switched; it
\* executes the current task of its run queue; that task is off the run queue and
\* looks for another; it executes the code it has booted with.
CpuDecided(c) ==
    /\ next[c] # NONE /\ pc[on[c]] \in Switching /\ rq[c].current = next[c] /\ previous[c] = NONE
    /\ call[c] # NoCall => irq[c]

CpuArriving(c) ==
    /\ next[c] = NONE /\ pc[on[c]] \in Arriving /\ rq[c].current = on[c] /\ on[c] \in Task
    /\ ~irq[c] /\ call[c] = NoCall

CpuExecuting(c) ==
    /\ next[c] = NONE /\ pc[on[c]] \in Executing /\ rq[c].current = on[c] /\ on[c] \in Task
    /\ previous[c] = NONE /\ (irq[c] <=> pc[on[c]] # "halting")

CpuRetrying(c) ==
    /\ next[c] = NONE /\ pc[on[c]] \in Retrying /\ rq[c].current = NONE /\ on[c] \in Task
    /\ previous[c] = NONE /\ irq[c]

CpuBooting(c) ==
    /\ next[c] = NONE /\ pc[on[c]] \in Booting /\ rq[c].current = NONE /\ on[c] = c
    /\ previous[c] = NONE /\ irq[c]

CpuControl(c) ==
    CpuDecided(c) \/ CpuArriving(c) \/ CpuExecuting(c) \/ CpuRetrying(c) \/ CpuBooting(c)

CallControl(c) ==
    /\ call[c] # NoCall => pc[on[c]] \notin {"halting", "halted", "park_locked"}
    /\ pc[on[c]] = "spawn" <=> call[c] # NoCall /\ call[c].flag = "Spawn"

CpusControlled == \A c \in Cpu : on[c] \in Task \cup {c} /\ CpuControl(c) /\ CallControl(c)

TasksControlled ==
    \A t \in Task :
        /\ (\A c \in Cpu : on[c] # t) => pc[t] \in Arriving \cup {"built"}
        /\ pc[t] = "built" =>
              cpu[t] = NONE /\ ~switched_to_cpu[t] /\ \A c \in Cpu : ~Targets(c, t)

\* The flag of a task is set while a CPU executes it or is still saving its context.
Foreground ==
    /\ \A t \in Task : switched_to_cpu[t] <=> \E c \in Cpu : on[c] = t \/ previous[c] = t
    /\ \A t \in Task, c, d \in Cpu :
          (on[c] = t \/ previous[c] = t) /\ (on[d] = t \/ previous[d] = t) => c = d
    /\ \A c \in Cpu : on[c] # previous[c]

One(P) == IF P THEN 1 ELSE 0

RqArc(t) == One(InRq(t))
OnArc(t) == One(\E c \in Cpu : on[c] = t)
PreviousArc(t) == One(\E c \in Cpu : previous[c] = t)
NextArc(t) == One(\E c \in Cpu : next[c] = t)
ParkArc(t) == One(pc[t] \in {"park_retry", "switch_wait"})
BuiltArc(t) == One(pc[t] = "built")
CallsOf(t) == {c \in Cpu : Targets(c, t)}
CallArcs(t) == Cardinality(CallsOf(t))

Arcs ==
    \A t \in Task : arc[t] = RqArc(t) + OnArc(t) + PreviousArc(t) + NextArc(t) + ParkArc(t)
                             + BuiltArc(t) + CallArcs(t)

\* The enqueue that a waker has begun will find the task off its run queue.
Comes(c, t) == Targets(c, t) /\ (call[c].cpu = NONE \/ (call[c].still_in_rq /\ call[c].cpu = cpu[t]))

WakeUps ==
    \A t \in Task : has_woken[t] =>
        /\ pc[t] = "park_locked" => \E c \in Cpu : Comes(c, t)
        /\ pc[t] \in {"park_retry", "switch_wait"} /\ cpu[t] = NONE => \E c \in Cpu : Targets(c, t)

Halts == \A c \in Cpu : pc[on[c]] \in {"halting", "halted"} => ~need_preempt(info[c])

\* What the number of CPUs in a set obeys, as there are finitely many.  The constants
\* decide it: it is part of the invariant for the lemmas about the steps to count with.
CpuCounts ==
    \A S \in SUBSET Cpu :
        /\ Cardinality(S) \in Nat
        /\ \A c \in Cpu \ S : Cardinality(S \cup {c}) = Cardinality(S) + 1
        /\ \A c \in S : Cardinality(S \ {c}) = Cardinality(S) - 1

SchedInv ==
    /\ CpuCounts
    /\ TypeOK /\ Queues /\ CpusControlled /\ TasksControlled /\ Foreground /\ Arcs /\ WakeUps /\ Halts

-----------------------------------------------------------------------------
(* Types *)

\* What is done to the preemption word keeps the number of guards apart from the bit.
LEMMA WordTypes ==
    ASSUME NEW w \in PreemptInfo
    PROVE  /\ set_need_preempt(w) \in PreemptInfo /\ clear_need_preempt(w) \in PreemptInfo
           /\ get_guard_count(w) < MaxGuards => w + 1 \in PreemptInfo
           /\ get_guard_count(w) > 0 => w - 1 \in PreemptInfo
<1>1. MaxGuards \in Nat /\ NEED_PREEMPT_MASK \in Nat /\ MaxGuards < NEED_PREEMPT_MASK
  BY SchedulerAssumption, Zenon
<1>2. get_guard_count(w) = IF w \in 0 .. MaxGuards THEN w ELSE w - NEED_PREEMPT_MASK
  BY ONLY <1>1, SMTT(30) DEF PreemptInfo, get_guard_count
<1>. QED
  BY ONLY <1>1, <1>2, SMTT(30) DEF PreemptInfo, set_need_preempt, clear_need_preempt

\* What the type invariant says, variable by variable.
LEMMA TypeFacts ==
    ASSUME TypeOK
    PROVE  /\ \A c \in Cpu : call[c] # NoCall => call[c] \in Calls /\ call[c].target \in Task
           /\ \A t \in Task : t \in Context /\ t # NONE /\ t \notin Cpu
           /\ \A c \in Cpu : c \in Context /\ on[c] \in Context /\ c # NONE
<1>1. ASSUME NEW c \in Cpu, call[c] # NoCall PROVE call[c] \in Calls /\ call[c].target \in Task
  <2>1. call[c] \in Calls
    BY <1>1, Zenon DEF TypeOK
  <2>. QED
    BY <2>1, Zenon DEF Calls
<1>. QED
  BY <1>1, SchedulerAssumption, Zenon DEF TypeOK, Context

LEMMA InitTypes == Init => TypeOK
<1> SUFFICES ASSUME Init PROVE TypeOK
  BY Zenon
<1>1. policy \in [select : SUBSET Cpu, preempts : BOOLEAN]
  <2>1. {Bsp} \in SUBSET Cpu /\ Cpu \in SUBSET Cpu
    BY SchedulerAssumption, Zenon
  <2>2. \A S \in SUBSET Cpu, b \in BOOLEAN :
           [select |-> S, preempts |-> b] \in [select : SUBSET Cpu, preempts : BOOLEAN]
    BY Zenon
  <2>. QED
    BY <2>1, <2>2, Zenon DEF Init, Policies
<1>2. rq \in [Cpu -> RunQueue]
  BY SMTT(30) DEF Init, RunQueue
<1>3. info \in [Cpu -> PreemptInfo]
  <2>1. NEED_PREEMPT_MASK \in PreemptInfo
    BY ONLY SchedulerAssumption, SMTT(30) DEF PreemptInfo
  <2>. QED
    BY <2>1, Zenon DEF Init
<1>4. pc \in [Context -> Locations]
  BY Zenon DEF Init, Context, Locations
<1>5. /\ cpu \in [Task -> Cpu \cup {NONE}] /\ on \in [Cpu -> Context]
      /\ previous \in [Cpu -> Task \cup {NONE}] /\ next \in [Cpu -> Task \cup {NONE}]
      /\ switched_to_cpu \in [Task -> BOOLEAN] /\ irq \in [Cpu -> BOOLEAN] /\ ipi \in [Cpu -> BOOLEAN]
      /\ has_woken \in [Task -> BOOLEAN] /\ call \in [Cpu -> Calls \cup {NoCall}]
      /\ arc \in [Task -> Nat]
  BY Zenon DEF Init, Context
<1>. QED
  BY <1>1, <1>2, <1>3, <1>4, <1>5, Zenon DEF TypeOK

-----------------------------------------------------------------------------
(* What steps have in common *)

\* The types of all but the counts, which are natural because they count.
StateTypes ==
    /\ policy \in [select : SUBSET Cpu, preempts : BOOLEAN]
    /\ rq \in [Cpu -> RunQueue]
    /\ cpu \in [Task -> Cpu \cup {NONE}]
    /\ on \in [Cpu -> Context]
    /\ previous \in [Cpu -> Task \cup {NONE}]
    /\ next \in [Cpu -> Task \cup {NONE}]
    /\ switched_to_cpu \in [Task -> BOOLEAN]
    /\ irq \in [Cpu -> BOOLEAN]
    /\ info \in [Cpu -> PreemptInfo]
    /\ ipi \in [Cpu -> BOOLEAN]
    /\ pc \in [Context -> Locations]
    /\ has_woken \in [Task -> BOOLEAN]
    /\ call \in [Cpu -> Calls \cup {NoCall}]

LEMMA CallsOfCpus == \A t : CallsOf(t) \in SUBSET Cpu
  BY Zenon DEF CallsOf

LEMMA CountTypes ==
    ASSUME SchedInv, NEW t
    PROVE  /\ RqArc(t) \in 0 .. 1 /\ OnArc(t) \in 0 .. 1 /\ PreviousArc(t) \in 0 .. 1
           /\ NextArc(t) \in 0 .. 1 /\ ParkArc(t) \in 0 .. 1 /\ BuiltArc(t) \in 0 .. 1
           /\ CallArcs(t) \in Nat
<1>1. CallsOf(t) \in SUBSET Cpu
  BY Zenon DEF CallsOf
<1>2. CallArcs(t) \in Nat
  BY <1>1, Zenon DEF CallArcs, SchedInv, CpuCounts
<1>. QED
  BY ONLY <1>2, SMTT(30) DEF RqArc, OnArc, PreviousArc, NextArc, ParkArc, BuiltArc, One

\* The counts of references to a task are integers.
Counted(t) ==
    /\ RqArc(t) \in Int /\ OnArc(t) \in Int /\ PreviousArc(t) \in Int /\ NextArc(t) \in Int
    /\ ParkArc(t) \in Int /\ BuiltArc(t) \in Int /\ CallArcs(t) \in Int

LEMMA CountsAreIntegers ==
    ASSUME SchedInv, NEW t PROVE Counted(t)
<1>1. 0 .. 1 \subseteq Int /\ Nat \subseteq Int
  BY ONLY SMTT(30)
<1>. QED
  BY <1>1, CountTypes, Zenon DEF Counted

\* What the stored counts become when one reference to a task comes or goes.
LEMMA ArcMoves ==
    ASSUME SchedInv
    PROVE  /\ arc \in [Task -> Int] /\ \A u \in Task : arc[u] \in Int
           /\ \A t \in Task : LET a == [arc EXCEPT ![t] = @ + 1]
                            IN  a \in [Task -> Int] /\ \A u \in Task : a[u] = arc[u] + One(u = t)
           /\ \A t \in Task : LET a == [arc EXCEPT ![t] = @ - 1]
                            IN  a \in [Task -> Int] /\ \A u \in Task : a[u] = arc[u] - One(u = t)
<1>1. arc \in [Task -> Nat]
  BY Zenon DEF SchedInv, TypeOK
<1>2. arc \in [Task -> Int]
  BY ONLY <1>1, SMTT(30)
<1>3. \A u \in Task : arc[u] \in Int
  BY <1>2, Zenon
<1>4. \A t \in Task : LET a == [arc EXCEPT ![t] = @ + 1]
                   IN  a \in [Task -> Int] /\ \A u \in Task : a[u] = arc[u] + One(u = t)
  BY ONLY <1>2, SMTT(30) DEF One
<1>5. \A t \in Task : LET a == [arc EXCEPT ![t] = @ - 1]
                   IN  a \in [Task -> Int] /\ \A u \in Task : a[u] = arc[u] - One(u = t)
  BY ONLY <1>2, SMTT(30) DEF One
<1>. QED
  BY <1>2, <1>3, <1>4, <1>5, Zenon

\* A count that is a sum of counts is a natural number.
LEMMA ArcTypes ==
    ASSUME SchedInv, StateTypes', arc' \in [Task -> Int], Arcs' PROVE TypeOK'
<1>1. \A t \in Task : /\ RqArc(t)' \in 0 .. 1 /\ OnArc(t)' \in 0 .. 1 /\ PreviousArc(t)' \in 0 .. 1
                      /\ NextArc(t)' \in 0 .. 1 /\ ParkArc(t)' \in 0 .. 1 /\ BuiltArc(t)' \in 0 .. 1
                      /\ CallArcs(t)' \in Nat
  <2>1. \A t : CallsOf(t)' \in SUBSET Cpu
    BY Zenon DEF CallsOf
  <2>2. \A t : CallArcs(t)' \in Nat
    BY <2>1, Zenon DEF CallArcs, SchedInv, CpuCounts
  <2>. QED
    BY ONLY <2>2, SMTT(30) DEF RqArc, OnArc, PreviousArc, NextArc, ParkArc, BuiltArc, One
<1>2. \A t \in Task : arc'[t] \in Nat
  BY <1>1, SMTT(30) DEF Arcs
<1>3. arc' \in [Task -> Nat]
  BY <1>2, Zenon
<1>. QED
  BY <1>3, Zenon DEF StateTypes, TypeOK

\* Two CPUs are never in the same context.
LEMMA OnDistinct ==
    ASSUME SchedInv, NEW c \in Cpu, NEW d \in Cpu, on[c] = on[d] PROVE c = d
BY TypeFacts, ZenonT(40) DEF SchedInv, CpusControlled, Foreground

\* A CPU executes no task that has not been run.
LEMMA OnNotBuilt == ASSUME SchedInv, NEW c \in Cpu PROVE pc[on[c]] # "built"
BY Zenon DEF SchedInv, CpusControlled, CpuControl, CpuDecided, CpuArriving, CpuExecuting, CpuRetrying, CpuBooting, Switching, Arriving, Executing, Retrying, Booting

\* A CPU nothing is done to stays in the middle of what it was.
LEMMA CpuKept ==
    ASSUME NEW d \in Cpu, on[d] \in Task \cup {d} /\ CpuControl(d) /\ CallControl(d),
           on'[d] = on[d], pc'[on[d]] = pc[on[d]], next'[d] = next[d], previous'[d] = previous[d],
           irq'[d] = irq[d], call'[d] = call[d], rq'[d].current = rq[d].current
    PROVE  (on[d] \in Task \cup {d} /\ CpuControl(d) /\ CallControl(d))'
BY Zenon DEF CpuControl, CpuDecided, CpuArriving, CpuExecuting, CpuRetrying, CpuBooting, CallControl

\* A step that leaves run queues, switches, calls and counts alone.
Quiet(c, loc) ==
    /\ UNCHANGED <<policy, rq, cpu, on, previous, next, switched_to_cpu, call, arc>>
    /\ pc' = [pc EXCEPT ![on[c]] = loc] /\ loc \in Locations \ {"built"}
    /\ loc \in {"park_retry", "switch_wait"} <=> pc[on[c]] \in {"park_retry", "switch_wait"}
    /\ has_woken' \in [Task -> BOOLEAN] /\ irq' \in [Cpu -> BOOLEAN] /\ ipi' \in [Cpu -> BOOLEAN]
    /\ info' \in [Cpu -> PreemptInfo]
    /\ \A d \in Cpu : d # c => irq'[d] = irq[d] /\ info'[d] = info[d]
    /\ \A t \in Task : has_woken'[t] => has_woken[t]

\* Such a step keeps the invariant if its CPU is in the middle of something after it.
LEMMA QuietInv ==
    ASSUME SchedInv, NEW c \in Cpu, NEW loc, Quiet(c, loc),
           CpuControl(c)', CallControl(c)',
           loc = "park_locked" => pc[on[c]] = "park_locked" \/ (on[c] \in Task => ~has_woken[on[c]]),
           loc \in {"halting", "halted"} => ~need_preempt(info'[c])
    PROVE  SchedInv'
<1>1. /\ on[c] \in Context /\ pc'[on[c]] = loc
      /\ \A x \in Context : x # on[c] => pc'[x] = pc[x]
      /\ pc' \in [Context -> Locations]
  BY Zenon DEF SchedInv, TypeOK, Quiet
<1>0. /\ rq' = rq /\ cpu' = cpu /\ on' = on /\ previous' = previous /\ next' = next
      /\ switched_to_cpu' = switched_to_cpu /\ call' = call /\ arc' = arc
  BY Zenon DEF Quiet
<1>2. StateTypes' /\ arc' \in [Task -> Nat]
  BY <1>1, Zenon DEF SchedInv, TypeOK, StateTypes, Quiet
<1>3. TypeOK'
  BY <1>2, Zenon DEF StateTypes, TypeOK
<1>4. Queues'
  BY <1>0, SMTT(30) DEF SchedInv, Queues, Has, NoRepeats, InRq, Claims, Targets
<1>5. CpusControlled'
  <2> SUFFICES ASSUME NEW d \in Cpu PROVE (on[d] \in Task \cup {d} /\ CpuControl(d) /\ CallControl(d))'
    BY Zenon DEF CpusControlled
  <2>1. CASE d = c
    BY <2>1, Zenon DEF SchedInv, CpusControlled, Quiet
  <2>2. CASE d # c
    <3>1. on[d] # on[c] /\ on[d] \in Context
      BY <2>2, OnDistinct, TypeFacts, Zenon DEF SchedInv
    <3>. QED
      BY <1>1, <2>2, <3>1, CpuKept, Zenon DEF SchedInv, CpusControlled, Quiet
  <2>. QED
    BY <2>1, <2>2, Zenon
<1>6. \A t \in Task : /\ pc'[t] = "built" <=> pc[t] = "built"
                      /\ pc'[t] \in {"park_retry", "switch_wait"} <=> pc[t] \in {"park_retry", "switch_wait"}
  BY <1>1, OnNotBuilt, TypeFacts, Zenon DEF SchedInv, Quiet
<1>7. TasksControlled'
  <2>1. \A t \in Task : (\A d \in Cpu : on[d] # t) => pc'[t] = pc[t]
    BY <1>1, TypeFacts, Zenon DEF SchedInv
  <2>. QED
    BY <1>0, <1>6, <2>1, Zenon DEF SchedInv, TasksControlled, Targets
<1>8. Foreground'
  BY <1>0, Zenon DEF SchedInv, Foreground
<1>9. Arcs'
  <2> SUFFICES ASSUME NEW t \in Task
               PROVE arc'[t] = (RqArc(t) + OnArc(t) + PreviousArc(t) + NextArc(t) + ParkArc(t)
                                + BuiltArc(t) + CallArcs(t))'
    BY Zenon DEF Arcs
  <2>1. RqArc(t)' = RqArc(t) /\ OnArc(t)' = OnArc(t) /\ PreviousArc(t)' = PreviousArc(t)
    BY Zenon DEF Quiet, RqArc, OnArc, PreviousArc, InRq
  <2>2. NextArc(t)' = NextArc(t) /\ CallArcs(t)' = CallArcs(t)
    BY Zenon DEF Quiet, NextArc, CallArcs, CallsOf, Targets
  <2>3. ParkArc(t)' = ParkArc(t) /\ BuiltArc(t)' = BuiltArc(t)
    BY <1>6, Zenon DEF ParkArc, BuiltArc, One
  <2>. QED
    BY <2>1, <2>2, <2>3, Zenon DEF SchedInv, Arcs, Quiet
<1>10. WakeUps'
  <2> SUFFICES ASSUME NEW t \in Task, has_woken'[t]
               PROVE /\ pc'[t] = "park_locked" => (\E d \in Cpu : Comes(d, t))'
                     /\ pc'[t] \in {"park_retry", "switch_wait"} /\ cpu'[t] = NONE => (\E d \in Cpu : Targets(d, t))'
    BY Zenon DEF WakeUps
  <2>1. has_woken[t]
    BY Zenon DEF Quiet
  <2>2. pc'[t] = "park_locked" => pc[t] = "park_locked"
    BY <1>1, <2>1, TypeFacts, Zenon DEF SchedInv
  <2>. QED
    BY <1>0, <1>6, <2>1, <2>2, ZenonT(40) DEF SchedInv, WakeUps, Comes, Targets
<1>11. Halts'
  <2> SUFFICES ASSUME NEW d \in Cpu, pc'[on'[d]] \in {"halting", "halted"} PROVE ~need_preempt(info'[d])
    BY Zenon DEF Halts, need_preempt
  <2>1. CASE d = c
    BY <1>1, <2>1, Zenon DEF Quiet
  <2>2. CASE d # c
    <3>1. on[d] # on[c] /\ on[d] \in Context
      BY <2>2, OnDistinct, TypeFacts, Zenon DEF SchedInv
    <3>. QED
      BY <1>1, <2>2, <3>1, Zenon DEF SchedInv, Halts, Quiet
  <2>. QED
    BY <2>1, <2>2, Zenon
<1>. QED
  BY <1>3, <1>4, <1>5, <1>7, <1>8, <1>9, <1>10, <1>11, Zenon DEF SchedInv

-----------------------------------------------------------------------------
(* Steps that leave run queues, switches, calls and counts alone *)

\* A CPU that is not switching executes its current task or what it has booted with.
LEMMA Executes ==
    ASSUME SchedInv, NEW c \in Cpu, next[c] = NONE, pc[on[c]] \in Executing
    PROVE  CpuExecuting(c) \/ CpuBooting(c)
<1>1. CpuControl(c)
  BY Zenon DEF SchedInv, CpusControlled
<1>. QED
  BY <1>1, Zenon DEF CpuControl, CpuDecided, CpuArriving, CpuRetrying, Executing, Arriving, Switching, Retrying

\* The context stays the current task of its run queue.
LEMMA QuietExecuting ==
    ASSUME SchedInv, NEW c \in Cpu, next[c] = NONE, call[c] = NoCall, pc[on[c]] \in Executing,
           NEW loc \in Executing \ {"spawn"}, Quiet(c, loc), loc \notin Booting => on[c] \in Task,
           irq'[c] <=> loc # "halting",
           loc = "park_locked" => pc[on[c]] = "park_locked" \/ (on[c] \in Task => ~has_woken[on[c]]),
           loc \in {"halting", "halted"} => ~need_preempt(info'[c])
    PROVE  SchedInv'
<1>1. pc'[on[c]] = loc
  BY Zenon DEF SchedInv, TypeOK, Quiet
<1>2. on' = on /\ next' = next /\ previous' = previous /\ rq' = rq /\ call' = call
  BY Zenon DEF Quiet
<1>3. CpuControl(c)'
  <2>1. c \notin Task
    BY SchedulerAssumption, Zenon
  <2>2. CASE CpuExecuting(c)
    BY <1>1, <1>2, <2>2, Zenon DEF CpuControl, CpuExecuting
  <2>3. CASE CpuBooting(c)
    <3>1. loc \in Booting /\ loc # "halting"
      BY <2>1, <2>3, Zenon DEF CpuBooting, Booting
    <3>. QED
      BY <1>1, <1>2, <2>3, <3>1, Zenon DEF CpuControl, CpuBooting
  <2>. QED
    BY <2>2, <2>3, Executes, Zenon
<1>4. CallControl(c)'
  BY <1>1, <1>2, Zenon DEF CallControl
<1>. QED
  BY <1>3, <1>4, QuietInv, Zenon

\* An interrupt that asks for preemption.
LEMMA QuietInterrupted ==
    ASSUME SchedInv, NEW c \in Cpu, call[c] = NoCall, irq[c], Interrupted(c),
           NEW loc, loc = IF pc[on[c]] = "halted" THEN "preempt_point" ELSE pc[on[c]],
           Quiet(c, loc), irq' = irq
    PROVE  SchedInv'
<1>1. pc'[on[c]] = loc
  BY Zenon DEF SchedInv, TypeOK, Quiet
<1>2. on' = on /\ next' = next /\ previous' = previous /\ rq' = rq /\ call' = call
  BY Zenon DEF Quiet
<1>3. on[c] \in Task \cup {c} /\ CpuControl(c) /\ CallControl(c)
  BY Zenon DEF SchedInv, CpusControlled
<1>4. CpuControl(c)' /\ CallControl(c)'
  <2>1. CASE pc[on[c]] = "halted"
    <3>1. CpuExecuting(c)
      BY <1>3, <2>1, Zenon DEF CpuControl, CpuDecided, CpuArriving, CpuRetrying, CpuBooting, Arriving, Switching, Retrying, Booting
    <3>2. loc \in Executing /\ loc # "halting" /\ loc # "spawn"
      BY <2>1, Zenon DEF Executing
    <3>. QED
      BY <1>1, <1>2, <3>1, <3>2, Zenon DEF CpuControl, CpuExecuting, CallControl
  <2>2. CASE pc[on[c]] # "halted"
    BY <1>1, <1>2, <1>3, <2>2, CpuKept, Zenon
  <2>. QED
    BY <2>1, <2>2, Zenon
<1>5. loc \notin {"halting", "halted"}
  <2>1. pc[on[c]] # "halting"
    BY <1>3, Zenon DEF CpuControl, CpuDecided, CpuArriving, CpuExecuting, CpuRetrying, CpuBooting, Arriving, Switching, Retrying, Booting
  <2>. QED
    BY <2>1, Zenon
<1>6. loc = "park_locked" => pc[on[c]] = "park_locked"
  BY Zenon
<1>. QED
  BY <1>4, <1>5, <1>6, QuietInv, Zenon

\* reschedule clears need_preempt on its own CPU.
LEMMA ClearTypes ==
    ASSUME TypeOK, NEW c \in Cpu, ClearNeedPreempt(c)
    PROVE  info' \in [Cpu -> PreemptInfo] /\ \A d \in Cpu : d # c => info'[d] = info[d]
<1>1. info[c] \in PreemptInfo
  BY Zenon DEF TypeOK
<1>2. clear_need_preempt(info[c]) \in PreemptInfo
  BY <1>1, WordTypes, Zenon
<1>. QED
  BY <1>2, Zenon DEF TypeOK, ClearNeedPreempt

\* set_need_preempt is done on its own CPU.
LEMMA SetTypes ==
    ASSUME TypeOK, NEW c \in Cpu, info' = [info EXCEPT ![c] = set_need_preempt(@)]
    PROVE  info' \in [Cpu -> PreemptInfo] /\ \A d \in Cpu : d # c => info'[d] = info[d]
<1>1. info[c] \in PreemptInfo
  BY Zenon DEF TypeOK
<1>2. set_need_preempt(info[c]) \in PreemptInfo
  BY <1>1, WordTypes, Zenon
<1>. QED
  BY <1>2, Zenon DEF TypeOK

\* A context that goes on where it is.
LEMMA SamePc ==
    ASSUME SchedInv, NEW c \in Cpu, pc' = pc
    PROVE  pc' = [pc EXCEPT ![on[c]] = pc[on[c]]] /\ pc[on[c]] \in Locations \ {"built"}
BY OnNotBuilt, Zenon DEF SchedInv, TypeOK

LEMMA GuardInv ==
    ASSUME SchedInv, NEW c \in Cpu, GuardNew(c) \/ GuardDrop(c) PROVE SchedInv'
<1>1. At(c, {"run"}) /\ pc' = pc /\ irq' = irq /\ has_woken' = has_woken
  BY Zenon DEF GuardNew, GuardDrop
<1>2. info' \in [Cpu -> PreemptInfo] /\ \A d \in Cpu : d # c => info'[d] = info[d]
  <2>1. info[c] \in PreemptInfo /\ info \in [Cpu -> PreemptInfo]
    BY Zenon DEF SchedInv, TypeOK
  <2>2. CASE GuardNew(c)
    <3>1. info[c] + 1 \in PreemptInfo
      BY <2>1, <2>2, WordTypes, Zenon DEF GuardNew
    <3>. QED
      BY <2>1, <2>2, <3>1, Zenon DEF GuardNew
  <2>3. CASE GuardDrop(c)
    <3>1. info[c] - 1 \in PreemptInfo
      BY <2>1, <2>3, WordTypes, Zenon DEF GuardDrop
    <3>. QED
      BY <2>1, <2>3, <3>1, Zenon DEF GuardDrop
  <2>. QED
    BY <2>2, <2>3, Zenon
<1>3. Quiet(c, "run")
  BY <1>1, <1>2, SamePc, ZenonT(40) DEF GuardNew, GuardDrop, Quiet, At, SchedInv, TypeOK
<1>4. irq[c]
  BY <1>1, Executes, Zenon DEF At, Executing, CpuExecuting, CpuBooting
<1>5. "run" \in Executing \ {"spawn"} /\ "run" \in Booting /\ pc[on[c]] \in Executing
  BY <1>1, Zenon DEF At, Executing, Booting
<1>. QED
  BY <1>1, <1>3, <1>4, <1>5, QuietExecuting, Zenon DEF At

LEMMA DoWaitInv == ASSUME SchedInv, NEW c \in Cpu, DoWait(c) PROVE SchedInv'
<1> DEFINE loc == IF has_woken[on[c]] THEN "run" ELSE "park"
<1>1. /\ on[c] \in Task /\ pc[on[c]] \in {"wait", "run"} /\ next[c] = NONE /\ call[c] = NoCall
      /\ irq' = irq /\ info' = info
  BY Zenon DEF DoWait, At
<1>2. loc \in Executing \ {"spawn"} /\ loc \notin {"park_locked", "halting", "halted"} /\ pc[on[c]] \in Executing
  BY <1>1, Zenon DEF Executing
<1>3. Quiet(c, loc)
  BY <1>1, Zenon DEF DoWait, Quiet, Locations, SchedInv, TypeOK
<1>4. irq[c]
  BY <1>1, <1>2, Executes, Zenon DEF CpuExecuting, CpuBooting
<1>. QED
  BY <1>1, <1>2, <1>3, <1>4, QuietExecuting, Zenon

LEMMA ParkCheckInv == ASSUME SchedInv, NEW c \in Cpu, ParkCheck(c) PROVE SchedInv'
<1> DEFINE loc == IF has_woken[on[c]] THEN "wait" ELSE "park_locked"
<1>1. /\ pc[on[c]] = "park" /\ next[c] = NONE /\ call[c] = NoCall /\ irq' = irq /\ ClearNeedPreempt(c)
  BY Zenon DEF ParkCheck, At, Keeps
<1>2. loc \in Executing \ {"spawn"} /\ loc \notin {"halting", "halted"} /\ pc[on[c]] \in Executing
  BY <1>1, Zenon DEF Executing
<1>3. CpuExecuting(c)
  BY <1>1, <1>2, Executes, Zenon DEF CpuBooting, Booting
<1>4. Quiet(c, loc)
  BY <1>1, ClearTypes, SMTT(30) DEF ParkCheck, Keeps, Quiet, Locations, SchedInv, TypeOK
<1>5. irq[c] /\ on[c] \in Task
  BY <1>1, <1>3, Zenon DEF CpuExecuting
<1>. QED
  BY <1>1, <1>2, <1>4, <1>5, QuietExecuting, Zenon

LEMMA HaltCpuInv == ASSUME SchedInv, NEW c \in Cpu, HaltCpu(c) PROVE SchedInv'
<1> DEFINE loc == IF need_preempt(info[c]) THEN "preempt_point" ELSE "halting"
<1>1. pc[on[c]] = "run" /\ next[c] = NONE /\ call[c] = NoCall /\ info' = info /\ on[c] \in Task
  BY Zenon DEF HaltCpu, At
<1>2. loc \in Executing \ {"spawn"} /\ loc # "park_locked" /\ pc[on[c]] \in Executing
  BY <1>1, Zenon DEF Executing
<1>3. irq[c]
  BY <1>1, <1>2, Executes, Zenon DEF CpuExecuting, CpuBooting
<1>4. irq' \in [Cpu -> BOOLEAN] /\ (irq'[c] <=> loc # "halting") /\ \A d \in Cpu : d # c => irq'[d] = irq[d]
  BY <1>3, Zenon DEF HaltCpu, SchedInv, TypeOK
<1>5. Quiet(c, loc)
  BY <1>1, <1>4, Zenon DEF HaltCpu, Quiet, Locations, SchedInv, TypeOK
<1>. QED
  BY <1>1, <1>2, <1>4, <1>5, QuietExecuting, Zenon

LEMMA EnableLocalAndHaltInv ==
    ASSUME SchedInv, NEW c \in Cpu, EnableLocalAndHalt(c) PROVE SchedInv'
<1>1. pc[on[c]] = "halting" /\ next[c] = NONE /\ call[c] = NoCall /\ info' = info
  BY Zenon DEF EnableLocalAndHalt, At
<1>2. "halted" \in Executing \ {"spawn"} /\ pc[on[c]] \in Executing
  BY <1>1, Zenon DEF Executing
<1>3. on[c] \in Task
  BY <1>1, <1>2, Executes, Zenon DEF CpuExecuting, CpuBooting, Booting
<1>4. irq' \in [Cpu -> BOOLEAN] /\ irq'[c] /\ \A d \in Cpu : d # c => irq'[d] = irq[d]
  BY Zenon DEF EnableLocalAndHalt, SchedInv, TypeOK
<1>5. Quiet(c, "halted")
  BY <1>1, <1>4, Zenon DEF EnableLocalAndHalt, Quiet, Locations, SchedInv, TypeOK
<1>6. ~need_preempt(info'[c])
  BY <1>1, Zenon DEF SchedInv, Halts
<1>. QED
  BY <1>1, <1>2, <1>3, <1>4, <1>5, <1>6, QuietExecuting, Zenon

LEMMA InterruptInv == ASSUME SchedInv, NEW c \in Cpu, Tick(c) \/ Ipi(c) PROVE SchedInv'
<1> DEFINE loc == IF pc[on[c]] = "halted" THEN "preempt_point" ELSE pc[on[c]]
<1>1. /\ call[c] = NoCall /\ irq[c] /\ Interrupted(c) /\ irq' = irq /\ has_woken' = has_woken
      /\ info' = [info EXCEPT ![c] = set_need_preempt(@)]
  BY Zenon DEF Tick, Ipi
<1>2. pc' = [pc EXCEPT ![on[c]] = loc] /\ loc \in Locations \ {"built"}
  BY <1>1, OnNotBuilt, Zenon DEF Interrupted, Locations, SchedInv, TypeOK
<1>3. ipi' \in [Cpu -> BOOLEAN]
  BY Zenon DEF Tick, Ipi, SchedInv, TypeOK
<1>4. info' \in [Cpu -> PreemptInfo] /\ \A d \in Cpu : d # c => info'[d] = info[d]
  BY <1>1, SetTypes, Zenon DEF SchedInv
<1>5. Quiet(c, loc)
  BY <1>1, <1>2, <1>3, <1>4, Zenon DEF Tick, Ipi, Quiet, SchedInv, TypeOK
<1>. QED
  BY <1>1, <1>5, QuietInterrupted, Zenon

LEMMA SwitchBeginInv == ASSUME SchedInv, NEW c \in Cpu, SwitchBegin(c) PROVE SchedInv'
<1>1. /\ next[c] # NONE /\ call[c] = NoCall /\ pc' = pc /\ info' = info /\ has_woken' = has_woken
      /\ irq' = [irq EXCEPT ![c] = FALSE]
  BY Zenon DEF SwitchBegin
<1>2. irq' \in [Cpu -> BOOLEAN] /\ \A d \in Cpu : d # c => irq'[d] = irq[d]
  BY <1>1, Zenon DEF SchedInv, TypeOK
<1>3. Quiet(c, pc[on[c]])
  BY <1>1, <1>2, SamePc, Zenon DEF SwitchBegin, Quiet, SchedInv, TypeOK
<1>4. CpuDecided(c) /\ CallControl(c)
  BY <1>1, Zenon DEF SchedInv, CpusControlled, CpuControl, CpuArriving, CpuExecuting, CpuRetrying, CpuBooting
<1>5. on' = on /\ next' = next /\ previous' = previous /\ rq' = rq /\ call' = call
  BY <1>3, Zenon DEF Quiet
<1>6. CpuControl(c)' /\ CallControl(c)'
  BY <1>1, <1>4, <1>5, Zenon DEF CpuControl, CpuDecided, CallControl
<1>7. pc[on[c]] \notin {"halting", "halted"}
  BY <1>4, Zenon DEF CpuDecided, Switching
<1>. QED
  BY <1>3, <1>6, <1>7, QuietInv, Zenon

-----------------------------------------------------------------------------
(* Rescheduling: the decision under the lock of the local run queue *)

\* CPU c replaces its run queue by r and has decided to switch to n, if that is a
\* task; its context goes to back.  It is off the run queue if gone.
Reschedules(c, r, n, gone, back) ==
    /\ next[c] = NONE /\ call[c] = NoCall /\ pc[on[c]] \notin {"built", "spawn"}
    /\ r \in RunQueue /\ NoRepeats(r)
    /\ \A t \in Task : Has(r, t) <=> Has(rq[c], t) /\ ~(gone /\ t = on[c])
    /\ n # NONE => n = r.current /\ n \in Task
    /\ gone \in BOOLEAN
    /\ gone => on[c] \in Task /\ rq[c].current = on[c] /\ pc[on[c]] \notin {"park_retry", "switch_wait"}
    /\ rq' = [rq EXCEPT ![c] = r]
    /\ next' = [next EXCEPT ![c] = n]
    /\ pc' = [pc EXCEPT ![on[c]] = back]
    /\ cpu' = IF gone THEN [cpu EXCEPT ![on[c]] = NONE] ELSE cpu
    /\ back \in Switching \cup Retrying \cup {"wait"}
    /\ back \in {"park_retry", "switch_wait"} =>
          pc[on[c]] \in {"park_retry", "switch_wait"} \/ (pc[on[c]] = "park_locked" /\ gone)
    /\ info' \in [Cpu -> PreemptInfo] /\ \A d \in Cpu : d # c => info'[d] = info[d]
    /\ arc' \in [Task -> Int]
    /\ \A t \in Task : arc'[t] = arc[t] + One(t = n) - One(gone /\ t = on[c])
                                 + One(t = on[c] /\ back \in {"park_retry", "switch_wait"})
                                 - One(t = on[c] /\ pc[on[c]] \in {"park_retry", "switch_wait"})
    /\ Keeps(c)

\* The run queues afterwards have the tasks they had, but for one that is gone.
LEMMA ReschedulesQueues ==
    ASSUME SchedInv, NEW c \in Cpu, NEW r, NEW n, NEW gone, NEW back, Reschedules(c, r, n, gone, back)
    PROVE  /\ Queues'
           /\ \A t \in Task : InRq(t)' <=> InRq(t) /\ ~(gone /\ t = on[c])
<1>0. call' = call
  BY Zenon DEF Reschedules, Keeps
<1>1. rq'[c] = r /\ \A d \in Cpu : d # c => rq'[d] = rq[d]
  BY ZenonT(40) DEF Reschedules, SchedInv, TypeOK
<1>2. \A t \in Task : gone /\ t = on[c] => Has(rq[c], t) /\ cpu[t] = c
  <2>1. gone => Has(rq[c], on[c])
    BY Zenon DEF Reschedules, Has
  <2>. QED
    BY <2>1, Zenon DEF SchedInv, Queues
<1>3. \A d \in Cpu, t \in Task : Has(rq[d], t)' <=> Has(rq[d], t) /\ ~(gone /\ t = on[c])
  <2> SUFFICES ASSUME NEW d \in Cpu, NEW t \in Task
               PROVE Has(rq[d], t)' <=> Has(rq[d], t) /\ ~(gone /\ t = on[c])
    BY Zenon
  <2>1. CASE d = c
    <3>1. Has(rq[d], t)' <=> Has(r, t)
      BY <1>1, <2>1, Zenon DEF Has
    <3>. QED
      BY <2>1, <3>1, Zenon DEF Reschedules
  <2>2. CASE d # c
    <3>1. Has(rq[d], t)' <=> Has(rq[d], t)
      BY <1>1, <2>2, Zenon DEF Has
    <3>2. Has(rq[d], t) => cpu[t] = d
      BY Zenon DEF SchedInv, Queues
    <3>. QED
      BY <1>2, <2>2, <3>1, <3>2, Zenon
  <2>. QED
    BY <2>1, <2>2, Zenon
<1>4. \A t \in Task : InRq(t)' <=> InRq(t) /\ ~(gone /\ t = on[c])
  BY <1>3, Zenon DEF InRq
<1>5. \A t \in Task : ~(gone /\ t = on[c]) => cpu'[t] = cpu[t]
  BY Zenon DEF Reschedules, SchedInv, TypeOK
<1>6. \A t \in Task : gone /\ t = on[c] => cpu'[t] = NONE
  BY ZenonT(40) DEF Reschedules, SchedInv, TypeOK
<1>7. \A d \in Cpu : \A t : Claims(d, t)' <=> Claims(d, t)
  BY <1>0, Zenon DEF Claims, Targets
<1>8. \A d \in Cpu : NoRepeats(rq[d])'
  <2>1. \A d \in Cpu : NoRepeats(rq[d])
    BY Zenon DEF SchedInv, Queues
  <2>2. NoRepeats(r)
    BY Zenon DEF Reschedules
  <2>3. ASSUME NEW d \in Cpu PROVE NoRepeats(rq[d])'
    <3>1. CASE d = c
      BY <1>1, <2>2, <3>1, Zenon DEF NoRepeats
    <3>2. CASE d # c
      BY <1>1, <2>1, <3>2, Zenon DEF NoRepeats
    <3>. QED
      BY <3>1, <3>2, Zenon
  <2>. QED
    BY <2>3, Zenon
<1>9. \A t \in Task, d \in Cpu : Has(rq[d], t)' => cpu'[t] = d
  BY <1>3, <1>5, Zenon DEF SchedInv, Queues
<1>10. \A t \in Task : cpu'[t] # NONE => InRq(t)' \/ \E d \in Cpu : Claims(d, t)'
  BY <1>4, <1>5, <1>6, <1>7, Zenon DEF SchedInv, Queues
<1>11. \A t \in Task, d \in Cpu : Claims(d, t)' => cpu'[t] = call'[d].cpu /\ ~InRq(t)'
  <2>1. \A t \in Task : gone /\ t = on[c] => InRq(t)
    BY <1>2, Zenon DEF InRq
  <2>. QED
    BY <1>0, <1>4, <1>5, <1>7, <2>1, Zenon DEF SchedInv, Queues
<1>12. \A t \in Task, d, e \in Cpu : Claims(d, t)' /\ Claims(e, t)' => d = e
  BY <1>7, Zenon DEF SchedInv, Queues
<1>. QED
  BY <1>4, <1>8, <1>9, <1>10, <1>11, <1>12, Zenon DEF Queues

LEMMA ReschedulesInv ==
    ASSUME SchedInv, NEW c \in Cpu, NEW r, NEW n, NEW gone, NEW back, Reschedules(c, r, n, gone, back),
           CpuControl(c)'
    PROVE  SchedInv'
<1>0. /\ policy' = policy /\ on' = on /\ previous' = previous /\ switched_to_cpu' = switched_to_cpu
      /\ irq' = irq /\ ipi' = ipi /\ has_woken' = has_woken /\ call' = call
  BY Zenon DEF Reschedules, Keeps
<1>1. /\ on[c] \in Context /\ pc'[on[c]] = back /\ back \in Locations
      /\ \A x \in Context : x # on[c] => pc'[x] = pc[x]
      /\ pc' \in [Context -> Locations]
  BY Zenon DEF SchedInv, TypeOK, Reschedules, Locations, Switching, Retrying
<1>2. back \notin {"built", "spawn", "park_locked", "halting", "halted"}
  BY Zenon DEF Reschedules, Switching, Retrying
<1>3. Queues' /\ \A t \in Task : InRq(t)' <=> InRq(t) /\ ~(gone /\ t = on[c])
  BY ReschedulesQueues, Zenon
<1>4. next'[c] = n /\ rq'[c] = r /\ \A d \in Cpu : d # c => next'[d] = next[d] /\ rq'[d] = rq[d]
  BY ZenonT(40) DEF Reschedules, SchedInv, TypeOK
<1>5. StateTypes'
  <2>1. rq' \in [Cpu -> RunQueue]
    BY Zenon DEF Reschedules, SchedInv, TypeOK
  <2>2. cpu' \in [Task -> Cpu \cup {NONE}]
    BY Zenon DEF Reschedules, SchedInv, TypeOK
  <2>3. next' \in [Cpu -> Task \cup {NONE}]
    BY Zenon DEF Reschedules, SchedInv, TypeOK
  <2>4. info' \in [Cpu -> PreemptInfo]
    BY Zenon DEF Reschedules
  <2>. QED
    BY <1>0, <1>1, <2>1, <2>2, <2>3, <2>4, Zenon DEF SchedInv, TypeOK, StateTypes
<1>6. CpusControlled'
  <2> SUFFICES ASSUME NEW d \in Cpu PROVE (on[d] \in Task \cup {d} /\ CpuControl(d) /\ CallControl(d))'
    BY Zenon DEF CpusControlled
  <2>1. on[d] \in Task \cup {d} /\ CpuControl(d) /\ CallControl(d)
    BY Zenon DEF SchedInv, CpusControlled
  <2>2. CASE d = c
    <3>1. call'[c] = NoCall /\ pc'[on'[c]] # "spawn"
      BY <1>0, <1>1, <1>2, Zenon DEF Reschedules
    <3>2. CallControl(c)'
      BY <3>1, Zenon DEF CallControl
    <3>. QED
      BY <1>0, <2>1, <2>2, <3>2, Zenon
  <2>3. CASE d # c
    <3>1. on[d] # on[c] /\ on[d] \in Context
      BY <2>3, OnDistinct, TypeFacts, Zenon DEF SchedInv
    <3>. QED
      BY <1>0, <1>1, <1>4, <2>1, <2>3, <3>1, CpuKept, Zenon
  <2>. QED
    BY <2>2, <2>3, Zenon
<1>7. \A t \in Task : pc'[t] = "built" <=> pc[t] = "built"
  BY <1>1, <1>2, OnNotBuilt, TypeFacts, Zenon DEF SchedInv
<1>8. TasksControlled'
  <2>1. \A t \in Task : (\A d \in Cpu : on[d] # t) => pc'[t] = pc[t]
    BY <1>1, TypeFacts, Zenon DEF SchedInv
  <2>2. \A t \in Task : cpu[t] = NONE => cpu'[t] = NONE
    BY ZenonT(40) DEF Reschedules, SchedInv, TypeOK
  <2>. QED
    BY <1>0, <1>7, <2>1, <2>2, Zenon DEF SchedInv, TasksControlled, Targets
<1>9. Foreground'
  BY <1>0, Zenon DEF SchedInv, Foreground
<1>10. Arcs'
  <2> SUFFICES ASSUME NEW t \in Task
               PROVE arc'[t] = (RqArc(t) + OnArc(t) + PreviousArc(t) + NextArc(t) + ParkArc(t)
                                + BuiltArc(t) + CallArcs(t))'
    BY Zenon DEF Arcs
  <2>1. OnArc(t)' = OnArc(t) /\ PreviousArc(t)' = PreviousArc(t) /\ CallArcs(t)' = CallArcs(t)
    BY <1>0, Zenon DEF OnArc, PreviousArc, CallArcs, CallsOf, Targets
  <2>2. BuiltArc(t)' = BuiltArc(t)
    BY <1>7, Zenon DEF BuiltArc, One
  <2>3. ParkArc(t)' = ParkArc(t) + One(t = on[c] /\ back \in {"park_retry", "switch_wait"})
                                 - One(t = on[c] /\ pc[on[c]] \in {"park_retry", "switch_wait"})
    <3>1. CASE t = on[c]
      BY ONLY <1>1, <3>1, SMTT(30) DEF ParkArc, One
    <3>2. CASE t # on[c]
      BY <1>1, <3>2, TypeFacts, SMTT(30) DEF ParkArc, One, SchedInv
    <3>. QED
      BY <3>1, <3>2, Zenon
  <2>4. RqArc(t)' = RqArc(t) - One(gone /\ t = on[c])
    <3>1. gone /\ t = on[c] => InRq(t)
      BY ZenonT(40) DEF InRq, Has, Reschedules
    <3>. QED
      BY ONLY <1>3, <3>1, SMTT(30) DEF RqArc, One
  <2>5. NextArc(t)' = NextArc(t) + One(t = n)
    <3>1. t = n => \A d \in Cpu : next[d] # t
      <4> SUFFICES ASSUME t = n, NEW d \in Cpu, next[d] = t PROVE FALSE
        BY Zenon
      <4>1. t # NONE
        BY TypeFacts, Zenon DEF SchedInv
      <4>2. d # c
        BY <4>1, Zenon DEF Reschedules
      <4>3. rq[d].current = t
        BY <4>1, Zenon DEF SchedInv, CpusControlled, CpuControl, CpuDecided, CpuArriving, CpuExecuting, CpuRetrying, CpuBooting
      <4>4. Has(rq[d], t)
        BY <4>3, Zenon DEF Has
      <4>5. Has(rq[c], t)
        BY <4>1, Zenon DEF Reschedules, Has
      <4>. QED
        BY <4>2, <4>4, <4>5, Zenon DEF SchedInv, Queues
    <3>2. (\E d \in Cpu : next[d] = t)' <=> (\E d \in Cpu : next[d] = t) \/ t = n
      <4>1. next[c] # t
        BY TypeFacts, Zenon DEF SchedInv, Reschedules
      <4>. QED
        BY <1>4, <4>1, Zenon
    <3>. QED
      BY ONLY <3>1, <3>2, SMTT(30) DEF NextArc, One
  <2>6. arc'[t] = arc[t] + One(t = n) - One(gone /\ t = on[c])
                  + One(t = on[c] /\ back \in {"park_retry", "switch_wait"})
                  - One(t = on[c] /\ pc[on[c]] \in {"park_retry", "switch_wait"})
    BY Zenon DEF Reschedules
  <2>7. arc[t] = RqArc(t) + OnArc(t) + PreviousArc(t) + NextArc(t) + ParkArc(t) + BuiltArc(t) + CallArcs(t)
    BY Zenon DEF SchedInv, Arcs
  <2>8. Counted(t)
    BY CountsAreIntegers, Zenon
  <2>. QED
    BY ONLY <2>1, <2>2, <2>3, <2>4, <2>5, <2>6, <2>7, <2>8, SMTT(30) DEF One, Counted
<1>11. TypeOK'
  BY <1>5, <1>10, ArcTypes, Zenon DEF Reschedules
<1>12. WakeUps'
  <2> SUFFICES ASSUME NEW t \in Task, has_woken'[t]
               PROVE /\ pc'[t] = "park_locked" => (\E d \in Cpu : Comes(d, t))'
                     /\ pc'[t] \in {"park_retry", "switch_wait"} /\ cpu'[t] = NONE => (\E d \in Cpu : Targets(d, t))'
    BY Zenon DEF WakeUps
  <2>1. has_woken[t] /\ \A d \in Cpu : Targets(d, t)' <=> Targets(d, t)
    BY <1>0, Zenon DEF Targets
  <2>2. CASE t = on[c]
    <3>1. pc'[t] # "park_locked"
      BY <1>1, <1>2, <2>2, Zenon
    <3>2. ASSUME pc'[t] \in {"park_retry", "switch_wait"}, cpu'[t] = NONE PROVE \E d \in Cpu : Targets(d, t)
      <4>1. CASE pc[t] = "park_locked"
        BY <2>1, <4>1, Zenon DEF SchedInv, WakeUps, Comes
      <4>2. CASE pc[t] # "park_locked"
        <5>1. pc[t] \in {"park_retry", "switch_wait"}
          BY <1>1, <2>2, <3>2, <4>2, Zenon DEF Reschedules
        <5>2. ~gone
          BY <2>2, <5>1, Zenon DEF Reschedules
        <5>3. cpu'[t] = cpu[t]
          BY <5>2, Zenon DEF Reschedules
        <5>. QED
          BY <2>1, <3>2, <5>1, <5>3, Zenon DEF SchedInv, WakeUps
      <4>. QED
        BY <4>1, <4>2, Zenon
    <3>. QED
      BY <2>1, <3>1, <3>2, Zenon
  <2>3. CASE t # on[c]
    <3>1. pc'[t] = pc[t] /\ cpu'[t] = cpu[t]
      BY <1>1, <2>3, TypeFacts, SMTT(30) DEF SchedInv, TypeOK, Reschedules
    <3>2. \A d \in Cpu : Comes(d, t)' <=> Comes(d, t)
      BY <1>0, <3>1, Zenon DEF Comes, Targets
    <3>. QED
      BY <2>1, <3>1, <3>2, ZenonT(40) DEF SchedInv, WakeUps
  <2>. QED
    BY <2>2, <2>3, Zenon
<1>13. Halts'
  <2> SUFFICES ASSUME NEW d \in Cpu, pc'[on'[d]] \in {"halting", "halted"} PROVE ~need_preempt(info'[d])
    BY Zenon DEF Halts, need_preempt
  <2>1. d # c
    BY <1>0, <1>1, <1>2, Zenon
  <2>2. on[d] # on[c] /\ on[d] \in Context
    BY <2>1, OnDistinct, TypeFacts, Zenon DEF SchedInv
  <2>. QED
    BY <1>0, <1>1, <2>1, <2>2, Zenon DEF SchedInv, Halts, Reschedules
<1>. QED
  BY <1>3, <1>6, <1>8, <1>9, <1>10, <1>11, <1>12, <1>13, Zenon DEF SchedInv

\* A step that decides to switch.
LEMMA DecidesInv ==
    ASSUME SchedInv, NEW c \in Cpu, NEW r, NEW gone, NEW back \in Switching,
           Reschedules(c, r, r.current, gone, back), r.current \in Task, previous[c] = NONE
    PROVE  SchedInv'
<1>1. on[c] \in Context /\ pc'[on[c]] = back
  BY Zenon DEF Reschedules, SchedInv, TypeOK
<1>2. on' = on /\ previous' = previous /\ call' = call /\ call[c] = NoCall
  BY Zenon DEF Reschedules, Keeps
<1>3. next'[c] = r.current /\ rq'[c] = r /\ r.current # NONE
  BY TypeFacts, ZenonT(40) DEF Reschedules, SchedInv, TypeOK
<1>4. CpuControl(c)'
  BY <1>1, <1>2, <1>3, Zenon DEF CpuControl, CpuDecided
<1>. QED
  BY <1>4, ReschedulesInv, Zenon

\* ... to the next task of the queue, the context staying in the run queue or out
\* of it.
LEMMA PicksInv ==
    ASSUME SchedInv, NEW c \in Cpu, NEW r, r = try_pick_next(rq[c]), rq[c].queue # <<>>,
           NEW back \in Switching, SwitchTo(c, r, back), cpu' = cpu, Keeps(c),
           next[c] = NONE, call[c] = NoCall, previous[c] = NONE, pc[on[c]] \notin {"built", "spawn"},
           back = "switch_wait" <=> pc[on[c]] \in {"park_retry", "switch_wait"},
           info' \in [Cpu -> PreemptInfo] /\ \A d \in Cpu : d # c => info'[d] = info[d],
           arc' = [arc EXCEPT ![r.current] = @ + 1]
    PROVE  SchedInv'
<1>1. /\ r \in RunQueue /\ NoRepeats(r) /\ r.current \in Task
      /\ \A t \in Task : Has(r, t) <=> Has(rq[c], t)
  <2>1. rq[c] \in RunQueue /\ NoRepeats(rq[c])
    BY Zenon DEF SchedInv, TypeOK, Queues
  <2>. QED
    BY <2>1, PickFacts, Zenon
<1>2. arc' \in [Task -> Int] /\ \A t \in Task : arc'[t] = arc[t] + One(t = r.current)
  BY <1>1, SMTT(30) DEF SchedInv, TypeOK, One
<1>3. back \in {"park_retry", "switch_wait"} <=> back = "switch_wait"
  BY Zenon DEF Switching
<1>4. Reschedules(c, r, r.current, FALSE, back)
  <2>1. \A t \in Task : arc'[t] = arc[t] + One(t = r.current) - One(FALSE /\ t = on[c])
                                 + One(t = on[c] /\ back \in {"park_retry", "switch_wait"})
                                 - One(t = on[c] /\ pc[on[c]] \in {"park_retry", "switch_wait"})
    BY <1>2, <1>3, SMTT(30) DEF SchedInv, TypeOK, One
  <2>2. back \in Switching \cup Retrying \cup {"wait"}
    BY Zenon
  <2>3. rq' = [rq EXCEPT ![c] = r] /\ next' = [next EXCEPT ![c] = r.current] /\ pc' = [pc EXCEPT ![on[c]] = back]
    BY Zenon DEF SwitchTo
  <2>. QED
    BY <1>1, <1>2, <1>3, <2>1, <2>2, <2>3, Zenon DEF Reschedules
<1>. QED
  BY <1>1, <1>4, DecidesInv, Zenon

LEMMA YieldNowInv == ASSUME SchedInv, NEW c \in Cpu, YieldNow(c) PROVE SchedInv'
<1>1. /\ pc[on[c]] = "run" /\ next[c] = NONE /\ call[c] = NoCall /\ ClearNeedPreempt(c)
      /\ cpu' = cpu /\ Keeps(c)
  BY Zenon DEF YieldNow, At
<1>2. "run" \in Executing \ {"spawn"} /\ "run" \in Booting /\ "switch_run" \in Switching
  BY Zenon DEF Executing, Booting, Switching
<1>3. irq[c] /\ previous[c] = NONE
  BY <1>1, <1>2, Executes, Zenon DEF CpuExecuting, CpuBooting
<1>4. info' \in [Cpu -> PreemptInfo] /\ \A d \in Cpu : d # c => info'[d] = info[d]
  BY <1>1, ClearTypes, Zenon DEF SchedInv
<1>5. CASE update_current(rq[c])
  BY <1>1, <1>2, <1>3, <1>4, <1>5, PicksInv, Zenon DEF YieldNow, update_current
<1>6. CASE ~update_current(rq[c])
  <2>1. pc' = pc /\ rq' = rq /\ next' = next /\ arc' = arc /\ irq' = irq
    BY <1>1, <1>6, Zenon DEF YieldNow, Keeps
  <2>2. Quiet(c, "run")
    BY <1>1, <1>4, <2>1, SamePc, ZenonT(40) DEF Quiet, Keeps, SchedInv, TypeOK
  <2>. QED
    BY <1>1, <1>2, <1>3, <2>1, <2>2, QuietExecuting, Zenon
<1>. QED
  BY <1>5, <1>6, Zenon

LEMMA MightPreemptInv == ASSUME SchedInv, NEW c \in Cpu, MightPreempt(c) PROVE SchedInv'
<1>1. /\ pc[on[c]] \in {"run", "preempt_point"} /\ next[c] = NONE /\ call[c] = NoCall
      /\ cpu' = cpu /\ Keeps(c) /\ (ClearNeedPreempt(c) \/ info' = info)
  BY Zenon DEF MightPreempt, At
<1>2. "run" \in Executing \ {"spawn"} /\ pc[on[c]] \in Executing /\ "run" \in Booting /\ "switch_run" \in Switching
  BY <1>1, Zenon DEF Executing, Booting, Switching
<1>3. irq[c] /\ previous[c] = NONE
  BY <1>1, <1>2, Executes, Zenon DEF CpuExecuting, CpuBooting
<1>4. info' \in [Cpu -> PreemptInfo] /\ \A d \in Cpu : d # c => info'[d] = info[d]
  <2>1. CASE info' = info
    BY <2>1, Zenon DEF SchedInv, TypeOK
  <2>. QED
    BY <1>1, <2>1, ClearTypes, Zenon DEF SchedInv
<1>5. CASE should_preempt(info[c]) /\ update_current(rq[c])
  <2>1. /\ SwitchTo(c, try_pick_next(rq[c]), "switch_run")
        /\ arc' = [arc EXCEPT ![try_pick_next(rq[c]).current] = @ + 1]
    BY <1>5, Zenon DEF MightPreempt
  <2>. QED
    BY <1>1, <1>2, <1>3, <1>4, <1>5, <2>1, PicksInv, Zenon DEF update_current
<1>6. CASE ~(should_preempt(info[c]) /\ update_current(rq[c]))
  <2>1. pc' = [pc EXCEPT ![on[c]] = "run"] /\ rq' = rq /\ next' = next /\ arc' = arc /\ irq' = irq
    BY <1>1, <1>6, Zenon DEF MightPreempt, Keeps
  <2>2. Quiet(c, "run")
    BY <1>1, <1>4, <2>1, ZenonT(40) DEF Quiet, Keeps, Locations, SchedInv, TypeOK
  <2>. QED
    BY <1>1, <1>2, <1>3, <2>1, <2>2, QuietExecuting, Zenon
<1>. QED
  BY <1>5, <1>6, Zenon

\* A context that looks for another task is off its run queue.
LEMMA Retries ==
    ASSUME SchedInv, NEW c \in Cpu, next[c] = NONE, pc[on[c]] \in Retrying PROVE CpuRetrying(c)
<1>1. CpuControl(c)
  BY Zenon DEF SchedInv, CpusControlled
<1>. QED
  BY <1>1, Zenon DEF CpuControl, CpuDecided, CpuArriving, CpuExecuting, CpuBooting, Executing, Arriving, Switching, Retrying, Booting

LEMMA ExitRetryInv == ASSUME SchedInv, NEW c \in Cpu, ExitRetry(c) PROVE SchedInv'
<1>1. /\ pc[on[c]] = "exit_retry" /\ next[c] = NONE /\ call[c] = NoCall /\ rq[c].queue # <<>>
      /\ cpu' = cpu /\ Keeps(c) /\ info' = info
  BY Zenon DEF ExitRetry, At, update_current
<1>2. "exit_retry" \in Retrying /\ "switch_exit" \in Switching
  BY Zenon DEF Retrying, Switching
<1>3. previous[c] = NONE
  BY <1>1, <1>2, Retries, Zenon DEF CpuRetrying
<1>4. info' \in [Cpu -> PreemptInfo] /\ \A d \in Cpu : d # c => info'[d] = info[d]
  BY <1>1, Zenon DEF SchedInv, TypeOK
<1>. QED
  BY <1>1, <1>2, <1>3, <1>4, PicksInv, Zenon DEF ExitRetry

LEMMA ParkRetryInv == ASSUME SchedInv, NEW c \in Cpu, ParkRetry(c) PROVE SchedInv'
<1> DEFINE r == try_pick_next(rq[c])
<1>1. /\ pc[on[c]] = "park_retry" /\ next[c] = NONE /\ call[c] = NoCall /\ rq[c].queue # <<>>
      /\ cpu' = cpu /\ Keeps(c) /\ info' = info
  BY Zenon DEF ParkRetry, At, update_current
<1>2. "park_retry" \in Retrying /\ "switch_wait" \in Switching /\ "wait" \in Executing
  BY Zenon DEF Retrying, Switching, Executing
<1>3. previous[c] = NONE /\ on[c] \in Task /\ irq[c]
  BY <1>1, <1>2, Retries, Zenon DEF CpuRetrying
<1>4. info' \in [Cpu -> PreemptInfo] /\ \A d \in Cpu : d # c => info'[d] = info[d]
  BY <1>1, Zenon DEF SchedInv, TypeOK
<1>5. CASE r.current # on[c]
  <2>1. /\ SwitchTo(c, r, "switch_wait")
        /\ arc' = [arc EXCEPT ![r.current] = @ + 1]
    BY <1>5, Zenon DEF ParkRetry
  <2>. QED
    BY <1>1, <1>2, <1>3, <1>4, <2>1, PicksInv, Zenon
<1>6. CASE r.current = on[c]
  <2>1. /\ rq' = [rq EXCEPT ![c] = r] /\ pc' = [pc EXCEPT ![on[c]] = "wait"]
        /\ arc' = [arc EXCEPT ![on[c]] = @ - 1] /\ next' = next
    BY <1>6, Zenon DEF ParkRetry
  <2>2. /\ r \in RunQueue /\ NoRepeats(r) /\ r.current \in Task
        /\ \A t \in Task : Has(r, t) <=> Has(rq[c], t)
    <3>1. rq[c] \in RunQueue /\ NoRepeats(rq[c])
      BY Zenon DEF SchedInv, TypeOK, Queues
    <3>. QED
      BY <1>1, <3>1, PickFacts, Zenon
  <2>. HIDE DEF r
  <2>3. next' = [next EXCEPT ![c] = NONE]
    BY <1>1, <2>1, Zenon DEF SchedInv, TypeOK
  <2>4. arc' \in [Task -> Int] /\ \A t \in Task : arc'[t] = arc[t] - One(t = on[c])
    BY <1>3, <2>1, ArcMoves, ZenonT(40)
  <2>5. \A t \in Task : arc'[t] = arc[t] + One(t = NONE) - One(FALSE /\ t = on[c])
                                 + One(t = on[c] /\ "wait" \in {"park_retry", "switch_wait"})
                                 - One(t = on[c] /\ pc[on[c]] \in {"park_retry", "switch_wait"})
    BY <1>1, <2>4, TypeFacts, SMTT(30) DEF SchedInv, TypeOK, One
  <2>6. Reschedules(c, r, NONE, FALSE, "wait")
    BY <1>1, <1>4, <2>1, <2>2, <2>3, <2>4, <2>5, Zenon DEF Reschedules
  <2>7. CpuControl(c)'
    <3>1. /\ on' = on /\ previous' = previous /\ irq' = irq /\ pc'[on[c]] = "wait" /\ rq'[c] = r
          /\ next'[c] = NONE
      BY <1>1, <2>1, Zenon DEF Keeps, SchedInv, TypeOK
    <3>. QED
      BY <1>2, <1>3, <1>6, <3>1, Zenon DEF CpuControl, CpuExecuting
  <2>. QED
    BY <2>6, <2>7, ReschedulesInv, Zenon
<1>. QED
  BY <1>5, <1>6, Zenon

\* The current task leaves the run queue, for another one or for none.
LEMMA DequeuesInv ==
    ASSUME SchedInv, NEW c \in Cpu, NEW retry \in Retrying, NEW back \in Switching,
           next[c] = NONE, call[c] = NoCall, pc[on[c]] \in Executing \ {"spawn", "halting"},
           on[c] \in Task, CpuExecuting(c), set_to_none(on[c]), Keeps(c),
           info' \in [Cpu -> PreemptInfo] /\ \A d \in Cpu : d # c => info'[d] = info[d],
           retry = "park_retry" => pc[on[c]] = "park_locked" /\ back = "switch_wait",
           retry = "exit_retry" => back = "switch_exit",
           NEW n, n = IF rq[c].queue # <<>> THEN try_pick_next(dequeue_current(rq[c])).current ELSE NONE,
           \/ /\ rq[c].queue # <<>>
              /\ SwitchTo(c, try_pick_next(dequeue_current(rq[c])), back)
           \/ /\ rq[c].queue = <<>>
              /\ rq' = [rq EXCEPT ![c] = dequeue_current(rq[c])]
              /\ pc' = [pc EXCEPT ![on[c]] = retry]
              /\ next' = next,
           arc' \in [Task -> Int],
           \A t \in Task : arc'[t] = arc[t] + One(t = n) - One(t = on[c] /\ retry = "exit_retry")
    PROVE  SchedInv'
<1> DEFINE q == dequeue_current(rq[c])
           p == try_pick_next(q)
<1>1. rq[c] \in RunQueue /\ NoRepeats(rq[c]) /\ rq[c].current = on[c]
  BY ZenonT(40) DEF SchedInv, TypeOK, Queues, CpuExecuting
<1>2. /\ q \in RunQueue /\ NoRepeats(q) /\ q.current = NONE /\ q.queue = rq[c].queue
      /\ \A t \in Task : Has(q, t) <=> Has(rq[c], t) /\ t # on[c]
  BY ONLY <1>1, DequeueFacts, SMTT(30)
<1>3. rq[c].queue # <<>> =>
        /\ p \in RunQueue /\ NoRepeats(p) /\ p.current \in Task
        /\ \A t \in Task : Has(p, t) <=> Has(rq[c], t) /\ t # on[c]
  <2>. HIDE DEF q
  <2>. QED
    BY <1>2, PickFacts, Zenon
<1>4. cpu' = [cpu EXCEPT ![on[c]] = NONE]
  BY Zenon DEF set_to_none
<1>5. /\ pc[on[c]] \notin {"built", "spawn", "park_retry", "switch_wait"}
      /\ retry \in {"park_retry", "exit_retry"} /\ back \in {"switch_wait", "switch_exit"}
      /\ (retry = "park_retry" <=> back = "switch_wait")
  BY Zenon DEF Executing, Retrying
<1>6. previous[c] = NONE /\ irq[c]
  BY Zenon DEF CpuExecuting
<1>7. CASE rq[c].queue # <<>>
  <2>1. rq' = [rq EXCEPT ![c] = p] /\ next' = [next EXCEPT ![c] = p.current] /\ pc' = [pc EXCEPT ![on[c]] = back]
    BY <1>7, Zenon DEF SwitchTo
  <2>2. n = p.current
    BY <1>7, Zenon
  <2>. HIDE DEF q, p
  <2>3. \A t \in Task : arc'[t] = arc[t] + One(t = p.current) - One(TRUE /\ t = on[c])
                                 + One(t = on[c] /\ back \in {"park_retry", "switch_wait"})
                                 - One(t = on[c] /\ pc[on[c]] \in {"park_retry", "switch_wait"})
    <3> SUFFICES ASSUME NEW t \in Task
                 PROVE arc'[t] = arc[t] + One(t = p.current) - One(TRUE /\ t = on[c])
                                 + One(t = on[c] /\ back \in {"park_retry", "switch_wait"})
                                 - One(t = on[c] /\ pc[on[c]] \in {"park_retry", "switch_wait"})
      BY Zenon
    <3>1. arc[t] \in Nat /\ arc'[t] = arc[t] + One(t = p.current) - One(t = on[c] /\ retry = "exit_retry")
      BY <2>2, Zenon DEF SchedInv, TypeOK
    <3>2. back \in {"park_retry", "switch_wait"} <=> retry # "exit_retry"
      BY <1>5, Zenon
    <3>. QED
      BY ONLY <1>5, <3>1, <3>2, SMTT(30) DEF One
  <2>4. Reschedules(c, p, p.current, TRUE, back)
    BY <1>1, <1>3, <1>4, <1>5, <1>7, <2>1, <2>3, Zenon DEF Reschedules
  <2>. QED
    BY <1>3, <1>6, <1>7, <2>4, DecidesInv, Zenon
<1>8. CASE rq[c].queue = <<>>
  <2>1. rq' = [rq EXCEPT ![c] = q] /\ next' = next /\ pc' = [pc EXCEPT ![on[c]] = retry]
    BY <1>8, Zenon
  <2>2. n = NONE
    BY <1>8, Zenon
  <2>. HIDE DEF q, p
  <2>3. \A t \in Task : arc'[t] = arc[t] + One(t = NONE) - One(TRUE /\ t = on[c])
                                 + One(t = on[c] /\ retry \in {"park_retry", "switch_wait"})
                                 - One(t = on[c] /\ pc[on[c]] \in {"park_retry", "switch_wait"})
    <3> SUFFICES ASSUME NEW t \in Task
                 PROVE arc'[t] = arc[t] + One(t = NONE) - One(TRUE /\ t = on[c])
                                 + One(t = on[c] /\ retry \in {"park_retry", "switch_wait"})
                                 - One(t = on[c] /\ pc[on[c]] \in {"park_retry", "switch_wait"})
      BY Zenon
    <3>1. arc[t] \in Nat /\ arc'[t] = arc[t] + One(t = NONE) - One(t = on[c] /\ retry = "exit_retry")
      BY <2>2, Zenon DEF SchedInv, TypeOK
    <3>2. retry \in {"park_retry", "switch_wait"} <=> retry # "exit_retry"
      BY <1>5, Zenon
    <3>. QED
      BY ONLY <1>5, <3>1, <3>2, SMTT(30) DEF One
  <2>4. next' = [next EXCEPT ![c] = NONE]
    BY <2>1, Zenon DEF SchedInv, TypeOK
  <2>5. Reschedules(c, q, NONE, TRUE, retry)
    BY <1>1, <1>2, <1>4, <1>5, <2>1, <2>3, <2>4, Zenon DEF Reschedules
  <2>6. CpuControl(c)'
    <3>1. /\ on' = on /\ previous' = previous /\ irq' = irq /\ pc'[on[c]] = retry /\ rq'[c] = q
          /\ next'[c] = NONE
      BY <2>1, ZenonT(40) DEF Keeps, SchedInv, TypeOK
    <3>. QED
      BY <1>2, <1>6, <3>1, Zenon DEF CpuControl, CpuRetrying
  <2>. QED
    BY <2>5, <2>6, ReschedulesInv, Zenon
<1>. QED
  BY <1>7, <1>8, Zenon

LEMMA ParkDequeueInv == ASSUME SchedInv, NEW c \in Cpu, ParkDequeue(c) PROVE SchedInv'
<1> DEFINE r == dequeue_current(rq[c])
           n == IF rq[c].queue # <<>> THEN try_pick_next(r).current ELSE NONE
<1>1. /\ pc[on[c]] = "park_locked" /\ next[c] = NONE /\ call[c] = NoCall
      /\ set_to_none(on[c]) /\ Keeps(c) /\ info' = info
  BY Zenon DEF ParkDequeue, At
<1>2. /\ "park_retry" \in Retrying /\ "switch_wait" \in Switching /\ pc[on[c]] \in Executing \ {"spawn", "halting"}
      /\ pc[on[c]] \notin Booting
  BY <1>1, Zenon DEF Retrying, Switching, Executing, Booting
<1>3. CpuExecuting(c) /\ on[c] \in Task
  BY <1>1, <1>2, Executes, Zenon DEF CpuExecuting, CpuBooting
<1>4. info' \in [Cpu -> PreemptInfo] /\ \A d \in Cpu : d # c => info'[d] = info[d]
  BY <1>1, Zenon DEF SchedInv, TypeOK
<1>5. \/ /\ rq[c].queue # <<>>
         /\ SwitchTo(c, try_pick_next(r), "switch_wait")
         /\ arc' = [arc EXCEPT ![try_pick_next(r).current] = @ + 1]
      \/ /\ rq[c].queue = <<>>
         /\ rq' = [rq EXCEPT ![c] = r]
         /\ pc' = [pc EXCEPT ![on[c]] = "park_retry"]
         /\ next' = next /\ arc' = arc
  BY Zenon DEF ParkDequeue, update_current
<1>6. rq[c].queue # <<>> => try_pick_next(r).current \in Task
  <2>1. rq[c] \in RunQueue /\ NoRepeats(rq[c])
    BY Zenon DEF SchedInv, TypeOK, Queues
  <2>2. r \in RunQueue /\ NoRepeats(r) /\ r.queue = rq[c].queue
    BY <2>1, DequeueFacts, Zenon
  <2>. HIDE DEF r
  <2>. QED
    BY <2>2, PickFacts, Zenon
<1>7. arc' \in [Task -> Int] /\ \A t \in Task : arc'[t] = arc[t] + One(t = n) - One(t = on[c] /\ "park_retry" = "exit_retry")
  <2>. HIDE DEF r
  <2>0. \A t \in Task : t # NONE
    BY SchedulerAssumption, Zenon
  <2>1. arc \in [Task -> Int] /\ \A t \in Task : arc[t] \in Int
    BY ArcMoves, Zenon
  <2>2. CASE rq[c].queue # <<>>
    <3>1. n \in Task /\ arc' = [arc EXCEPT ![n] = @ + 1]
      BY <1>5, <1>6, <2>2, Zenon
    <3>. HIDE DEF n
    <3>2. arc' \in [Task -> Int] /\ \A t \in Task : arc'[t] = arc[t] + One(t = n)
      BY <3>1, ArcMoves, Zenon
    <3>. QED
      BY ONLY <2>1, <3>2, SMTT(30) DEF One
  <2>3. CASE rq[c].queue = <<>>
    <3>1. n = NONE /\ arc' = arc
      BY <1>5, <2>3, Zenon
    <3>. HIDE DEF n
    <3>. QED
      BY ONLY <2>0, <2>1, <3>1, SMTT(30) DEF One
  <2>. QED
    BY <2>2, <2>3, Zenon
<1>. QED
  BY <1>1, <1>2, <1>3, <1>4, <1>5, <1>7, DequeuesInv, SMTT(30)

LEMMA ExitFirstInv == ASSUME SchedInv, NEW c \in Cpu, ExitFirst(c) PROVE SchedInv'
<1> DEFINE r == dequeue_current(rq[c])
           n == IF rq[c].queue # <<>> THEN try_pick_next(r).current ELSE NONE
<1>1. /\ pc[on[c]] = "run" /\ next[c] = NONE /\ call[c] = NoCall /\ on[c] \in Task
      /\ set_to_none(on[c]) /\ Keeps(c) /\ ClearNeedPreempt(c)
  BY Zenon DEF ExitFirst, At
<1>2. "exit_retry" \in Retrying /\ "switch_exit" \in Switching /\ pc[on[c]] \in Executing \ {"spawn", "halting"}
  BY <1>1, Zenon DEF Retrying, Switching, Executing
<1>3. CpuExecuting(c)
  BY <1>1, <1>2, Executes, SchedulerAssumption, Zenon DEF CpuBooting
<1>4. info' \in [Cpu -> PreemptInfo] /\ \A d \in Cpu : d # c => info'[d] = info[d]
  BY <1>1, ClearTypes, Zenon DEF SchedInv
<1>5. \/ /\ rq[c].queue # <<>>
         /\ SwitchTo(c, try_pick_next(r), "switch_exit")
         /\ arc' = [[arc EXCEPT ![on[c]] = @ - 1] EXCEPT ![try_pick_next(r).current] = @ + 1]
      \/ /\ rq[c].queue = <<>>
         /\ rq' = [rq EXCEPT ![c] = r]
         /\ pc' = [pc EXCEPT ![on[c]] = "exit_retry"]
         /\ next' = next /\ arc' = [arc EXCEPT ![on[c]] = @ - 1]
  BY Zenon DEF ExitFirst, update_current
<1>6. rq[c].queue # <<>> => try_pick_next(r).current \in Task
  <2>1. rq[c] \in RunQueue /\ NoRepeats(rq[c]) /\ \A t \in Task : t # NONE
    BY TypeFacts, Zenon DEF SchedInv, TypeOK, Queues
  <2>2. r \in RunQueue /\ NoRepeats(r) /\ r.queue = rq[c].queue
    BY <2>1, DequeueFacts, Zenon
  <2>. HIDE DEF r
  <2>. QED
    BY <2>2, PickFacts, Zenon
<1>7. arc' \in [Task -> Int] /\ \A t \in Task : arc'[t] = arc[t] + One(t = n) - One(t = on[c])
  <2>. HIDE DEF r
  <2>1. arc \in [Task -> Nat] /\ \A t \in Task : t # NONE
    BY TypeFacts, Zenon DEF SchedInv, TypeOK
  <2>2. CASE rq[c].queue # <<>>
    <3> DEFINE h == try_pick_next(r).current
    <3>1. n = h /\ h \in Task /\ arc' = [[arc EXCEPT ![on[c]] = @ - 1] EXCEPT ![h] = @ + 1]
      BY <1>5, <1>6, <2>2, Zenon
    <3>. HIDE DEF h, n
    <3> DEFINE a == [arc EXCEPT ![on[c]] = @ - 1]
    <3>2. a \in [Task -> Int] /\ \A t \in Task : a[t] = arc[t] - One(t = on[c])
      BY ONLY <1>1, <2>1, SMTT(30) DEF One
    <3>3. arc' = [a EXCEPT ![h] = @ + 1]
      BY <3>1, Zenon
    <3>. HIDE DEF a
    <3>4. \A t \in Task : arc[t] \in Int /\ One(t = on[c]) \in Int
      BY ONLY <2>1, SMTT(30) DEF One
    <3>5. arc' \in [Task -> Int] /\ \A t \in Task : arc'[t] = a[t] + One(t = h)
      BY ONLY <3>1, <3>2, <3>3, SMTT(30) DEF One
    <3>6. ASSUME NEW t \in Task PROVE arc'[t] = arc[t] + One(t = n) - One(t = on[c])
      BY ONLY <3>1, <3>2, <3>4, <3>5, SMTT(30) DEF One
    <3>. QED
      BY <3>5, <3>6, Zenon
  <2>3. CASE rq[c].queue = <<>>
    <3>1. n = NONE /\ arc' = [arc EXCEPT ![on[c]] = @ - 1]
      BY <1>5, <2>3, Zenon
    <3>. QED
      BY ONLY <1>1, <2>1, <3>1, SMTT(30) DEF One
  <2>. QED
    BY <2>2, <2>3, Zenon
<1>8. \A t \in Task : arc'[t] = arc[t] + One(t = n) - One(t = on[c] /\ "exit_retry" = "exit_retry")
  BY <1>7, Zenon
<1>. QED
  BY <1>1, <1>2, <1>3, <1>4, <1>5, <1>7, <1>8, DequeuesInv, SMTT(30)

-----------------------------------------------------------------------------
(* switch_to_task *)

\* A task that a CPU has decided to switch to is the current one of its run queue.
LEMMA NextCpu ==
    ASSUME SchedInv, NEW d \in Cpu, next[d] # NONE
    PROVE  CpuDecided(d) /\ next[d] \in Task /\ cpu[next[d]] = d
<1>1. CpuDecided(d)
  BY Zenon DEF SchedInv, CpusControlled, CpuControl, CpuArriving, CpuExecuting, CpuRetrying, CpuBooting
<1>2. next[d] \in Task
  BY Zenon DEF SchedInv, TypeOK
<1>3. Has(rq[d], next[d])
  BY <1>1, Zenon DEF CpuDecided, Has
<1>. QED
  BY <1>1, <1>2, <1>3, Zenon DEF SchedInv, Queues

\* A CPU executes a task or is still saving its context.
Holds(c, t) == on[c] = t \/ previous[c] = t

\* The flag of a task is set exactly while one CPU holds it, and no other does.
LEMMA HoldsFacts ==
    ASSUME SchedInv
    PROVE  /\ \A t \in Task : switched_to_cpu[t] <=> \E c \in Cpu : Holds(c, t)
           /\ \A t \in Task, c, d \in Cpu : Holds(c, t) /\ Holds(d, t) => c = d
BY Zenon DEF SchedInv, Foreground, Holds

\* The next task, which no CPU holds, is the current one of the run queue of c.
LEMMA SwitchContextInv == ASSUME SchedInv, NEW c \in Cpu, SwitchContext(c) PROVE SchedInv'
<1> DEFINE n == next[c]
           p == on[c]
<1>0. /\ policy' = policy /\ rq' = rq /\ cpu' = cpu /\ irq' = irq /\ info' = info /\ ipi' = ipi /\ pc' = pc
      /\ has_woken' = has_woken /\ call' = call /\ arc' = arc
  BY Zenon DEF SwitchContext
<1>1. /\ CpuDecided(c) /\ n \in Task /\ n # NONE /\ n \in Context /\ cpu[n] = c /\ ~irq[c] /\ call[c] = NoCall
      /\ ~switched_to_cpu[n] /\ previous[c] = NONE
  BY NextCpu, TypeFacts, Zenon DEF SwitchContext, CpuDecided, SchedInv
<1>2. /\ on'[c] = n /\ \A d \in Cpu : d # c => on'[d] = on[d]
      /\ previous'[c] = (IF p \in Task THEN p ELSE NONE) /\ \A d \in Cpu : d # c => previous'[d] = previous[d]
      /\ next'[c] = NONE /\ \A d \in Cpu : d # c => next'[d] = next[d]
  BY Zenon DEF SwitchContext, SchedInv, TypeOK
<1>3. StateTypes' /\ arc' \in [Task -> Int]
  <2>1. on' \in [Cpu -> Context] /\ next' \in [Cpu -> Task \cup {NONE}]
    BY <1>1, Zenon DEF SwitchContext, SchedInv, TypeOK
  <2>2. previous' \in [Cpu -> Task \cup {NONE}]
    BY Zenon DEF SwitchContext, SchedInv, TypeOK
  <2>3. switched_to_cpu' \in [Task -> BOOLEAN]
    BY Zenon DEF SwitchContext, SchedInv, TypeOK
  <2>4. arc' \in [Task -> Int]
    BY <1>0, ArcMoves, ZenonT(40)
  <2>. QED
    BY <1>0, <2>1, <2>2, <2>3, <2>4, ZenonT(40) DEF SchedInv, TypeOK, StateTypes
<1>4. Queues'
  BY <1>0, SMTT(30) DEF SchedInv, Queues, Has, NoRepeats, InRq, Claims, Targets
<1>5. \A d \in Cpu : ~Holds(d, n)
  BY <1>1, HoldsFacts, Zenon
<1>6. pc[n] \in Arriving
  BY <1>1, <1>5, SchedulerAssumption, Zenon DEF SchedInv, TasksControlled, Holds
<1>7. pc[n] \notin {"spawn", "halting", "halted", "built"} /\ Switching \subseteq Arriving
  BY <1>6, Zenon DEF Arriving, Switching
<1>. HIDE DEF n, p
<1>8. CpusControlled'
  <2> SUFFICES ASSUME NEW d \in Cpu PROVE (on[d] \in Task \cup {d} /\ CpuControl(d) /\ CallControl(d))'
    BY Zenon DEF CpusControlled
  <2>1. CASE d = c
    <3>1. rq[c].current = n
      BY <1>1, Zenon DEF CpuDecided, n
    <3>2. CpuArriving(c)'
      BY <1>0, <1>1, <1>2, <1>6, <3>1, Zenon DEF CpuArriving
    <3>3. CallControl(c)'
      BY <1>0, <1>1, <1>2, <1>7, Zenon DEF CallControl
    <3>. QED
      BY <1>1, <1>2, <2>1, <3>2, <3>3, Zenon DEF CpuControl
  <2>2. CASE d # c
    BY <1>0, <1>2, <2>2, CpuKept, Zenon DEF SchedInv, CpusControlled
  <2>. QED
    BY <2>1, <2>2, Zenon
<1>9. \A t \in Task, d \in Cpu : Holds(d, t)' <=> Holds(d, t) \/ (d = c /\ t = n)
  <2> SUFFICES ASSUME NEW t \in Task, NEW d \in Cpu PROVE Holds(d, t)' <=> Holds(d, t) \/ (d = c /\ t = n)
    BY Zenon
  <2>1. t # NONE
    BY TypeFacts, Zenon DEF SchedInv
  <2>2. CASE d = c
    BY <1>1, <1>2, <2>1, <2>2, Zenon DEF Holds, p
  <2>3. CASE d # c
    BY <1>2, <2>3, Zenon DEF Holds
  <2>. QED
    BY <2>2, <2>3, Zenon
<1>10. Foreground'
  <2>1. ASSUME NEW t \in Task PROVE switched_to_cpu'[t] <=> switched_to_cpu[t] \/ t = n
    BY Zenon DEF SwitchContext, SchedInv, TypeOK, n
  <2>2. \A t \in Task : switched_to_cpu'[t] <=> \E d \in Cpu : Holds(d, t)'
    BY <1>9, <2>1, HoldsFacts, Zenon
  <2>3. \A t \in Task, d, e \in Cpu : Holds(d, t)' /\ Holds(e, t)' => d = e
    BY <1>5, <1>9, HoldsFacts, Zenon
  <2>4. \A d \in Cpu : on'[d] # previous'[d]
    <3>1. on'[c] # previous'[c]
      BY <1>1, <1>2, <1>5, Zenon DEF Holds, p
    <3>. QED
      BY <1>2, <3>1, Zenon DEF SchedInv, Foreground
  <2>. QED
    BY <2>2, <2>3, <2>4, Zenon DEF Foreground, Holds
<1>11. TasksControlled'
  <2> SUFFICES ASSUME NEW t \in Task
               PROVE  /\ (\A d \in Cpu : on'[d] # t) => pc'[t] \in Arriving \cup {"built"}
                      /\ pc'[t] = "built" =>
                            cpu'[t] = NONE /\ ~switched_to_cpu'[t] /\ \A d \in Cpu : ~Targets(d, t)'
    BY Zenon DEF TasksControlled
  <2>1. (\A d \in Cpu : on'[d] # t) => pc'[t] \in Arriving \cup {"built"}
    <3>1. CASE t = p
      BY <1>0, <1>1, <1>7, <3>1, Zenon DEF CpuDecided, p
    <3>2. CASE t # p
      <4>1. (\A d \in Cpu : on'[d] # t) => \A d \in Cpu : on[d] # t
        BY <1>2, <3>2, Zenon DEF p
      <4>. QED
        BY <1>0, <4>1, Zenon DEF SchedInv, TasksControlled
    <3>. QED
      BY <3>1, <3>2, Zenon
  <2>2. ASSUME pc'[t] = "built" PROVE ~switched_to_cpu'[t]
    BY <1>0, <1>7, <2>2, Zenon DEF SwitchContext, SchedInv, TypeOK, TasksControlled, n
  <2>. QED
    BY <1>0, <2>1, <2>2, Zenon DEF SchedInv, TasksControlled, Targets
<1>12. Arcs'
  <2> SUFFICES ASSUME NEW t \in Task
               PROVE arc'[t] = (RqArc(t) + OnArc(t) + PreviousArc(t) + NextArc(t) + ParkArc(t)
                                + BuiltArc(t) + CallArcs(t))'
    BY Zenon DEF Arcs
  <2>0. t # NONE
    BY TypeFacts, Zenon DEF SchedInv
  <2>1. RqArc(t)' = RqArc(t) /\ ParkArc(t)' = ParkArc(t) /\ BuiltArc(t)' = BuiltArc(t) /\ CallArcs(t)' = CallArcs(t)
    BY <1>0, Zenon DEF RqArc, ParkArc, BuiltArc, CallArcs, CallsOf, Targets, InRq
  <2>2. \A d \in Cpu : d # c => next[d] # n
    BY <1>1, NextCpu, Zenon
  <2>3. NextArc(t)' = NextArc(t) - One(t = n)
    <3>1. (\E d \in Cpu : next[d] = t)' <=> (\E d \in Cpu : next[d] = t) /\ t # n
      BY <1>2, <2>0, <2>2, Zenon DEF n
    <3>2. t = n => \E d \in Cpu : next[d] = t
      BY Zenon DEF n
    <3>. QED
      BY ONLY <3>1, <3>2, SMTT(30) DEF NextArc, One
  <2>4. OnArc(t)' = OnArc(t) + One(t = n) - One(t = p)
    <3>1. \A d \in Cpu : d # c => on[d] # p
      BY OnDistinct, Zenon DEF p
    <3>2. (\E d \in Cpu : on[d] = t)' <=> ((\E d \in Cpu : on[d] = t) /\ t # p) \/ t = n
      BY <1>2, <3>1, Zenon DEF p
    <3>3. t = p => \E d \in Cpu : on[d] = t
      BY Zenon DEF p
    <3>4. t = n => ~\E d \in Cpu : on[d] = t
      BY <1>5, Zenon DEF Holds
    <3>. QED
      BY ONLY <3>2, <3>3, <3>4, SMTT(30) DEF OnArc, One
  <2>5. PreviousArc(t)' = PreviousArc(t) + One(t = p)
    <3>1. (\E d \in Cpu : previous[d] = t)' <=> (\E d \in Cpu : previous[d] = t) \/ t = p
      BY <1>1, <1>2, <2>0, Zenon
    <3>2. t = p => ~\E d \in Cpu : previous[d] = t
      BY <1>1, <2>0, HoldsFacts, ZenonT(40) DEF Holds, p
    <3>. QED
      BY ONLY <3>1, <3>2, SMTT(30) DEF PreviousArc, One
  <2>6. arc[t] = RqArc(t) + OnArc(t) + PreviousArc(t) + NextArc(t) + ParkArc(t) + BuiltArc(t) + CallArcs(t)
    BY Zenon DEF SchedInv, Arcs
  <2>7. Counted(t)
    BY CountsAreIntegers, Zenon
  <2>. QED
    BY ONLY <1>0, <2>1, <2>3, <2>4, <2>5, <2>6, <2>7, SMTT(30) DEF One, Counted
<1>13. WakeUps'
  BY <1>0, Zenon DEF SchedInv, WakeUps, Comes, Targets
<1>14. Halts'
  <2> SUFFICES ASSUME NEW d \in Cpu, pc'[on'[d]] \in {"halting", "halted"} PROVE ~need_preempt(info'[d])
    BY Zenon DEF Halts, need_preempt
  <2>. QED
    BY <1>0, <1>2, <1>7, Zenon DEF SchedInv, Halts
<1>. QED
  BY <1>3, <1>4, <1>8, <1>10, <1>11, <1>12, <1>13, <1>14, ArcTypes, Zenon DEF SchedInv

\* Only c held the previous task, which is now let go.
LEMMA AfterSwitchingToInv == ASSUME SchedInv, NEW c \in Cpu, AfterSwitchingTo(c) PROVE SchedInv'
<1> DEFINE p == previous[c]
           t == on[c]
           loc == CASE pc[t] = "switch_wait" -> "wait"
                    [] pc[t] = "switch_exit" -> "unreachable"
                    [] OTHER -> "run"
<1>0. /\ policy' = policy /\ rq' = rq /\ cpu' = cpu /\ on' = on /\ next' = next /\ info' = info /\ ipi' = ipi
      /\ has_woken' = has_woken /\ call' = call
  BY Zenon DEF AfterSwitchingTo
<1>1. CpuArriving(c) /\ next[c] = NONE /\ call[c] = NoCall
  <2>1. CpuControl(c)
    BY Zenon DEF SchedInv, CpusControlled
  <2>. QED
    BY <2>1, Zenon DEF AfterSwitchingTo, At, CpuControl, CpuDecided, CpuExecuting, CpuRetrying, CpuBooting, Executing, Retrying, Booting
<1>2. t \in Task /\ t \in Context /\ rq[c].current = t
  BY <1>1, TypeFacts, Zenon DEF CpuArriving, SchedInv
<1>3. loc \in {"run", "wait", "unreachable"}
  BY Zenon
<1>4. loc \in Executing /\ loc \in Locations /\ loc \notin {"halting", "halted", "spawn", "built", "park_locked", "park_retry", "switch_wait"}
  BY <1>3, Zenon DEF Executing, Locations
<1>5. /\ pc' = [pc EXCEPT ![t] = loc]
      /\ pc'[t] = loc /\ pc' \in [Context -> Locations] /\ \A x \in Context : x # t => pc'[x] = pc[x]
  BY <1>2, <1>4, Zenon DEF AfterSwitchingTo, SchedInv, TypeOK
<1>. HIDE DEF loc
<1>6. /\ previous'[c] = NONE /\ irq'[c]
      /\ \A d \in Cpu : d # c => previous'[d] = previous[d] /\ irq'[d] = irq[d]
  BY Zenon DEF AfterSwitchingTo, SchedInv, TypeOK
<1>7. /\ switched_to_cpu' = [u \in Task |-> switched_to_cpu[u] /\ u # p]
      /\ arc' = [u \in Task |-> arc[u] - (IF u = p THEN 1 ELSE 0) - (IF u = t /\ pc[t] = "switch_wait" THEN 1 ELSE 0)]
  BY Zenon DEF AfterSwitchingTo
<1>. HIDE DEF p, t
<1>8. StateTypes' /\ arc' \in [Task -> Int]
  <2>1. previous' \in [Cpu -> Task \cup {NONE}] /\ irq' \in [Cpu -> BOOLEAN]
    BY Zenon DEF AfterSwitchingTo, SchedInv, TypeOK
  <2>2. switched_to_cpu' \in [Task -> BOOLEAN]
    BY <1>7, Zenon
  <2>3. arc' \in [Task -> Int]
    <3>1. \A u \in Task : arc[u] \in Int
      BY ArcMoves, ZenonT(40)
    <3>. QED
      BY ONLY <1>7, <3>1, SMTT(30)
  <2>. QED
    BY <1>0, <1>5, <2>1, <2>2, <2>3, Zenon DEF SchedInv, TypeOK, StateTypes
<1>9. Queues'
  BY <1>0, SMTT(30) DEF SchedInv, Queues, Has, NoRepeats, InRq, Claims, Targets
<1>10. CpusControlled'
  <2> SUFFICES ASSUME NEW d \in Cpu PROVE (on[d] \in Task \cup {d} /\ CpuControl(d) /\ CallControl(d))'
    BY Zenon DEF CpusControlled
  <2>1. CASE d = c
    <3>1. CpuExecuting(c)' /\ CallControl(c)'
      BY <1>0, <1>1, <1>2, <1>4, <1>5, <1>6, Zenon DEF CpuExecuting, CallControl, t
    <3>. QED
      BY <1>0, <1>2, <2>1, <3>1, Zenon DEF CpuControl, t
  <2>2. CASE d # c
    <3>1. on[d] # t /\ on[d] \in Context
      BY <2>2, OnDistinct, TypeFacts, Zenon DEF SchedInv, t
    <3>. QED
      BY <1>0, <1>5, <1>6, <2>2, <3>1, CpuKept, Zenon DEF SchedInv, CpusControlled
  <2>. QED
    BY <2>1, <2>2, Zenon
<1>11. \A u \in Task : u # t => pc'[u] = pc[u]
  BY <1>5, TypeFacts, Zenon DEF SchedInv
<1>12. pc[t] # "built" /\ pc[t] # "park_retry"
  BY <1>1, Zenon DEF CpuArriving, Arriving, Switching, t
<1>13. TasksControlled'
  <2>1. \A u \in Task : switched_to_cpu'[u] => switched_to_cpu[u]
    BY <1>7, Zenon
  <2>2. \A u \in Task : (\A d \in Cpu : on[d] # u) => u # t
    BY Zenon DEF t
  <2>3. \A u \in Task : pc'[u] = "built" => pc[u] = "built"
    BY <1>4, <1>5, <1>11, Zenon
  <2>. QED
    BY <1>0, <1>11, <2>1, <2>2, <2>3, Zenon DEF SchedInv, TasksControlled, Targets
<1>14. \A u \in Task, d \in Cpu : Holds(d, u)' <=> Holds(d, u) /\ u # p
  <2> SUFFICES ASSUME NEW u \in Task, NEW d \in Cpu PROVE Holds(d, u)' <=> Holds(d, u) /\ u # p
    BY Zenon
  <2>1. u # NONE /\ on[c] # p /\ (u = p => Holds(c, u))
    BY TypeFacts, Zenon DEF SchedInv, Foreground, Holds, p
  <2>2. CASE d = c
    BY <1>0, <1>6, <2>1, <2>2, Zenon DEF Holds, p
  <2>3. CASE d # c
    <3>1. Holds(d, u)' <=> Holds(d, u)
      BY <1>0, <1>6, <2>3, Zenon DEF Holds
    <3>. QED
      BY <2>1, <2>3, <3>1, HoldsFacts, Zenon
  <2>. QED
    BY <2>2, <2>3, Zenon
<1>15. Foreground'
  <2>1. \A u \in Task : switched_to_cpu'[u] <=> switched_to_cpu[u] /\ u # p
    BY <1>7, Zenon
  <2>2. \A u \in Task : switched_to_cpu'[u] <=> \E d \in Cpu : Holds(d, u)'
    BY <1>14, <2>1, HoldsFacts, Zenon
  <2>3. \A u \in Task, d, e \in Cpu : Holds(d, u)' /\ Holds(e, u)' => d = e
    BY <1>14, HoldsFacts, Zenon
  <2>4. \A d \in Cpu : on'[d] # previous'[d]
    <3>1. on[c] # NONE
      BY <1>2, TypeFacts, Zenon DEF SchedInv, t
    <3>. QED
      BY <1>0, <1>6, <3>1, Zenon DEF SchedInv, Foreground
  <2>. QED
    BY <2>2, <2>3, <2>4, Zenon DEF Foreground, Holds
<1>16. Arcs'
  <2> SUFFICES ASSUME NEW u \in Task
               PROVE arc'[u] = (RqArc(u) + OnArc(u) + PreviousArc(u) + NextArc(u) + ParkArc(u)
                                + BuiltArc(u) + CallArcs(u))'
    BY Zenon DEF Arcs
  <2>0. u # NONE
    BY TypeFacts, Zenon DEF SchedInv
  <2>1. RqArc(u)' = RqArc(u) /\ OnArc(u)' = OnArc(u) /\ NextArc(u)' = NextArc(u) /\ CallArcs(u)' = CallArcs(u)
    BY <1>0, Zenon DEF RqArc, OnArc, NextArc, CallArcs, CallsOf, Targets, InRq
  <2>2. BuiltArc(u)' = BuiltArc(u)
    <3>1. pc'[u] = "built" <=> pc[u] = "built"
      BY <1>4, <1>5, <1>11, <1>12, Zenon
    <3>. QED
      BY <3>1, Zenon DEF BuiltArc, One
  <2>3. ParkArc(u)' = ParkArc(u) - One(u = t /\ pc[t] = "switch_wait")
    <3>1. CASE u = t
      BY ONLY <1>4, <1>5, <1>12, <3>1, SMTT(30) DEF ParkArc, One
    <3>2. CASE u # t
      BY ONLY <1>11, <3>2, SMTT(30) DEF ParkArc, One
    <3>. QED
      BY <3>1, <3>2, Zenon
  <2>4. PreviousArc(u)' = PreviousArc(u) - One(u = p)
    <3>1. \A d \in Cpu : d # c /\ previous[d] = u => u # p
      BY HoldsFacts, Zenon DEF Holds, p
    <3>2. (\E d \in Cpu : previous[d] = u)' <=> (\E d \in Cpu : previous[d] = u) /\ u # p
      BY <1>6, <2>0, <3>1, Zenon DEF p
    <3>3. u = p => \E d \in Cpu : previous[d] = u
      BY Zenon DEF p
    <3>. QED
      BY ONLY <3>2, <3>3, SMTT(30) DEF PreviousArc, One
  <2>5. arc'[u] = arc[u] - One(u = p) - One(u = t /\ pc[t] = "switch_wait")
    BY <1>7, Zenon DEF One
  <2>6. arc[u] = RqArc(u) + OnArc(u) + PreviousArc(u) + NextArc(u) + ParkArc(u) + BuiltArc(u) + CallArcs(u)
    BY Zenon DEF SchedInv, Arcs
  <2>7. Counted(u)
    BY CountsAreIntegers, Zenon
  <2>. QED
    BY ONLY <2>1, <2>2, <2>3, <2>4, <2>5, <2>6, <2>7, SMTT(30) DEF One, Counted
<1>17. WakeUps'
  <2> SUFFICES ASSUME NEW u \in Task, has_woken'[u]
               PROVE /\ pc'[u] = "park_locked" => (\E d \in Cpu : Comes(d, u))'
                     /\ pc'[u] \in {"park_retry", "switch_wait"} /\ cpu'[u] = NONE => (\E d \in Cpu : Targets(d, u))'
    BY Zenon DEF WakeUps
  <2>1. CASE u = t
    BY <1>4, <1>5, <2>1, Zenon
  <2>2. CASE u # t
    BY <1>0, <1>11, <2>2, ZenonT(40) DEF SchedInv, WakeUps, Comes, Targets
  <2>. QED
    BY <2>1, <2>2, Zenon
<1>18. Halts'
  <2> SUFFICES ASSUME NEW d \in Cpu, pc'[on'[d]] \in {"halting", "halted"} PROVE ~need_preempt(info'[d])
    BY Zenon DEF Halts, need_preempt
  <2>1. on[d] # t /\ on[d] \in Context
    BY <1>0, <1>4, <1>5, TypeFacts, Zenon DEF SchedInv
  <2>. QED
    BY <1>0, <1>5, <2>1, Zenon DEF SchedInv, Halts
<1>. QED
  BY <1>8, <1>9, <1>10, <1>13, <1>15, <1>16, <1>17, <1>18, ArcTypes, Zenon DEF SchedInv

-----------------------------------------------------------------------------
(* Enqueueing *)

NewCall(t, flag) == [target |-> t, flag |-> flag, cpu |-> NONE, still_in_rq |-> FALSE]

LEMMA NewCallFacts ==
    ASSUME NEW t \in Task, NEW flag \in {"Spawn", "Wake"}
    PROVE  /\ NewCall(t, flag) \in Calls /\ NewCall(t, flag) # NoCall
           /\ NewCall(t, flag).target = t /\ NewCall(t, flag).cpu = NONE /\ NewCall(t, flag).flag = flag
<1>1. NewCall(t, flag).target = t /\ NewCall(t, flag).cpu = NONE /\ NewCall(t, flag).flag = flag
  BY Zenon DEF NewCall
<1>2. NewCall(t, flag) \in Calls
  BY Zenon DEF NewCall, Calls
<1>3. NoCall.target = NONE /\ t # NONE
  BY SchedulerAssumption, Zenon DEF NoCall
<1>. QED
  BY <1>1, <1>2, <1>3, Zenon

\* CPU c begins to enqueue t, a task just built or one that is woken.
Begins(c, t, flag, loc) ==
    /\ call[c] = NoCall /\ call' = [call EXCEPT ![c] = NewCall(t, flag)]
    /\ UNCHANGED <<policy, rq, cpu, on, previous, next, switched_to_cpu, irq, info, ipi>>
    /\ pc' \in [Context -> Locations] /\ pc'[on[c]] = loc /\ pc'[t] # "built"
    /\ loc \notin {"built", "park_locked", "halting", "halted"}
    /\ loc \in {"park_retry", "switch_wait"} <=> pc[on[c]] \in {"park_retry", "switch_wait"}
    /\ \A x \in Context :
          x # on[c] => pc'[x] = pc[x] \/ (x = t /\ pc[x] = "built" /\ pc'[x] = "new")
    /\ has_woken' \in [Task -> BOOLEAN] /\ \A u \in Task : has_woken'[u] => has_woken[u] \/ u = t
    /\ arc' \in [Task -> Int]
    /\ \A u \in Task : arc'[u] = arc[u] + One(u = t) - One(u = t /\ pc[t] = "built")

LEMMA BeginsInv ==
    ASSUME SchedInv, NEW c \in Cpu, NEW t \in Task, NEW flag \in {"Spawn", "Wake"}, NEW loc,
           Begins(c, t, flag, loc), CpuControl(c)', CallControl(c)'
    PROVE  SchedInv'
<1>0. /\ policy' = policy /\ rq' = rq /\ cpu' = cpu /\ on' = on /\ previous' = previous /\ next' = next
      /\ switched_to_cpu' = switched_to_cpu /\ irq' = irq /\ info' = info /\ ipi' = ipi
  BY Zenon DEF Begins
<1>1. /\ call'[c] # NoCall /\ call'[c].target = t /\ call'[c].cpu = NONE
      /\ \A d \in Cpu : d # c => call'[d] = call[d]
  <2>1. call'[c] = NewCall(t, flag) /\ \A d \in Cpu : d # c => call'[d] = call[d]
    BY ZenonT(40) DEF Begins, SchedInv, TypeOK
  <2>. QED
    BY ONLY <2>1, NewCallFacts, SMTT(30)
<1>2. StateTypes' /\ arc' \in [Task -> Int]
  <2>1. call' \in [Cpu -> Calls \cup {NoCall}]
    BY NewCallFacts, Zenon DEF Begins, SchedInv, TypeOK
  <2>. QED
    BY <1>0, <2>1, ZenonT(40) DEF Begins, SchedInv, TypeOK, StateTypes
<1>3. \A d \in Cpu, u \in Task : Targets(d, u)' <=> Targets(d, u) \/ (d = c /\ u = t)
  <2> SUFFICES ASSUME NEW d \in Cpu, NEW u \in Task PROVE Targets(d, u)' <=> Targets(d, u) \/ (d = c /\ u = t)
    BY Zenon
  <2>1. CASE d = c
    BY <1>1, <2>1, ZenonT(40) DEF Targets, Begins
  <2>2. CASE d # c
    BY <1>1, <2>2, Zenon DEF Targets
  <2>. QED
    BY <2>1, <2>2, Zenon
<1>4. \A d \in Cpu, u \in Task : /\ Claims(d, u)' <=> Claims(d, u)
                                 /\ Comes(d, u) => Comes(d, u)'
                                 /\ Claims(d, u) => d # c
  <2> SUFFICES ASSUME NEW d \in Cpu, NEW u \in Task
               PROVE  /\ Claims(d, u)' <=> Claims(d, u)
                      /\ Comes(d, u) => Comes(d, u)'
                      /\ Claims(d, u) => d # c
    BY Zenon
  <2>1. CASE d = c
    BY <1>1, <2>1, Zenon DEF Claims, Comes, Targets, Begins
  <2>2. CASE d # c
    BY <1>0, <1>1, <2>2, Zenon DEF Claims, Comes, Targets
  <2>. QED
    BY <2>1, <2>2, Zenon
<1>5. Queues'
  <2>1. \A d \in Cpu, u \in Task : Has(rq[d], u)' <=> Has(rq[d], u)
    BY <1>0, Zenon DEF Has
  <2>2. \A u \in Task : InRq(u)' <=> InRq(u)
    BY <2>1, Zenon DEF InRq
  <2>3. \A d \in Cpu : NoRepeats(rq[d])'
    BY <1>0, Zenon DEF SchedInv, Queues, NoRepeats
  <2>4. \A u \in Task, d \in Cpu : Claims(d, u)' => cpu'[u] = call'[d].cpu /\ ~InRq(u)'
    BY <1>0, <1>1, <1>4, <2>2, ZenonT(40) DEF SchedInv, Queues
  <2>5. \A u \in Task, d \in Cpu : Has(rq[d], u)' => cpu'[u] = d
    BY <1>0, <2>1, Zenon DEF SchedInv, Queues
  <2>6. \A u \in Task : cpu'[u] # NONE => InRq(u)' \/ \E d \in Cpu : Claims(d, u)'
    BY <1>0, <1>4, <2>2, Zenon DEF SchedInv, Queues
  <2>7. \A u \in Task, d, e \in Cpu : Claims(d, u)' /\ Claims(e, u)' => d = e
    BY <1>4, Zenon DEF SchedInv, Queues
  <2>. QED
    BY <2>3, <2>4, <2>5, <2>6, <2>7, Zenon DEF Queues
<1>6. \A x \in Context : (\E d \in Cpu : on[d] = x) /\ x # on[c] => pc'[x] = pc[x]
  BY OnNotBuilt, ZenonT(40) DEF Begins
<1>7. CpusControlled'
  <2> SUFFICES ASSUME NEW d \in Cpu PROVE (on[d] \in Task \cup {d} /\ CpuControl(d) /\ CallControl(d))'
    BY Zenon DEF CpusControlled
  <2>1. CASE d = c
    BY <1>0, <2>1, Zenon DEF SchedInv, CpusControlled
  <2>2. CASE d # c
    <3>1. on[d] # on[c] /\ on[d] \in Context
      BY <2>2, OnDistinct, TypeFacts, Zenon DEF SchedInv
    <3>. QED
      BY <1>0, <1>1, <1>6, <2>2, <3>1, CpuKept, Zenon DEF SchedInv, CpusControlled
  <2>. QED
    BY <2>1, <2>2, Zenon
<1>8. \A u \in Task : /\ pc'[u] = "built" => pc[u] = "built" /\ u # t
                      /\ pc'[u] \in {"park_retry", "switch_wait"} <=> pc[u] \in {"park_retry", "switch_wait"}
                      /\ pc'[u] = "park_locked" => pc[u] = "park_locked"
  BY TypeFacts, Zenon DEF Begins, SchedInv
<1>9. TasksControlled'
  <2>1. \A u \in Task : (\A d \in Cpu : on[d] # u) => pc'[u] = pc[u] \/ pc'[u] = "new"
    BY TypeFacts, Zenon DEF Begins, SchedInv
  <2>2. "new" \in Arriving
    BY Zenon DEF Arriving
  <2>. QED
    BY <1>0, <1>3, <1>8, <2>1, <2>2, Zenon DEF SchedInv, TasksControlled
<1>10. Foreground'
  BY <1>0, Zenon DEF SchedInv, Foreground
<1>11. Arcs'
  <2> SUFFICES ASSUME NEW u \in Task
               PROVE arc'[u] = (RqArc(u) + OnArc(u) + PreviousArc(u) + NextArc(u) + ParkArc(u)
                                + BuiltArc(u) + CallArcs(u))'
    BY Zenon DEF Arcs
  <2>1. RqArc(u)' = RqArc(u) /\ OnArc(u)' = OnArc(u) /\ NextArc(u)' = NextArc(u) /\ PreviousArc(u)' = PreviousArc(u)
    BY <1>0, Zenon DEF RqArc, OnArc, NextArc, PreviousArc, InRq
  <2>2. ParkArc(u)' = ParkArc(u)
    BY <1>8, Zenon DEF ParkArc, One
  <2>3. BuiltArc(u)' = BuiltArc(u) - One(u = t /\ pc[t] = "built")
    <3>1. u # t /\ pc[u] = "built" => pc'[u] = "built"
      BY OnNotBuilt, TypeFacts, ZenonT(40) DEF Begins, SchedInv
    <3>. QED
      BY ONLY <1>8, <3>1, SMTT(30) DEF BuiltArc, One
  <2>4. CallArcs(u)' = CallArcs(u) + One(u = t)
    <3>1. CASE u = t
      <4>1. CallsOf(u)' = CallsOf(u) \cup {c} /\ c \notin CallsOf(u)
        BY <1>3, <3>1, SMTT(30) DEF CallsOf, Targets, Begins
      <4>2. Cardinality(CallsOf(u) \cup {c}) = Cardinality(CallsOf(u)) + 1
        BY <4>1, CallsOfCpus, Zenon DEF SchedInv, CpuCounts
      <4>. QED
        BY <3>1, <4>1, <4>2, Zenon DEF CallArcs, One
    <3>2. CASE u # t
      <4>1. CallsOf(u)' = CallsOf(u)
        BY <1>3, <3>2, Zenon DEF CallsOf
      <4>2. Counted(u)
        BY CountsAreIntegers, Zenon
      <4>. QED
        BY ONLY <3>2, <4>1, <4>2, SMTT(30) DEF CallArcs, One, Counted
    <3>. QED
      BY <3>1, <3>2, Zenon
  <2>5. arc'[u] = arc[u] + One(u = t) - One(u = t /\ pc[t] = "built")
    BY Zenon DEF Begins
  <2>6. arc[u] = RqArc(u) + OnArc(u) + PreviousArc(u) + NextArc(u) + ParkArc(u) + BuiltArc(u) + CallArcs(u)
    BY Zenon DEF SchedInv, Arcs
  <2>7. Counted(u)
    BY CountsAreIntegers, Zenon
  <2>. QED
    BY ONLY <2>1, <2>2, <2>3, <2>4, <2>5, <2>6, <2>7, SMTT(30) DEF One, Counted
<1>12. WakeUps'
  <2> SUFFICES ASSUME NEW u \in Task, has_woken'[u]
               PROVE /\ pc'[u] = "park_locked" => (\E d \in Cpu : Comes(d, u))'
                     /\ pc'[u] \in {"park_retry", "switch_wait"} /\ cpu'[u] = NONE => (\E d \in Cpu : Targets(d, u))'
    BY Zenon DEF WakeUps
  <2>1. CASE u = t
    <3>1. Targets(c, t)'
      BY <1>3, Zenon
    <3>2. Comes(c, t)'
      BY <1>1, <3>1, Zenon DEF Comes
    <3>. QED
      BY <2>1, <3>1, <3>2, Zenon
  <2>2. CASE u # t
    <3>1. has_woken[u]
      BY <2>2, Zenon DEF Begins
    <3>. QED
      BY <1>0, <1>3, <1>4, <1>8, <3>1, Zenon DEF SchedInv, WakeUps
  <2>. QED
    BY <2>1, <2>2, Zenon
<1>13. Halts'
  <2> SUFFICES ASSUME NEW d \in Cpu, pc'[on'[d]] \in {"halting", "halted"} PROVE ~need_preempt(info'[d])
    BY Zenon DEF Halts, need_preempt
  <2>1. on[d] # on[c] /\ on[d] \in Context
    BY <1>0, TypeFacts, Zenon DEF Begins, SchedInv
  <2>2. pc'[on[d]] = pc[on[d]]
    BY <1>6, <2>1, Zenon
  <2>. QED
    BY <1>0, <2>2, Zenon DEF SchedInv, Halts
<1>. QED
  BY <1>2, <1>5, <1>7, <1>9, <1>10, <1>11, <1>12, <1>13, ArcTypes, ZenonT(40) DEF SchedInv

LEMMA RunNewTaskInv ==
    ASSUME SchedInv, NEW c \in Cpu, NEW t \in Task, RunNewTask(c, t) PROVE SchedInv'
<1>0. /\ rq' = rq /\ on' = on /\ previous' = previous /\ next' = next /\ irq' = irq
  BY Zenon DEF RunNewTask
<1>1. pc[on[c]] = "run" /\ next[c] = NONE /\ call[c] = NoCall /\ pc[t] = "built" /\ t # on[c]
  BY OnNotBuilt, Zenon DEF RunNewTask, At
<1>2. pc' = [[pc EXCEPT ![t] = "new"] EXCEPT ![on[c]] = "spawn"]
  BY Zenon DEF RunNewTask
<1>3. /\ pc'[on[c]] = "spawn" /\ pc'[t] = "new" /\ pc' \in [Context -> Locations]
      /\ \A x \in Context : x # on[c] /\ x # t => pc'[x] = pc[x]
  BY <1>1, <1>2, TypeFacts, Zenon DEF SchedInv, TypeOK, Locations
<1>4. call' = [call EXCEPT ![c] = NewCall(t, "Spawn")]
  BY Zenon DEF RunNewTask, NewCall
<1>5. call'[c] = NewCall(t, "Spawn")
  BY <1>4, Zenon DEF SchedInv, TypeOK
<1>6. Begins(c, t, "Spawn", "spawn")
  <2>1. arc' \in [Task -> Int] /\ \A u \in Task : arc'[u] = arc[u] + One(u = t) - One(u = t /\ pc[t] = "built")
    BY <1>1, SMTT(30) DEF RunNewTask, SchedInv, TypeOK, One
  <2>. QED
    BY <1>1, <1>3, <1>4, <2>1, ZenonT(40) DEF RunNewTask, Begins, SchedInv, TypeOK
<1>7. CpuExecuting(c) \/ CpuBooting(c)
  BY <1>1, Executes, Zenon DEF Executing
<1>8. CpuControl(c)'
  <2>1. "spawn" \in Executing /\ "spawn" \in Booting
    BY Zenon DEF Executing, Booting
  <2>. QED
    BY <1>0, <1>1, <1>3, <1>7, <2>1, Zenon DEF CpuControl, CpuExecuting, CpuBooting
<1>9. CallControl(c)'
  BY <1>0, <1>3, <1>5, NewCallFacts, ZenonT(40) DEF CallControl
<1>. QED
  BY <1>6, <1>8, <1>9, BeginsInv, Zenon

LEMMA WakeUpInv == ASSUME SchedInv, NEW c \in Cpu, NEW t \in Task, WakeUp(c, t) PROVE SchedInv'
<1> DEFINE loc == IF pc[on[c]] = "halted" THEN "preempt_point" ELSE pc[on[c]]
<1>0. /\ rq' = rq /\ on' = on /\ previous' = previous /\ next' = next /\ irq' = irq
      /\ call[c] = NoCall /\ irq[c] /\ pc[on[c]] # "park_locked"
  BY Zenon DEF WakeUp, Unlocked
<1>1. on[c] \in Task \cup {c} /\ CpuControl(c) /\ CallControl(c)
  BY Zenon DEF SchedInv, CpusControlled
<1>2. pc[on[c]] # "halting" /\ pc[on[c]] # "built" /\ pc[on[c]] # "spawn"
  BY <1>0, <1>1, OnNotBuilt, Zenon DEF CallControl, CpuControl, CpuDecided, CpuArriving, CpuExecuting, CpuRetrying, CpuBooting, Arriving, Switching, Retrying, Booting
<1>3. /\ pc'[on[c]] = loc /\ pc' \in [Context -> Locations]
      /\ \A x \in Context : x # on[c] => pc'[x] = pc[x]
  BY Zenon DEF WakeUp, Interrupted, SchedInv, TypeOK, Locations
<1>4. call' = [call EXCEPT ![c] = NewCall(t, "Wake")]
  BY Zenon DEF WakeUp, NewCall
<1>5. call'[c].flag = "Wake"
  <2>1. call'[c] = NewCall(t, "Wake")
    BY <1>4, Zenon DEF SchedInv, TypeOK
  <2>. QED
    BY <2>1, NewCallFacts, Zenon
<1>6. pc[t] # "built" /\ pc'[t] # "built"
  BY <1>2, <1>3, TypeFacts, Zenon DEF WakeUp, MayWait, SchedInv
<1>7. Begins(c, t, "Wake", loc)
  <2>1. arc' \in [Task -> Int] /\ \A u \in Task : arc'[u] = arc[u] + One(u = t) - One(u = t /\ pc[t] = "built")
    BY <1>6, SMTT(30) DEF WakeUp, SchedInv, TypeOK, One
  <2>2. has_woken' \in [Task -> BOOLEAN] /\ \A u \in Task : has_woken'[u] => has_woken[u] \/ u = t
    BY Zenon DEF WakeUp, SchedInv, TypeOK
  <2>3. loc \notin {"built", "park_locked", "halting", "halted"}
    BY <1>0, <1>2, Zenon
  <2>4. loc \in {"park_retry", "switch_wait"} <=> pc[on[c]] \in {"park_retry", "switch_wait"}
    BY Zenon
  <2>. HIDE DEF loc
  <2>. QED
    BY <1>0, <1>3, <1>4, <1>6, <2>1, <2>2, <2>3, <2>4, ZenonT(40) DEF WakeUp, Begins
<1>8. CpuControl(c)'
  <2>1. CASE pc[on[c]] = "halted"
    <3>1. CpuExecuting(c)
      BY <1>1, <2>1, Zenon DEF CpuControl, CpuDecided, CpuArriving, CpuRetrying, CpuBooting, Arriving, Switching, Retrying, Booting
    <3>2. loc \in Executing /\ loc # "halting"
      BY <2>1, Zenon DEF Executing
    <3>. QED
      BY <1>0, <1>3, <3>1, <3>2, Zenon DEF CpuControl, CpuExecuting
  <2>2. CASE pc[on[c]] # "halted"
    <3>1. pc'[on[c]] = pc[on[c]]
      BY <1>3, <2>2, Zenon
    <3>. QED
      BY <1>0, <1>1, <3>1, Zenon DEF CpuControl, CpuDecided, CpuArriving, CpuExecuting, CpuRetrying, CpuBooting
  <2>. QED
    BY <2>1, <2>2, Zenon
<1>9. CallControl(c)'
  <2>1. loc \notin {"halting", "halted", "park_locked", "spawn"} /\ "Wake" # "Spawn"
    BY <1>0, <1>2, Zenon
  <2>. QED
    BY <1>0, <1>3, <1>5, <2>1, Zenon DEF CallControl
<1>. QED
  BY <1>7, <1>8, <1>9, BeginsInv, Zenon

\* A task about to be taken off its run queue is the current one of the CPU it is on.
LEMMA LockedTask ==
    ASSUME SchedInv, NEW t \in Task, pc[t] = "park_locked"
    PROVE  InRq(t) /\ cpu[t] \in Cpu /\ on[cpu[t]] = t
<1>1. PICK c \in Cpu : on[c] = t
  BY Zenon DEF SchedInv, TasksControlled, Arriving, Switching
<1>2. rq[c].current = t
  <2>1. CpuControl(c)
    BY Zenon DEF SchedInv, CpusControlled
  <2>. QED
    BY <1>1, <2>1, Zenon DEF CpuControl, CpuDecided, CpuArriving, CpuExecuting, CpuRetrying, CpuBooting, Arriving, Switching, Retrying, Booting
<1>3. Has(rq[c], t)
  BY <1>2, Zenon DEF Has
<1>4. cpu[t] = c
  BY <1>3, Zenon DEF SchedInv, Queues
<1>. QED
  BY <1>1, <1>3, <1>4, Zenon DEF InRq

\* A task without a CPU is in no run queue and claimed by no other enqueue.
LEMMA EnqueueSelectInv == ASSUME SchedInv, NEW c \in Cpu, EnqueueSelect(c) PROVE SchedInv'
<1> DEFINE t == call[c].target
<1>0. /\ policy' = policy /\ rq' = rq /\ on' = on /\ previous' = previous /\ next' = next
      /\ switched_to_cpu' = switched_to_cpu /\ irq' = irq /\ info' = info /\ ipi' = ipi
      /\ pc' = pc /\ has_woken' = has_woken /\ arc' = arc
  BY Zenon DEF EnqueueSelect
<1>1. call[c] # NoCall /\ call[c].cpu = NONE /\ t \in Task /\ call[c] \in Calls
  BY TypeFacts, Zenon DEF EnqueueSelect, SchedInv
<1>2. PICK s \in policy.select :
         /\ set_if_is_none(t, s)
         /\ call' = [call EXCEPT ![c] =
                       [target |-> t, flag |-> call[c].flag, cpu |-> IF cpu[t] = NONE THEN s ELSE cpu[t],
                        still_in_rq |-> cpu[t] # NONE]]
  BY Zenon DEF EnqueueSelect
<1>3. s \in Cpu /\ s # NONE
  BY SchedulerAssumption, ZenonT(40) DEF SchedInv, TypeOK
<1> DEFINE k == IF cpu[t] = NONE THEN s ELSE cpu[t]
           r == [target |-> t, flag |-> call[c].flag, cpu |-> k, still_in_rq |-> cpu[t] # NONE]
<1>4. /\ k \in Cpu /\ k # NONE /\ cpu' \in [Task -> Cpu \cup {NONE}] /\ cpu'[t] = k
      /\ \A u \in Task : u # t => cpu'[u] = cpu[u]
  BY <1>1, <1>2, <1>3, SchedulerAssumption, Zenon DEF set_if_is_none, SchedInv, TypeOK
<1>5. /\ r \in Calls /\ r # NoCall /\ r.target = t /\ r.flag = call[c].flag /\ r.cpu = k
      /\ (r.still_in_rq <=> cpu[t] # NONE)
  <2>1. call[c].flag \in {"Spawn", "Wake"} /\ k \in Cpu \cup {NONE} /\ (cpu[t] # NONE) \in BOOLEAN
    BY <1>1, <1>4, Zenon DEF Calls
  <2>2. r.target = t /\ r.flag = call[c].flag /\ r.cpu = k /\ (r.still_in_rq <=> cpu[t] # NONE)
    BY Zenon
  <2>3. r \in Calls
    <3>. HIDE DEF k
    <3>. QED
      BY <1>1, <2>1, Zenon DEF Calls
  <2>4. NoCall.target = NONE /\ t # NONE
    BY <1>1, SchedulerAssumption, Zenon DEF NoCall
  <2>. HIDE DEF r
  <2>. QED
    BY <2>2, <2>3, <2>4, Zenon
<1>6. call'[c] = r /\ call' \in [Cpu -> Calls \cup {NoCall}] /\ \A d \in Cpu : d # c => call'[d] = call[d]
  <2>1. call' = [call EXCEPT ![c] = r]
    BY <1>2, Zenon
  <2>. HIDE DEF r
  <2>. QED
    BY <1>5, <2>1, Zenon DEF SchedInv, TypeOK
<1>. HIDE DEF r, k, t
<1>7. StateTypes' /\ arc' \in [Task -> Int]
  <2>1. arc' \in [Task -> Int]
    BY <1>0, ArcMoves, Zenon
  <2>. QED
    BY <1>0, <1>4, <1>6, <2>1, Zenon DEF SchedInv, TypeOK, StateTypes
<1>8. \A d \in Cpu, u \in Task : Targets(d, u)' <=> Targets(d, u)
  <2>1. Targets(c, t) /\ \A u \in Task : (Targets(c, u) => u = t) /\ (Targets(c, u)' <=> u = t)
    BY <1>1, <1>5, <1>6, Zenon DEF Targets, t
  <2>2. \A d \in Cpu, u \in Task : d # c => (Targets(d, u)' <=> Targets(d, u))
    BY <1>6, Zenon DEF Targets
  <2>. QED
    BY <2>1, <2>2, Zenon
<1>9. \A d \in Cpu, u \in Task : Claims(d, u)' <=> Claims(d, u) \/ (d = c /\ u = t /\ cpu[t] = NONE)
  <2> SUFFICES ASSUME NEW d \in Cpu, NEW u \in Task
               PROVE Claims(d, u)' <=> Claims(d, u) \/ (d = c /\ u = t /\ cpu[t] = NONE)
    BY Zenon
  <2>1. CASE d = c
    BY <1>1, <1>4, <1>5, <1>6, <2>1, Zenon DEF Claims, Targets
  <2>2. CASE d # c
    BY <1>6, <2>2, Zenon DEF Claims, Targets
  <2>. QED
    BY <2>1, <2>2, Zenon
<1>10. cpu[t] = NONE => ~InRq(t) /\ \A d \in Cpu : ~Claims(d, t)
  <2>0. \A d \in Cpu : d # NONE
    BY SchedulerAssumption, Zenon
  <2>1. cpu[t] = NONE => ~InRq(t)
    BY <1>1, <2>0, Zenon DEF SchedInv, Queues, InRq
  <2>2. \A d \in Cpu : Claims(d, t) => cpu[t] # NONE
    BY <1>1, Zenon DEF SchedInv, Queues, Claims
  <2>. QED
    BY <2>1, <2>2, Zenon
<1>11. \A u \in Task : cpu[u] # NONE => cpu'[u] = cpu[u]
  BY <1>4, Zenon DEF k
<1>12. Queues'
  <2>1. \A d \in Cpu, u \in Task : Has(rq[d], u)' <=> Has(rq[d], u)
    BY <1>0, Zenon DEF Has
  <2>2. \A u \in Task : InRq(u)' <=> InRq(u)
    BY <2>1, Zenon DEF InRq
  <2>3. \A d \in Cpu : NoRepeats(rq[d])'
    BY <1>0, ZenonT(40) DEF SchedInv, Queues, NoRepeats
  <2>4. ASSUME NEW u \in Task, NEW d \in Cpu, Claims(d, u)' PROVE cpu'[u] = call'[d].cpu /\ ~InRq(u)'
    <3>1. CASE Claims(d, u)
      <4>1. d # c /\ cpu[u] = call[d].cpu /\ cpu[u] # NONE /\ ~InRq(u)
        BY <1>1, <3>1, Zenon DEF SchedInv, Queues, Claims
      <4>. QED
        BY <1>6, <1>11, <2>2, <4>1, Zenon
    <3>2. CASE d = c /\ u = t /\ cpu[t] = NONE
      BY <1>4, <1>5, <1>6, <1>10, <2>2, <3>2, Zenon
    <3>. QED
      BY <1>9, <2>4, <3>1, <3>2, Zenon
  <2>5. \A u \in Task, d \in Cpu : Has(rq[d], u)' => cpu'[u] = d
    <3>1. \A d \in Cpu : d # NONE
      BY SchedulerAssumption, Zenon
    <3>2. \A u \in Task, d \in Cpu : Has(rq[d], u) => cpu[u] = d
      BY Zenon DEF SchedInv, Queues
    <3>. QED
      BY <1>11, <2>1, <3>1, <3>2, Zenon
  <2>6. ASSUME NEW u \in Task, cpu'[u] # NONE PROVE InRq(u)' \/ \E d \in Cpu : Claims(d, u)'
    <3>1. CASE cpu[u] = NONE
      BY <1>4, <1>9, <2>6, <3>1, Zenon
    <3>2. CASE cpu[u] # NONE
      BY <1>9, <2>2, <3>2, Zenon DEF SchedInv, Queues
    <3>. QED
      BY <3>1, <3>2, Zenon
  <2>7. ASSUME NEW u \in Task, NEW d \in Cpu, NEW e \in Cpu, Claims(d, u)', Claims(e, u)' PROVE d = e
    <3>1. CASE u = t /\ cpu[t] = NONE
      BY <1>9, <1>10, <2>7, <3>1, Zenon
    <3>2. CASE ~(u = t /\ cpu[t] = NONE)
      <4>1. Claims(d, u) /\ Claims(e, u)
        BY <1>9, <2>7, <3>2, Zenon
      <4>. QED
        BY <4>1, Zenon DEF SchedInv, Queues
    <3>. QED
      BY <3>1, <3>2, Zenon
  <2>. QED
    BY <2>3, <2>4, <2>5, <2>6, <2>7, Zenon DEF Queues
<1>13. CpusControlled'
  <2> SUFFICES ASSUME NEW d \in Cpu PROVE (on[d] \in Task \cup {d} /\ CpuControl(d) /\ CallControl(d))'
    BY Zenon DEF CpusControlled
  <2>1. on[d] \in Task \cup {d} /\ CpuControl(d) /\ CallControl(d)
    BY Zenon DEF SchedInv, CpusControlled
  <2>2. CASE d = c
    <3>1. call'[c] # NoCall /\ call'[c].flag = call[c].flag
      BY <1>5, <1>6, Zenon
    <3>2. CpuControl(c)'
      BY <1>0, <1>1, <2>1, <2>2, Zenon DEF CpuControl, CpuDecided, CpuArriving, CpuExecuting, CpuRetrying, CpuBooting
    <3>3. CallControl(c)'
      BY <1>0, <1>1, <2>1, <2>2, <3>1, Zenon DEF CallControl
    <3>. QED
      BY <1>0, <2>1, <2>2, <3>2, <3>3, Zenon
  <2>3. CASE d # c
    BY <1>0, <1>6, <2>1, <2>3, CpuKept, Zenon
  <2>. QED
    BY <2>2, <2>3, Zenon
<1>14. TasksControlled'
  <2>1. \A u \in Task : pc[u] = "built" => u # t
    BY <1>1, Zenon DEF SchedInv, TasksControlled, Targets, t
  <2>. QED
    BY <1>0, <1>4, <1>8, <2>1, Zenon DEF SchedInv, TasksControlled
<1>15. Foreground'
  BY <1>0, ZenonT(40) DEF SchedInv, Foreground
<1>16. Arcs'
  <2> SUFFICES ASSUME NEW u \in Task
               PROVE arc'[u] = (RqArc(u) + OnArc(u) + PreviousArc(u) + NextArc(u) + ParkArc(u)
                                + BuiltArc(u) + CallArcs(u))'
    BY Zenon DEF Arcs
  <2>1. RqArc(u)' = RqArc(u) /\ OnArc(u)' = OnArc(u) /\ NextArc(u)' = NextArc(u) /\ PreviousArc(u)' = PreviousArc(u)
    BY <1>0, Zenon DEF RqArc, OnArc, NextArc, PreviousArc, InRq
  <2>2. ParkArc(u)' = ParkArc(u) /\ BuiltArc(u)' = BuiltArc(u)
    BY <1>0, Zenon DEF ParkArc, BuiltArc
  <2>3. CallArcs(u)' = CallArcs(u)
    <3>1. CallsOf(u)' = CallsOf(u)
      BY <1>8, Zenon DEF CallsOf
    <3>. QED
      BY <3>1, Zenon DEF CallArcs
  <2>. QED
    BY <1>0, <2>1, <2>2, <2>3, Zenon DEF SchedInv, Arcs
<1>17. WakeUps'
  <2> SUFFICES ASSUME NEW u \in Task, has_woken'[u]
               PROVE /\ pc'[u] = "park_locked" => (\E d \in Cpu : Comes(d, u))'
                     /\ pc'[u] \in {"park_retry", "switch_wait"} /\ cpu'[u] = NONE => (\E d \in Cpu : Targets(d, u))'
    BY Zenon DEF WakeUps
  <2>1. ASSUME pc[u] = "park_locked", NEW d \in Cpu, Comes(d, u) PROVE Comes(d, u)'
    <3>1. cpu[u] # NONE
      BY <2>1, LockedTask, SchedulerAssumption, Zenon
    <3>2. CASE d = c
      <4>1. u = t
        BY <2>1, <3>2, Zenon DEF Comes, Targets, t
      <4>2. call'[c].still_in_rq /\ call'[c].cpu = cpu'[t]
        BY <1>4, <1>5, <1>6, <3>1, <4>1, Zenon
      <4>. QED
        BY <1>8, <2>1, <3>2, <4>1, <4>2, Zenon DEF Comes
    <3>3. CASE d # c
      BY <1>6, <1>8, <1>11, <2>1, <3>1, <3>3, Zenon DEF Comes
    <3>. QED
      BY <3>2, <3>3, Zenon
  <2>2. cpu'[u] = NONE => cpu[u] = NONE
    BY <1>11, Zenon
  <2>. QED
    BY <1>0, <1>8, <2>1, <2>2, Zenon DEF SchedInv, WakeUps
<1>18. Halts'
  BY <1>0, Zenon DEF SchedInv, Halts, need_preempt
<1>. QED
  BY <1>7, <1>12, <1>13, <1>14, <1>15, <1>16, <1>17, <1>18, ArcTypes, ZenonT(40) DEF SchedInv

\* What the end of an enqueue of t has to do with neither run queues nor counts.
Returned(c, t) ==
    /\ StateTypes' /\ CpusControlled' /\ TasksControlled' /\ Foreground' /\ Halts'
    /\ \A u \in Task : /\ pc'[u] = "built" <=> pc[u] = "built"
                       /\ pc'[u] \in {"park_retry", "switch_wait"} <=> pc[u] \in {"park_retry", "switch_wait"}
                       /\ pc'[u] = "park_locked" <=> pc[u] = "park_locked"
    /\ \A d \in Cpu, u \in Task : Targets(d, u)' <=> Targets(d, u) /\ d # c
    /\ \A u \in Task : Targets(c, u) <=> u = t
    /\ \A d \in Cpu : d # c => call'[d] = call[d]
    /\ t \in Task

\* It holds whatever has become of the run queue the task is put in.
LEMMA ReturnsFacts ==
    ASSUME SchedInv, NEW c \in Cpu, call[c] # NoCall, CallReturns(c), NEW t, t = call[c].target,
           UNCHANGED <<policy, on, previous, next, switched_to_cpu, irq, has_woken>>,
           rq' \in [Cpu -> RunQueue] /\ \A d \in Cpu : rq'[d].current = rq[d].current,
           cpu' \in [Task -> Cpu \cup {NONE}] /\ \A u \in Task : u # t => cpu'[u] = cpu[u],
           info' \in [Cpu -> PreemptInfo] /\ \A d \in Cpu : d # c => info'[d] = info[d],
           ipi' \in [Cpu -> BOOLEAN]
    PROVE  Returned(c, t)
<1> DEFINE loc == IF call[c].flag = "Spawn" THEN "preempt_point" ELSE pc[on[c]]
<1>0. /\ policy' = policy /\ on' = on /\ previous' = previous /\ next' = next
      /\ switched_to_cpu' = switched_to_cpu /\ irq' = irq /\ has_woken' = has_woken
  BY Zenon
<1>1. call'[c] = NoCall /\ call' \in [Cpu -> Calls \cup {NoCall}] /\ \A d \in Cpu : d # c => call'[d] = call[d]
  BY Zenon DEF CallReturns, SchedInv, TypeOK
<1>2. pc'[on[c]] = loc /\ pc' \in [Context -> Locations] /\ \A x \in Context : x # on[c] => pc'[x] = pc[x]
  BY Zenon DEF CallReturns, SchedInv, TypeOK, Locations
<1>3. on[c] \in Task \cup {c} /\ CpuControl(c) /\ CallControl(c)
  BY Zenon DEF SchedInv, CpusControlled
<1>4. /\ call[c].flag = "Spawn" <=> pc[on[c]] = "spawn"
      /\ pc[on[c]] \notin {"halting", "halted", "park_locked", "built"}
  BY <1>3, OnNotBuilt, Zenon DEF CallControl
<1>5. loc \notin {"halting", "halted", "park_locked", "built", "spawn"}
  BY <1>4, Zenon
<1>6. StateTypes'
  BY <1>0, <1>1, <1>2, Zenon DEF SchedInv, TypeOK, StateTypes
<1>7. CpusControlled'
  <2> SUFFICES ASSUME NEW d \in Cpu PROVE (on[d] \in Task \cup {d} /\ CpuControl(d) /\ CallControl(d))'
    BY Zenon DEF CpusControlled
  <2>1. CASE d = c
    <3>1. CallControl(c)'
      BY <1>0, <1>1, <1>2, <1>5, ZenonT(40) DEF CallControl
    <3>2. CASE call[c].flag = "Spawn"
      <4>1. loc \in Executing /\ loc \in Booting /\ loc # "halting" /\ pc[on[c]] = "spawn"
        BY <1>4, <3>2, Zenon DEF Executing, Booting
      <4>2. CpuExecuting(c) \/ CpuBooting(c)
        BY <1>3, <4>1, Zenon DEF CpuControl, CpuDecided, CpuArriving, CpuRetrying, Arriving, Switching, Retrying
      <4>3. CASE CpuExecuting(c)
        <5>1. irq[c]
          BY <4>1, <4>3, ZenonT(40) DEF CpuExecuting
        <5>2. CpuExecuting(c)'
          BY <1>0, <1>2, <4>1, <4>3, <5>1, SMTT(30) DEF CpuExecuting
        <5>. QED
          BY <1>0, <1>3, <2>1, <3>1, <5>2, Zenon DEF CpuControl
      <4>4. CASE CpuBooting(c)
        <5>1. CpuBooting(c)'
          BY <1>0, <1>2, <4>1, <4>4, SMTT(30) DEF CpuBooting
        <5>. QED
          BY <1>0, <1>3, <2>1, <3>1, <5>1, ZenonT(40) DEF CpuControl
      <4>. QED
        BY <4>2, <4>3, <4>4, Zenon
    <3>3. CASE call[c].flag # "Spawn"
      <4>1. pc'[on[c]] = pc[on[c]]
        BY <1>2, <3>3, Zenon
      <4>2. CpuControl(c)'
        BY <1>0, <1>1, <1>3, <4>1, Zenon DEF CpuControl, CpuDecided, CpuArriving, CpuExecuting, CpuRetrying, CpuBooting
      <4>. QED
        BY <1>0, <1>3, <2>1, <3>1, <4>2, Zenon
    <3>. QED
      BY <3>2, <3>3, Zenon
  <2>2. CASE d # c
    <3>1. on[d] # on[c] /\ on[d] \in Context
      BY <2>2, OnDistinct, TypeFacts, Zenon DEF SchedInv
    <3>. QED
      BY <1>0, <1>1, <1>2, <2>2, <3>1, CpuKept, Zenon DEF SchedInv, CpusControlled
  <2>. QED
    BY <2>1, <2>2, Zenon
<1>8. \A u \in Task : /\ pc'[u] = "built" <=> pc[u] = "built"
                      /\ pc'[u] \in {"park_retry", "switch_wait"} <=> pc[u] \in {"park_retry", "switch_wait"}
                      /\ pc'[u] = "park_locked" <=> pc[u] = "park_locked"
  <2> SUFFICES ASSUME NEW u \in Task
               PROVE  /\ pc'[u] = "built" <=> pc[u] = "built"
                      /\ pc'[u] \in {"park_retry", "switch_wait"} <=> pc[u] \in {"park_retry", "switch_wait"}
                      /\ pc'[u] = "park_locked" <=> pc[u] = "park_locked"
    BY Zenon
  <2>1. CASE u = on[c]
    BY <1>2, <1>4, <2>1, Zenon
  <2>2. CASE u # on[c]
    BY <1>2, <2>2, TypeFacts, Zenon DEF SchedInv
  <2>. QED
    BY <2>1, <2>2, Zenon
<1>9. t \in Task /\ \A u \in Task : Targets(c, u) <=> u = t
  BY TypeFacts, Zenon DEF SchedInv, Targets
<1>10. \A d \in Cpu, u \in Task : Targets(d, u)' <=> Targets(d, u) /\ d # c
  BY <1>1, Zenon DEF Targets
<1>11. TasksControlled'
  <2>1. \A u \in Task : (\A d \in Cpu : on[d] # u) => pc'[u] = pc[u]
    BY <1>2, TypeFacts, Zenon DEF SchedInv
  <2>2. \A u \in Task : pc[u] = "built" => u # t
    BY <1>9, Zenon DEF SchedInv, TasksControlled
  <2>3. \A u \in Task : /\ (\A d \in Cpu : on[d] # u) => pc[u] \in Arriving \cup {"built"}
                        /\ pc[u] = "built" =>
                              cpu[u] = NONE /\ ~switched_to_cpu[u] /\ \A d \in Cpu : ~Targets(d, u)
    BY Zenon DEF SchedInv, TasksControlled
  <2>4. \A u \in Task : u # t => cpu'[u] = cpu[u]
    BY ZenonT(40)
  <2>. QED
    BY ONLY <1>0, <1>8, <1>10, <2>1, <2>2, <2>3, <2>4, Zenon DEF TasksControlled
<1>12. Foreground'
  BY <1>0, SMTT(30) DEF SchedInv, Foreground
<1>13. Halts'
  <2> SUFFICES ASSUME NEW d \in Cpu, pc'[on'[d]] \in {"halting", "halted"} PROVE ~need_preempt(info'[d])
    BY ZenonT(40) DEF Halts, need_preempt
  <2>1. on[d] # on[c] /\ on[d] \in Context /\ d # c
    BY <1>0, <1>2, <1>5, TypeFacts, SMTT(30) DEF SchedInv
  <2>2. pc[on[d]] \in {"halting", "halted"} /\ info'[d] = info[d]
    BY <1>0, <1>2, <2>1, ZenonT(40)
  <2>. QED
    BY <2>2, Zenon DEF SchedInv, Halts
<1>. QED
  BY <1>1, <1>6, <1>7, <1>8, <1>9, <1>10, <1>11, <1>12, <1>13, ZenonT(40) DEF Returned

\* The counts when an enqueue of t ends: its Arc is dropped, or moves into the run queue.
LEMMA ReturnsArcs ==
    ASSUME SchedInv, NEW c \in Cpu, NEW t \in Task, NEW pushed \in BOOLEAN,
           UNCHANGED <<on, previous, next>>,
           \A u \in Task : /\ pc'[u] = "built" <=> pc[u] = "built"
                           /\ pc'[u] \in {"park_retry", "switch_wait"} <=> pc[u] \in {"park_retry", "switch_wait"},
           \A d \in Cpu, u \in Task : Targets(d, u)' <=> Targets(d, u) /\ d # c,
           \A u \in Task : Targets(c, u) <=> u = t,
           \A u \in Task : InRq(u)' <=> InRq(u) \/ (pushed /\ u = t),
           pushed => ~InRq(t),
           \A u \in Task : arc'[u] = arc[u] - One(u = t /\ ~pushed)
    PROVE  Arcs'
<1> SUFFICES ASSUME NEW u \in Task
             PROVE arc'[u] = (RqArc(u) + OnArc(u) + PreviousArc(u) + NextArc(u) + ParkArc(u)
                              + BuiltArc(u) + CallArcs(u))'
  BY Zenon DEF Arcs
<1>1. OnArc(u)' = OnArc(u) /\ NextArc(u)' = NextArc(u) /\ PreviousArc(u)' = PreviousArc(u)
  BY Zenon DEF OnArc, NextArc, PreviousArc
<1>2. ParkArc(u)' = ParkArc(u) /\ BuiltArc(u)' = BuiltArc(u)
  BY Zenon DEF ParkArc, BuiltArc, One
<1>3. RqArc(u)' = RqArc(u) + One(u = t /\ pushed)
  BY SMTT(30) DEF RqArc, One
<1>4. CallArcs(u)' = CallArcs(u) - One(u = t)
  <2>1. CASE u = t
    <3>1. CallsOf(u)' = CallsOf(u) \ {c} /\ c \in CallsOf(u)
      BY <2>1, Zenon DEF CallsOf
    <3>2. Cardinality(CallsOf(u) \ {c}) = Cardinality(CallsOf(u)) - 1
      BY <3>1, CallsOfCpus, ZenonT(40) DEF SchedInv, CpuCounts
    <3>. QED
      BY <2>1, <3>1, <3>2, Zenon DEF CallArcs, One
  <2>2. CASE u # t
    <3>1. CallsOf(u)' = CallsOf(u)
      BY <2>2, Zenon DEF CallsOf
    <3>2. Counted(u)
      BY CountsAreIntegers, Zenon
    <3>. QED
      BY <2>2, <3>1, <3>2, SMTT(30) DEF CallArcs, One, Counted
  <2>. QED
    BY <2>1, <2>2, Zenon
<1>5. arc'[u] = arc[u] - One(u = t /\ ~pushed)
  BY Zenon
<1>6. arc[u] = RqArc(u) + OnArc(u) + PreviousArc(u) + NextArc(u) + ParkArc(u) + BuiltArc(u) + CallArcs(u)
  BY Zenon DEF SchedInv, Arcs
<1>7. Counted(u)
  BY CountsAreIntegers, Zenon
<1>. QED
  BY ONLY <1>1, <1>2, <1>3, <1>4, <1>5, <1>6, <1>7, SMTT(30) DEF One, Counted

\* The task still has a CPU, so it is left alone: it is not about to lose it, as the
\* lock of that CPU's run queue is free.
LEMMA EnqueueDropsInv ==
    ASSUME SchedInv, NEW c \in Cpu, EnqueuePush(c), call[c].still_in_rq, cpu[call[c].target] # NONE
    PROVE  SchedInv'
<1> DEFINE t == call[c].target
<1>0. /\ rq' = rq /\ cpu' = cpu /\ info' = info /\ ipi' = ipi
      /\ policy' = policy /\ on' = on /\ previous' = previous /\ next' = next
      /\ switched_to_cpu' = switched_to_cpu /\ irq' = irq /\ has_woken' = has_woken
      /\ arc' = [arc EXCEPT ![t] = @ - 1]
      /\ call[c] # NoCall /\ CallReturns(c) /\ call[c].cpu # NONE /\ Unlocked(call[c].cpu)
  BY Zenon DEF EnqueuePush
<1>. HIDE DEF t
<1>1. /\ StateTypes' /\ CpusControlled' /\ TasksControlled' /\ Foreground' /\ Halts'
      /\ \A u \in Task : /\ pc'[u] = "built" <=> pc[u] = "built"
                         /\ pc'[u] \in {"park_retry", "switch_wait"} <=> pc[u] \in {"park_retry", "switch_wait"}
                         /\ pc'[u] = "park_locked" <=> pc[u] = "park_locked"
      /\ \A d \in Cpu, u \in Task : Targets(d, u)' <=> Targets(d, u) /\ d # c
      /\ \A u \in Task : Targets(c, u) <=> u = t
      /\ \A d \in Cpu : d # c => call'[d] = call[d]
      /\ t \in Task
  <2>1. /\ rq' \in [Cpu -> RunQueue] /\ cpu' \in [Task -> Cpu \cup {NONE}]
        /\ info' \in [Cpu -> PreemptInfo] /\ ipi' \in [Cpu -> BOOLEAN]
    BY <1>0, Zenon DEF SchedInv, TypeOK
  <2>2. Returned(c, t)
    BY <1>0, <2>1, ReturnsFacts, Zenon DEF t
  <2>. QED
    BY <2>2, Zenon DEF Returned
<1>2. \A d \in Cpu, u \in Task : /\ Claims(d, u)' <=> Claims(d, u)
                                 /\ d # c => (Comes(d, u)' <=> Comes(d, u))
                                 /\ Claims(d, u) => d # c
  BY <1>0, <1>1, ZenonT(40) DEF Claims, Comes, t
<1>3. \A u \in Task : InRq(u)' <=> InRq(u)
  BY <1>0, Zenon DEF InRq
<1>4. Queues'
  <2>1. \A d \in Cpu, u \in Task : Has(rq[d], u)' <=> Has(rq[d], u)
    BY <1>0, Zenon DEF Has
  <2>3. \A d \in Cpu : NoRepeats(rq[d])'
    BY <1>0, ZenonT(40) DEF SchedInv, Queues, NoRepeats
  <2>4. ASSUME NEW u \in Task, NEW d \in Cpu, Claims(d, u)' PROVE cpu'[u] = call'[d].cpu /\ ~InRq(u)'
    <3>1. Claims(d, u) /\ d # c
      BY <1>2, <2>4, Zenon
    <3>2. cpu[u] = call[d].cpu /\ ~InRq(u)
      BY <3>1, Zenon DEF SchedInv, Queues
    <3>. QED
      BY <1>0, <1>1, <1>3, <3>1, <3>2, Zenon
  <2>5. \A u \in Task, d \in Cpu : Has(rq[d], u)' => cpu'[u] = d
    BY <1>0, <2>1, Zenon DEF SchedInv, Queues
  <2>6. \A u \in Task : cpu'[u] # NONE => InRq(u)' \/ \E d \in Cpu : Claims(d, u)'
    BY <1>0, <1>2, <1>3, Zenon DEF SchedInv, Queues
  <2>7. \A u \in Task, d, e \in Cpu : Claims(d, u)' /\ Claims(e, u)' => d = e
    BY <1>2, Zenon DEF SchedInv, Queues
  <2>. QED
    BY <2>3, <2>4, <2>5, <2>6, <2>7, Zenon DEF Queues
<1>5. arc' \in [Task -> Int] /\ Arcs'
  <2>1. arc' \in [Task -> Int] /\ \A u \in Task : arc'[u] = arc[u] - One(u = t /\ ~FALSE)
    BY <1>0, <1>1, SMTT(30) DEF SchedInv, TypeOK, One
  <2>2. \A u \in Task : InRq(u)' <=> InRq(u) \/ (FALSE /\ u = t)
    BY <1>3, Zenon
  <2>3. UNCHANGED <<on, previous, next>>
    BY <1>0, Zenon
  <2>4. FALSE \in BOOLEAN /\ (FALSE => ~InRq(t))
    BY Zenon
  <2>. QED
    BY ONLY SchedInv, c \in Cpu, <1>1, <2>1, <2>2, <2>3, <2>4, ReturnsArcs, ZenonT(40)
<1>6. WakeUps'
  <2> SUFFICES ASSUME NEW u \in Task, has_woken'[u]
               PROVE /\ pc'[u] = "park_locked" => (\E d \in Cpu : Comes(d, u))'
                     /\ pc'[u] \in {"park_retry", "switch_wait"} /\ cpu'[u] = NONE => (\E d \in Cpu : Targets(d, u))'
    BY Zenon DEF WakeUps
  <2>1. has_woken[u] /\ (pc'[u] = "park_locked" => pc[u] = "park_locked")
    BY <1>0, <1>1, Zenon
  <2>2. pc[u] = "park_locked" => ~Comes(c, u)
    <3> SUFFICES ASSUME pc[u] = "park_locked", Comes(c, u) PROVE FALSE
      BY Zenon
    <3>1. u = t /\ call[c].cpu = cpu[u]
      BY <1>0, <1>1, Zenon DEF Comes
    <3>2. on[cpu[u]] = u
      BY LockedTask, Zenon
    <3>. QED
      BY <1>0, <3>1, <3>2, Zenon DEF Unlocked
  <2>3. cpu[t] # NONE
    BY Zenon DEF t
  <2>4. pc'[u] = "park_locked" => (\E d \in Cpu : Comes(d, u))'
    BY <1>2, <2>1, <2>2, Zenon DEF SchedInv, WakeUps
  <2>5. pc'[u] \in {"park_retry", "switch_wait"} /\ cpu'[u] = NONE => (\E d \in Cpu : Targets(d, u))'
    BY <1>0, <1>1, <2>1, <2>3, Zenon DEF SchedInv, WakeUps
  <2>. QED
    BY <2>4, <2>5, Zenon
<1>. QED
  BY <1>1, <1>4, <1>5, <1>6, ArcTypes, Zenon DEF SchedInv

\* The task is put into the run queue of the CPU it has been given.
LEMMA EnqueuePushesInv ==
    ASSUME SchedInv, NEW c \in Cpu, EnqueuePush(c), ~(call[c].still_in_rq /\ cpu[call[c].target] # NONE)
    PROVE  SchedInv'
<1> DEFINE t == call[c].target
           k == call[c].cpu
<1>0. /\ policy' = policy /\ on' = on /\ previous' = previous /\ next' = next
      /\ switched_to_cpu' = switched_to_cpu /\ irq' = irq /\ has_woken' = has_woken /\ arc' = arc
      /\ call[c] # NoCall /\ CallReturns(c) /\ k # NONE
      /\ set_if_is_none(t, k) /\ rq' = [rq EXCEPT ![k].queue = Append(@, t)]
      /\ SetNeedPreempt(c, k) \/ (info' = info /\ ipi' = ipi)
  BY Zenon DEF EnqueuePush
<1>1. t \in Task /\ k \in Cpu /\ call[c].still_in_rq \in BOOLEAN
  BY <1>0, TypeFacts, Zenon DEF SchedInv, Calls
<1>2. /\ cpu[t] = NONE \/ cpu[t] = k
      /\ ~InRq(t)
      /\ \A d \in Cpu : d # c => ~Claims(d, t)
  <2>1. Targets(c, t) /\ \A d \in Cpu : d # NONE
    BY <1>0, SchedulerAssumption, Zenon DEF Targets
  <2>2. CASE call[c].still_in_rq
    <3>1. cpu[t] = NONE
      BY <2>2, Zenon
    <3>. HIDE DEF t, k
    <3>2. ~InRq(t)
      BY <1>1, <2>1, <3>1, Zenon DEF SchedInv, Queues, InRq
    <3>3. \A d \in Cpu : Claims(d, t) => cpu[t] # NONE
      BY <1>1, Zenon DEF SchedInv, Queues, Claims
    <3>. QED
      BY <3>1, <3>2, <3>3, Zenon
  <2>3. CASE ~call[c].still_in_rq
    <3>1. Claims(c, t)
      BY <1>0, <2>1, <2>3, Zenon DEF Claims
    <3>. QED
      BY <1>1, <3>1, Zenon DEF SchedInv, Queues
  <2>. QED
    BY <2>2, <2>3, Zenon
<1>. HIDE DEF t, k
<1>3. /\ cpu' \in [Task -> Cpu \cup {NONE}] /\ cpu'[t] = k /\ \A u \in Task : u # t => cpu'[u] = cpu[u]
      /\ k # NONE
  BY <1>0, <1>1, <1>2, Zenon DEF set_if_is_none, SchedInv, TypeOK
<1>4. /\ rq[k] \in RunQueue /\ NoRepeats(rq[k]) /\ ~Has(rq[k], t)
  BY <1>1, <1>2, Zenon DEF SchedInv, TypeOK, Queues, InRq
<1>5. rq'[k] = Appended(rq[k], t) /\ \A d \in Cpu : d # k => rq'[d] = rq[d]
  BY <1>0, <1>1, Zenon DEF SchedInv, TypeOK, Appended
<1>6. /\ Appended(rq[k], t) \in RunQueue /\ NoRepeats(Appended(rq[k], t))
      /\ Appended(rq[k], t).current = rq[k].current
      /\ \A u \in Task : Has(Appended(rq[k], t), u) <=> Has(rq[k], u) \/ u = t
  BY <1>1, <1>4, AppendFacts, Zenon
<1>7. rq' \in [Cpu -> RunQueue] /\ \A d \in Cpu : rq'[d].current = rq[d].current
  <2>1. rq' = [rq EXCEPT ![k] = Appended(rq[k], t)]
    BY <1>0, Zenon DEF Appended
  <2>. QED
    BY <1>1, <1>5, <1>6, <2>1, Zenon DEF SchedInv, TypeOK
<1>8. info' \in [Cpu -> PreemptInfo] /\ (\A d \in Cpu : d # c => info'[d] = info[d]) /\ ipi' \in [Cpu -> BOOLEAN]
  <2>1. CASE info' = info /\ ipi' = ipi
    BY <2>1, Zenon DEF SchedInv, TypeOK
  <2>2. CASE SetNeedPreempt(c, k) /\ c = k
    BY <2>2, SetTypes, Zenon DEF SetNeedPreempt, SchedInv, TypeOK
  <2>3. CASE SetNeedPreempt(c, k) /\ c # k
    BY <2>3, Zenon DEF SetNeedPreempt, SchedInv, TypeOK
  <2>. QED
    BY <1>0, <2>1, <2>2, <2>3, Zenon
<1>9. /\ StateTypes' /\ CpusControlled' /\ TasksControlled' /\ Foreground' /\ Halts'
      /\ \A u \in Task : /\ pc'[u] = "built" <=> pc[u] = "built"
                         /\ pc'[u] \in {"park_retry", "switch_wait"} <=> pc[u] \in {"park_retry", "switch_wait"}
                         /\ pc'[u] = "park_locked" <=> pc[u] = "park_locked"
      /\ \A d \in Cpu, u \in Task : Targets(d, u)' <=> Targets(d, u) /\ d # c
      /\ \A u \in Task : Targets(c, u) <=> u = t
      /\ \A d \in Cpu : d # c => call'[d] = call[d]
  <2>1. call[c] # NoCall /\ CallReturns(c) /\ t = call[c].target
    BY <1>0, Zenon DEF t
  <2>2. /\ policy' = policy /\ on' = on /\ previous' = previous /\ next' = next
        /\ switched_to_cpu' = switched_to_cpu /\ irq' = irq /\ has_woken' = has_woken
    BY <1>0, Zenon
  <2>3. cpu' \in [Task -> Cpu \cup {NONE}] /\ \A u \in Task : u # t => cpu'[u] = cpu[u]
    BY <1>3, Zenon
  <2>4. info' \in [Cpu -> PreemptInfo] /\ \A d \in Cpu : d # c => info'[d] = info[d]
    BY <1>8, Zenon
  <2>5. ipi' \in [Cpu -> BOOLEAN]
    BY <1>8, Zenon
  <2>6. Returned(c, t)
    BY ONLY SchedInv, c \in Cpu, <1>7, <2>1, <2>2, <2>3, <2>4, <2>5, ReturnsFacts, ZenonT(40)
  <2>. QED
    BY <2>6, Zenon DEF Returned
<1>10. \A d \in Cpu, u \in Task : Has(rq[d], u)' <=> Has(rq[d], u) \/ (d = k /\ u = t)
  <2> SUFFICES ASSUME NEW d \in Cpu, NEW u \in Task
               PROVE Has(rq[d], u)' <=> Has(rq[d], u) \/ (d = k /\ u = t)
    BY Zenon
  <2>1. CASE d = k
    <3>1. Has(rq[d], u)' <=> Has(Appended(rq[k], t), u)
      BY <1>5, <2>1, Zenon DEF Has
    <3>. QED
      BY <1>6, <2>1, <3>1, Zenon
  <2>2. CASE d # k
    BY <1>5, <2>2, Zenon DEF Has
  <2>. QED
    BY <2>1, <2>2, Zenon
<1>11. \A u \in Task : InRq(u)' <=> InRq(u) \/ u = t
  BY <1>1, <1>10, Zenon DEF InRq
<1>12. \A d \in Cpu, u \in Task : /\ Claims(d, u)' <=> Claims(d, u) /\ d # c
                                  /\ Claims(d, u)' => u # t
  BY <1>2, <1>9, Zenon DEF Claims
<1>13. Queues'
  <2>1. \A d \in Cpu : NoRepeats(rq[d])'
    <3>1. NoRepeats(rq'[k])
      BY <1>5, <1>6, Zenon
    <3>2. \A d \in Cpu : d # k => NoRepeats(rq'[d])
      BY <1>5, Zenon DEF SchedInv, Queues
    <3>. QED
      BY <3>1, <3>2, Zenon DEF NoRepeats
  <2>2. \A u \in Task, d \in Cpu : Has(rq[d], u)' => cpu'[u] = d
    <3>1. \A u \in Task, d \in Cpu : Has(rq[d], u) => cpu[u] = d /\ u # t
      <4>1. \A u \in Task, d \in Cpu : Has(rq[d], u) => cpu[u] = d
        BY Zenon DEF SchedInv, Queues
      <4>2. \A d \in Cpu : ~Has(rq[d], t)
        BY <1>2, Zenon DEF InRq
      <4>. QED
        BY <4>1, <4>2, Zenon
    <3>. QED
      BY <1>3, <1>10, <3>1, Zenon
  <2>3. ASSUME NEW u \in Task, cpu'[u] # NONE PROVE InRq(u)' \/ \E d \in Cpu : Claims(d, u)'
    <3>1. CASE u = t
      BY <1>11, <3>1, Zenon
    <3>2. CASE u # t
      <4>1. InRq(u) \/ \E d \in Cpu : Claims(d, u)
        BY <1>3, <2>3, <3>2, Zenon DEF SchedInv, Queues
      <4>2. ~Claims(c, u)
        BY <1>9, <3>2, Zenon DEF Claims
      <4>. QED
        BY <1>11, <1>12, <4>1, <4>2, Zenon
    <3>. QED
      BY <3>1, <3>2, Zenon
  <2>4. ASSUME NEW u \in Task, NEW d \in Cpu, Claims(d, u)' PROVE cpu'[u] = call'[d].cpu /\ ~InRq(u)'
    <3>1. Claims(d, u) /\ d # c /\ u # t
      BY <1>12, <2>4, Zenon
    <3>2. cpu[u] = call[d].cpu /\ ~InRq(u)
      BY <3>1, Zenon DEF SchedInv, Queues
    <3>. QED
      BY <1>3, <1>9, <1>11, <3>1, <3>2, Zenon
  <2>5. \A u \in Task, d, e \in Cpu : Claims(d, u)' /\ Claims(e, u)' => d = e
    BY <1>12, Zenon DEF SchedInv, Queues
  <2>. QED
    BY <2>1, <2>2, <2>3, <2>4, <2>5, Zenon DEF Queues
<1>14. arc' \in [Task -> Int] /\ Arcs'
  <2>1. arc' \in [Task -> Int] /\ \A u \in Task : arc'[u] = arc[u] - One(u = t /\ ~TRUE)
    BY <1>0, SMTT(30) DEF SchedInv, TypeOK, One
  <2>2. \A u \in Task : InRq(u)' <=> InRq(u) \/ (TRUE /\ u = t)
    BY <1>11, Zenon
  <2>. QED
    BY <1>0, <1>1, <1>2, <1>9, <2>1, <2>2, ReturnsArcs, ZenonT(40)
<1>15. WakeUps'
  <2> SUFFICES ASSUME NEW u \in Task, has_woken'[u]
               PROVE /\ pc'[u] = "park_locked" => (\E d \in Cpu : Comes(d, u))'
                     /\ pc'[u] \in {"park_retry", "switch_wait"} /\ cpu'[u] = NONE => (\E d \in Cpu : Targets(d, u))'
    BY Zenon DEF WakeUps
  <2>1. CASE u = t
    <3>1. pc[u] # "park_locked"
      BY <1>2, <2>1, LockedTask, Zenon
    <3>. QED
      BY <1>3, <1>9, <2>1, <3>1, Zenon
  <2>2. CASE u # t
    <3>1. has_woken[u] /\ cpu'[u] = cpu[u] /\ ~Targets(c, u)
      BY <1>0, <1>3, <1>9, <2>2, Zenon
    <3>2. \A d \in Cpu : Comes(d, u) => Comes(d, u)'
      BY <1>9, <3>1, Zenon DEF Comes
    <3>. QED
      BY <1>9, <3>1, <3>2, Zenon DEF SchedInv, WakeUps
  <2>. QED
    BY <2>1, <2>2, Zenon
<1>. QED
  BY <1>9, <1>13, <1>14, <1>15, ArcTypes, Zenon DEF SchedInv

LEMMA EnqueuePushInv == ASSUME SchedInv, NEW c \in Cpu, EnqueuePush(c) PROVE SchedInv'
BY EnqueueDropsInv, EnqueuePushesInv, Zenon

-----------------------------------------------------------------------------
(* Every step *)

LEMMA StutterInv == ASSUME SchedInv, UNCHANGED vars PROVE SchedInv'
<1>1. /\ policy' = policy /\ rq' = rq /\ cpu' = cpu /\ on' = on /\ previous' = previous /\ next' = next
      /\ switched_to_cpu' = switched_to_cpu /\ irq' = irq /\ info' = info /\ ipi' = ipi /\ pc' = pc
      /\ has_woken' = has_woken /\ call' = call /\ arc' = arc
  BY Zenon DEF vars
<1>2. TypeOK'
  BY <1>1, ZenonT(40) DEF SchedInv, TypeOK
<1>3. Queues'
  BY <1>1, SMTT(30) DEF SchedInv, Queues, Has, NoRepeats, InRq, Claims, Targets
<1>4. CpusControlled'
  <2> SUFFICES ASSUME NEW d \in Cpu PROVE (on[d] \in Task \cup {d} /\ CpuControl(d) /\ CallControl(d))'
    BY Zenon DEF CpusControlled
  <2>1. on[d] \in Task \cup {d} /\ CpuControl(d) /\ CallControl(d)
    BY Zenon DEF SchedInv, CpusControlled
  <2>. QED
    BY <1>1, <2>1, CpuKept, Zenon
<1>5. TasksControlled' /\ Foreground'
  BY <1>1, ZenonT(40) DEF SchedInv, TasksControlled, Targets, Foreground
<1>6. Arcs'
  <2>1. \A t \in Task : /\ RqArc(t)' = RqArc(t) /\ OnArc(t)' = OnArc(t) /\ PreviousArc(t)' = PreviousArc(t)
                        /\ NextArc(t)' = NextArc(t) /\ ParkArc(t)' = ParkArc(t) /\ BuiltArc(t)' = BuiltArc(t)
    BY <1>1, Zenon DEF RqArc, OnArc, PreviousArc, NextArc, ParkArc, BuiltArc, InRq
  <2>2. \A t \in Task : CallArcs(t)' = CallArcs(t)
    BY <1>1, Zenon DEF CallArcs, CallsOf, Targets
  <2>. QED
    BY <1>1, <2>1, <2>2, Zenon DEF SchedInv, Arcs
<1>7. WakeUps'
  BY <1>1, Zenon DEF SchedInv, WakeUps, Comes, Targets
<1>8. Halts'
  BY <1>1, Zenon DEF SchedInv, Halts, need_preempt
<1>. QED
  BY <1>2, <1>3, <1>4, <1>5, <1>6, <1>7, <1>8, Zenon DEF SchedInv

LEMMA NextInv == ASSUME SchedInv, [Next]_vars PROVE SchedInv'
<1>1. CASE Next
  <2>1. PICK c \in Cpu :
           \/ Proceed(c) \/ DoWait(c) \/ GuardNew(c) \/ GuardDrop(c) \/ YieldNow(c) \/ ExitFirst(c)
           \/ MightPreempt(c) \/ HaltCpu(c) \/ Tick(c) \/ Ipi(c)
           \/ \E t \in Task : RunNewTask(c, t) \/ WakeUp(c, t)
    BY <1>1, Zenon DEF Next
  <2>2. CASE Proceed(c)
    BY <2>2, DoWaitInv, ParkCheckInv, ParkDequeueInv, ParkRetryInv, ExitRetryInv, SwitchBeginInv, SwitchContextInv,
       AfterSwitchingToInv, EnqueueSelectInv, EnqueuePushInv, EnableLocalAndHaltInv, ZenonT(40) DEF Proceed
  <2>3. CASE \/ DoWait(c) \/ GuardNew(c) \/ GuardDrop(c) \/ YieldNow(c) \/ ExitFirst(c)
             \/ MightPreempt(c) \/ HaltCpu(c) \/ Tick(c) \/ Ipi(c)
    BY <2>3, DoWaitInv, GuardInv, YieldNowInv, ExitFirstInv, MightPreemptInv, HaltCpuInv, InterruptInv, Zenon
  <2>4. CASE \E t \in Task : RunNewTask(c, t) \/ WakeUp(c, t)
    BY <2>4, RunNewTaskInv, WakeUpInv, Zenon
  <2>. QED
    BY <2>1, <2>2, <2>3, <2>4, Zenon
<1>2. CASE UNCHANGED vars
  BY <1>2, StutterInv, Zenon
<1>. QED
  BY <1>1, <1>2, Zenon
=============================================================================

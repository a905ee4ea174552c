------------------------------ MODULE RcuProofs ------------------------------
(***************************************************************************)
(* The safety of Rcu for any CPUs, tasks and objects, and of the spin lock   *)
(* its monitor is under for any CPUs, tasks and guardian.                    *)
(***************************************************************************)
EXTENDS Rcu, SpinLock, FiniteSetTheorems, TLAPS

\* Why a guard keeps its object: an object some CPU still reads is not among the
\* callbacks that are invoked, and as long as it waits in the current grace
\* period that CPU has not been counted.
GuardsWait ==
    \A c \in CPU : held[c] \in Obj =>
        /\ held[c] \in allocated
        /\ held[c] \notin callbacks
        /\ held[c] \in current_gp.callbacks => c \notin current_gp.cpu_mask

\* A grace period is under way exactly while callbacks wait, and CPUs then look.
MonitorConsistent ==
    /\ current_gp.is_complete => current_gp.callbacks = {} /\ next_callbacks = {}
    /\ ~current_gp.is_complete => is_monitoring

\* The inductive invariant.
IInv == TypeOK /\ DroppedOnce /\ GuardsWait /\ MonitorConsistent

\* A grace period made of its parts is one.
LEMMA GracePeriodType ==
    ASSUME NEW fs \in SUBSET Obj, NEW mask \in SUBSET CPU, NEW b \in BOOLEAN
    PROVE  [callbacks |-> fs, cpu_mask |-> mask, is_complete |-> b] \in GracePeriod
BY Zenon DEF GracePeriod

\* The invariant holds initially: nothing is allocated and nobody reads.
LEMMA InitIInv == Init => IInv
<1> SUFFICES ASSUME Init PROVE IInv
  BY Zenon
<1>1. TypeOK
  BY RcuAssumption, Zenon DEF Init, TypeOK, GracePeriod
<1>2. Retired = {}
  BY Zenon DEF Init, Retired
<1>3. DroppedOnce
  BY <1>2, Zenon DEF Init, DroppedOnce
<1>4. GuardsWait
  BY RcuAssumption, Zenon DEF Init, GuardsWait
<1>5. MonitorConsistent
  BY Zenon DEF Init, MonitorConsistent
<1>. QED
  BY <1>1, <1>3, <1>4, <1>5, Zenon DEF IInv

\* A new guard holds what is in the slot, which nobody is to drop.
LEMMA ReadIInv == ASSUME IInv, NEW c \in CPU, Read(c) PROVE IInv'
<1> USE RcuAssumption DEF IInv, Read, monitorVars, switchVars
<1>1. TypeOK'
  BY Zenon DEF TypeOK
<1>2. DroppedOnce'
  BY ZenonT(40) DEF DroppedOnce, Retired
<1>3. GuardsWait'
  BY Zenon DEF GuardsWait, DroppedOnce, Retired, TypeOK
<1>4. MonitorConsistent'
  BY Zenon DEF MonitorConsistent
<1>. QED
  BY <1>1, <1>2, <1>3, <1>4, Zenon

\* Dropping a guard only removes a reader.
LEMMA DropGuardIInv == ASSUME IInv, NEW c \in CPU, DropGuard(c) PROVE IInv'
<1> USE RcuAssumption DEF IInv, DropGuard, monitorVars, switchVars
<1>1. TypeOK'
  BY Zenon DEF TypeOK
<1>2. DroppedOnce'
  BY ZenonT(40) DEF DroppedOnce, Retired
<1>3. GuardsWait'
  BY Zenon DEF GuardsWait, TypeOK
<1>4. MonitorConsistent'
  BY Zenon DEF MonitorConsistent
<1>. QED
  BY <1>1, <1>2, <1>3, <1>4, Zenon

\* Replacing the content of the slot moves it into the hands of the actor that
\* did it, and what is new was nobody's.
LEMMA ReplaceIInv ==
    ASSUME IInv, NEW a \in Actor, old[a] = Null, NEW new, Replace(a, new),
           UNCHANGED <<held, monitorVars, switchVars>>
    PROVE IInv'
<1> USE RcuAssumption DEF IInv, Replace, monitorVars, switchVars
<1>1. TypeOK'
  BY Zenon DEF TypeOK
<1>2. DroppedOnce'
  <2>1. {old'[b] : b \in Actor} \ {Null} = ({old[b] : b \in Actor} \cup {ptr}) \ {Null}
    <3>1. old' = [old EXCEPT ![a] = ptr] /\ old \in [Actor -> Obj \cup {Null}]
      BY Zenon DEF TypeOK
    <3>. QED
      BY <3>1, Zenon
  <2>2. Retired' = (Retired \cup {ptr}) \ {Null}
    BY <2>1, ZenonT(40) DEF Retired, TypeOK, GracePeriod
  <2>3. ptr' \notin Retired'
    BY <2>2, Zenon DEF DroppedOnce, TypeOK, Retired
  <2>4. allocated' = ({ptr'} \cup Retired') \ {Null}
    BY <2>2, Zenon DEF DroppedOnce, TypeOK
  <2>5. ASSUME NEW b \in Actor
        PROVE  /\ old'[b] \notin current_gp.callbacks \cup next_callbacks \cup callbacks
               /\ \A d \in Actor \ {b} : old'[b] = old'[d] => old'[b] = Null
    BY SMTT(30) DEF DroppedOnce, TypeOK, Retired
  <2>. QED
    BY <2>3, <2>4, <2>5, Zenon DEF DroppedOnce
<1>3. GuardsWait'
  BY Zenon DEF GuardsWait, TypeOK
<1>4. MonitorConsistent'
  BY Zenon DEF MonitorConsistent
<1>. QED
  BY <1>1, <1>2, <1>3, <1>4, Zenon

\* A compare_exchange that fails drops its guard.
LEMMA CompareExchangeIInv ==
    ASSUME IInv, NEW c \in CPU, NEW new \in Obj \cup {Null}, CompareExchange(c, new) PROVE IInv'
<1>1. CASE ptr = held[c]
  BY <1>1, ReplaceIInv, Zenon DEF CompareExchange, Actor, switchVars, monitorVars
<1>2. CASE ptr # held[c]
  <2> USE RcuAssumption, <1>2 DEF IInv, CompareExchange, monitorVars, switchVars
  <2>1. TypeOK'
    BY Zenon DEF TypeOK
  <2>2. DroppedOnce'
    BY SMTT(30) DEF DroppedOnce, Retired
  <2>3. GuardsWait'
    BY Zenon DEF GuardsWait, TypeOK
  <2>4. MonitorConsistent'
    BY Zenon DEF MonitorConsistent
  <2>. QED
    BY <2>1, <2>2, <2>3, <2>4, Zenon
<1>. QED
  BY <1>1, <1>2, Zenon

\* The monitor takes the object over: into the queue of the next grace period, or
\* into a new one that has counted no CPU yet.
LEMMA AfterGracePeriodIInv == ASSUME IInv, NEW a \in Actor, after_grace_period(a) PROVE IInv'
<1> USE RcuAssumption DEF IInv, after_grace_period, restart, switchVars
<1>1. old[a] \in Obj /\ old' \in [Actor -> Obj \cup {Null}]
  BY Zenon DEF TypeOK
<1>2. TypeOK'
  <2>1. current_gp' \in GracePeriod
    <3>1. next_callbacks \cup {old[a]} \in SUBSET Obj /\ {} \in SUBSET CPU
      BY <1>1, Zenon DEF TypeOK
    <3>2. CASE ~current_gp.is_complete
      BY <3>2, Zenon DEF TypeOK
    <3>3. CASE current_gp.is_complete
      <4>1. current_gp' = [callbacks |-> next_callbacks \cup {old[a]}, cpu_mask |-> {}, is_complete |-> FALSE]
        BY <3>3, Zenon
      <4>. QED
        BY <4>1, <3>1, GracePeriodType, Zenon
    <3>. QED
      BY <3>2, <3>3, Zenon
  <2>2. is_monitoring' \in BOOLEAN /\ next_callbacks' \subseteq Obj
    BY <1>1, Zenon DEF TypeOK
  <2>. QED
    BY <1>1, <2>1, <2>2, Zenon DEF TypeOK
<1>3. DroppedOnce'
  <2>1. current_gp'.callbacks \cup next_callbacks' = current_gp.callbacks \cup next_callbacks \cup {old[a]}
    BY SMTT(30) DEF TypeOK, GracePeriod, MonitorConsistent
  <2>2. current_gp'.callbacks \cap next_callbacks' = {}
    BY SMTT(30) DEF DroppedOnce, MonitorConsistent, TypeOK, GracePeriod
  <2>3. old[a] \notin callbacks
    BY Zenon DEF DroppedOnce
  <2>4. {old'[b] : b \in Actor} \ {Null} = ({old[b] : b \in Actor} \ {Null}) \ {old[a]}
    BY SMTT(30) DEF TypeOK, DroppedOnce
  <2>5. Retired' = Retired
    BY <2>1, <2>4, ZenonT(40) DEF Retired, TypeOK
  <2>6. ASSUME NEW b \in Actor
        PROVE  /\ old'[b] \notin current_gp'.callbacks \cup next_callbacks' \cup callbacks
               /\ \A d \in Actor \ {b} : old'[b] = old'[d] => old'[b] = Null
    <3>1. Null \notin current_gp.callbacks \cup next_callbacks \cup callbacks
      BY Zenon DEF TypeOK, GracePeriod
    <3>2. CASE b = a
      BY <1>1, <2>1, <3>1, <3>2, Zenon DEF TypeOK
    <3>3. CASE b # a
      <4>1. old'[b] = old[b] /\ old[b] # old[a]
        BY <1>1, <3>3, Zenon DEF TypeOK, DroppedOnce
      <4>2. old[b] \notin current_gp'.callbacks \cup next_callbacks' \cup callbacks
        BY <4>1, <2>1, Zenon DEF DroppedOnce
      <4>3. \A d \in Actor : old'[d] = IF d = a THEN Null ELSE old[d]
        BY Zenon DEF TypeOK
      <4>. QED
        BY <4>1, <4>2, <4>3, ZenonT(40) DEF DroppedOnce
    <3>. QED
      BY <3>2, <3>3, Zenon
  <2>. QED
    BY <2>1, <2>2, <2>3, <2>5, <2>6, SMTT(30) DEF DroppedOnce
<1>4. GuardsWait'
  BY SMTT(30) DEF GuardsWait, TypeOK, GracePeriod, MonitorConsistent
<1>5. MonitorConsistent'
  BY SMTT(30) DEF MonitorConsistent, TypeOK, GracePeriod
<1>. QED
  BY <1>2, <1>3, <1>4, <1>5, Zenon

\* The fast path changes nothing the invariant speaks of.
LEMMA CheckMonitoringIInv == ASSUME IInv, NEW c \in CPU, CheckMonitoring(c) PROVE IInv'
<1> USE DEF IInv, CheckMonitoring, slotVars, monitorVars
<1>1. TypeOK'
  BY Zenon DEF TypeOK
<1>2. DroppedOnce' /\ GuardsWait' /\ MonitorConsistent'
  BY SMTT(30) DEF DroppedOnce, Retired, GuardsWait, MonitorConsistent
<1>. QED
  BY <1>1, <1>2, Zenon

\* When the last CPU is counted, every guard of an object of the grace period
\* would be on a CPU that has not been counted: there is none.
LEMMA FinishGracePeriodIInv == ASSUME IInv, NEW c \in CPU, finish_grace_period(c) PROVE IInv'
<1> DEFINE mask == current_gp.cpu_mask \cup {c}
<1> USE RcuAssumption DEF IInv, slotVars
<1>1. CASE current_gp.is_complete /\ UNCHANGED <<monitorVars, callbacks>>
  BY <1>1, SMTT(30) DEF finish_grace_period, monitorVars, TypeOK, DroppedOnce, Retired, GuardsWait,
      MonitorConsistent
<1>2. CASE /\ ~current_gp.is_complete
           /\ current_gp' = [current_gp EXCEPT !.cpu_mask = mask]
           /\ UNCHANGED <<is_monitoring, next_callbacks, callbacks>>
  <2> USE <1>2 DEF finish_grace_period
  <2>1. TypeOK'
    BY Zenon DEF TypeOK, GracePeriod
  <2>2. current_gp'.callbacks = current_gp.callbacks /\ current_gp'.is_complete = current_gp.is_complete
    BY Zenon DEF TypeOK, GracePeriod
  <2>3. DroppedOnce' /\ MonitorConsistent'
    BY <2>2, SMTT(30) DEF DroppedOnce, Retired, MonitorConsistent
  <2>4. GuardsWait'
    BY <2>2, Zenon DEF GuardsWait, TypeOK, GracePeriod
  <2>. QED
    BY <2>1, <2>3, <2>4, Zenon
<1>3. CASE /\ ~current_gp.is_complete /\ is_full(mask)
           /\ callbacks' = callbacks \cup current_gp.callbacks
           /\ \/ /\ restart(next_callbacks) /\ next_callbacks' = {} /\ UNCHANGED is_monitoring
              \/ /\ next_callbacks = {} /\ UNCHANGED next_callbacks
                 /\ current_gp' = [callbacks |-> {}, cpu_mask |-> mask, is_complete |-> TRUE]
                 /\ is_monitoring' = FALSE
  <2> USE <1>3 DEF finish_grace_period, restart, is_full
  <2>1. current_gp.callbacks \subseteq Obj /\ next_callbacks \subseteq Obj
    BY Zenon DEF TypeOK, GracePeriod
  <2>2. TypeOK'
    <3>1. current_gp' \in GracePeriod
      <4>1. mask \in SUBSET CPU /\ {} \in SUBSET CPU /\ {} \in SUBSET Obj /\ next_callbacks \in SUBSET Obj
        BY <2>1, Zenon
      <4>2. \/ current_gp' = [callbacks |-> next_callbacks, cpu_mask |-> {}, is_complete |-> FALSE]
            \/ current_gp' = [callbacks |-> {}, cpu_mask |-> mask, is_complete |-> TRUE]
        BY Zenon
      <4>. QED
        BY ONLY <4>1, <4>2, GracePeriodType, Zenon
    <3>2. callbacks' \subseteq Obj /\ next_callbacks' \subseteq Obj /\ is_monitoring' \in BOOLEAN
      BY <2>1, Zenon DEF TypeOK
    <3>. QED
      BY <3>1, <3>2, Zenon DEF TypeOK
  <2>3. current_gp'.callbacks = next_callbacks /\ next_callbacks' = {}
    BY SMTT(30)
  <2>4. DroppedOnce'
    BY <2>3, SMTT(30) DEF DroppedOnce, Retired, TypeOK, GracePeriod
  <2>5. \A d \in CPU : held[d] \in Obj => held[d] \notin current_gp.callbacks
    BY Zenon DEF GuardsWait
  <2>6. \A d \in CPU : d \in current_gp'.cpu_mask => current_gp'.callbacks = {}
    BY SMTT(30)
  <2>7. GuardsWait'
    BY <2>5, <2>6, Zenon DEF GuardsWait
  <2>8. MonitorConsistent'
    BY SMTT(30) DEF MonitorConsistent
  <2>. QED
    BY <2>2, <2>4, <2>7, <2>8, Zenon
<1>. QED
  BY <1>1, <1>2, <1>3, Zenon DEF finish_grace_period

\* A callback frees an object nobody reads and nobody else is to drop.
LEMMA InvokeIInv == ASSUME IInv, NEW o \in Obj, Invoke(o) PROVE IInv'
<1> USE RcuAssumption DEF IInv, Invoke, monitorVars
<1>1. TypeOK'
  BY Zenon DEF TypeOK
<1>2. DroppedOnce'
  <2>1. o \notin current_gp.callbacks \cup next_callbacks /\ \A a \in Actor : old[a] # o
    BY Zenon DEF DroppedOnce
  <2>2. Retired' = Retired \ {o} /\ ptr # o
    BY <2>1, ZenonT(40) DEF Retired, DroppedOnce
  <2>. QED
    BY <2>1, <2>2, Zenon DEF DroppedOnce, TypeOK
<1>3. GuardsWait'
  BY Zenon DEF GuardsWait
<1>4. MonitorConsistent'
  BY Zenon DEF MonitorConsistent
<1>. QED
  BY <1>1, <1>2, <1>3, <1>4, Zenon

\* Every step preserves the invariant.
LEMMA NextIInv == IInv /\ [Next]_vars => IInv'
<1> SUFFICES ASSUME IInv, [Next]_vars PROVE IInv'
  BY Zenon
<1>1. CASE UNCHANGED vars
  BY <1>1, SMTT(30) DEF vars, slotVars, monitorVars, switchVars, IInv, TypeOK, DroppedOnce, Retired, GuardsWait,
      MonitorConsistent
<1>2. ASSUME NEW c \in CPU,
             Read(c) \/ DropGuard(c) \/ CheckMonitoring(c) \/ finish_grace_period(c)
      PROVE  IInv'
  BY <1>2, ReadIInv, DropGuardIInv, CheckMonitoringIInv, FinishGracePeriodIInv, Zenon
<1>3. ASSUME NEW c \in CPU, NEW new \in Obj \cup {Null}, CompareExchange(c, new) PROVE IInv'
  BY <1>3, CompareExchangeIInv, Zenon
<1>4. ASSUME NEW t \in Task, NEW new \in Obj \cup {Null}, Update(t, new) PROVE IInv'
  BY <1>4, ReplaceIInv, Zenon DEF Update, Actor, monitorVars, switchVars
<1>5. ASSUME NEW a \in Actor, after_grace_period(a) PROVE IInv'
  BY <1>5, AfterGracePeriodIInv, Zenon
<1>6. ASSUME NEW o \in Obj, Invoke(o) PROVE IInv'
  BY <1>6, InvokeIInv, Zenon
<1>. QED
  BY <1>1, <1>2, <1>3, <1>4, <1>5, <1>6, Zenon DEF Next

\* The invariant holds at all times.
LEMMA Invariance == Spec => []IInv
BY InitIInv, NextIInv, PTL DEF Spec

\* The slot, the guards and the monitor keep their types.
THEOREM TypeCorrect == Spec => []TypeOK
<1>1. IInv => TypeOK
  BY Zenon DEF IInv
<1>. QED
  BY <1>1, Invariance, PTL

\* No object is freed while a read guard holds it, however updates, task switches
\* and grace periods interleave.
THEOREM GuardsAreSafe == Spec => []GuardsKeepObjects
<1>1. IInv => GuardsKeepObjects
  BY Zenon DEF IInv, GuardsWait, GuardsKeepObjects
<1>. QED
  BY <1>1, Invariance, PTL

\* Every object that update or compare_exchange takes out of the slot has exactly
\* one callback: none is lost and none is dropped twice.
THEOREM ObjectsDroppedOnce == Spec => []DroppedOnce
<1>1. IInv => DroppedOnce
  BY Zenon DEF IInv
<1>. QED
  BY <1>1, Invariance, PTL

\* The fast path of finish_grace_period never skips a waiting callback.
THEOREM FastPathSound == Spec => []MonitoringWhenNeeded
<1>1. IInv => MonitoringWhenNeeded
  BY Zenon DEF IInv, MonitorConsistent, MonitoringWhenNeeded
<1>. QED
  BY <1>1, Invariance, PTL
\* The three together: what a reader of the slot holds is not freed, and what was
\* taken out of it is dropped once, by a callback no CPU can skip.
THEOREM ReclamationIsSafe == Spec => []SafeReclamation
<1>1. IInv => SafeReclamation
  BY Zenon DEF IInv, GuardsWait, GuardsKeepObjects, MonitorConsistent, MonitoringWhenNeeded, SafeReclamation
<1>. QED
  BY <1>1, Invariance, PTL

-----------------------------------------------------------------------------
(* The spin lock.  The inductive invariant says what the guardian has done   *)
(* to the CPU of every context that is near the lock: with preemption        *)
(* disabled it stays the current task; with interrupts disabled no handler   *)
(* is on top of it, and a handler near the lock restores the flag it has     *)
(* found.                                                                    *)

Place == {"out", "lock", "try", "in", "unguard"}

SpinTypes ==
    /\ "handler" \notin SpinTask
    /\ guardian \in {"PreemptDisabled", "LocalIrqDisabled", "WriteIrqDisabled"}
    /\ sp_lock \in BOOLEAN
    /\ sp_at \in [Contexts -> Place]
    /\ sp_cur \in [SpinCpu -> SpinTask]
    /\ sp_handling \in SUBSET SpinCpu
    /\ sp_irq \in SUBSET SpinCpu
    /\ sp_was \in SUBSET Contexts
    /\ sp_preempt \in [SpinCpu -> Int]

\* A task near the lock is the current one.
CurrentNear == \A c \in SpinCpu : \A t \in SpinTask : sp_at[<<c, t>>] # "out" => sp_cur[c] = t

\* A CPU whose lock disables preemption only.
PreemptSide(c) ==
    /\ sp_at[<<c, "handler">>] = "out"
    /\ sp_preempt[c] = IF sp_at[<<c, sp_cur[c]>>] = "out" THEN 0 ELSE 1
    /\ c \in sp_irq <=> c \notin sp_handling

\* A CPU whose lock disables interrupts.
IrqSide(c) ==
    /\ sp_preempt[c] = 0
    /\ sp_at[<<c, sp_cur[c]>>] # "out" =>
          c \notin sp_handling /\ c \notin sp_irq /\ <<c, sp_cur[c]>> \in sp_was
    /\ sp_at[<<c, sp_cur[c]>>] = "out" /\ c \notin sp_handling => c \in sp_irq
    /\ c \in sp_handling => c \notin sp_irq
    /\ sp_at[<<c, "handler">>] # "out" => c \in sp_handling /\ <<c, "handler">> \notin sp_was

Sides ==
    \A c \in SpinCpu : IF guardian = "PreemptDisabled" THEN PreemptSide(c) ELSE IrqSide(c)

\* The lock word is set exactly when somebody is in the critical section.
Holder ==
    /\ \A x \in Contexts : sp_at[x] = "in" => sp_lock
    /\ sp_lock => \E x \in Contexts : sp_at[x] = "in"
    /\ \A x, y \in Contexts : sp_at[x] = "in" /\ sp_at[y] = "in" => x = y

SpinInv == SpinTypes /\ CurrentNear /\ Sides /\ Holder

-----------------------------------------------------------------------------
LEMMA RunningContext ==
    ASSUME SpinTypes, NEW c \in SpinCpu
    PROVE  /\ Running(c) \in Contexts
           /\ Running(c)[1] = c
           /\ Running(c)[2] = IF c \in sp_handling THEN "handler" ELSE sp_cur[c]
           /\ <<c, "handler">> \in Contexts
           /\ <<c, sp_cur[c]>> \in Contexts
BY Zenon DEF SpinTypes, Running, Contexts

LEMMA InitSpinInv ==
    ASSUME SpinTask # {}, "handler" \notin SpinTask, SpinInit
    PROVE  SpinInv
<1>1. (CHOOSE t \in SpinTask : TRUE) \in SpinTask
  BY Zenon
<1>2. SpinTypes
  <2>1. sp_cur \in [SpinCpu -> SpinTask]
    BY <1>1, Zenon DEF SpinInit
  <2>2. sp_at \in [Contexts -> Place] /\ sp_preempt \in [SpinCpu -> Int]
    BY SMTT(30) DEF SpinInit, Place
  <2>. QED
    BY <2>1, <2>2, Zenon DEF SpinInit, SpinTypes
<1>3. CurrentNear /\ Holder
  BY Zenon DEF SpinInit, CurrentNear, Holder, Contexts
<1>4. Sides
  BY <1>1, <1>2, Zenon DEF SpinInit, Sides, PreemptSide, IrqSide, SpinTypes, Contexts
<1>. QED
  BY <1>2, <1>3, <1>4, Zenon DEF SpinInv

LEMMA LockSpinInv ==
    ASSUME SpinInv, NEW c \in SpinCpu, lock(Running(c)) \/ try_lock(Running(c))
    PROVE  SpinInv'
<1>. DEFINE x == Running(c)
<1>1. x \in Contexts /\ x = <<c, IF c \in sp_handling THEN "handler" ELSE sp_cur[c]>>
  BY RunningContext, Zenon DEF SpinInv, Running
<1>. USE DEF SpinInv
<1>2. PICK p \in {"lock", "try"} : sp_at' = [sp_at EXCEPT ![x] = p]
  BY Zenon DEF lock, try_lock, GoTo
<1>3. /\ sp_at[x] = "out" /\ Uses(x) /\ guard(x)
      /\ UNCHANGED <<guardian, sp_lock, sp_cur, sp_handling>>
  BY Zenon DEF lock, try_lock
<1>4. SpinTypes'
  BY <1>1, <1>2, <1>3, SMTT(30) DEF SpinTypes, Place, guard, disable_local, disable_preempt
<1>5. CurrentNear'
  BY <1>1, <1>2, <1>3, SMTT(30) DEF SpinTypes, CurrentNear, Contexts
<1>6. Holder'
  BY <1>1, <1>2, <1>3, Zenon DEF SpinTypes, Holder
<1>7. ASSUME NEW d \in SpinCpu
      PROVE  (IF guardian = "PreemptDisabled" THEN PreemptSide(d) ELSE IrqSide(d))'
  <2>1. CASE guardian = "PreemptDisabled"
    BY <2>1, <1>1, <1>2, <1>3, SMTT(30) DEF SpinTypes, Sides, PreemptSide, guard, disable_preempt, Uses, Contexts
  <2>2. CASE guardian # "PreemptDisabled"
    BY <2>2, <1>1, <1>2, <1>3, SMTT(30) DEF SpinTypes, Sides, IrqSide, guard, disable_local, Contexts
  <2>. QED
    BY <2>1, <2>2, Zenon
<1>. QED
  BY <1>4, <1>5, <1>6, <1>7, Zenon DEF Sides

LEMMA AcquireSpinInv ==
    ASSUME SpinInv, NEW c \in SpinCpu, acquire_lock(Running(c)) \/ try_acquire_lock(Running(c))
    PROVE  SpinInv'
<1>. DEFINE x == Running(c)
<1>1. x \in Contexts /\ x = <<c, IF c \in sp_handling THEN "handler" ELSE sp_cur[c]>>
  BY RunningContext, Zenon DEF SpinInv, Running
<1>. USE DEF SpinInv
<1>2. PICK p \in {"in", "unguard"} :
        /\ sp_at' = [sp_at EXCEPT ![x] = p]
        /\ p = "in" <=> ~ sp_lock
  BY Zenon DEF acquire_lock, try_acquire_lock, GoTo, SpinTypes
<1>3. /\ sp_at[x] \notin {"out", "in"} /\ sp_lock'
      /\ UNCHANGED <<guardian, sp_cur, sp_handling, sp_irq, sp_was, sp_preempt>>
  BY Zenon DEF acquire_lock, try_acquire_lock
<1>4. SpinTypes'
  BY <1>1, <1>2, <1>3, Zenon DEF SpinTypes, Place, acquire_lock, try_acquire_lock
<1>5. CurrentNear'
  BY <1>1, <1>2, <1>3, SMTT(30) DEF SpinTypes, CurrentNear, Contexts
<1>6. Holder'
  BY <1>1, <1>2, <1>3, Zenon DEF SpinTypes, Holder
<1>7. Sides'
  BY <1>1, <1>2, <1>3, ZenonT(40) DEF SpinTypes, Sides, PreemptSide, IrqSide, Contexts
<1>. QED
  BY <1>4, <1>5, <1>6, <1>7, Zenon

LEMMA ReleaseSpinInv ==
    ASSUME SpinInv, NEW c \in SpinCpu, release_lock(Running(c))
    PROVE  SpinInv'
<1>. DEFINE x == Running(c)
<1>1. x \in Contexts /\ x = <<c, IF c \in sp_handling THEN "handler" ELSE sp_cur[c]>>
  BY RunningContext, Zenon DEF SpinInv, Running
<1>. USE DEF SpinInv, release_lock, GoTo
<1>2. SpinTypes'
  BY <1>1, Zenon DEF SpinTypes, Place
<1>3. CurrentNear'
  BY <1>1, Zenon DEF SpinTypes, CurrentNear, Contexts
<1>4. Holder'
  BY <1>1, Zenon DEF SpinTypes, Holder
<1>5. Sides'
  BY <1>1, ZenonT(40) DEF SpinTypes, Sides, PreemptSide, IrqSide, Contexts
<1>. QED
  BY <1>2, <1>3, <1>4, <1>5, Zenon

LEMMA DropSpinGuardInv ==
    ASSUME SpinInv, NEW c \in SpinCpu, DropSpinGuard(Running(c))
    PROVE  SpinInv'
<1>. DEFINE x == Running(c)
<1>1. x \in Contexts /\ x = <<c, IF c \in sp_handling THEN "handler" ELSE sp_cur[c]>>
  BY RunningContext, Zenon DEF SpinInv, Running
<1>. USE DEF SpinInv, DropSpinGuard, GoTo
<1>2. SpinTypes'
  BY <1>1, SMTT(30) DEF SpinTypes, Place, GuardDropped
<1>3. CurrentNear'
  BY <1>1, Zenon DEF SpinTypes, CurrentNear, Contexts
<1>4. Holder'
  BY <1>1, Zenon DEF SpinTypes, Holder
<1>5. ASSUME NEW d \in SpinCpu
      PROVE  (IF guardian = "PreemptDisabled" THEN PreemptSide(d) ELSE IrqSide(d))'
  <2>1. CASE guardian = "PreemptDisabled"
    BY <2>1, <1>1, SMTT(30) DEF SpinTypes, Sides, PreemptSide, GuardDropped, Contexts
  <2>2. CASE guardian # "PreemptDisabled"
    BY <2>2, <1>1, SMTT(30) DEF SpinTypes, Sides, IrqSide, GuardDropped, Contexts
  <2>. QED
    BY <2>1, <2>2, Zenon
<1>. QED
  BY <1>2, <1>3, <1>4, <1>5, Zenon DEF Sides

LEMMA InterruptSpinInv ==
    ASSUME SpinInv, NEW c \in SpinCpu, Interrupt(c) \/ InterruptReturns(c)
    PROVE  SpinInv'
<1>. USE DEF SpinInv, Interrupt, InterruptReturns
<1>1. SpinTypes'
  BY Zenon DEF SpinTypes
<1>2. CurrentNear' /\ Holder'
  BY SMTT(30) DEF CurrentNear, Holder
<1>3. ASSUME NEW d \in SpinCpu
      PROVE  (IF guardian = "PreemptDisabled" THEN PreemptSide(d) ELSE IrqSide(d))'
  <2>1. CASE guardian = "PreemptDisabled"
    BY <2>1, Zenon DEF SpinTypes, Sides, PreemptSide
  <2>2. CASE guardian # "PreemptDisabled"
    BY <2>2, Zenon DEF SpinTypes, Sides, IrqSide
  <2>. QED
    BY <2>1, <2>2, Zenon
<1>. QED
  BY <1>1, <1>2, <1>3, Zenon DEF Sides

LEMMA PreemptSpinInv ==
    ASSUME SpinInv, NEW c \in SpinCpu, NEW t \in SpinTask, Preempt(c, t)
    PROVE  SpinInv'
<1>. USE DEF SpinInv, Preempt
<1>1. sp_at[<<c, sp_cur[c]>>] = "out" /\ sp_at[<<c, t>>] = "out"
  <2>1. CASE guardian = "PreemptDisabled"
    <3>1. PreemptSide(c)
      BY <2>1, Zenon DEF Sides
    <3>2. sp_at[<<c, sp_cur[c]>>] = "out"
      BY <3>1, 0 # 1, Zenon DEF PreemptSide
    <3>. QED
      BY <3>2, Zenon DEF CurrentNear
  <2>2. CASE guardian # "PreemptDisabled"
    BY <2>2, Zenon DEF Sides, IrqSide, CurrentNear
  <2>. QED
    BY <2>1, <2>2, Zenon
<1>2. SpinTypes'
  BY Zenon DEF SpinTypes
<1>3. CurrentNear' /\ Holder'
  BY <1>1, Zenon DEF SpinTypes, CurrentNear, Holder
<1>4. ASSUME NEW d \in SpinCpu
      PROVE  (IF guardian = "PreemptDisabled" THEN PreemptSide(d) ELSE IrqSide(d))'
  BY <1>1, Zenon DEF SpinTypes, Sides, PreemptSide, IrqSide
<1>. QED
  BY <1>2, <1>3, <1>4, Zenon DEF Sides

LEMMA NextSpinInv == SpinInv /\ [SpinNext]_spinVars => SpinInv'
<1>. SUFFICES ASSUME SpinInv, [SpinNext]_spinVars PROVE SpinInv'
  BY Zenon
<1>1. CASE UNCHANGED spinVars
  BY <1>1, ZenonT(40) DEF spinVars, SpinInv, SpinTypes, CurrentNear, Sides, PreemptSide, IrqSide, Holder
<1>2. CASE SpinNext
  BY <1>2, LockSpinInv, AcquireSpinInv, ReleaseSpinInv, DropSpinGuardInv, InterruptSpinInv, PreemptSpinInv, Zenon DEF SpinNext
<1>. QED
  BY <1>1, <1>2, Zenon

LEMMA SpinInvSpinsEnd == SpinInv => SpinsEnd
<1>. SUFFICES ASSUME SpinInv PROVE SpinsEnd
  BY Zenon
<1>. DEFINE Inside == {x \in Contexts : sp_at[x] = "in"}
<1>1. ASSUME NEW c \in SpinCpu, NEW t \in SpinTask, sp_at[<<c, t>>] = "in", Running(c) # <<c, t>>
      PROVE  sp_at[Running(c)] # "lock"
  <2>1. sp_cur[c] = t /\ c \in sp_handling /\ Running(c) = <<c, "handler">>
    BY <1>1, Zenon DEF SpinInv, CurrentNear, Running
  <2>2. sp_at[<<c, "handler">>] = "out"
    BY <1>1, <2>1, Zenon DEF SpinInv, Sides, PreemptSide, IrqSide
  <2>. QED
    BY <2>1, <2>2, Zenon
<1>2. Cardinality(Inside) = IF sp_lock THEN 1 ELSE 0
  <2>1. CASE sp_lock
    <3>1. PICK x \in Contexts : sp_at[x] = "in"
      BY <2>1, Zenon DEF SpinInv, Holder
    <3>2. Inside = {x}
      BY <3>1, Zenon DEF SpinInv, Holder
    <3>. QED
      BY <2>1, <3>2, FS_Singleton, Zenon
  <2>2. CASE ~ sp_lock
    <3>1. Inside = {}
      BY <2>2, Zenon DEF SpinInv, Holder
    <3>. QED
      BY <2>2, <3>1, FS_EmptySet, Zenon
  <2>. QED
    BY <2>1, <2>2, Zenon
<1>3. ASSUME NEW c \in SpinCpu, \A t \in SpinTask : sp_at[<<c, t>>] = "out", c \notin sp_handling
      PROVE  c \in sp_irq /\ sp_preempt[c] = 0
  BY <1>3, Zenon DEF SpinInv, SpinTypes, Sides, PreemptSide, IrqSide
<1>. QED
  BY <1>1, <1>2, <1>3, Zenon DEF SpinsEnd

\* For any CPUs and tasks: nobody spins for a lock whose holder is suspended on
\* the same CPU, the critical section has one context at most, and the guards
\* leave interrupts and preemption as they were (lock, try_lock, the drop of
\* SpinLockGuard, interrupts and preemption at any point between them).
THEOREM SpinLockSafe ==
    ASSUME SpinTask # {}, "handler" \notin SpinTask
    PROVE  SpinSpec => []SpinsEnd
BY InitSpinInv, NextSpinInv, SpinInvSpinsEnd, PTL DEF SpinSpec
=============================================================================

--------------------------------- MODULE Rcu ---------------------------------
(***************************************************************************)
(* sync/rcu: one RcuOption slot and the RcuMonitor that delays the drop of   *)
(* what is taken out of it until every CPU has switched tasks.               *)
(*                                                                           *)
(* A read guard disables preemption, so it belongs to the CPU it was taken   *)
(* on.  Tasks inside update and finish_grace_period may be preempted, and    *)
(* moved, between any two of their steps; the CPU then takes other guards.   *)
(* The monitor's state is guarded by a spin lock that disables interrupts:   *)
(* what is done under it is one step.  Addresses are reused once freed.      *)
(***************************************************************************)
CONSTANTS
    CPU,
    Task,       \* tasks that update the slot
    Obj,        \* the addresses the allocator has
    Null,       \* no object
    NoGuard     \* no read guard

ASSUME RcuAssumption ==
    /\ CPU \cap Task = {} /\ CPU # {}
    /\ Null \notin Obj /\ NoGuard \notin Obj \cup {Null}

VARIABLES
    ptr,            \* RcuInner::ptr
    allocated,      \* the addresses in use
    held,           \* obj_ptr of the read guards on each CPU
    old,            \* taken out of the slot, not handed to the monitor yet
    is_monitoring,
    current_gp,     \* [callbacks, cpu_mask, is_complete]
    next_callbacks,
    locking,        \* CPUs with a task in finish_grace_period, past the fast path
    callbacks       \* taken from the monitor by such a task, to be invoked

slotVars == <<ptr, allocated, held, old>>
monitorVars == <<is_monitoring, current_gp, next_callbacks>>
switchVars == <<locking, callbacks>>
vars == <<slotVars, monitorVars, switchVars>>

Actor == CPU \cup Task

\* A callback is named by the object it drops.
GracePeriod == [callbacks : SUBSET Obj, cpu_mask : SUBSET CPU, is_complete : BOOLEAN]

TypeOK ==
    /\ ptr \in Obj \cup {Null}
    /\ allocated \subseteq Obj
    /\ held \in [CPU -> Obj \cup {Null, NoGuard}]
    /\ old \in [Actor -> Obj \cup {Null}]
    /\ is_monitoring \in BOOLEAN
    /\ current_gp \in GracePeriod
    /\ next_callbacks \subseteq Obj
    /\ locking \subseteq CPU
    /\ callbacks \subseteq Obj

Init ==
    /\ ptr = Null /\ allocated = {}
    /\ held = [c \in CPU |-> NoGuard]
    /\ old = [a \in Actor |-> Null]
    /\ is_monitoring = FALSE
    /\ current_gp = [callbacks |-> {}, cpu_mask |-> {}, is_complete |-> TRUE]
    /\ next_callbacks = {}
    /\ locking = {}
    /\ callbacks = {}

-----------------------------------------------------------------------------
(* The slot *)

\* read, read_with: preemption is disabled before the pointer is loaded.
Read(c) ==
    /\ held[c] = NoGuard
    /\ held' = [held EXCEPT ![c] = ptr]
    /\ UNCHANGED <<ptr, allocated, old, monitorVars, switchVars>>

\* The guard goes; one that is consumed by compare_exchange stays until
\* delay_drop has returned.
DropGuard(c) ==
    /\ held[c] # NoGuard /\ old[c] = Null
    /\ held' = [held EXCEPT ![c] = NoGuard]
    /\ UNCHANGED <<ptr, allocated, old, monitorVars, switchVars>>

\* The slot is given new, a fresh allocation or nothing, and its old content to a.
Replace(a, new) ==
    /\ new \in (Obj \ allocated) \cup {Null}
    /\ ptr' = new
    /\ allocated' = (allocated \cup {new}) \ {Null}
    /\ old' = [old EXCEPT ![a] = ptr]

\* update: swap, before delay_drop.
Update(t, new) ==
    /\ old[t] = Null
    /\ Replace(t, new)
    /\ UNCHANGED <<held, monitorVars, switchVars>>

\* RcuReadGuardInner::compare_exchange, before delay_drop.  When it fails the
\* caller gets its pointer back, and the guard is dropped.
CompareExchange(c, new) ==
    /\ held[c] # NoGuard /\ old[c] = Null
    /\ IF ptr = held[c]
       THEN Replace(c, new) /\ UNCHANGED held
       ELSE held' = [held EXCEPT ![c] = NoGuard] /\ UNCHANGED <<ptr, allocated, old>>
    /\ UNCHANGED <<monitorVars, switchVars>>

-----------------------------------------------------------------------------
(* RcuMonitor *)

\* GracePeriod::restart
restart(fs) ==
    current_gp' = [callbacks |-> fs, cpu_mask |-> {}, is_complete |-> FALSE]

\* Mutant: a callback joins the grace period that is under way.
AfterGracePeriodJoining(a) ==
    /\ old[a] # Null
    /\ old' = [old EXCEPT ![a] = Null]
    /\ current_gp' = [current_gp EXCEPT !.callbacks = @ \cup {old[a]}, !.is_complete = FALSE]
    /\ is_monitoring' = TRUE
    /\ UNCHANGED <<ptr, allocated, held, next_callbacks, switchVars>>

\* Mutant: no grace period is started.
AfterGracePeriodUnmonitored(a) ==
    /\ old[a] # Null
    /\ old' = [old EXCEPT ![a] = Null]
    /\ next_callbacks' = next_callbacks \cup {old[a]}
    /\ UNCHANGED <<ptr, allocated, held, is_monitoring, current_gp, switchVars>>

\* after_grace_period, called by delay_drop with the callback that drops old[a].
after_grace_period(a) ==
    /\ old[a] # Null
    /\ old' = [old EXCEPT ![a] = Null]
    /\ IF ~current_gp.is_complete
       THEN /\ next_callbacks' = next_callbacks \cup {old[a]}
            /\ UNCHANGED <<is_monitoring, current_gp>>
       ELSE /\ restart(next_callbacks \cup {old[a]})
            /\ next_callbacks' = {}
            /\ is_monitoring' = TRUE
    /\ UNCHANGED <<ptr, allocated, held, switchVars>>

\* finish_grace_period, called by switch_to_task: the fast path.
CheckMonitoring(c) ==
    /\ is_monitoring /\ c \notin locking
    /\ locking' = locking \cup {c}
    /\ UNCHANGED <<slotVars, monitorVars, callbacks>>

\* CpuSet::is_full
is_full(mask) == mask = CPU

\* finish_grace_period under the lock.  The task has preemption enabled, so no
\* guard is held on the CPU it runs on.
finish_grace_period(c) ==
    /\ c \in locking /\ held[c] = NoGuard
    /\ locking' = locking \ {c}
    /\ LET mask == current_gp.cpu_mask \cup {c} IN
        \/ /\ current_gp.is_complete
           /\ UNCHANGED <<monitorVars, callbacks>>
        \/ /\ ~current_gp.is_complete /\ ~is_full(mask)
           /\ current_gp' = [current_gp EXCEPT !.cpu_mask = mask]
           /\ UNCHANGED <<is_monitoring, next_callbacks, callbacks>>
        \/ /\ ~current_gp.is_complete /\ is_full(mask)
           /\ callbacks' = callbacks \cup current_gp.callbacks
           /\ IF next_callbacks # {}
              THEN restart(next_callbacks) /\ next_callbacks' = {} /\ UNCHANGED is_monitoring
              ELSE /\ current_gp' = [callbacks |-> {}, cpu_mask |-> mask, is_complete |-> TRUE]
                   /\ is_monitoring' = FALSE
                   /\ UNCHANGED next_callbacks
    /\ UNCHANGED slotVars

\* The callbacks are invoked without the lock.
Invoke(o) ==
    /\ o \in callbacks
    /\ callbacks' = callbacks \ {o}
    /\ allocated' = allocated \ {o}
    /\ UNCHANGED <<ptr, held, old, monitorVars, locking>>

-----------------------------------------------------------------------------
Next ==
    \/ \E c \in CPU :
        \/ Read(c)
        \/ DropGuard(c)
        \/ \E new \in Obj \cup {Null} : CompareExchange(c, new)
        \/ CheckMonitoring(c)
        \/ finish_grace_period(c)
    \/ \E t \in Task, new \in Obj \cup {Null} : Update(t, new)
    \/ \E a \in Actor : after_grace_period(a)
    \/ \E o \in Obj : Invoke(o)

\* Read sections end, calls return, and every CPU keeps switching tasks.
Fairness ==
    /\ \A c \in CPU : /\ WF_vars(DropGuard(c))
                      /\ WF_vars(CheckMonitoring(c))
                      /\ SF_vars(finish_grace_period(c))
    /\ \A a \in Actor : WF_vars(after_grace_period(a))
    /\ \A o \in Obj : WF_vars(Invoke(o))

Spec == Init /\ [][Next]_vars /\ Fairness

-----------------------------------------------------------------------------
\* "The guard ensures that P will not be dropped": while a guard exists its
\* object is allocated.  So a compare_exchange that finds the address it has
\* read finds the object it has read.
GuardsKeepObjects == \A c \in CPU : held[c] \in Obj => held[c] \in allocated

\* Taken out of the slot and not yet dropped.
Retired ==
    current_gp.callbacks \cup next_callbacks \cup callbacks \cup ({old[a] : a \in Actor} \ {Null})

\* An object is dropped exactly once: every allocated object is in the slot or
\* in the one place that leads to its callback.
DroppedOnce ==
    /\ allocated = ({ptr} \cup Retired) \ {Null}
    /\ ptr \notin Retired
    /\ current_gp.callbacks \cap next_callbacks = {}
    /\ callbacks \cap (current_gp.callbacks \cup next_callbacks) = {}
    /\ \A a \in Actor :
        /\ old[a] \notin current_gp.callbacks \cup next_callbacks \cup callbacks
        /\ \A b \in Actor \ {a} : old[a] = old[b] => old[a] = Null

\* The fast path never hides a callback: is_monitoring is set whenever the
\* monitor has one.
MonitoringWhenNeeded == current_gp.callbacks \cup next_callbacks # {} => is_monitoring

\* What readers hold stays, what is replaced is dropped once, and no callback
\* waits where nobody looks.
SafeReclamation == GuardsKeepObjects /\ DroppedOnce /\ MonitoringWhenNeeded

\* What is taken out of the slot is dropped in the end.
RetiredIsDropped == \A o \in Obj : (o \in Retired) ~> (o \notin allocated)
=============================================================================

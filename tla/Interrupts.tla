----------------------------- MODULE Interrupts -----------------------------
(* Interrupts (trap/): lines with their callbacks, and the contexts of one CPU. *)
(* The two parts share no state.                                            *)
EXTENDS Integers, Sequences, SequencesExt, FiniteSets

-----------------------------------------------------------------------------
(***************************************************************************)
(* Interrupt lines and their callbacks (trap/irq.rs).  A line is a number  *)
(* from an IdAlloc shared by its clones through an Arc; each clone keeps   *)
(* the handles of the callbacks registered through it.  Dropping a line    *)
(* drops its fields in order: the shared number first, which is freed with *)
(* the last clone, then the callback handles one by one.  A callback is    *)
(* found in the vector of its line by the address of its box.              *)
(***************************************************************************)

CONSTANTS
    IrqIndex,       \* the indices of the interrupt lines
    LineHandle,     \* places an IrqLine can be kept in
    Callback,       \* the closures that may be registered
    CallbackAddr    \* the address of the box of each closure

VARIABLES
    irq_ids,        \* the allocated indices
    line,           \* the IrqLine in each place: its index and its callback handles
    callbacks,      \* the vector of boxes of each index
    irq_panic       \* an unwrap has failed

irqVars == <<irq_ids, line, callbacks, irq_panic>>

NoLine == [pc |-> "none", index |-> -1, handles |-> <<>>]

LinesInit ==
    /\ irq_ids = {}
    /\ line = [h \in LineHandle |-> NoLine]
    /\ callbacks = [i \in IrqIndex |-> <<>>]
    /\ irq_panic = FALSE

Clones(i) == {h \in LineHandle : line[h].pc = "live" /\ line[h].index = i}
Registered ==
    UNION {Range(callbacks[i]) : i \in IrqIndex} \cup UNION {Range(line[h].handles) : h \in LineHandle}

-----------------------------------------------------------------------------
(* IrqLine::alloc_specific (alloc chooses the index itself); an index in    *)
(* use is NotEnoughResources.                                               *)
alloc_specific(h, i) ==
    /\ line[h] = NoLine
    /\ i \notin irq_ids
    /\ irq_ids' = irq_ids \cup {i}
    /\ line' = [line EXCEPT ![h] = [pc |-> "live", index |-> i, handles |-> <<>>]]
    /\ UNCHANGED <<callbacks, irq_panic>>

clone(h, dest) ==
    /\ line[h].pc = "live"
    /\ line[dest] = NoLine
    /\ line' = [line EXCEPT ![dest] = [pc |-> "live", index |-> line[h].index, handles |-> <<>>]]
    /\ UNCHANGED <<irq_ids, callbacks, irq_panic>>

on_active(h, c) ==
    /\ line[h].pc = "live"
    /\ c \notin Registered
    /\ callbacks' = [callbacks EXCEPT ![line[h].index] = Append(@, c)]
    /\ line' = [line EXCEPT ![h].handles = Append(@, c)]
    /\ UNCHANGED <<irq_ids, irq_panic>>

(* Drop of the line: the Arc goes first, and with the last clone the number. *)
DropInner(h) ==
    /\ line[h].pc = "live"
    /\ irq_ids' = IF Clones(line[h].index) = {h} THEN irq_ids \ {line[h].index} ELSE irq_ids
    /\ line' = [line EXCEPT ![h].pc = "dropping"]
    /\ UNCHANGED <<callbacks, irq_panic>>

(* swap_remove: the last element takes the place of the removed one. *)
swap_remove(v, pos) ==
    [i \in 1 .. Len(v) - 1 |-> IF i = pos THEN v[Len(v)] ELSE v[i]]

(* CallbackHandle::drop: the first box at the handle's address is removed.  *)
(* A handle whose box is gone panics.                                       *)
DropCallback(h) ==
    LET l == line[h]
        v == callbacks[l.index]
        c == Head(l.handles)
        matching == {p \in DOMAIN v : CallbackAddr[v[p]] = CallbackAddr[c]} IN
    /\ l.pc = "dropping"
    /\ l.handles # <<>>
    /\ IF matching = {}
       THEN irq_panic' = TRUE /\ UNCHANGED <<callbacks, line>>
       ELSE /\ LET pos == CHOOSE p \in matching : \A q \in matching : p <= q
               IN  callbacks' = [callbacks EXCEPT ![l.index] = swap_remove(v, pos)]
            /\ line' = [line EXCEPT ![h].handles = Tail(@)]
            /\ UNCHANGED irq_panic
    /\ UNCHANGED irq_ids

DropReturns(h) ==
    /\ line[h].pc = "dropping"
    /\ line[h].handles = <<>>
    /\ line' = [line EXCEPT ![h] = NoLine]
    /\ UNCHANGED <<irq_ids, callbacks, irq_panic>>

LinesNext ==
    \E h \in LineHandle :
       \/ \E i \in IrqIndex : alloc_specific(h, i)
       \/ \E dest \in LineHandle : clone(h, dest)
       \/ \E c \in Callback : on_active(h, c)
       \/ DropInner(h) \/ DropCallback(h) \/ DropReturns(h)

-----------------------------------------------------------------------------
HandlesOf(i) == UNION {Range(line[h].handles) : h \in {g \in LineHandle : line[g].index = i}}
Count(i) == Cardinality(HandlesOf(i))

(* The number of an interrupt line is taken exactly while a clone is alive, *)
(* as many callbacks run on an interrupt as there are handles on its line   *)
(* in every clone, also while lines are being dropped by several threads,   *)
(* and no handle ever fails to find a callback to unregister.               *)
CallbacksCounted ==
    /\ ~ irq_panic
    /\ irq_ids = {line[h].index : h \in {g \in LineHandle : line[g].pc = "live"}}
    /\ \A i \in IrqIndex : Len(callbacks[i]) = Count(i)

(* The callbacks that run on an interrupt are the ones whose handles exist. *)
CallbacksFollowHandles == \A i \in IrqIndex : Range(callbacks[i]) = HandlesOf(i)

(* A line is handed out without callbacks on it. *)
FreshLineSilent ==
    \A i \in IrqIndex : i \notin irq_ids => callbacks[i] = <<>>

-----------------------------------------------------------------------------
(***************************************************************************)
(* Interrupts on one CPU (trap/irq.rs, trap/handler.rs): the guards that   *)
(* disable them, and the handling of an interrupt with its top half and,   *)
(* at the first level, a bottom half that runs with interrupts enabled.    *)
(*                                                                         *)
(* The contexts on the CPU form a stack: the task at the bottom, each      *)
(* interrupt above what it interrupted.  Only the top one runs.            *)
(***************************************************************************)

CONSTANT MaxGuards   \* guards one context keeps at a time

VARIABLES
    irq_enabled,     \* interrupts are enabled on the CPU
    INTERRUPT_NESTED_LEVEL,
    preempt_count,   \* guards against preemption
    stack,           \* the contexts; each has a pc and its irq guards
    bottom_handler   \* a bottom half handler is registered

irqCtxVars == <<irq_enabled, INTERRUPT_NESTED_LEVEL, preempt_count, stack, bottom_handler>>

(* A context with the recorded was_enabled flags of its live guards. *)
Context(pc) == [pc |-> pc, guards |-> <<>>]
Top == stack[Len(stack)]

ContextsInit ==
    /\ irq_enabled = TRUE
    /\ INTERRUPT_NESTED_LEVEL = 0
    /\ preempt_count = 0
    /\ stack = <<Context("task")>>
    /\ bottom_handler = FALSE

-----------------------------------------------------------------------------
(* Guards, in a task, in a callback of the top half, or in the bottom half. *)
UsesGuards == Top.pc \in {"task", "top", "bottom"}

disable_local ==
    /\ UsesGuards
    /\ Len(Top.guards) < MaxGuards
    /\ stack' = [stack EXCEPT ![Len(stack)].guards = Append(@, irq_enabled)]
    /\ irq_enabled' = FALSE
    /\ UNCHANGED <<INTERRUPT_NESTED_LEVEL, preempt_count, bottom_handler>>

(* DisabledLocalIrqGuard::drop, in any order: the guard that found them     *)
(* enabled enables interrupts again whether or not other guards are left.   *)
GuardDrop(i) ==
    /\ UsesGuards
    /\ i \in DOMAIN Top.guards
    /\ irq_enabled' = (irq_enabled \/ Top.guards[i])
    /\ stack' = [stack EXCEPT ![Len(stack)].guards = RemoveAt(@, i)]
    /\ UNCHANGED <<INTERRUPT_NESTED_LEVEL, preempt_count, bottom_handler>>

(* transfer_to: a new guard takes over the duty of guard i. *)
transfer_to(i) ==
    /\ UsesGuards
    /\ i \in DOMAIN Top.guards
    /\ Len(Top.guards) < MaxGuards
    /\ stack' = [stack EXCEPT ![Len(stack)].guards =
                   Append([@ EXCEPT ![i] = FALSE], Top.guards[i])]
    /\ UNCHANGED <<irq_enabled, INTERRUPT_NESTED_LEVEL, preempt_count, bottom_handler>>

register_bottom_half_handler ==
    /\ Top.pc = "task"
    /\ bottom_handler' = TRUE
    /\ UNCHANGED <<irq_enabled, INTERRUPT_NESTED_LEVEL, preempt_count, stack>>

-----------------------------------------------------------------------------
Goto(pc) == stack' = [stack EXCEPT ![Len(stack)].pc = pc]

(* The hardware disables interrupts and enters call_irq_callback_functions. *)
Interrupt ==
    /\ irq_enabled
    /\ irq_enabled' = FALSE
    /\ stack' = Append(stack, Context("enter"))
    /\ UNCHANGED <<INTERRUPT_NESTED_LEVEL, preempt_count, bottom_handler>>

TopHalf ==
    /\ Top.pc = "enter"
    /\ INTERRUPT_NESTED_LEVEL' = INTERRUPT_NESTED_LEVEL + 1
    /\ Goto("top")
    /\ UNCHANGED <<irq_enabled, preempt_count, bottom_handler>>

(* The callbacks have returned and their guards are gone. *)
AfterTopHalfAnyLevel ==
    /\ Top.pc = "top"
    /\ Top.guards = <<>>
    /\ IF bottom_handler
       THEN preempt_count' = preempt_count + 1 /\ Goto("enable")
       ELSE Goto("leave") /\ UNCHANGED preempt_count
    /\ UNCHANGED <<irq_enabled, INTERRUPT_NESTED_LEVEL, bottom_handler>>

AfterTopHalf ==
    /\ Top.pc = "top"
    /\ Top.guards = <<>>
    /\ IF INTERRUPT_NESTED_LEVEL = 1 /\ bottom_handler
       THEN preempt_count' = preempt_count + 1 /\ Goto("enable")
       ELSE Goto("leave") /\ UNCHANGED preempt_count
    /\ UNCHANGED <<irq_enabled, INTERRUPT_NESTED_LEVEL, bottom_handler>>

(* process_bottom_half enables interrupts, takes a guard, and calls the     *)
(* handler with it.                                                         *)
BottomEnable ==
    /\ Top.pc = "enable"
    /\ irq_enabled' = TRUE
    /\ Goto("guard")
    /\ UNCHANGED <<INTERRUPT_NESTED_LEVEL, preempt_count, bottom_handler>>

BottomGuard ==
    /\ Top.pc = "guard"
    /\ stack' = [stack EXCEPT ![Len(stack)] = [pc |-> "bottom", guards |-> <<irq_enabled>>]]
    /\ irq_enabled' = FALSE
    /\ UNCHANGED <<INTERRUPT_NESTED_LEVEL, preempt_count, bottom_handler>>

(* The handler returns one guard, with interrupts disabled as the           *)
(* documentation of register_bottom_half_handler asks.  It is forgotten.    *)
BottomReturn ==
    /\ Top.pc = "bottom"
    /\ ~ irq_enabled
    /\ Len(Top.guards) = 1
    /\ stack' = [stack EXCEPT ![Len(stack)] = Context("leave")]
    /\ preempt_count' = preempt_count - 1
    /\ UNCHANGED <<irq_enabled, INTERRUPT_NESTED_LEVEL, bottom_handler>>

(* The return from the interrupt restores the flag it was taken with. *)
Leave ==
    /\ Top.pc = "leave"
    /\ INTERRUPT_NESTED_LEVEL' = INTERRUPT_NESTED_LEVEL - 1
    /\ stack' = SubSeq(stack, 1, Len(stack) - 1)
    /\ irq_enabled' = TRUE
    /\ UNCHANGED <<preempt_count, bottom_handler>>

ContextsNext ==
    \/ disable_local
    \/ \E i \in 1 .. MaxGuards : GuardDrop(i) \/ transfer_to(i)
    \/ register_bottom_half_handler
    \/ Interrupt \/ TopHalf \/ AfterTopHalf \/ BottomEnable \/ BottomGuard \/ BottomReturn \/ Leave

-----------------------------------------------------------------------------
Duties(c) == Cardinality({i \in DOMAIN c.guards : c.guards[i]})

(* Interrupts nest at most two deep and a bottom half is never re-entered;  *)
(* in the bottom half preemption is off.  Of the guards of a context, in    *)
(* whatever order they were created, transferred and dropped, exactly one   *)
(* has the duty to enable interrupts while they are disabled and none while *)
(* they are enabled, so the flag comes back once, and never in a top half,  *)
(* where the hardware has disabled them.                                    *)
IrqNesting ==
    /\ INTERRUPT_NESTED_LEVEL <= 2
    /\ Len(stack) <= 3
    /\ Cardinality({i \in DOMAIN stack : stack[i].pc \in {"enable", "guard", "bottom"}}) = preempt_count
    /\ preempt_count <= 1
    /\ Top.pc \in {"task", "bottom"} => Duties(Top) = IF irq_enabled THEN 0 ELSE 1
    /\ Top.pc \in {"enter", "top", "leave"} => ~ irq_enabled /\ Duties(Top) = 0

(* Interrupts are disabled as long as a context has a guard.  They are not  *)
(* when the guard with the duty is dropped before another.                  *)
GuardsKeepIrqsOff == UsesGuards /\ Top.guards # <<>> => ~ irq_enabled
=============================================================================

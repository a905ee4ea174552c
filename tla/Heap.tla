-------------------------------- MODULE Heap --------------------------------
(***************************************************************************)
(* Heap slots (mm/heap): slabs that keep their free slots in a list        *)
(* threaded through the free memory itself, lists of the injected          *)
(* allocator that mix the slots of several slabs, large slots that are     *)
(* forgotten segments, and the global allocator, which rebuilds a slot     *)
(* from a pointer and a layout.  The frames come from FrameAllocOptions.   *)
(***************************************************************************)
EXTENDS Integers, FiniteSets, Sequences

CONSTANTS
    HEAP_PAGE,      \* PAGE_SIZE
    SLOT_SIZE,
    HeapPages       \* physical addresses of the frames the heap may be given

NULL == 0
SlabSlot(a) == [addr |-> a, kind |-> "SlabSlot", size |-> SLOT_SIZE]
LargeSlot(p) == [addr |-> p, kind |-> "LargeSlot", size |-> HEAP_PAGE]
PageOf(a) == (a \div HEAP_PAGE) * HEAP_PAGE

VARIABLES
    slabs,          \* live slabs: page -> [head, nr_allocated]
    slot_list,      \* head of a SlabSlotList of the injected allocator
    words,          \* first word of every slot: a link, or -1 for the data of a user
    slots,          \* HeapSlots in the hands of the injected allocator
    objects,        \* what the global allocator gave out: [ptr, layout]
    leaked,         \* slots consumed by a failed dealloc
    heap_abort

heapVars == <<slabs, slot_list, words, slots, objects, leaked, heap_abort>>

Init ==
    /\ slabs = <<>>
    /\ slot_list = NULL
    /\ words = [a \in {p + o : p \in HeapPages, o \in 0..(HEAP_PAGE - 1)} |-> -1]
    /\ slots = {} /\ objects = {} /\ leaked = {}
    /\ heap_abort = FALSE

(* The slot of a layout, as the injected slot map chooses it. *)
Layouts == {[size |-> n, align |-> a] : n \in {1, SLOT_SIZE, HEAP_PAGE}, a \in {1, HEAP_PAGE}}
slot_size_from_layout(layout) ==
    IF layout.size <= SLOT_SIZE /\ layout.align <= SLOT_SIZE THEN SLOT_SIZE ELSE HEAP_PAGE

InUse(p) == \/ p \in DOMAIN slabs
            \/ \E s \in slots \cup leaked : s.kind = "LargeSlot" /\ s.addr = p
            \/ \E o \in objects : o.ptr = p /\ slot_size_from_layout(o.layout) = HEAP_PAGE
SetSlab(p, slab) == slabs' = [q \in DOMAIN slabs \cup {p} |-> IF q = p THEN slab ELSE slabs[q]]

-----------------------------------------------------------------------------
(* SlabSlotList::push and pop: the new head and the memory after it. *)
push(mem, head, a) == [head |-> a, words |-> [mem EXCEPT ![a] = head]]
pop(mem, head) == mem[head]

(* Slab::new pushes the slots in order of their offsets. *)
RECURSIVE PushAll(_, _, _, _)
PushAll(mem, head, a, end) ==
    IF a >= end THEN [head |-> head, words |-> mem]
    ELSE LET l == push(mem, head, a) IN PushAll(l.words, l.head, a + SLOT_SIZE, end)

new(p) ==
    /\ ~ InUse(p)
    /\ LET l == PushAll(words, NULL, p, p + HEAP_PAGE) IN
       SetSlab(p, [head |-> l.head, nr_allocated |-> 0]) /\ words' = l.words
    /\ UNCHANGED <<slot_list, slots, objects, leaked, heap_abort>>

(* SlabMeta::alloc; an empty list is an error that changes nothing. *)
alloc(p) ==
    /\ p \in DOMAIN slabs /\ slabs[p].head # NULL
    /\ slots' = slots \cup {SlabSlot(slabs[p].head)}
    /\ SetSlab(p, [head |-> pop(words, slabs[p].head),
                   nr_allocated |-> slabs[p].nr_allocated + 1])
    /\ UNCHANGED <<slot_list, words, objects, leaked, heap_abort>>

(* Slab::dealloc: a slot of another page is refused, and consumed. *)
dealloc(p, s) ==
    /\ p \in DOMAIN slabs /\ s \in slots /\ s.kind = "SlabSlot"
    /\ slots' = slots \ {s}
    /\ IF PageOf(s.addr) # p
       THEN leaked' = leaked \cup {s} /\ UNCHANGED <<slabs, words>>
       ELSE LET l == push(words, slabs[p].head, s.addr) IN
            /\ words' = l.words
            /\ SetSlab(p, [head |-> l.head, nr_allocated |-> slabs[p].nr_allocated - 1])
            /\ UNCHANGED leaked
    /\ UNCHANGED <<slot_list, objects, heap_abort>>

(* Dropping a slab: on_drop panics when slots are allocated. *)
on_drop(p) ==
    /\ p \in DOMAIN slabs
    /\ IF slabs[p].nr_allocated # 0
       THEN heap_abort' = TRUE /\ UNCHANGED slabs
       ELSE slabs' = [q \in DOMAIN slabs \ {p} |-> slabs[q]] /\ UNCHANGED heap_abort
    /\ UNCHANGED <<slot_list, words, slots, objects, leaked>>

(* The injected allocator's own list; push panics on a large slot. *)
Stash(s) ==
    /\ s \in slots
    /\ IF s.kind = "LargeSlot"
       THEN heap_abort' = TRUE /\ UNCHANGED <<slots, slot_list, words>>
       ELSE LET l == push(words, slot_list, s.addr) IN
            /\ slots' = slots \ {s} /\ slot_list' = l.head /\ words' = l.words
            /\ UNCHANGED heap_abort
    /\ UNCHANGED <<slabs, objects, leaked>>

Unstash ==
    /\ slot_list # NULL
    /\ slots' = slots \cup {SlabSlot(slot_list)}
    /\ slot_list' = pop(words, slot_list)
    /\ UNCHANGED <<slabs, words, objects, leaked, heap_abort>>

-----------------------------------------------------------------------------
(* Large slots of one page, the segment forgotten and taken back. *)
alloc_large(p) ==
    /\ ~ InUse(p)
    /\ slots' = slots \cup {LargeSlot(p)}
    /\ UNCHANGED <<slabs, slot_list, words, objects, leaked, heap_abort>>

dealloc_large(s) ==
    /\ s \in slots
    /\ IF s.kind = "LargeSlot" THEN slots' = slots \ {s} /\ UNCHANGED heap_abort
                               ELSE heap_abort' = TRUE /\ UNCHANGED slots
    /\ UNCHANGED <<slabs, slot_list, words, objects, leaked>>

(* AllocDispatch::alloc: the slot the injected allocator returns must match *)
(* the layout; the user then writes over it.                                *)
AllocDispatch_alloc(s, layout) ==
    /\ s \in slots
    /\ IF \/ slot_size_from_layout(layout) # s.size
          \/ s.size < layout.size
          \/ s.addr % layout.align # 0
       THEN heap_abort' = TRUE /\ UNCHANGED <<slots, objects, words>>
       ELSE /\ slots' = slots \ {s}
            /\ objects' = objects \cup {[ptr |-> s.addr, layout |-> layout]}
            /\ words' = [words EXCEPT ![s.addr] = -1]
            /\ UNCHANGED heap_abort
    /\ UNCHANGED <<slabs, slot_list, leaked>>

(* dealloc rebuilds the slot from the pointer and the layout. *)
AllocDispatch_dealloc(o) ==
    /\ slots' = slots \cup {IF slot_size_from_layout(o.layout) = SLOT_SIZE
                            THEN SlabSlot(o.ptr) ELSE LargeSlot(o.ptr)}
    /\ objects' = objects \ {o}
    /\ UNCHANGED <<slabs, slot_list, words, leaked, heap_abort>>

Next ==
    /\ ~ heap_abort
    /\ \/ \E p \in HeapPages : new(p) \/ alloc(p) \/ on_drop(p) \/ alloc_large(p)
       \/ \E p \in HeapPages, s \in slots : dealloc(p, s)
       \/ \E s \in slots : Stash(s) \/ dealloc_large(s)
       \/ Unstash
       \/ \E s \in slots, layout \in Layouts : AllocDispatch_alloc(s, layout)
       \/ \E o \in objects : AllocDispatch_dealloc(o)

-----------------------------------------------------------------------------
(* The slots of a list, in order; it ends at NULL, within the slots there are. *)
RECURSIVE Chain(_, _)
Chain(head, fuel) ==
    IF head = NULL \/ fuel = 0 THEN <<>> ELSE <<head>> \o Chain(words[head], fuel - 1)
SlotsOf(p) == {p + i * SLOT_SIZE : i \in 0..(HEAP_PAGE \div SLOT_SIZE - 1)}
AllSlots == UNION {SlotsOf(p) : p \in DOMAIN slabs}
ListedAt(l, a) == Cardinality({i \in DOMAIN l : l[i] = a})
Outside(a) == Cardinality({s \in slots \cup leaked : s.kind = "SlabSlot" /\ s.addr = a})
              + Cardinality({o \in objects : o.ptr = a /\ slot_size_from_layout(o.layout) = SLOT_SIZE})

(* Every slot of every live slab is in exactly one place: the free list of  *)
(* its slab, the allocator's list, in a hand, or an object; the lists hold  *)
(* no slot twice and none of a dropped slab, whatever users wrote over      *)
(* their slots; and nr_allocated counts exactly the slots outside the       *)
(* slab's own list.                                                         *)
SlotsAccounted ==
    LET n == Cardinality(AllSlots)
        own == [p \in DOMAIN slabs |-> Chain(slabs[p].head, n + 1)]
        stash == Chain(slot_list, n + 1) IN
    /\ \A p \in DOMAIN slabs : \A a \in SlotsOf(p) :
          ListedAt(own[p], a) + ListedAt(stash, a) + Outside(a) = 1
    /\ \A p \in DOMAIN slabs :
          /\ \A i \in DOMAIN own[p] : own[p][i] \in SlotsOf(p)
          /\ slabs[p].nr_allocated = HEAP_PAGE \div SLOT_SIZE - Len(own[p])
    /\ \A i \in DOMAIN stash : stash[i] \in AllSlots
    /\ \A s \in slots \cup leaked :
          IF s.kind = "SlabSlot" THEN s.addr \in AllSlots ELSE s.addr \notin DOMAIN slabs
=============================================================================

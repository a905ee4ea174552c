--------------------------- MODULE OwnedPointers ----------------------------
(* Pointers that own what they point to: RwArc, whose writing handles are   *)
(* counted, and pointers in one word.  The two parts share no state.        *)
EXTENDS Integers, FiniteSets

-----------------------------------------------------------------------------
(***************************************************************************)
(* RwArc (sync/rwarc.rs): shared data behind a read-write lock, with a     *)
(* count of the handles that can write; the only such handle may look at   *)
(* the data without the lock.  Read-only handles share the data and are    *)
(* not counted.  The lock is the one RwLock specifies; only its guards     *)
(* matter here.                                                            *)
(***************************************************************************)

CONSTANTS
    RwHandle,       \* handles that can write
    RoHandle        \* read-only handles

VARIABLES
    rw_live,        \* the live handles of each kind
    num_rw,
    rw_guards,      \* the guards held: [handle, kind], kind "read", "write" or "get"
    rw_midway       \* handles within clone or drop, the Arc cloned or still held

rwArcVars == <<rw_live, num_rw, rw_guards, rw_midway>>

Init ==
    /\ rw_live = {CHOOSE h \in RwHandle : TRUE}
    /\ num_rw = 1
    /\ rw_guards = {}
    /\ rw_midway = {}

Guards(h) == {g \in rw_guards : g.handle = h}
Idle(h) == h \in rw_live \ rw_midway
Give(h, kind) ==
    /\ rw_guards' = rw_guards \cup {[handle |-> h, kind |-> kind]}
    /\ UNCHANGED <<rw_live, num_rw, rw_midway>>

-----------------------------------------------------------------------------
(* read of either kind and write: borrow the handle, wait for the lock. *)
read(h) ==
    /\ Idle(h) /\ Guards(h) = {}
    /\ \A g \in rw_guards : g.kind # "write"
    /\ Give(h, "read")

write(h) ==
    /\ h \in RwHandle /\ Idle(h) /\ Guards(h) = {}
    /\ \A g \in rw_guards : g.kind = "get"
    /\ Give(h, "write")

getAny(h) ==
    /\ h \in RwHandle /\ Idle(h) /\ Guards(h) = {}
    /\ num_rw <= 2
    /\ Give(h, "get")

(* get takes the handle mutably, so nothing else borrows it. *)
get(h) ==
    /\ h \in RwHandle /\ Idle(h) /\ Guards(h) = {}
    /\ num_rw <= 1
    /\ Give(h, "get")

GuardEnds(g) ==
    /\ rw_guards' = rw_guards \ {g}
    /\ UNCHANGED <<rw_live, num_rw, rw_midway>>

(* clone: a shared borrow of a handle, which may have guards, but not the   *)
(* mutable borrow of get; the Arc first, then the counter, before the new   *)
(* handle exists.                                                           *)
clone(h, new) ==
    /\ h \in RwHandle /\ Idle(h) /\ \A g \in Guards(h) : g.kind # "get"
    /\ new \in RwHandle \ rw_live
    /\ rw_live' = rw_live \cup {new}
    /\ rw_midway' = rw_midway \cup {new, h}
    /\ UNCHANGED <<num_rw, rw_guards>>

CloneCounts(h, new) ==
    /\ {h, new} \subseteq rw_midway /\ h # new
    /\ rw_midway = {h, new}
    /\ num_rw' = num_rw + 1
    /\ rw_midway' = {}
    /\ UNCHANGED <<rw_live, rw_guards>>

clone_ro(h, new) ==
    /\ h \in RwHandle /\ Idle(h) /\ \A g \in Guards(h) : g.kind # "get"
    /\ new \in RoHandle \ rw_live
    /\ rw_live' = rw_live \cup {new}
    /\ UNCHANGED <<num_rw, rw_guards, rw_midway>>

(* drop: the counter, then the Arc. *)
drop(h) ==
    /\ Idle(h) /\ Guards(h) = {}
    /\ num_rw' = IF h \in RwHandle THEN num_rw - 1 ELSE num_rw
    /\ rw_live' = rw_live \ {h}
    /\ UNCHANGED <<rw_guards, rw_midway>>

Next ==
    \/ \E h \in RwHandle \cup RoHandle :
          \/ read(h) \/ write(h) \/ get(h) \/ drop(h)
          \/ \E new \in RwHandle : (rw_midway = {} /\ clone(h, new)) \/ CloneCounts(h, new)
          \/ \E new \in RoHandle : clone_ro(h, new)
    \/ \E g \in rw_guards : GuardEnds(g)

-----------------------------------------------------------------------------
(* A reference obtained without the lock never coexists with a write guard  *)
(* of any handle, although handles are cloned, dropped and turned read-only *)
(* by others meanwhile; the counter is never below the handles that can     *)
(* write.                                                                   *)
LocklessReadSafe ==
    /\ (\E g \in rw_guards : g.kind = "get") => \A g \in rw_guards : g.kind # "write"
    /\ Cardinality({g \in rw_guards : g.kind = "write"}) <= 1
    /\ num_rw >= Cardinality((rw_live \cap RwHandle) \ rw_midway)

-----------------------------------------------------------------------------
(***************************************************************************)
(* The owned pointers RCU stores in one atomic word, after                 *)
(* sync/rcu/non_null/mod.rs, sync/rcu/non_null/either.rs and               *)
(* mm/frame/frame_ref.rs.                                                  *)
(*                                                                         *)
(* A `NonNullPtr` is turned into a raw address by `into_raw`, which keeps  *)
(* its ownership, and back by `from_raw`.  `raw_as_ref` borrows the owner  *)
(* behind a raw address without counting, `ref_as_raw` gives the borrow's  *)
(* address back.  `Either<L, R>` has no word of its own: it hides which    *)
(* side it is in an alignment bit of the side's address, and may be nested *)
(* as long as alignment bits are left.                                     *)
(*                                                                         *)
(* A pointer type is a leaf [kind, ALIGN_BITS] (a Box, an Arc or a Frame)  *)
(* or [kind |-> "Either", L, R]; a value of an Either is a record with its *)
(* side and the value in it, a value of a leaf the address it points at.   *)
(***************************************************************************)

CONSTANTS
    PtrType,    \* the pointer types P that RCU is instantiated with
    PtrHandle,  \* the places of the program that hold a pointer
    TOP_ADDR    \* addresses are 1 .. TOP_ADDR

VARIABLES
    ptr_type,   \* the P of this execution
    memory,     \* memory[a]: what lives at address a: [kind, count] or NoObject
    holds       \* holds[h]: what place h holds

ptrVars == <<ptr_type, memory, holds>>

NoObject == [kind |-> "free", count |-> 0]
Nothing == [as |-> "nothing"]

min(a, b) == IF a < b THEN a ELSE b

\* `ALIGN_BITS` of a type; an Either of pointers without a spare bit is
\* rejected when the constant is evaluated, which -1 stands for.
RECURSIVE ALIGN_BITS(_)
ALIGN_BITS(t) ==
    IF t.kind # "Either" THEN t.align_bits
    ELSE LET least == min(ALIGN_BITS(t.L), ALIGN_BITS(t.R))
         IN  IF least < 1 THEN -1 ELSE least - 1

TagBit(t) == 2 ^ ALIGN_BITS(t)

\* addr | bit and addr & bit for a single bit.
BitOf(addr, bit) == (addr \div bit) % 2
WithBit(addr, bit) == IF BitOf(addr, bit) = 1 THEN addr ELSE addr + bit

\* `remove_bits`: the bit that was set, and the address without it.
remove_bits(addr, bit) == <<BitOf(addr, bit) * bit, addr - BitOf(addr, bit) * bit>>

RECURSIVE into_raw_addr(_, _)
into_raw_addr(t, v) ==
    CASE t.kind # "Either"  -> v
      [] v.side = "Left"    -> into_raw_addr(t.L, v.val)
      [] v.side = "Right"   -> WithBit(into_raw_addr(t.R, v.val), TagBit(t))

RECURSIVE from_raw_value(_, _)
from_raw_value(t, addr) ==
    IF t.kind # "Either" THEN addr
    ELSE LET removed == remove_bits(addr, TagBit(t))
         IN  IF removed[1] = 0
             THEN [side |-> "Left", val |-> from_raw_value(t.L, removed[2])]
             ELSE [side |-> "Right", val |-> from_raw_value(t.R, removed[2])]

\* The type and the address of the object a value owns.
RECURSIVE Leaf(_, _)
Leaf(t, v) ==
    CASE t.kind # "Either" -> [kind |-> t.kind, at |-> v]
      [] v.side = "Left"   -> Leaf(t.L, v.val)
      [] v.side = "Right"  -> Leaf(t.R, v.val)

\* The values of type t, one for each aligned address its leaves can be at.
RECURSIVE Values(_)
Values(t) ==
    IF t.kind = "Either"
    THEN [side : {"Left"}, val : Values(t.L)] \union [side : {"Right"}, val : Values(t.R)]
    ELSE {a \in 1..TOP_ADDR : a % (2 ^ t.align_bits) = 0}

PtrInit ==
    /\ ptr_type \in {t \in PtrType : ALIGN_BITS(t) >= 0}
    /\ memory = [a \in 1..TOP_ADDR |-> NoObject]
    /\ holds = [h \in PtrHandle |-> Nothing]

Borrowers(h) == {g \in PtrHandle : holds[g].as \in {"ref", "ref_raw"} /\ holds[g].of = h}

Counted(leaf, n) ==
    memory' = [memory EXCEPT ![leaf.at] =
                   IF n = 0 THEN NoObject ELSE [kind |-> leaf.kind, count |-> n]]

\* Box::new, Arc::new or Frame::from_unused, wrapped in the sides of P.
New(h, v) ==
    /\ holds[h] = Nothing
    /\ memory[Leaf(ptr_type, v).at] = NoObject
    /\ Counted(Leaf(ptr_type, v), 1)
    /\ holds' = [holds EXCEPT ![h] = [as |-> "value", value |-> v]]
    /\ UNCHANGED ptr_type

\* Arc::clone and Frame::clone, of an owned pointer or through the `deref` of
\* an ArcRef or FrameRef; a Box has no clone.
Clone(h, g) ==
    /\ holds[h] = Nothing
    /\ holds[g].as \in {"value", "ref"}
    /\ LET leaf == Leaf(ptr_type, holds[g].value)
       IN  /\ leaf.kind # "Box"
           /\ Counted(leaf, memory[leaf.at].count + 1)
    /\ holds' = [holds EXCEPT ![h] = [as |-> "value", value |-> holds[g].value]]
    /\ UNCHANGED ptr_type

\* Dropping an owned pointer.
DropValue(h) ==
    /\ holds[h].as = "value"
    /\ LET leaf == Leaf(ptr_type, holds[h].value)
       IN  Counted(leaf, memory[leaf.at].count - 1)
    /\ holds' = [holds EXCEPT ![h] = Nothing]
    /\ UNCHANGED ptr_type

\* `into_raw`: the place keeps the ownership and holds only the address.
into_raw(h) ==
    /\ holds[h].as = "value"
    /\ holds' = [holds EXCEPT ![h] =
                     [as |-> "raw", addr |-> into_raw_addr(ptr_type, holds[h].value)]]
    /\ UNCHANGED <<ptr_type, memory>>

\* `from_raw`, which the caller may use once nothing borrows the pointer: RCU
\* calls it after the grace period.
from_raw(h) ==
    /\ holds[h].as = "raw"
    /\ Borrowers(h) = {}
    /\ holds' = [holds EXCEPT ![h] =
                     [as |-> "value", value |-> from_raw_value(ptr_type, holds[h].addr)]]
    /\ UNCHANGED <<ptr_type, memory>>

\* `raw_as_ref`: a BoxRef, ArcRef or FrameRef, none of which counts.
raw_as_ref(h, g) ==
    /\ holds[h] = Nothing
    /\ holds[g].as = "raw"
    /\ holds' = [holds EXCEPT ![h] =
                     [as |-> "ref", of |-> g, value |-> from_raw_value(ptr_type, holds[g].addr)]]
    /\ UNCHANGED <<ptr_type, memory>>

\* `ref_as_raw`: the reference is consumed, its address remains.
ref_as_raw(h) ==
    /\ holds[h].as = "ref"
    /\ holds' = [holds EXCEPT ![h] =
                     [as |-> "ref_raw", of |-> holds[h].of,
                      addr |-> into_raw_addr(ptr_type, holds[h].value)]]
    /\ UNCHANGED <<ptr_type, memory>>

\* The reference, or its address, goes out of scope: ManuallyDrop drops nothing.
DropBorrow(h) ==
    /\ holds[h].as \in {"ref", "ref_raw"}
    /\ holds' = [holds EXCEPT ![h] = Nothing]
    /\ UNCHANGED <<ptr_type, memory>>

PtrNext ==
    \E h \in PtrHandle :
        \/ \E v \in Values(ptr_type) : New(h, v)
        \/ \E g \in PtrHandle : Clone(h, g) \/ raw_as_ref(h, g)
        \/ DropValue(h) \/ into_raw(h) \/ from_raw(h) \/ ref_as_raw(h) \/ DropBorrow(h)

-----------------------------------------------------------------------------
\* What an address stands for is read from the address alone.
ValueAt(h) ==
    IF holds[h].as \in {"value", "ref"} THEN holds[h].value
    ELSE from_raw_value(ptr_type, holds[h].addr)

\* However pointers are packed, borrowed, cloned and unpacked, the address
\* alone says what it owns: every place that owns or borrows a pointer leads to
\* a live object of the kind its tag bits claim, the object's count is the
\* number of places that own it, a reference gives back exactly the address it
\* was made from, and a raw address has its promised alignment and is not null.
RawPointersOwn ==
    LET Holders == {h \in PtrHandle : holds[h] # Nothing}
        Owners(leaf) == {h \in Holders : /\ holds[h].as \in {"value", "raw"}
                                         /\ Leaf(ptr_type, ValueAt(h)) = leaf}
    IN  /\ \A h \in Holders :
            LET leaf == Leaf(ptr_type, ValueAt(h))
            IN  /\ leaf.at \in DOMAIN memory
                /\ memory[leaf.at] = [kind |-> leaf.kind, count |-> Cardinality(Owners(leaf))]
        /\ \A h \in Holders :
            holds[h].as \in {"raw", "ref_raw"} =>
                /\ holds[h].addr > 0
                /\ holds[h].addr % (2 ^ ALIGN_BITS(ptr_type)) = 0
        /\ \A h \in Holders : holds[h].as = "ref_raw" => holds[h].addr = holds[holds[h].of].addr
=============================================================================

-------------------------- MODULE FrameMetaProofs --------------------------
(***************************************************************************)
(* Reference counts of frames for any number of frames, of threads below   *)
(* REF_COUNT_MAX, and of kinds of metadata.  The inductive invariant adds  *)
(* to the accounting of the count that the handles alone never exceed the  *)
(* maximum (the increments lost in panics come on top, one per thread),    *)
(* that a compare_exchange is tried only on the count of a shared frame,   *)
(* and that who publishes a frame has written its metadata.                *)
(***************************************************************************)
EXTENDS FrameMeta, FiniteSetTheorems, TLAPS

Loc == {"idle", "load", "cas", "panicked", "leaked"} \cup Busy \cup Repurposing

\* How many threads build up or tear down, repurpose or have leaked a frame.
NumBusy(f) == Cardinality(Owners(f, Busy))
NumRepurposing(f) == Cardinality(Owners(f, Repurposing))
NumLeaked(f) == Cardinality(Owners(f, {"leaked"}))

Unused(f) == /\ ref_count[f] = REF_COUNT_UNUSED
             /\ handles[f] = 0 /\ NumLeaked(f) = 0 /\ NumBusy(f) = 0
             /\ unique[f] = 0 /\ NumRepurposing(f) = 0

Unique(f) == /\ ref_count[f] = REF_COUNT_UNIQUE
             /\ handles[f] = 0 /\ NumLeaked(f) = 0 /\ NumBusy(f) = 0
             /\ unique[f] + NumRepurposing(f) = 1

Held(f) == /\ ref_count[f] = 0
           /\ handles[f] = 0 /\ NumLeaked(f) = 0 /\ NumBusy(f) = 1
           /\ unique[f] = 0 /\ NumRepurposing(f) = 0

Shared(f) == /\ ref_count[f] > 0
             /\ ref_count[f] = handles[f] + NumLeaked(f)
             /\ handles[f] <= REF_COUNT_MAX
             /\ NumBusy(f) = 0 /\ unique[f] = 0 /\ NumRepurposing(f) = 0

Accounted == \A f \in Frame : Unused(f) \/ Unique(f) \/ Held(f) \/ Shared(f)

LoadedShared == \A t \in Thread : pc[t] = "cas" => last[t] > 0 /\ last[t] < REF_COUNT_MAX

MetaWritten ==
    /\ \A f \in Frame : (ref_count[f] > 0 /\ ref_count[f] < REF_COUNT_UNIQUE) \/ unique[f] > 0
                            => meta[f] # Uninit
    /\ \A t \in Thread : pc[t] \in {"publish_shared", "publish_unique"} => meta[arg[t]] # Uninit

IInv == TypeOK /\ Accounted /\ LoadedShared /\ MetaWritten

\* What the code takes for granted: 2^63 - 1 is more than there are threads.
Bounds ==
    /\ IsFiniteSet(Thread)
    /\ REF_COUNT_MAX \in Nat
    /\ Cardinality(Thread) < REF_COUNT_MAX
    /\ Uninit \notin Meta

-----------------------------------------------------------------------------
\* The threads counted for a frame are threads.
LEMMA OwnersFinite ==
    ASSUME Bounds, NEW f, NEW locs
    PROVE  /\ IsFiniteSet(Owners(f, locs))
           /\ Cardinality(Owners(f, locs)) \in Nat
           /\ Cardinality(Owners(f, locs)) <= Cardinality(Thread)
<1>1. Owners(f, locs) \subseteq Thread
    BY Zenon DEF Owners
<1>2. IsFiniteSet(Thread)
    BY Zenon DEF Bounds
<1>3. IsFiniteSet(Owners(f, locs)) /\ Cardinality(Owners(f, locs)) <= Cardinality(Thread)
    BY <1>1, <1>2, FS_Subset, Zenon
<1> QED BY <1>3, FS_CardinalityType

\* A thread at one of the locations counts, and two threads count twice.
LEMMA OwnersCount ==
    ASSUME Bounds, NEW f, NEW locs, NEW t \in Owners(f, locs)
    PROVE  /\ Cardinality(Owners(f, locs)) >= 1
           /\ \A u \in Owners(f, locs) : u # t => Cardinality(Owners(f, locs)) >= 2
<1> DEFINE S == Owners(f, locs)
<1>1. IsFiniteSet(S) /\ Cardinality(S) \in Nat
    BY OwnersFinite, Zenon
<1>2. /\ IsFiniteSet(S \ {t}) /\ Cardinality(S \ {t}) = Cardinality(S) - 1
      /\ Cardinality(S \ {t}) \in Nat
    BY <1>1, FS_RemoveElement, FS_CardinalityType, Zenon
<1>3. ASSUME NEW u \in S, u # t PROVE Cardinality(S) >= 2
    <2>1. u \in S \ {t}
        BY <1>3, Zenon
    <2>2. Cardinality((S \ {t}) \ {u}) = Cardinality(S \ {t}) - 1 /\ IsFiniteSet((S \ {t}) \ {u})
        BY <1>2, <2>1, FS_RemoveElement, Zenon
    <2>3. Cardinality((S \ {t}) \ {u}) \in Nat
        BY <2>2, FS_CardinalityType, Zenon
    <2> QED BY <1>1, <1>2, <2>2, <2>3
<1> QED BY <1>1, <1>2, <1>3

\* The size of a set that one element enters, leaves or neither.
LEMMA SizeMoves ==
    ASSUME NEW S, NEW T, NEW t, NEW was \in BOOLEAN, NEW is \in BOOLEAN,
           IsFiniteSet(S), t \in S <=> was, T = IF is THEN S \cup {t} ELSE S \ {t}
    PROVE  Cardinality(T) = Cardinality(S) + (IF is THEN 1 ELSE 0) - (IF was THEN 1 ELSE 0)
<1>1. Cardinality(S) \in Nat
    BY FS_CardinalityType, Zenon
<1>2. CASE was = is
    <2>1. T = S
        BY <1>2, SMTT(30)
    <2> QED BY <1>1, <1>2, <2>1
<1>3. CASE was /\ ~is
    BY <1>1, <1>3, FS_RemoveElement, SMTT(30)
<1>4. CASE ~was /\ is
    BY <1>1, <1>4, FS_AddElement, SMTT(30)
<1> QED BY <1>2, <1>3, <1>4

LEMMA NumbersAreNat ==
    ASSUME Bounds, NEW f
    PROVE  /\ NumBusy(f) \in Nat /\ NumRepurposing(f) \in Nat /\ NumLeaked(f) \in Nat
           /\ NumLeaked(f) <= Cardinality(Thread)
BY OwnersFinite, Zenon DEF NumBusy, NumRepurposing, NumLeaked

LEMMA NumbersMove ==
    ASSUME Bounds, TypeOK, NEW t \in Thread, NEW g \in Frame, NEW loc \in Loc,
           pc' = [pc EXCEPT ![t] = loc], arg' = [arg EXCEPT ![t] = g], NEW f \in Frame
    PROVE  /\ NumBusy(f)' = NumBusy(f) + (IF g = f /\ loc \in Busy THEN 1 ELSE 0)
                                - (IF arg[t] = f /\ pc[t] \in Busy THEN 1 ELSE 0)
           /\ NumRepurposing(f)' = NumRepurposing(f)
                                + (IF g = f /\ loc \in Repurposing THEN 1 ELSE 0)
                                - (IF arg[t] = f /\ pc[t] \in Repurposing THEN 1 ELSE 0)
           /\ NumLeaked(f)' = NumLeaked(f) + (IF g = f /\ loc = "leaked" THEN 1 ELSE 0)
                                - (IF arg[t] = f /\ pc[t] = "leaked" THEN 1 ELSE 0)
           /\ NumLeaked(f)' <= Cardinality(Thread)
<1>1. NumBusy(f)' = NumBusy(f) + (IF g = f /\ loc \in Busy THEN 1 ELSE 0)
                        - (IF arg[t] = f /\ pc[t] \in Busy THEN 1 ELSE 0)
    <2>1. IsFiniteSet(Owners(f, Busy))
        BY OwnersFinite, Zenon
    <2>2. t \in Owners(f, Busy) <=> (arg[t] = f /\ pc[t] \in Busy)
        BY Zenon DEF Owners
    <2>3. Owners(f, Busy)' = IF (g = f /\ loc \in Busy) THEN Owners(f, Busy) \cup {t}
                                               ELSE Owners(f, Busy) \ {t}
        BY Zenon DEF Owners, TypeOK
    <2> QED BY <2>1, <2>2, <2>3, SizeMoves, Zenon DEF NumBusy
<1>2. NumRepurposing(f)' = NumRepurposing(f) + (IF g = f /\ loc \in Repurposing THEN 1 ELSE 0)
                        - (IF arg[t] = f /\ pc[t] \in Repurposing THEN 1 ELSE 0)
    <2>1. IsFiniteSet(Owners(f, Repurposing))
        BY OwnersFinite, Zenon
    <2>2. t \in Owners(f, Repurposing) <=> (arg[t] = f /\ pc[t] \in Repurposing)
        BY Zenon DEF Owners
    <2>3. Owners(f, Repurposing)' = IF (g = f /\ loc \in Repurposing)
                                       THEN Owners(f, Repurposing) \cup {t}
                                       ELSE Owners(f, Repurposing) \ {t}
        BY Zenon DEF Owners, TypeOK
    <2> QED BY <2>1, <2>2, <2>3, SizeMoves, Zenon DEF NumRepurposing
<1>3. NumLeaked(f)' = NumLeaked(f) + (IF g = f /\ loc = "leaked" THEN 1 ELSE 0)
                        - (IF arg[t] = f /\ pc[t] = "leaked" THEN 1 ELSE 0)
    <2>1. IsFiniteSet(Owners(f, {"leaked"}))
        BY OwnersFinite, Zenon
    <2>2. t \in Owners(f, {"leaked"}) <=> (arg[t] = f /\ pc[t] = "leaked")
        BY Zenon DEF Owners
    <2>3. Owners(f, {"leaked"})' = IF (g = f /\ loc = "leaked") THEN Owners(f, {"leaked"}) \cup {t}
                                               ELSE Owners(f, {"leaked"}) \ {t}
        BY Zenon DEF Owners, TypeOK
    <2> QED BY <2>1, <2>2, <2>3, SizeMoves, Zenon DEF NumLeaked
<1>4. NumLeaked(f)' <= Cardinality(Thread)
    <2>1. Owners(f, {"leaked"})' \subseteq Thread
        BY Zenon DEF Owners
    <2> QED BY <2>1, FS_Subset DEF Bounds, NumLeaked
<1> QED BY <1>1, <1>2, <1>3, <1>4

-----------------------------------------------------------------------------
\* A busy thread has its slot to itself.
LEMMA BusyHolds ==
    ASSUME Bounds, Accounted, TypeOK, NEW t \in Thread, pc[t] \in Busy
    PROVE  Held(arg[t]) /\ \A u \in Thread : pc[u] \in Busy /\ arg[u] = arg[t] => u = t
<1>1. t \in Owners(arg[t], Busy) /\ arg[t] \in Frame
    BY Zenon DEF Owners, TypeOK
<1>2. NumBusy(arg[t]) >= 1
    BY <1>1, OwnersCount, Zenon DEF NumBusy
<1>3. Held(arg[t])
    BY <1>1, <1>2, SMTT(30) DEF Accounted, Unused, Unique, Shared
<1>4. ASSUME NEW u \in Thread, pc[u] \in Busy, arg[u] = arg[t], u # t PROVE FALSE
    <2>1. u \in Owners(arg[t], Busy)
        BY <1>4, Zenon DEF Owners
    <2>2. NumBusy(arg[t]) >= 2
        BY <1>1, <1>4, <2>1, OwnersCount, Zenon DEF NumBusy
    <2> QED BY <1>3, <2>2 DEF Held
<1> QED BY <1>3, <1>4

\* A thread that repurposes a frame is its only owner.
LEMMA RepurposingHolds ==
    ASSUME Bounds, Accounted, TypeOK, NEW t \in Thread, pc[t] \in Repurposing
    PROVE  Unique(arg[t]) /\ unique[arg[t]] = 0 /\ NumRepurposing(arg[t]) = 1
<1>1. t \in Owners(arg[t], Repurposing) /\ arg[t] \in Frame
    BY Zenon DEF Owners, TypeOK
<1>2. NumRepurposing(arg[t]) >= 1 /\ NumRepurposing(arg[t]) \in Nat
    BY <1>1, OwnersCount, NumbersAreNat, Zenon DEF NumRepurposing
<1>3. Unique(arg[t])
    BY <1>1, <1>2, SMTT(30) DEF Accounted, Unused, Held, Shared
<1> QED BY <1>1, <1>2, <1>3 DEF Unique, TypeOK

\* What the arithmetic of the steps rests on.
Sized(f) ==
    /\ REF_COUNT_MAX \in Nat /\ REF_COUNT_MAX > 0
    /\ REF_COUNT_UNUSED = 2 * REF_COUNT_MAX + 1 /\ REF_COUNT_UNIQUE = 2 * REF_COUNT_MAX
    /\ ref_count[f] \in 0 .. REF_COUNT_UNUSED /\ handles[f] \in Nat /\ unique[f] \in Nat
    /\ NumBusy(f) \in Nat /\ NumRepurposing(f) \in Nat /\ NumLeaked(f) \in Nat

\* The count tells which of the four a frame is, and so do the handles.
Sorted(f) ==
    /\ ref_count[f] = REF_COUNT_UNUSED => Unused(f)
    /\ ref_count[f] = REF_COUNT_UNIQUE => Unique(f)
    /\ ref_count[f] = 0 => Held(f)
    /\ ref_count[f] \notin {REF_COUNT_UNUSED, REF_COUNT_UNIQUE, 0} => Shared(f)
    /\ unique[f] > 0 => Unique(f) /\ unique[f] = 1 /\ NumRepurposing(f) = 0
    /\ handles[f] > 0 => Shared(f)
    /\ Shared(f) => ref_count[f] > 0 /\ ref_count[f] < REF_COUNT_UNIQUE

LEMMA Kinds ==
    ASSUME Bounds, IInv, NEW f \in Frame
    PROVE  TypeOK /\ LoadedShared /\ MetaWritten /\ Sized(f) /\ Sorted(f)
<1>1. TypeOK /\ (Unused(f) \/ Unique(f) \/ Held(f) \/ Shared(f))
    BY Zenon DEF IInv, Accounted
<1>2. /\ NumBusy(f) \in Nat /\ NumRepurposing(f) \in Nat /\ NumLeaked(f) \in Nat
      /\ NumLeaked(f) <= Cardinality(Thread)
    BY NumbersAreNat, Zenon
<1>3. Cardinality(Thread) \in Nat /\ REF_COUNT_MAX \in Nat /\ Cardinality(Thread) < REF_COUNT_MAX
    BY FS_CardinalityType, Zenon DEF Bounds
<1>4. /\ ref_count[f] \in 0 .. REF_COUNT_UNUSED /\ handles[f] \in Nat /\ unique[f] \in Nat
    BY <1>1, Zenon DEF TypeOK
<1>5. REF_COUNT_UNUSED = 2 * REF_COUNT_MAX + 1 /\ REF_COUNT_UNIQUE = 2 * REF_COUNT_MAX
    BY Zenon DEF REF_COUNT_UNUSED, REF_COUNT_UNIQUE
<1>6. Sized(f)
    BY <1>2, <1>3, <1>4, <1>5, SMTT(30) DEF Sized
<1>7. Sorted(f)
    <2>1. CASE Unused(f)
        BY <1>3, <1>5, <2>1, SMTT(30) DEF Sorted, Unused, Shared
    <2>2. CASE Unique(f)
        BY <1>2, <1>3, <1>4, <1>5, <2>2, SMTT(30) DEF Sorted, Unique, Shared
    <2>3. CASE Held(f)
        BY <1>3, <1>5, <2>3, SMTT(30) DEF Sorted, Held, Shared
    <2>4. CASE Shared(f)
        BY <1>2, <1>3, <1>4, <1>5, <2>4, SMTT(30) DEF Sorted, Shared
    <2> QED BY <1>1, <2>1, <2>2, <2>3, <2>4
<1> QED BY <1>6, <1>7 DEF IInv

-----------------------------------------------------------------------------
\* A thread of no slot, or of the slot it goes on with.
Free(t, g) == arg[t] = g \/ pc[t] \in {"idle", "load", "cas"}

\* One more or one less at the locations.
Moved(t, loc, locs) == (IF loc \in locs THEN 1 ELSE 0) - (IF pc[t] \in locs THEN 1 ELSE 0)

\* What a step does to the numbers of the frame it is about.
LEMMA NumbersHere ==
    ASSUME Bounds, IInv, NEW t \in Thread, NEW g \in Frame, NEW loc \in Loc, Free(t, g),
           pc' = [pc EXCEPT ![t] = loc], arg' = [arg EXCEPT ![t] = g]
    PROVE  /\ NumBusy(g)' = NumBusy(g) + Moved(t, loc, Busy)
           /\ NumRepurposing(g)' = NumRepurposing(g) + Moved(t, loc, Repurposing)
           /\ NumLeaked(g)' = NumLeaked(g) + Moved(t, loc, {"leaked"})
<1>1. TypeOK /\ (Unused(g) \/ Unique(g) \/ Held(g) \/ Shared(g))
    BY Zenon DEF IInv, Accounted
<1>2. NumBusy(g) \in Nat /\ NumRepurposing(g) \in Nat /\ NumLeaked(g) \in Nat
    BY NumbersAreNat, Zenon
<1>3. arg[t] # g => pc[t] \notin Busy /\ pc[t] \notin Repurposing /\ pc[t] # "leaked"
    BY Zenon DEF Free, Busy, Repurposing
<1>4. /\ NumBusy(g)' = NumBusy(g) + (IF g = g /\ loc \in Busy THEN 1 ELSE 0)
                            - (IF arg[t] = g /\ pc[t] \in Busy THEN 1 ELSE 0)
      /\ NumRepurposing(g)' = NumRepurposing(g)
                            + (IF g = g /\ loc \in Repurposing THEN 1 ELSE 0)
                            - (IF arg[t] = g /\ pc[t] \in Repurposing THEN 1 ELSE 0)
      /\ NumLeaked(g)' = NumLeaked(g) + (IF g = g /\ loc = "leaked" THEN 1 ELSE 0)
                            - (IF arg[t] = g /\ pc[t] = "leaked" THEN 1 ELSE 0)
      /\ NumLeaked(g)' <= Cardinality(Thread)
    BY <1>1, NumbersMove, Zenon
<1> QED BY <1>1, <1>2, <1>3, <1>4 DEF Moved

\* The other frames are accounted for as before.
LEMMA AccountedElsewhere ==
    ASSUME Bounds, IInv, NEW t \in Thread, NEW g \in Frame, NEW loc \in Loc, Free(t, g),
           pc' = [pc EXCEPT ![t] = loc], arg' = [arg EXCEPT ![t] = g],
           \A f \in Frame : f # g => /\ ref_count'[f] = ref_count[f]
                                     /\ handles'[f] = handles[f]
                                     /\ unique'[f] = unique[f],
           Unused(g)' \/ Unique(g)' \/ Held(g)' \/ Shared(g)'
    PROVE  Accounted'
<1> SUFFICES ASSUME NEW f \in Frame, f # g
             PROVE  Unused(f)' \/ Unique(f)' \/ Held(f)' \/ Shared(f)'
    BY Zenon DEF Accounted
<1>1. TypeOK /\ (Unused(f) \/ Unique(f) \/ Held(f) \/ Shared(f))
    BY Zenon DEF IInv, Accounted
<1>2. NumBusy(f) \in Nat /\ NumRepurposing(f) \in Nat /\ NumLeaked(f) \in Nat
    BY NumbersAreNat, Zenon
<1>3. arg[t] = f => pc[t] \notin Busy /\ pc[t] \notin Repurposing /\ pc[t] # "leaked"
    BY Zenon DEF Free, Busy, Repurposing
<1>4. /\ NumBusy(f)' = NumBusy(f) /\ NumRepurposing(f)' = NumRepurposing(f)
      /\ NumLeaked(f)' = NumLeaked(f)
    <2>1. /\ NumBusy(f)' = NumBusy(f) + (IF g = f /\ loc \in Busy THEN 1 ELSE 0)
                                - (IF arg[t] = f /\ pc[t] \in Busy THEN 1 ELSE 0)
          /\ NumRepurposing(f)' = NumRepurposing(f)
                                + (IF g = f /\ loc \in Repurposing THEN 1 ELSE 0)
                                - (IF arg[t] = f /\ pc[t] \in Repurposing THEN 1 ELSE 0)
          /\ NumLeaked(f)' = NumLeaked(f) + (IF g = f /\ loc = "leaked" THEN 1 ELSE 0)
                                - (IF arg[t] = f /\ pc[t] = "leaked" THEN 1 ELSE 0)
          /\ NumLeaked(f)' <= Cardinality(Thread)
        BY <1>1, NumbersMove, Zenon
    <2> QED BY <1>2, <1>3, <2>1
<1>5. REF_COUNT_UNIQUE' = REF_COUNT_UNIQUE /\ REF_COUNT_UNUSED' = REF_COUNT_UNUSED
    BY Zenon DEF REF_COUNT_UNIQUE, REF_COUNT_UNUSED
<1> QED BY <1>1, <1>4, <1>5 DEF Unused, Unique, Held, Shared

\* get_from_unused.
LEMMA GetFromUnusedStep ==
    ASSUME Bounds, IInv, NEW t \in Thread, NEW f \in Frame,
           NEW l \in {"write_shared", "write_unique"},
           GetFromUnused(t, f, l)
    PROVE  IInv'
<1> DEFINE g == f
           loc == l
<1>1. g \in Frame /\ loc \in Loc /\ pc[t] \in Loc /\ Free(t, g)
    BY Zenon DEF IInv, TypeOK, Loc, Busy, Repurposing, Free, GetFromUnused, Start
<1>2. pc' = [pc EXCEPT ![t] = loc] /\ arg' = [arg EXCEPT ![t] = g]
    BY Zenon DEF IInv, TypeOK, GetFromUnused, Start, Goto
<1>3. pc[t] \notin Busy \cup Repurposing \cup {"leaked"}
      /\ loc \in Busy /\ loc \notin Repurposing \cup {"leaked"}
    BY Zenon DEF Busy, Repurposing, GetFromUnused, Start
<1>4. TypeOK /\ LoadedShared /\ MetaWritten /\ Sized(g) /\ Sorted(g)
    BY <1>1, Kinds, Zenon
<1>5. /\ NumBusy(g)' = NumBusy(g) + 1
      /\ NumRepurposing(g)' = NumRepurposing(g)
      /\ NumLeaked(g)' = NumLeaked(g)
    <2>1. /\ NumBusy(g)' = NumBusy(g) + Moved(t, loc, Busy)
          /\ NumRepurposing(g)' = NumRepurposing(g) + Moved(t, loc, Repurposing)
          /\ NumLeaked(g)' = NumLeaked(g) + Moved(t, loc, {"leaked"})
        BY <1>1, <1>2, NumbersHere, Zenon
    <2> QED BY <1>3, <1>4, <2>1, SMTT(30) DEF Sized, Moved
<1>6. Unused(g)
    BY <1>4, Zenon DEF Sorted, GetFromUnused, Start
<1>7. ref_count'[g] = 0 /\ handles'[g] = handles[g] /\ unique'[g] = unique[g]
    BY <1>1, <1>4, Zenon DEF TypeOK, SetCount, GetFromUnused, Start
<1>8. Unused(g)' \/ Unique(g)' \/ Held(g)' \/ Shared(g)'
    BY <1>3, <1>4, <1>5, <1>6, <1>7
      , SMTT(30) DEF Sized, Unused, Unique, Held, Shared, REF_COUNT_UNUSED, REF_COUNT_UNIQUE
<1>9. Accounted'
    BY <1>1, <1>2, <1>4, <1>8, AccountedElsewhere, Zenon DEF TypeOK, SetCount, GetFromUnused, Start
<1>10. TypeOK'
    BY <1>1, <1>2, <1>4, <1>6, SMTT(30) DEF TypeOK, Loc, Sized, Shared, SetCount, GetFromUnused, Start
<1>11. LoadedShared'
    BY <1>1, <1>2, <1>4, Zenon DEF TypeOK, LoadedShared, SetCount, GetFromUnused, Start
<1>12. MetaWritten'
    BY <1>1, <1>2, <1>4, <1>6
      , Zenon DEF TypeOK, Sized, MetaWritten, Bounds, Unused, Unique, Held, Shared, SetCount, GetFromUnused, Start
<1> QED BY <1>9, <1>10, <1>11, <1>12 DEF IInv

\* write_meta.
LEMMA WriteMetaStep ==
    ASSUME Bounds, IInv, NEW t \in Thread,
           NEW from \in {"write_shared", "write_unique"},
           NEW to \in {"publish_shared", "publish_unique"}, NEW g \in Frame,
           WriteMeta(t, from, to), g = arg[t]
    PROVE  IInv'
<1> DEFINE loc == to
<1>1. g \in Frame /\ loc \in Loc /\ pc[t] \in Loc /\ Free(t, g)
    BY Zenon DEF IInv, TypeOK, Loc, Busy, Repurposing, Free, WriteMeta
<1>2. pc' = [pc EXCEPT ![t] = loc] /\ arg' = [arg EXCEPT ![t] = g]
    BY Zenon DEF IInv, TypeOK, WriteMeta, Goto
<1>3. pc[t] \in Busy /\ pc[t] \notin Repurposing \cup {"leaked"}
      /\ loc \in Busy /\ loc \notin Repurposing \cup {"leaked"}
    BY Zenon DEF Busy, Repurposing, WriteMeta
<1>4. TypeOK /\ LoadedShared /\ MetaWritten /\ Sized(g) /\ Sorted(g)
    BY <1>1, Kinds, Zenon
<1>5. /\ NumBusy(g)' = NumBusy(g)
      /\ NumRepurposing(g)' = NumRepurposing(g)
      /\ NumLeaked(g)' = NumLeaked(g)
    <2>1. /\ NumBusy(g)' = NumBusy(g) + Moved(t, loc, Busy)
          /\ NumRepurposing(g)' = NumRepurposing(g) + Moved(t, loc, Repurposing)
          /\ NumLeaked(g)' = NumLeaked(g) + Moved(t, loc, {"leaked"})
        BY <1>1, <1>2, NumbersHere, Zenon
    <2> QED BY <1>3, <1>4, <2>1, SMTT(30) DEF Sized, Moved
<1>6. Held(g)
    BY <1>1, <1>3, BusyHolds, Zenon DEF Accounted, IInv, WriteMeta
<1>7. ref_count'[g] = ref_count[g] /\ handles'[g] = handles[g] /\ unique'[g] = unique[g]
    BY <1>1, <1>4, Zenon DEF TypeOK, SetCount, WriteMeta
<1>8. Unused(g)' \/ Unique(g)' \/ Held(g)' \/ Shared(g)'
    BY <1>3, <1>4, <1>5, <1>6, <1>7
      , Zenon DEF Sized, Unused, Unique, Held, Shared, REF_COUNT_UNUSED, REF_COUNT_UNIQUE
<1>9. Accounted'
    BY <1>1, <1>2, <1>4, <1>8, AccountedElsewhere, Zenon DEF TypeOK, SetCount, WriteMeta
<1>10. TypeOK'
    BY <1>1, <1>2, <1>4, <1>6, SMTT(30) DEF TypeOK, Loc, Sized, Shared, SetCount, WriteMeta
<1>11. LoadedShared'
    BY <1>1, <1>2, <1>4, Zenon DEF TypeOK, LoadedShared, SetCount, WriteMeta
<1>12. MetaWritten'
    BY <1>1, <1>2, <1>4, <1>6
      , SMTT(30) DEF TypeOK, Sized, MetaWritten, Bounds, Unused, Unique, Held, Shared, SetCount, WriteMeta
<1> QED BY <1>9, <1>10, <1>11, <1>12 DEF IInv

\* The store(1) of Frame::from_unused.
LEMMA PublishSharedStep ==
    ASSUME Bounds, IInv, NEW t \in Thread, NEW g \in Frame,
           PublishShared(t), g = arg[t]
    PROVE  IInv'
<1> DEFINE loc == "idle"
<1>1. g \in Frame /\ loc \in Loc /\ pc[t] \in Loc /\ Free(t, g)
    BY Zenon DEF IInv, TypeOK, Loc, Busy, Repurposing, Free, PublishShared
<1>2. pc' = [pc EXCEPT ![t] = loc] /\ arg' = [arg EXCEPT ![t] = g]
    BY Zenon DEF IInv, TypeOK, PublishShared, Goto
<1>3. pc[t] \in Busy /\ pc[t] \notin Repurposing \cup {"leaked"}
      /\ loc \notin Busy \cup Repurposing \cup {"leaked"}
    BY Zenon DEF Busy, Repurposing, PublishShared
<1>4. TypeOK /\ LoadedShared /\ MetaWritten /\ Sized(g) /\ Sorted(g)
    BY <1>1, Kinds, Zenon
<1>5. /\ NumBusy(g)' = NumBusy(g) - 1
      /\ NumRepurposing(g)' = NumRepurposing(g)
      /\ NumLeaked(g)' = NumLeaked(g)
    <2>1. /\ NumBusy(g)' = NumBusy(g) + Moved(t, loc, Busy)
          /\ NumRepurposing(g)' = NumRepurposing(g) + Moved(t, loc, Repurposing)
          /\ NumLeaked(g)' = NumLeaked(g) + Moved(t, loc, {"leaked"})
        BY <1>1, <1>2, NumbersHere, Zenon
    <2> QED BY <1>3, <1>4, <2>1, SMTT(30) DEF Sized, Moved
<1>6. Held(g)
    BY <1>1, <1>3, BusyHolds, Zenon DEF Accounted, IInv, PublishShared
<1>7. ref_count'[g] = 1 /\ handles'[g] = handles[g] + 1 /\ unique'[g] = unique[g]
    BY <1>1, <1>4, Zenon DEF TypeOK, SetCount, PublishShared
<1>8. Unused(g)' \/ Unique(g)' \/ Held(g)' \/ Shared(g)'
    BY <1>3, <1>4, <1>5, <1>6, <1>7
      , SMTT(30) DEF Sized, Unused, Unique, Held, Shared, REF_COUNT_UNUSED, REF_COUNT_UNIQUE
<1>9. Accounted'
    BY <1>1, <1>2, <1>4, <1>8, AccountedElsewhere, Zenon DEF TypeOK, SetCount, PublishShared
<1>10. TypeOK'
    BY <1>1, <1>2, <1>4, <1>6, SMTT(30) DEF TypeOK, Loc, Sized, Shared, SetCount, PublishShared
<1>11. LoadedShared'
    BY <1>1, <1>2, <1>4, Zenon DEF TypeOK, LoadedShared, SetCount, PublishShared
<1>12. MetaWritten'
    BY <1>1, <1>2, <1>4, <1>6
      , Zenon DEF TypeOK, Sized, MetaWritten, Bounds, Unused, Unique, Held, Shared, SetCount, PublishShared
<1> QED BY <1>9, <1>10, <1>11, <1>12 DEF IInv

\* The store(REF_COUNT_UNIQUE) of UniqueFrame::from_unused.
LEMMA PublishUniqueStep ==
    ASSUME Bounds, IInv, NEW t \in Thread, NEW g \in Frame,
           PublishUnique(t), g = arg[t]
    PROVE  IInv'
<1> DEFINE loc == "idle"
<1>1. g \in Frame /\ loc \in Loc /\ pc[t] \in Loc /\ Free(t, g)
    BY Zenon DEF IInv, TypeOK, Loc, Busy, Repurposing, Free, PublishUnique
<1>2. pc' = [pc EXCEPT ![t] = loc] /\ arg' = [arg EXCEPT ![t] = g]
    BY Zenon DEF IInv, TypeOK, PublishUnique, Goto
<1>3. pc[t] \in Busy /\ pc[t] \notin Repurposing \cup {"leaked"}
      /\ loc \notin Busy \cup Repurposing \cup {"leaked"}
    BY Zenon DEF Busy, Repurposing, PublishUnique
<1>4. TypeOK /\ LoadedShared /\ MetaWritten /\ Sized(g) /\ Sorted(g)
    BY <1>1, Kinds, Zenon
<1>5. /\ NumBusy(g)' = NumBusy(g) - 1
      /\ NumRepurposing(g)' = NumRepurposing(g)
      /\ NumLeaked(g)' = NumLeaked(g)
    <2>1. /\ NumBusy(g)' = NumBusy(g) + Moved(t, loc, Busy)
          /\ NumRepurposing(g)' = NumRepurposing(g) + Moved(t, loc, Repurposing)
          /\ NumLeaked(g)' = NumLeaked(g) + Moved(t, loc, {"leaked"})
        BY <1>1, <1>2, NumbersHere, Zenon
    <2> QED BY <1>3, <1>4, <2>1, SMTT(30) DEF Sized, Moved
<1>6. Held(g)
    BY <1>1, <1>3, BusyHolds, Zenon DEF Accounted, IInv, PublishUnique
<1>7. ref_count'[g] = REF_COUNT_UNIQUE /\ handles'[g] = handles[g] /\ unique'[g] = unique[g] + 1
    BY <1>1, <1>4, Zenon DEF TypeOK, SetCount, PublishUnique
<1>8. Unused(g)' \/ Unique(g)' \/ Held(g)' \/ Shared(g)'
    BY <1>3, <1>4, <1>5, <1>6, <1>7
      , SMTT(30) DEF Sized, Unused, Unique, Held, Shared, REF_COUNT_UNUSED, REF_COUNT_UNIQUE
<1>9. Accounted'
    BY <1>1, <1>2, <1>4, <1>8, AccountedElsewhere, Zenon DEF TypeOK, SetCount, PublishUnique
<1>10. TypeOK'
    BY <1>1, <1>2, <1>4, <1>6, SMTT(30) DEF TypeOK, Loc, Sized, Shared, SetCount, PublishUnique
<1>11. LoadedShared'
    BY <1>1, <1>2, <1>4, Zenon DEF TypeOK, LoadedShared, SetCount, PublishUnique
<1>12. MetaWritten'
    BY <1>1, <1>2, <1>4, <1>6
      , Zenon DEF TypeOK, Sized, MetaWritten, Bounds, Unused, Unique, Held, Shared, SetCount, PublishUnique
<1> QED BY <1>9, <1>10, <1>11, <1>12 DEF IInv

\* from_in_use is called.
LEMMA FromInUseStep ==
    ASSUME Bounds, IInv, NEW t \in Thread, NEW f \in Frame,
           FromInUse(t, f)
    PROVE  IInv'
<1> DEFINE g == f
           loc == "load"
<1>1. g \in Frame /\ loc \in Loc /\ pc[t] \in Loc /\ Free(t, g)
    BY Zenon DEF IInv, TypeOK, Loc, Busy, Repurposing, Free, FromInUse, Start
<1>2. pc' = [pc EXCEPT ![t] = loc] /\ arg' = [arg EXCEPT ![t] = g]
    BY Zenon DEF IInv, TypeOK, FromInUse, Start, Goto
<1>3. pc[t] \notin Busy \cup Repurposing \cup {"leaked"}
      /\ loc \notin Busy \cup Repurposing \cup {"leaked"}
    BY Zenon DEF Busy, Repurposing, FromInUse, Start
<1>4. TypeOK /\ LoadedShared /\ MetaWritten /\ Sized(g) /\ Sorted(g)
    BY <1>1, Kinds, Zenon
<1>5. /\ NumBusy(g)' = NumBusy(g)
      /\ NumRepurposing(g)' = NumRepurposing(g)
      /\ NumLeaked(g)' = NumLeaked(g)
    <2>1. /\ NumBusy(g)' = NumBusy(g) + Moved(t, loc, Busy)
          /\ NumRepurposing(g)' = NumRepurposing(g) + Moved(t, loc, Repurposing)
          /\ NumLeaked(g)' = NumLeaked(g) + Moved(t, loc, {"leaked"})
        BY <1>1, <1>2, NumbersHere, Zenon
    <2> QED BY <1>3, <1>4, <2>1, SMTT(30) DEF Sized, Moved
<1>6. Unused(g) \/ Unique(g) \/ Held(g) \/ Shared(g)
    BY <1>1, Zenon DEF Accounted, IInv, FromInUse, Start
<1>7. ref_count'[g] = ref_count[g] /\ handles'[g] = handles[g] /\ unique'[g] = unique[g]
    BY <1>1, <1>4, Zenon DEF TypeOK, SetCount, FromInUse, Start
<1>8. Unused(g)' \/ Unique(g)' \/ Held(g)' \/ Shared(g)'
    BY <1>3, <1>4, <1>5, <1>6, <1>7
      , Zenon DEF Sized, Unused, Unique, Held, Shared, REF_COUNT_UNUSED, REF_COUNT_UNIQUE
<1>9. Accounted'
    BY <1>1, <1>2, <1>4, <1>8, AccountedElsewhere, Zenon DEF TypeOK, SetCount, FromInUse, Start
<1>10. TypeOK'
    BY <1>1, <1>2, <1>4, <1>6, Zenon DEF TypeOK, Loc, Sized, Shared, SetCount, FromInUse, Start
<1>11. LoadedShared'
    BY <1>1, <1>2, <1>4, Zenon DEF TypeOK, LoadedShared, SetCount, FromInUse, Start
<1>12. MetaWritten'
    BY <1>1, <1>2, <1>4, <1>6
      , Zenon DEF TypeOK, Sized, MetaWritten, Bounds, Unused, Unique, Held, Shared, SetCount, FromInUse, Start
<1> QED BY <1>9, <1>10, <1>11, <1>12 DEF IInv

\* The load of get_from_in_use.
LEMMA LoadCountStep ==
    ASSUME Bounds, IInv, NEW t \in Thread, NEW g \in Frame, NEW loc \in Loc,
           LoadCount(t), g = arg[t], loc = pc'[t]
    PROVE  IInv'
<1>1. g \in Frame /\ loc \in Loc /\ pc[t] \in Loc /\ Free(t, g)
    BY Zenon DEF IInv, TypeOK, Loc, Busy, Repurposing, Free, LoadCount, Goto
<1>2. pc' = [pc EXCEPT ![t] = loc] /\ arg' = [arg EXCEPT ![t] = g]
    BY Zenon DEF IInv, TypeOK, LoadCount, Goto, Goto
<1>3. pc[t] \notin Busy \cup Repurposing \cup {"leaked"}
      /\ loc \notin Busy \cup Repurposing \cup {"leaked"}
    BY SMTT(30) DEF Busy, Repurposing, LoadCount, Goto
<1>4. TypeOK /\ LoadedShared /\ MetaWritten /\ Sized(g) /\ Sorted(g)
    BY <1>1, Kinds, Zenon
<1>5. /\ NumBusy(g)' = NumBusy(g)
      /\ NumRepurposing(g)' = NumRepurposing(g)
      /\ NumLeaked(g)' = NumLeaked(g)
    <2>1. /\ NumBusy(g)' = NumBusy(g) + Moved(t, loc, Busy)
          /\ NumRepurposing(g)' = NumRepurposing(g) + Moved(t, loc, Repurposing)
          /\ NumLeaked(g)' = NumLeaked(g) + Moved(t, loc, {"leaked"})
        BY <1>1, <1>2, NumbersHere, Zenon
    <2> QED BY <1>3, <1>4, <2>1, SMTT(30) DEF Sized, Moved
<1>6. Unused(g) \/ Unique(g) \/ Held(g) \/ Shared(g)
    BY <1>1, Zenon DEF Accounted, IInv, LoadCount, Goto
<1>7. ref_count'[g] = ref_count[g] /\ handles'[g] = handles[g] /\ unique'[g] = unique[g]
    BY <1>1, <1>4, Zenon DEF TypeOK, SetCount, LoadCount, Goto
<1>8. Unused(g)' \/ Unique(g)' \/ Held(g)' \/ Shared(g)'
    BY <1>3, <1>4, <1>5, <1>6, <1>7
      , Zenon DEF Sized, Unused, Unique, Held, Shared, REF_COUNT_UNUSED, REF_COUNT_UNIQUE
<1>9. Accounted'
    BY <1>1, <1>2, <1>4, <1>8, AccountedElsewhere, Zenon DEF TypeOK, SetCount, LoadCount, Goto
<1>10. TypeOK'
    BY <1>1, <1>2, <1>4, <1>6, Zenon DEF TypeOK, Loc, Sized, Shared, SetCount, LoadCount, Goto
<1>11. LoadedShared'
    <2>1. pc'[t] = "cas" => /\ ref_count[g] # 0 /\ ~(ref_count[g] >= REF_COUNT_MAX)
                            /\ last'[t] = ref_count[g]
        BY Zenon DEF IInv, TypeOK, LoadCount, Goto
    <2>2. pc'[t] = "cas" => last'[t] > 0 /\ last'[t] < REF_COUNT_MAX
        BY <1>4, <2>1, SMTT(30) DEF Sized
    <2>3. \A u \in Thread : u # t => pc'[u] = pc[u] /\ last'[u] = last[u]
        BY Zenon DEF IInv, TypeOK, LoadCount, Goto
    <2> QED BY <1>4, <2>2, <2>3 DEF LoadedShared
<1>12. MetaWritten'
    BY <1>1, <1>2, <1>4, <1>6
      , Zenon DEF TypeOK, Sized, MetaWritten, Bounds, Unused, Unique, Held, Shared, SetCount, LoadCount, Goto
<1> QED BY <1>9, <1>10, <1>11, <1>12 DEF IInv

\* The compare_exchange of get_from_in_use finds the count it expects, ...
LEMMA IncSucceedsStep ==
    ASSUME Bounds, IInv, NEW t \in Thread, NEW g \in Frame,
           pc[t] = "cas", Goto(t, "idle"), ref_count[g] = last[t],
           SetCount(g, last[t] + 1), handles' = [handles EXCEPT ![g] = @ + 1],
           UNCHANGED <<meta, unique, arg, last>>, g = arg[t]
    PROVE  IInv'
<1> DEFINE loc == "idle"
<1>1. g \in Frame /\ loc \in Loc /\ pc[t] \in Loc /\ Free(t, g)
    BY Zenon DEF IInv, TypeOK, Loc, Busy, Repurposing, Free, Goto
<1>2. pc' = [pc EXCEPT ![t] = loc] /\ arg' = [arg EXCEPT ![t] = g]
    BY Zenon DEF IInv, TypeOK, Goto, Goto
<1>3. pc[t] \notin Busy \cup Repurposing \cup {"leaked"}
      /\ loc \notin Busy \cup Repurposing \cup {"leaked"}
    BY Zenon DEF Busy, Repurposing, Goto
<1>4. TypeOK /\ LoadedShared /\ MetaWritten /\ Sized(g) /\ Sorted(g)
    BY <1>1, Kinds, Zenon
<1>5. /\ NumBusy(g)' = NumBusy(g)
      /\ NumRepurposing(g)' = NumRepurposing(g)
      /\ NumLeaked(g)' = NumLeaked(g)
    <2>1. /\ NumBusy(g)' = NumBusy(g) + Moved(t, loc, Busy)
          /\ NumRepurposing(g)' = NumRepurposing(g) + Moved(t, loc, Repurposing)
          /\ NumLeaked(g)' = NumLeaked(g) + Moved(t, loc, {"leaked"})
        BY <1>1, <1>2, NumbersHere, Zenon
    <2> QED BY <1>3, <1>4, <2>1, SMTT(30) DEF Sized, Moved
<1>6. Shared(g) /\ last[t] < REF_COUNT_MAX
    BY <1>4, SMTT(30) DEF LoadedShared, Sized, Sorted, Goto
<1>7. ref_count'[g] = ref_count[g] + 1 /\ handles'[g] = handles[g] + 1 /\ unique'[g] = unique[g]
    BY <1>1, <1>4, Zenon DEF TypeOK, SetCount, Goto
<1>8. Unused(g)' \/ Unique(g)' \/ Held(g)' \/ Shared(g)'
    BY <1>3, <1>4, <1>5, <1>6, <1>7
      , SMTT(30) DEF Sized, Unused, Unique, Held, Shared, REF_COUNT_UNUSED, REF_COUNT_UNIQUE
<1>9. Accounted'
    BY <1>1, <1>2, <1>4, <1>8, AccountedElsewhere, Zenon DEF TypeOK, SetCount, Goto
<1>10. TypeOK'
    BY <1>1, <1>2, <1>4, <1>6, SMTT(30) DEF TypeOK, Loc, Sized, Shared, SetCount, Goto
<1>11. LoadedShared'
    BY <1>1, <1>2, <1>4, Zenon DEF TypeOK, LoadedShared, SetCount, Goto
<1>12. MetaWritten'
    BY <1>1, <1>2, <1>4, <1>6
      , SMTT(30) DEF TypeOK, Sized, MetaWritten, Bounds, Unused, Unique, Held, Shared, SetCount, Goto
<1> QED BY <1>9, <1>10, <1>11, <1>12 DEF IInv

\* ... or not.
LEMMA IncFailsStep ==
    ASSUME Bounds, IInv, NEW t \in Thread, NEW g \in Frame,
           pc[t] = "cas", Goto(t, "load"),
           UNCHANGED <<ref_count, handles, meta, unique, arg, last>>, g = arg[t]
    PROVE  IInv'
<1> DEFINE loc == "load"
<1>1. g \in Frame /\ loc \in Loc /\ pc[t] \in Loc /\ Free(t, g)
    BY Zenon DEF IInv, TypeOK, Loc, Busy, Repurposing, Free, Goto
<1>2. pc' = [pc EXCEPT ![t] = loc] /\ arg' = [arg EXCEPT ![t] = g]
    BY Zenon DEF IInv, TypeOK, Goto, Goto
<1>3. pc[t] \notin Busy \cup Repurposing \cup {"leaked"}
      /\ loc \notin Busy \cup Repurposing \cup {"leaked"}
    BY Zenon DEF Busy, Repurposing, Goto
<1>4. TypeOK /\ LoadedShared /\ MetaWritten /\ Sized(g) /\ Sorted(g)
    BY <1>1, Kinds, Zenon
<1>5. /\ NumBusy(g)' = NumBusy(g)
      /\ NumRepurposing(g)' = NumRepurposing(g)
      /\ NumLeaked(g)' = NumLeaked(g)
    <2>1. /\ NumBusy(g)' = NumBusy(g) + Moved(t, loc, Busy)
          /\ NumRepurposing(g)' = NumRepurposing(g) + Moved(t, loc, Repurposing)
          /\ NumLeaked(g)' = NumLeaked(g) + Moved(t, loc, {"leaked"})
        BY <1>1, <1>2, NumbersHere, Zenon
    <2> QED BY <1>3, <1>4, <2>1, SMTT(30) DEF Sized, Moved
<1>6. Unused(g) \/ Unique(g) \/ Held(g) \/ Shared(g)
    BY <1>1, Zenon DEF Accounted, IInv, Goto
<1>7. ref_count'[g] = ref_count[g] /\ handles'[g] = handles[g] /\ unique'[g] = unique[g]
    BY <1>1, <1>4, Zenon DEF TypeOK, SetCount, Goto
<1>8. Unused(g)' \/ Unique(g)' \/ Held(g)' \/ Shared(g)'
    BY <1>3, <1>4, <1>5, <1>6, <1>7
      , Zenon DEF Sized, Unused, Unique, Held, Shared, REF_COUNT_UNUSED, REF_COUNT_UNIQUE
<1>9. Accounted'
    BY <1>1, <1>2, <1>4, <1>8, AccountedElsewhere, Zenon DEF TypeOK, SetCount, Goto
<1>10. TypeOK'
    BY <1>1, <1>2, <1>4, <1>6, Zenon DEF TypeOK, Loc, Sized, Shared, SetCount, Goto
<1>11. LoadedShared'
    BY <1>1, <1>2, <1>4, Zenon DEF TypeOK, LoadedShared, SetCount, Goto
<1>12. MetaWritten'
    BY <1>1, <1>2, <1>4, <1>6
      , Zenon DEF TypeOK, Sized, MetaWritten, Bounds, Unused, Unique, Held, Shared, SetCount, Goto
<1> QED BY <1>9, <1>10, <1>11, <1>12 DEF IInv

\* fetch_add(1) of clone and inc_frame_ref_count.
LEMMA IncRefCountStep ==
    ASSUME Bounds, IInv, NEW t \in Thread, NEW f \in Frame,
           IncRefCount(t, f)
    PROVE  IInv'
<1> DEFINE g == f
           loc == IF ref_count[f] >= REF_COUNT_MAX THEN "leaked" ELSE "idle"
<1>1. g \in Frame /\ loc \in Loc /\ pc[t] \in Loc /\ Free(t, g)
    BY Zenon DEF IInv, TypeOK, Loc, Busy, Repurposing, Free, IncRefCount, Start
<1>2. pc' = [pc EXCEPT ![t] = loc] /\ arg' = [arg EXCEPT ![t] = g]
    BY Zenon DEF IInv, TypeOK, IncRefCount, Start, Goto
<1>3. pc[t] \notin Busy \cup Repurposing \cup {"leaked"} /\ loc \notin Busy \cup Repurposing
      /\ (loc = "leaked" <=> ref_count[g] >= REF_COUNT_MAX)
    BY Zenon DEF Busy, Repurposing, IncRefCount, Start
<1>4. TypeOK /\ LoadedShared /\ MetaWritten /\ Sized(g) /\ Sorted(g)
    BY <1>1, Kinds, Zenon
<1>5. /\ NumBusy(g)' = NumBusy(g)
      /\ NumRepurposing(g)' = NumRepurposing(g)
      /\ NumLeaked(g)' = NumLeaked(g) + (IF ref_count[g] >= REF_COUNT_MAX THEN 1 ELSE 0)
    <2>1. /\ NumBusy(g)' = NumBusy(g) + Moved(t, loc, Busy)
          /\ NumRepurposing(g)' = NumRepurposing(g) + Moved(t, loc, Repurposing)
          /\ NumLeaked(g)' = NumLeaked(g) + Moved(t, loc, {"leaked"})
        BY <1>1, <1>2, NumbersHere, Zenon
    <2> QED BY <1>3, <1>4, <2>1, SMTT(30) DEF Sized, Moved
<1>6. Shared(g) /\ ref_count[g] < REF_COUNT_UNIQUE
    BY <1>4, Zenon DEF Sorted, IncRefCount, Start
<1>7. ref_count'[g] = ref_count[g] + 1 /\ unique'[g] = unique[g]
      /\ handles'[g] = (IF ref_count[g] >= REF_COUNT_MAX THEN handles[g] ELSE handles[g] + 1)
    BY <1>1, <1>4, Zenon DEF TypeOK, SetCount, IncRefCount, Start
<1>8. Unused(g)' \/ Unique(g)' \/ Held(g)' \/ Shared(g)'
    <2>1. Shared(g)'
        BY <1>3, <1>4, <1>5, <1>6, <1>7, SMTT(30) DEF Sized, Shared
    <2> QED BY <2>1, Zenon
<1>9. Accounted'
    BY <1>1, <1>2, <1>4, <1>8, AccountedElsewhere, Zenon DEF TypeOK, SetCount, IncRefCount, Start
<1>10. TypeOK'
    BY <1>1, <1>2, <1>4, <1>6, SMTT(30) DEF TypeOK, Loc, Sized, Shared, SetCount, IncRefCount, Start
<1>11. LoadedShared'
    BY <1>1, <1>2, <1>4, Zenon DEF TypeOK, LoadedShared, SetCount, IncRefCount, Start
<1>12. MetaWritten'
    BY <1>1, <1>2, <1>4, <1>6
      , Zenon DEF TypeOK, Sized, MetaWritten, Bounds, Unused, Unique, Held, Shared, SetCount, IncRefCount, Start
<1> QED BY <1>9, <1>10, <1>11, <1>12 DEF IInv

\* fetch_sub(1) of Frame::drop.
LEMMA DropStep ==
    ASSUME Bounds, IInv, NEW t \in Thread, NEW f \in Frame,
           Drop(t, f)
    PROVE  IInv'
<1> DEFINE g == f
           loc == IF ref_count[f] = 1 THEN "drop_meta" ELSE "idle"
<1>1. g \in Frame /\ loc \in Loc /\ pc[t] \in Loc /\ Free(t, g)
    BY Zenon DEF IInv, TypeOK, Loc, Busy, Repurposing, Free, Drop, Start
<1>2. pc' = [pc EXCEPT ![t] = loc] /\ arg' = [arg EXCEPT ![t] = g]
    BY Zenon DEF IInv, TypeOK, Drop, Start, Goto
<1>3. pc[t] \notin Busy \cup Repurposing \cup {"leaked"} /\ loc \notin Repurposing \cup {"leaked"}
      /\ (loc \in Busy <=> ref_count[g] = 1)
    BY Zenon DEF Busy, Repurposing, Drop, Start
<1>4. TypeOK /\ LoadedShared /\ MetaWritten /\ Sized(g) /\ Sorted(g)
    BY <1>1, Kinds, Zenon
<1>5. /\ NumBusy(g)' = NumBusy(g) + (IF ref_count[g] = 1 THEN 1 ELSE 0)
      /\ NumRepurposing(g)' = NumRepurposing(g)
      /\ NumLeaked(g)' = NumLeaked(g)
    <2>1. /\ NumBusy(g)' = NumBusy(g) + Moved(t, loc, Busy)
          /\ NumRepurposing(g)' = NumRepurposing(g) + Moved(t, loc, Repurposing)
          /\ NumLeaked(g)' = NumLeaked(g) + Moved(t, loc, {"leaked"})
        BY <1>1, <1>2, NumbersHere, Zenon
    <2> QED BY <1>3, <1>4, <2>1, SMTT(30) DEF Sized, Moved
<1>6. Shared(g) /\ ref_count[g] < REF_COUNT_UNIQUE /\ handles[g] > 0
    BY <1>4, Zenon DEF Sorted, Drop, Start
<1>7. ref_count'[g] = ref_count[g] - 1 /\ unique'[g] = unique[g] /\ handles'[g] = handles[g] - 1
    BY <1>1, <1>4, Zenon DEF TypeOK, SetCount, Drop, Start
<1>8. Unused(g)' \/ Unique(g)' \/ Held(g)' \/ Shared(g)'
    BY <1>3, <1>4, <1>5, <1>6, <1>7
      , SMTT(30) DEF Sized, Unused, Unique, Held, Shared, REF_COUNT_UNUSED, REF_COUNT_UNIQUE
<1>9. Accounted'
    BY <1>1, <1>2, <1>4, <1>8, AccountedElsewhere, Zenon DEF TypeOK, SetCount, Drop, Start
<1>10. TypeOK'
    BY <1>1, <1>2, <1>4, <1>6, SMTT(30) DEF TypeOK, Loc, Sized, Shared, SetCount, Drop, Start
<1>11. LoadedShared'
    BY <1>1, <1>2, <1>4, Zenon DEF TypeOK, LoadedShared, SetCount, Drop, Start
<1>12. MetaWritten'
    BY <1>1, <1>2, <1>4, <1>6
      , Zenon DEF TypeOK, Sized, MetaWritten, Bounds, Unused, Unique, Held, Shared, SetCount, Drop, Start
<1> QED BY <1>9, <1>10, <1>11, <1>12 DEF IInv

\* The store(0) of UniqueFrame::drop and reset_as_unused.
LEMMA DropUniqueStep ==
    ASSUME Bounds, IInv, NEW t \in Thread, NEW f \in Frame,
           DropUnique(t, f)
    PROVE  IInv'
<1> DEFINE g == f
           loc == "drop_meta"
<1>1. g \in Frame /\ loc \in Loc /\ pc[t] \in Loc /\ Free(t, g)
    BY Zenon DEF IInv, TypeOK, Loc, Busy, Repurposing, Free, DropUnique, Start
<1>2. pc' = [pc EXCEPT ![t] = loc] /\ arg' = [arg EXCEPT ![t] = g]
    BY Zenon DEF IInv, TypeOK, DropUnique, Start, Goto
<1>3. pc[t] \notin Busy \cup Repurposing \cup {"leaked"}
      /\ loc \in Busy /\ loc \notin Repurposing \cup {"leaked"}
    BY Zenon DEF Busy, Repurposing, DropUnique, Start
<1>4. TypeOK /\ LoadedShared /\ MetaWritten /\ Sized(g) /\ Sorted(g)
    BY <1>1, Kinds, Zenon
<1>5. /\ NumBusy(g)' = NumBusy(g) + 1
      /\ NumRepurposing(g)' = NumRepurposing(g)
      /\ NumLeaked(g)' = NumLeaked(g)
    <2>1. /\ NumBusy(g)' = NumBusy(g) + Moved(t, loc, Busy)
          /\ NumRepurposing(g)' = NumRepurposing(g) + Moved(t, loc, Repurposing)
          /\ NumLeaked(g)' = NumLeaked(g) + Moved(t, loc, {"leaked"})
        BY <1>1, <1>2, NumbersHere, Zenon
    <2> QED BY <1>3, <1>4, <2>1, SMTT(30) DEF Sized, Moved
<1>6. Unique(g) /\ unique[g] = 1 /\ NumRepurposing(g) = 0
    BY <1>4, Zenon DEF Sorted, DropUnique, Start
<1>7. ref_count'[g] = 0 /\ handles'[g] = handles[g] /\ unique'[g] = unique[g] - 1
    BY <1>1, <1>4, Zenon DEF TypeOK, SetCount, DropUnique, Start
<1>8. Unused(g)' \/ Unique(g)' \/ Held(g)' \/ Shared(g)'
    BY <1>3, <1>4, <1>5, <1>6, <1>7
      , SMTT(30) DEF Sized, Unused, Unique, Held, Shared, REF_COUNT_UNUSED, REF_COUNT_UNIQUE
<1>9. Accounted'
    BY <1>1, <1>2, <1>4, <1>8, AccountedElsewhere, Zenon DEF TypeOK, SetCount, DropUnique, Start
<1>10. TypeOK'
    BY <1>1, <1>2, <1>4, <1>6, SMTT(30) DEF TypeOK, Loc, Sized, Shared, SetCount, DropUnique, Start
<1>11. LoadedShared'
    BY <1>1, <1>2, <1>4, Zenon DEF TypeOK, LoadedShared, SetCount, DropUnique, Start
<1>12. MetaWritten'
    BY <1>1, <1>2, <1>4, <1>6
      , Zenon DEF TypeOK, Sized, MetaWritten, Bounds, Unused, Unique, Held, Shared, SetCount, DropUnique, Start
<1> QED BY <1>9, <1>10, <1>11, <1>12 DEF IInv

\* The store(REF_COUNT_UNUSED) of drop_last_in_place.
LEMMA SetUnusedStep ==
    ASSUME Bounds, IInv, NEW t \in Thread, NEW g \in Frame,
           SetUnused(t), g = arg[t]
    PROVE  IInv'
<1> DEFINE loc == "idle"
<1>1. g \in Frame /\ loc \in Loc /\ pc[t] \in Loc /\ Free(t, g)
    BY Zenon DEF IInv, TypeOK, Loc, Busy, Repurposing, Free, SetUnused
<1>2. pc' = [pc EXCEPT ![t] = loc] /\ arg' = [arg EXCEPT ![t] = g]
    BY Zenon DEF IInv, TypeOK, SetUnused, Goto
<1>3. pc[t] \in Busy /\ pc[t] \notin Repurposing \cup {"leaked"}
      /\ loc \notin Busy \cup Repurposing \cup {"leaked"}
    BY Zenon DEF Busy, Repurposing, SetUnused
<1>4. TypeOK /\ LoadedShared /\ MetaWritten /\ Sized(g) /\ Sorted(g)
    BY <1>1, Kinds, Zenon
<1>5. /\ NumBusy(g)' = NumBusy(g) - 1
      /\ NumRepurposing(g)' = NumRepurposing(g)
      /\ NumLeaked(g)' = NumLeaked(g)
    <2>1. /\ NumBusy(g)' = NumBusy(g) + Moved(t, loc, Busy)
          /\ NumRepurposing(g)' = NumRepurposing(g) + Moved(t, loc, Repurposing)
          /\ NumLeaked(g)' = NumLeaked(g) + Moved(t, loc, {"leaked"})
        BY <1>1, <1>2, NumbersHere, Zenon
    <2> QED BY <1>3, <1>4, <2>1, SMTT(30) DEF Sized, Moved
<1>6. Held(g)
    BY <1>1, <1>3, BusyHolds, Zenon DEF Accounted, IInv, SetUnused
<1>7. ref_count'[g] = REF_COUNT_UNUSED /\ handles'[g] = handles[g] /\ unique'[g] = unique[g]
    BY <1>1, <1>4, Zenon DEF TypeOK, SetCount, SetUnused
<1>8. Unused(g)' \/ Unique(g)' \/ Held(g)' \/ Shared(g)'
    BY <1>3, <1>4, <1>5, <1>6, <1>7
      , SMTT(30) DEF Sized, Unused, Unique, Held, Shared, REF_COUNT_UNUSED, REF_COUNT_UNIQUE
<1>9. Accounted'
    BY <1>1, <1>2, <1>4, <1>8, AccountedElsewhere, Zenon DEF TypeOK, SetCount, SetUnused
<1>10. TypeOK'
    BY <1>1, <1>2, <1>4, <1>6, SMTT(30) DEF TypeOK, Loc, Sized, Shared, SetCount, SetUnused
<1>11. LoadedShared'
    BY <1>1, <1>2, <1>4, Zenon DEF TypeOK, LoadedShared, SetCount, SetUnused
<1>12. MetaWritten'
    BY <1>1, <1>2, <1>4, <1>6
      , SMTT(30) DEF TypeOK, Sized, MetaWritten, Bounds, Unused, Unique, Held, Shared, SetCount, SetUnused
<1> QED BY <1>9, <1>10, <1>11, <1>12 DEF IInv

\* UniqueFrame::repurpose takes the handle.
LEMMA RepurposeStep ==
    ASSUME Bounds, IInv, NEW t \in Thread, NEW f \in Frame,
           Repurpose(t, f)
    PROVE  IInv'
<1> DEFINE g == f
           loc == "drop_old"
<1>1. g \in Frame /\ loc \in Loc /\ pc[t] \in Loc /\ Free(t, g)
    BY Zenon DEF IInv, TypeOK, Loc, Busy, Repurposing, Free, Repurpose, Start
<1>2. pc' = [pc EXCEPT ![t] = loc] /\ arg' = [arg EXCEPT ![t] = g]
    BY Zenon DEF IInv, TypeOK, Repurpose, Start, Goto
<1>3. pc[t] \notin Busy \cup Repurposing \cup {"leaked"}
      /\ loc \in Repurposing /\ loc \notin Busy \cup {"leaked"}
    BY Zenon DEF Busy, Repurposing, Repurpose, Start
<1>4. TypeOK /\ LoadedShared /\ MetaWritten /\ Sized(g) /\ Sorted(g)
    BY <1>1, Kinds, Zenon
<1>5. /\ NumBusy(g)' = NumBusy(g)
      /\ NumRepurposing(g)' = NumRepurposing(g) + 1
      /\ NumLeaked(g)' = NumLeaked(g)
    <2>1. /\ NumBusy(g)' = NumBusy(g) + Moved(t, loc, Busy)
          /\ NumRepurposing(g)' = NumRepurposing(g) + Moved(t, loc, Repurposing)
          /\ NumLeaked(g)' = NumLeaked(g) + Moved(t, loc, {"leaked"})
        BY <1>1, <1>2, NumbersHere, Zenon
    <2> QED BY <1>3, <1>4, <2>1, SMTT(30) DEF Sized, Moved
<1>6. Unique(g) /\ unique[g] = 1 /\ NumRepurposing(g) = 0
    BY <1>4, Zenon DEF Sorted, Repurpose, Start
<1>7. ref_count'[g] = ref_count[g] /\ handles'[g] = handles[g] /\ unique'[g] = unique[g] - 1
    BY <1>1, <1>4, Zenon DEF TypeOK, SetCount, Repurpose, Start
<1>8. Unused(g)' \/ Unique(g)' \/ Held(g)' \/ Shared(g)'
    BY <1>3, <1>4, <1>5, <1>6, <1>7
      , SMTT(30) DEF Sized, Unused, Unique, Held, Shared, REF_COUNT_UNUSED, REF_COUNT_UNIQUE
<1>9. Accounted'
    BY <1>1, <1>2, <1>4, <1>8, AccountedElsewhere, Zenon DEF TypeOK, SetCount, Repurpose, Start
<1>10. TypeOK'
    BY <1>1, <1>2, <1>4, <1>6, SMTT(30) DEF TypeOK, Loc, Sized, Shared, SetCount, Repurpose, Start
<1>11. LoadedShared'
    BY <1>1, <1>2, <1>4, Zenon DEF TypeOK, LoadedShared, SetCount, Repurpose, Start
<1>12. MetaWritten'
    BY <1>1, <1>2, <1>4, <1>6
      , Zenon DEF TypeOK, Sized, MetaWritten, Bounds, Unused, Unique, Held, Shared, SetCount, Repurpose, Start
<1> QED BY <1>9, <1>10, <1>11, <1>12 DEF IInv

\* UniqueFrame::repurpose writes the new metadata.
LEMMA RepurposedStep ==
    ASSUME Bounds, IInv, NEW t \in Thread, NEW g \in Frame,
           Repurposed(t), g = arg[t]
    PROVE  IInv'
<1> DEFINE loc == "idle"
<1>1. g \in Frame /\ loc \in Loc /\ pc[t] \in Loc /\ Free(t, g)
    BY Zenon DEF IInv, TypeOK, Loc, Busy, Repurposing, Free, Repurposed
<1>2. pc' = [pc EXCEPT ![t] = loc] /\ arg' = [arg EXCEPT ![t] = g]
    BY Zenon DEF IInv, TypeOK, Repurposed, Goto
<1>3. pc[t] \in Repurposing /\ pc[t] \notin Busy \cup {"leaked"}
      /\ loc \notin Busy \cup Repurposing \cup {"leaked"}
    BY Zenon DEF Busy, Repurposing, Repurposed
<1>4. TypeOK /\ LoadedShared /\ MetaWritten /\ Sized(g) /\ Sorted(g)
    BY <1>1, Kinds, Zenon
<1>5. /\ NumBusy(g)' = NumBusy(g)
      /\ NumRepurposing(g)' = NumRepurposing(g) - 1
      /\ NumLeaked(g)' = NumLeaked(g)
    <2>1. /\ NumBusy(g)' = NumBusy(g) + Moved(t, loc, Busy)
          /\ NumRepurposing(g)' = NumRepurposing(g) + Moved(t, loc, Repurposing)
          /\ NumLeaked(g)' = NumLeaked(g) + Moved(t, loc, {"leaked"})
        BY <1>1, <1>2, NumbersHere, Zenon
    <2> QED BY <1>3, <1>4, <2>1, SMTT(30) DEF Sized, Moved
<1>6. Unique(g) /\ unique[g] = 0 /\ NumRepurposing(g) = 1
    BY <1>1, <1>3, RepurposingHolds, Zenon DEF Accounted, IInv, Repurposed
<1>7. ref_count'[g] = ref_count[g] /\ handles'[g] = handles[g] /\ unique'[g] = unique[g] + 1
    BY <1>1, <1>4, Zenon DEF TypeOK, SetCount, Repurposed
<1>8. Unused(g)' \/ Unique(g)' \/ Held(g)' \/ Shared(g)'
    <2>1. /\ ref_count[g] = REF_COUNT_UNIQUE /\ handles[g] = 0
          /\ NumLeaked(g) = 0 /\ NumBusy(g) = 0
        BY <1>6, Zenon DEF Unique
    <2>2. ref_count'[g] = REF_COUNT_UNIQUE /\ handles'[g] = 0 /\ unique'[g] = 1
        BY <1>6, <1>7, <2>1, SMTT(30)
    <2>3. NumLeaked(g)' = 0 /\ NumBusy(g)' = 0 /\ NumRepurposing(g)' = 0
        BY <1>5, <1>6, <2>1, SMTT(30)
    <2>4. Unique(g)'
        BY <2>2, <2>3, SMTT(30) DEF Unique, REF_COUNT_UNIQUE
    <2> QED BY <2>4, Zenon
<1>9. Accounted'
    BY <1>1, <1>2, <1>4, <1>8, AccountedElsewhere, ZenonT(40) DEF TypeOK, SetCount, Repurposed
<1>10. TypeOK'
    BY <1>1, <1>2, <1>4, <1>6, SMTT(30) DEF TypeOK, Loc, Sized, Shared, SetCount, Repurposed
<1>11. LoadedShared'
    BY <1>1, <1>2, <1>4, Zenon DEF TypeOK, LoadedShared, SetCount, Repurposed
<1>12. MetaWritten'
    BY <1>1, <1>2, <1>4, <1>6
      , SMTT(30) DEF TypeOK, Sized, MetaWritten, Bounds, Unused, Unique, Held, Shared, SetCount, Repurposed
<1> QED BY <1>9, <1>10, <1>11, <1>12 DEF IInv

\* drop_meta_in_place of the last handle.
LEMMA DropMetaStep ==
    ASSUME Bounds, IInv, NEW t \in Thread, NEW g \in Frame,
           DropMeta(t, "drop_meta", "set_unused"), g = arg[t]
    PROVE  IInv'
<1> DEFINE loc == "set_unused"
<1>1. g \in Frame /\ loc \in Loc /\ pc[t] \in Loc /\ Free(t, g)
    BY Zenon DEF IInv, TypeOK, Loc, Busy, Repurposing, Free, DropMeta
<1>2. pc' = [pc EXCEPT ![t] = loc] /\ arg' = [arg EXCEPT ![t] = g]
    BY Zenon DEF IInv, TypeOK, DropMeta, Goto
<1>3. pc[t] \in Busy /\ pc[t] \notin Repurposing \cup {"leaked"}
      /\ loc \in Busy /\ loc \notin Repurposing \cup {"leaked"}
    BY Zenon DEF Busy, Repurposing, DropMeta
<1>4. TypeOK /\ LoadedShared /\ MetaWritten /\ Sized(g) /\ Sorted(g)
    BY <1>1, Kinds, Zenon
<1>5. /\ NumBusy(g)' = NumBusy(g)
      /\ NumRepurposing(g)' = NumRepurposing(g)
      /\ NumLeaked(g)' = NumLeaked(g)
    <2>1. /\ NumBusy(g)' = NumBusy(g) + Moved(t, loc, Busy)
          /\ NumRepurposing(g)' = NumRepurposing(g) + Moved(t, loc, Repurposing)
          /\ NumLeaked(g)' = NumLeaked(g) + Moved(t, loc, {"leaked"})
        BY <1>1, <1>2, NumbersHere, Zenon
    <2> QED BY <1>3, <1>4, <2>1, SMTT(30) DEF Sized, Moved
<1>6. Held(g)
    BY <1>1, <1>3, BusyHolds, Zenon DEF Accounted, IInv, DropMeta
<1>7. ref_count'[g] = ref_count[g] /\ handles'[g] = handles[g] /\ unique'[g] = unique[g]
    BY <1>1, <1>4, Zenon DEF TypeOK, SetCount, DropMeta
<1>8. Unused(g)' \/ Unique(g)' \/ Held(g)' \/ Shared(g)'
    BY <1>3, <1>4, <1>5, <1>6, <1>7
      , Zenon DEF Sized, Unused, Unique, Held, Shared, REF_COUNT_UNUSED, REF_COUNT_UNIQUE
<1>9. Accounted'
    BY <1>1, <1>2, <1>4, <1>8, AccountedElsewhere, Zenon DEF TypeOK, SetCount, DropMeta
<1>10. TypeOK'
    BY <1>1, <1>2, <1>4, <1>6, Zenon DEF TypeOK, Loc, Sized, Shared, SetCount, DropMeta
<1>11. LoadedShared'
    BY <1>1, <1>2, <1>4, Zenon DEF TypeOK, LoadedShared, SetCount, DropMeta
<1>12. MetaWritten'
    <2>1. \A u \in Thread : u # t /\ pc[u] \in Busy => arg[u] # g
        BY <1>3, BusyHolds, Zenon DEF IInv
    <2> QED BY <1>1, <1>2, <1>4, <1>6, <2>1, SMTT(30) DEF TypeOK, MetaWritten, Held, Busy, DropMeta
<1> QED BY <1>9, <1>10, <1>11, <1>12 DEF IInv

\* drop_meta_in_place of repurpose.
LEMMA DropOldStep ==
    ASSUME Bounds, IInv, NEW t \in Thread, NEW g \in Frame,
           DropMeta(t, "drop_old", "write_new"), g = arg[t]
    PROVE  IInv'
<1> DEFINE loc == "write_new"
<1>1. g \in Frame /\ loc \in Loc /\ pc[t] \in Loc /\ Free(t, g)
    BY Zenon DEF IInv, TypeOK, Loc, Busy, Repurposing, Free, DropMeta
<1>2. pc' = [pc EXCEPT ![t] = loc] /\ arg' = [arg EXCEPT ![t] = g]
    BY Zenon DEF IInv, TypeOK, DropMeta, Goto
<1>3. pc[t] \in Repurposing /\ pc[t] \notin Busy \cup {"leaked"}
      /\ loc \in Repurposing /\ loc \notin Busy \cup {"leaked"}
    BY Zenon DEF Busy, Repurposing, DropMeta
<1>4. TypeOK /\ LoadedShared /\ MetaWritten /\ Sized(g) /\ Sorted(g)
    BY <1>1, Kinds, Zenon
<1>5. /\ NumBusy(g)' = NumBusy(g)
      /\ NumRepurposing(g)' = NumRepurposing(g)
      /\ NumLeaked(g)' = NumLeaked(g)
    <2>1. /\ NumBusy(g)' = NumBusy(g) + Moved(t, loc, Busy)
          /\ NumRepurposing(g)' = NumRepurposing(g) + Moved(t, loc, Repurposing)
          /\ NumLeaked(g)' = NumLeaked(g) + Moved(t, loc, {"leaked"})
        BY <1>1, <1>2, NumbersHere, Zenon
    <2> QED BY <1>3, <1>4, <2>1, SMTT(30) DEF Sized, Moved
<1>6. Unique(g) /\ unique[g] = 0 /\ NumRepurposing(g) = 1
    BY <1>1, <1>3, RepurposingHolds, Zenon DEF Accounted, IInv, DropMeta
<1>7. ref_count'[g] = ref_count[g] /\ handles'[g] = handles[g] /\ unique'[g] = unique[g]
    BY <1>1, <1>4, Zenon DEF TypeOK, SetCount, DropMeta
<1>8. Unused(g)' \/ Unique(g)' \/ Held(g)' \/ Shared(g)'
    BY <1>3, <1>4, <1>5, <1>6, <1>7
      , Zenon DEF Sized, Unused, Unique, Held, Shared, REF_COUNT_UNUSED, REF_COUNT_UNIQUE
<1>9. Accounted'
    BY <1>1, <1>2, <1>4, <1>8, AccountedElsewhere, Zenon DEF TypeOK, SetCount, DropMeta
<1>10. TypeOK'
    BY <1>1, <1>2, <1>4, <1>6, Zenon DEF TypeOK, Loc, Sized, Shared, SetCount, DropMeta
<1>11. LoadedShared'
    BY <1>1, <1>2, <1>4, Zenon DEF TypeOK, LoadedShared, SetCount, DropMeta
<1>12. MetaWritten'
    <2>1. \A u \in Thread : pc[u] \in Busy => ref_count[arg[u]] = 0
        BY BusyHolds, Zenon DEF IInv, Held
    <2>2. ref_count[g] = REF_COUNT_UNIQUE /\ REF_COUNT_UNIQUE # 0 /\ unique[g] = 0
        BY <1>4, <1>6, SMTT(30) DEF Sized, Unique
    <2>3. \A u \in Thread : pc[u] \in Busy => arg[u] # g
        BY <2>1, <2>2, Zenon
    <2> QED BY <1>1, <1>2, <1>4, <2>2, <2>3, SMTT(30) DEF Sized, TypeOK, MetaWritten, Busy, DropMeta
<1> QED BY <1>9, <1>10, <1>11, <1>12 DEF IInv

-----------------------------------------------------------------------------
\* Steps of handles that no thread is in the middle of.
LEMMA NumbersStay ==
    ASSUME pc' = pc, arg' = arg, NEW f
    PROVE  /\ NumBusy(f)' = NumBusy(f) /\ NumRepurposing(f)' = NumRepurposing(f)
           /\ NumLeaked(f)' = NumLeaked(f)
BY Zenon DEF NumBusy, NumRepurposing, NumLeaked, Owners, Busy, Repurposing

\* try_from_shared, from_unique and meta_mut, or nothing at all.
LEMMA ConversionStep ==
    ASSUME Bounds, IInv, NEW f \in Frame, TryFromShared(f) \/ FromUnique(f) \/ MetaMut(f)
    PROVE  IInv'
<1>1. pc' = pc /\ arg' = arg /\ last' = last
    BY Zenon DEF TryFromShared, FromUnique, MetaMut
<1>2. ASSUME NEW g \in Frame PROVE Unused(g)' \/ Unique(g)' \/ Held(g)' \/ Shared(g)'
    <2>1. /\ NumBusy(g)' = NumBusy(g) /\ NumRepurposing(g)' = NumRepurposing(g)
          /\ NumLeaked(g)' = NumLeaked(g)
        BY <1>1, NumbersStay, Zenon
    <2>2. /\ Unused(g) \/ Unique(g) \/ Held(g) \/ Shared(g)
          /\ TypeOK /\ Sized(g) /\ Sorted(g)
        BY Kinds, Zenon DEF IInv, Accounted
    <2>3. CASE /\ ref_count'[g] = ref_count[g]
               /\ handles'[g] = handles[g] /\ unique'[g] = unique[g]
        BY <2>1, <2>2, <2>3, Zenon DEF Unused, Unique, Held, Shared, REF_COUNT_UNUSED, REF_COUNT_UNIQUE
    <2>4. CASE g = f /\ TryFromShared(f)
        <3>1. Shared(g) /\ handles[g] > 0 /\ ref_count[g] = 1
            BY <2>2, <2>4, Zenon DEF Sorted, TryFromShared
        <3>2. /\ ref_count'[g] = REF_COUNT_UNIQUE
              /\ handles'[g] = handles[g] - 1 /\ unique'[g] = unique[g] + 1
            BY <2>2, <2>4, Zenon DEF TypeOK, TryFromShared, SetCount
        <3>3. /\ handles[g] + NumLeaked(g) = 1 /\ NumBusy(g) = 0 /\ unique[g] = 0
              /\ NumRepurposing(g) = 0 /\ handles[g] \in Nat /\ NumLeaked(g) \in Nat
            BY <2>2, <3>1, Zenon DEF Sized, Shared
        <3>4. handles[g] = 1 /\ NumLeaked(g) = 0
            BY <3>1, <3>3, SMTT(30)
        <3>5. Unique(g)'
            BY <2>1, <3>2, <3>3, <3>4, SMTT(30) DEF Unique, REF_COUNT_UNIQUE
        <3> QED BY <3>5, Zenon
    <2>5. CASE g = f /\ FromUnique(f)
        <3>1. Unique(g) /\ unique[g] = 1 /\ NumRepurposing(g) = 0
            BY <2>2, <2>5, Zenon DEF Sorted, FromUnique
        <3>2. /\ ref_count'[g] = 1 /\ handles'[g] = handles[g] + 1 /\ unique'[g] = unique[g] - 1
            BY <2>2, <2>5, Zenon DEF TypeOK, FromUnique, SetCount
        <3>3. Shared(g)'
            BY <2>1, <2>2, <3>1, <3>2, SMTT(30) DEF Sized, Unique, Shared
        <3> QED BY <3>3
    <2>6. \/ /\ ref_count'[g] = ref_count[g]
             /\ handles'[g] = handles[g] /\ unique'[g] = unique[g]
          \/ g = f /\ TryFromShared(f)
          \/ g = f /\ FromUnique(f)
        BY <2>2, SMTT(30) DEF TypeOK, TryFromShared, FromUnique, MetaMut, SetCount
    <2> QED BY <2>3, <2>4, <2>5, <2>6
<1>3. Accounted'
    BY <1>2, Zenon DEF Accounted
<1>4. TypeOK /\ LoadedShared /\ MetaWritten /\ Sized(f) /\ Sorted(f)
    BY Kinds, Zenon
<1>5. TypeOK'
    <2>1. CASE TryFromShared(f)
        BY <1>1, <1>4, <2>1, SMTT(30) DEF Sized, TypeOK, TryFromShared, SetCount
    <2>2. CASE FromUnique(f)
        BY <1>1, <1>4, <2>2, SMTT(30) DEF Sized, TypeOK, FromUnique, SetCount
    <2>3. CASE MetaMut(f)
        BY <1>1, <1>4, <2>3, SMTT(30) DEF TypeOK, MetaMut
    <2> QED BY <2>1, <2>2, <2>3, Zenon
<1>6. LoadedShared'
    BY <1>1, <1>4, Zenon DEF LoadedShared
<1>7. MetaWritten'
    <2>1. CASE TryFromShared(f)
        BY <1>1, <1>4, <2>1, SMTT(30) DEF Sized, TypeOK, MetaWritten, TryFromShared, SetCount
    <2>2. CASE FromUnique(f)
        BY <1>1, <1>4, <2>2, Zenon DEF Sized, TypeOK, MetaWritten, FromUnique, SetCount
    <2>3. CASE MetaMut(f)
        BY <1>1, <1>4, <2>3, SMTT(30) DEF TypeOK, Bounds, MetaWritten, MetaMut
    <2> QED BY <2>1, <2>2, <2>3
<1> QED BY <1>3, <1>5, <1>6, <1>7 DEF IInv

\* The invariant is inductive.
LEMMA InitIInv == ASSUME Bounds, Init PROVE IInv
<1>1. REF_COUNT_MAX \in Nat
    BY Zenon DEF Bounds
<1>2. TypeOK
    BY <1>1, SMTT(30) DEF Init, TypeOK, REF_COUNT_UNUSED
<1>3. ASSUME NEW f \in Frame PROVE Unused(f)
    <2>1. Owners(f, Busy) = {} /\ Owners(f, Repurposing) = {} /\ Owners(f, {"leaked"}) = {}
        BY Zenon DEF Init, Owners, Busy, Repurposing
    <2> QED BY <2>1, FS_EmptySet DEF Init, Unused, NumBusy, NumRepurposing, NumLeaked
<1>4. LoadedShared
    BY Zenon DEF Init, LoadedShared
<1>5. MetaWritten
    BY <1>1, SMTT(30) DEF Init, MetaWritten, REF_COUNT_UNUSED, REF_COUNT_UNIQUE
<1> QED BY <1>2, <1>3, <1>4, <1>5 DEF IInv, Accounted

LEMMA NextIInv == ASSUME Bounds, IInv, [Next]_vars PROVE IInv'
<1>1. ASSUME NEW t \in Thread, Step(t) PROVE IInv'
    <2>1. PICK g \in Frame : g = arg[t]
        BY Zenon DEF IInv, TypeOK
    <2>2. CASE LoadCount(t)
        <3>1. PICK loc \in Loc : loc = pc'[t]
            BY <2>2, Zenon DEF IInv, TypeOK, LoadCount, Goto, Loc
        <3> QED BY <2>1, <2>2, <3>1, LoadCountStep
    <2>3. CASE IncIfUnchanged(t)
        BY <2>1, <2>3, IncSucceedsStep, IncFailsStep, Zenon DEF IncIfUnchanged
    <2>4. CASE WriteMeta(t, "write_shared", "publish_shared")
        BY <2>1, <2>4, WriteMetaStep, Zenon
    <2>5. CASE WriteMeta(t, "write_unique", "publish_unique")
        BY <2>1, <2>5, WriteMetaStep, Zenon
    <2> QED BY <1>1, <2>1, <2>2, <2>3, <2>4, <2>5, PublishSharedStep, PublishUniqueStep, DropMetaStep,
               SetUnusedStep, DropOldStep, RepurposedStep, Zenon DEF Step
<1>2. ASSUME NEW t \in Thread, NEW f \in Frame, Call(t, f) PROVE IInv'
    BY <1>2, GetFromUnusedStep, FromInUseStep, IncRefCountStep, DropStep, DropUniqueStep,
       RepurposeStep, Zenon DEF Call
<1>3. CASE UNCHANGED vars
    <2>1. TypeOK' /\ LoadedShared' /\ MetaWritten'
        BY <1>3, Zenon DEF IInv, TypeOK, LoadedShared, MetaWritten, vars
    <2>2. ASSUME NEW f \in Frame PROVE Unused(f)' \/ Unique(f)' \/ Held(f)' \/ Shared(f)'
        <3>1. /\ NumBusy(f)' = NumBusy(f) /\ NumRepurposing(f)' = NumRepurposing(f)
              /\ NumLeaked(f)' = NumLeaked(f)
            BY <1>3, NumbersStay, Zenon DEF vars
        <3> QED BY <1>3, <3>1 DEF IInv, Accounted, Unused, Unique, Held, Shared, vars,
                                  REF_COUNT_UNUSED, REF_COUNT_UNIQUE
    <2> QED BY <2>1, <2>2 DEF IInv, Accounted
<1> QED BY <1>1, <1>2, <1>3, ConversionStep DEF Next

-----------------------------------------------------------------------------
LEMMA IInvCounts == ASSUME Bounds, IInv PROVE CountAccounts
<1> SUFFICES ASSUME NEW f \in Frame
             PROVE  LET building == NumBusy(f)
                        owners == unique[f] + NumRepurposing(f)
                        references == handles[f] + NumLeaked(f)
                    IN CASE ref_count[f] = REF_COUNT_UNUSED -> references = 0 /\ owners = 0 /\ building = 0
                         [] ref_count[f] = REF_COUNT_UNIQUE -> references = 0 /\ owners = 1 /\ building = 0
                         [] ref_count[f] = 0 -> references = 0 /\ owners = 0 /\ building = 1
                         [] OTHER -> references = ref_count[f] /\ owners = 0 /\ building = 0
    BY Zenon DEF CountAccounts, References, NumBusy, NumRepurposing, NumLeaked
<1>1. Sized(f) /\ Sorted(f)
    BY Kinds, Zenon
<1>2. CASE ref_count[f] = REF_COUNT_UNUSED
    <2>1. Unused(f) /\ REF_COUNT_UNUSED # REF_COUNT_UNIQUE /\ REF_COUNT_UNUSED # 0
        BY <1>1, <1>2, SMTT(30) DEF Sized, Sorted
    <2> QED BY <1>2, <2>1 DEF Unused
<1>3. CASE ref_count[f] = REF_COUNT_UNIQUE
    <2>1. Unique(f) /\ REF_COUNT_UNUSED # REF_COUNT_UNIQUE /\ REF_COUNT_UNIQUE # 0
        BY <1>1, <1>3, SMTT(30) DEF Sized, Sorted
    <2> QED BY <1>3, <2>1 DEF Unique
<1>4. CASE ref_count[f] = 0
    <2>1. Held(f) /\ REF_COUNT_UNUSED # 0 /\ REF_COUNT_UNIQUE # 0
        BY <1>1, <1>4, SMTT(30) DEF Sized, Sorted
    <2> QED BY <1>4, <2>1 DEF Held
<1>5. CASE ref_count[f] \notin {REF_COUNT_UNUSED, REF_COUNT_UNIQUE, 0}
    <2>1. Shared(f)
        BY <1>5, <1>1, Zenon DEF Sorted
    <2> QED BY <1>5, <2>1 DEF Shared
<1> QED BY <1>2, <1>3, <1>4, <1>5

\* A frame somebody shares has metadata that no step replaces.
LEMMA NextKeepsMeta == ASSUME Bounds, IInv, [Next]_vars PROVE SharedMetaKept
<1> SUFFICES ASSUME NEW f \in Frame, handles[f] > 0, meta'[f] # meta[f] PROVE FALSE
    BY Zenon DEF SharedMetaKept
<1>1. /\ ref_count[f] > 0 /\ ref_count[f] < REF_COUNT_UNIQUE /\ unique[f] = 0
      /\ ref_count[f] \in Int /\ REF_COUNT_UNIQUE \in Int /\ TypeOK
    BY Kinds, SMTT(30) DEF Sized, Sorted, Shared
<1>2. ASSUME NEW t \in Thread, Step(t) PROVE FALSE
    <2>1. arg[t] = f /\ pc[t] \in Busy \cup Repurposing
        <3>1. CASE \/ WriteMeta(t, "write_shared", "publish_shared")
                   \/ WriteMeta(t, "write_unique", "publish_unique")
            BY <1>1, <3>1, Zenon DEF TypeOK, WriteMeta, Busy
        <3>2. CASE DropMeta(t, "drop_meta", "set_unused") \/ DropMeta(t, "drop_old", "write_new")
            BY <1>1, <3>2, Zenon DEF TypeOK, DropMeta, Busy, Repurposing
        <3>3. CASE Repurposed(t)
            BY <1>1, <3>3, Zenon DEF TypeOK, Repurposed, Repurposing
        <3>4. CASE PublishShared(t) \/ PublishUnique(t) \/ LoadCount(t) \/ IncIfUnchanged(t) \/ SetUnused(t)
            BY <3>4, Zenon DEF PublishShared, PublishUnique, LoadCount, IncIfUnchanged, SetUnused
        <3> QED BY <1>2, <3>1, <3>2, <3>3, <3>4 DEF Step
    <2>2. CASE pc[t] \in Busy
        <3>1. Held(arg[t])
            BY <2>2, BusyHolds, Zenon DEF IInv
        <3>2. ref_count[f] = 0
            BY <2>1, <3>1, Zenon DEF Held
        <3> QED BY <1>1, <3>2
    <2>3. CASE pc[t] \in Repurposing
        <3>1. Unique(arg[t])
            BY <2>3, RepurposingHolds, Zenon DEF IInv
        <3>2. ref_count[f] = REF_COUNT_UNIQUE
            BY <2>1, <3>1, Zenon DEF Unique
        <3> QED BY <1>1, <3>2
    <2> QED BY <2>1, <2>2, <2>3, Zenon
<1>3. ASSUME NEW t \in Thread, NEW g \in Frame, Call(t, g) PROVE FALSE
    BY <1>3, Zenon DEF Call, GetFromUnused, FromInUse, IncRefCount, Drop, DropUnique, Repurpose
<1>4. ASSUME NEW g \in Frame, TryFromShared(g) \/ FromUnique(g) \/ MetaMut(g) PROVE FALSE
    <2>1. g = f /\ unique[g] > 0
        BY <1>1, <1>4, Zenon DEF TypeOK, TryFromShared, FromUnique, MetaMut
    <2> QED BY <1>1, <2>1, SMTT(30)
<1>5. CASE UNCHANGED vars
    BY <1>5, Zenon DEF vars
<1> QED BY <1>2, <1>3, <1>4, <1>5 DEF Next

\* The count of every slot says exactly who has the frame, whatever clones,
\* drops, from_in_use and from_unused run against each other and however many
\* clones panic at the maximum.
THEOREM FrameCounts == ASSUME Bounds PROVE Spec => []CountAccounts
<1>1. Init => IInv
    BY InitIInv, Zenon
<1>2. IInv /\ [Next]_vars => IInv'
    BY NextIInv, Zenon
<1>3. IInv => CountAccounts
    BY IInvCounts, Zenon
<1> QED BY <1>1, <1>2, <1>3, PTL DEF Spec

\* Whoever has a handle finds initialized metadata: the compare_exchange of
\* from_in_use does not hand out a slot that has been freed and is being reused.
THEOREM FrameMetaInitialized == ASSUME Bounds PROVE Spec => []MetaInitialized
<1>1. Init => IInv
    BY InitIInv, Zenon
<1>2. IInv /\ [Next]_vars => IInv'
    BY NextIInv, Zenon
<1>3. IInv => MetaInitialized
    <2> SUFFICES ASSUME IInv, NEW f \in Frame, handles[f] + unique[f] > 0 PROVE meta[f] # Uninit
        BY Zenon DEF MetaInitialized
    <2>1. handles[f] > 0 \/ unique[f] > 0
        BY Kinds, SMTT(30) DEF Sized
    <2>2. (ref_count[f] > 0 /\ ref_count[f] < REF_COUNT_UNIQUE) \/ unique[f] > 0
        BY <2>1, Kinds, Zenon DEF Sorted
    <2> QED BY <2>2 DEF IInv, MetaWritten
<1> QED BY <1>1, <1>2, <1>3, PTL DEF Spec

\* Metadata does not change under a shared handle: write_meta,
\* drop_meta_in_place and meta_mut only touch slots nobody shares.
THEOREM FrameMetaImmutable == ASSUME Bounds PROVE Spec => SharedMetaImmutable
<1>1. Init => IInv
    BY InitIInv, Zenon
<1>2. IInv /\ [Next]_vars => IInv'
    BY NextIInv, Zenon
<1>3. IInv /\ [Next]_vars => [SharedMetaKept]_vars
    BY NextKeepsMeta, Zenon
<1> QED BY <1>1, <1>2, <1>3, PTL DEF Spec, SharedMetaImmutable
=============================================================================

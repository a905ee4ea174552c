---------------------------- MODULE RwLockProofs ----------------------------
(***************************************************************************)
(* For every finite set of threads and every MAX_READER: the word of RwLock *)
(* is the sum of what guards and failed attempts put into it, guards exclude*)
(* one another, and RwLock implements AbstractRwLock.                       *)
(***************************************************************************)
EXTENDS RwLock, FiniteSetTheorems, TLAPS

\* Inductive as it stands: the word tells an atomic operation who is there
\* (WordAccounts), and the operation admits only who may join (Exclusion).
IInv == TypeOK /\ WordAccounts /\ Exclusion

-----------------------------------------------------------------------------
\* The bit tests recover the four fields a word is the sum of.
LEMMA Decode ==
    ASSUME NEW w \in {0, WRITER}, NEW u \in {0, UPGRADEABLE_READER},
           NEW b \in {0, BEING_UPGRADED}, NEW r \in 0 .. 2 * MAX_READER - 1
    PROVE  /\ HasWriter(w + u + b + r) <=> w = WRITER
           /\ HasUpreader(w + u + b + r) <=> u = UPGRADEABLE_READER
           /\ HasUpgrading(w + u + b + r) <=> b = BEING_UPGRADED
           /\ HasMaxReader(w + u + b + r) <=> r >= MAX_READER
           /\ w + u + b + r \in Word
  BY MaxReaderAssumption
 , SMTT(30) DEF HasWriter, HasUpreader, HasUpgrading, HasMaxReader, ReaderBits, Below, Word,
      WordSize, WRITER, UPGRADEABLE_READER, BEING_UPGRADED

\* The owners of reader counts are a finite set too small to overflow the field.
LEMMA ReaderCount ==
    /\ IsFiniteSet(ReaderBitOwners)
    /\ Cardinality(ReaderBitOwners) \in 0 .. 2 * MAX_READER - 1
  <1>1. ReaderBitOwners \subseteq Thread
    BY Zenon DEF ReaderBitOwners, At
  <1>2. /\ IsFiniteSet(ReaderBitOwners)
        /\ Cardinality(ReaderBitOwners) \in Nat
        /\ Cardinality(Thread) \in Nat
        /\ Cardinality(ReaderBitOwners) <= Cardinality(Thread)
    BY <1>1, ThreadAssumption, FS_Subset, FS_CardinalityType, Zenon
  <1>3. QED
    BY <1>2, ThreadAssumption, MaxReaderAssumption, SMTT(30)

\* The same field values, read off a reachable word.
LEMMA Fields ==
    ASSUME IInv
    PROVE  /\ HasWriter(lock) <=> Writers # {}
           /\ HasUpreader(lock) <=> UpreaderBitOwners # {}
           /\ HasUpgrading(lock) <=> At({"upgrading"}) # {}
           /\ HasMaxReader(lock) <=> Cardinality(ReaderBitOwners) >= MAX_READER
  <1> DEFINE w == Bit(Writers, WRITER)
             u == Bit(UpreaderBitOwners, UPGRADEABLE_READER)
             b == Bit(At({"upgrading"}), BEING_UPGRADED)
             r == Cardinality(ReaderBitOwners)
  <1>1. /\ w \in {0, WRITER} /\ (w = WRITER <=> Writers # {})
        /\ u \in {0, UPGRADEABLE_READER} /\ (u = UPGRADEABLE_READER <=> UpreaderBitOwners # {})
        /\ b \in {0, BEING_UPGRADED} /\ (b = BEING_UPGRADED <=> At({"upgrading"}) # {})
    BY MaxReaderAssumption, SMTT(30) DEF Bit, WRITER, UPGRADEABLE_READER, BEING_UPGRADED
  <1>2. lock = w + u + b + r
    BY Zenon DEF IInv, WordAccounts
  <1>3. r \in 0 .. 2 * MAX_READER - 1
    BY ReaderCount, Zenon
  <1> HIDE DEF w, u, b, r
  <1>4. /\ HasWriter(w + u + b + r) <=> w = WRITER
        /\ HasUpreader(w + u + b + r) <=> u = UPGRADEABLE_READER
        /\ HasUpgrading(w + u + b + r) <=> b = BEING_UPGRADED
        /\ HasMaxReader(w + u + b + r) <=> r >= MAX_READER
    BY <1>1, <1>3, Decode, Zenon
  <1>5. QED
    BY <1>1, <1>2, <1>4, Zenon DEF r

\* A word is the sum of four non-negative fields.
LEMMA FieldTypes ==
    /\ Bit(Writers, WRITER) \in {0, WRITER}
    /\ Bit(UpreaderBitOwners, UPGRADEABLE_READER) \in {0, UPGRADEABLE_READER}
    /\ Bit(At({"upgrading"}), BEING_UPGRADED) \in {0, BEING_UPGRADED}
    /\ Cardinality(ReaderBitOwners) \in Nat
    /\ WRITER \in Nat \ {0}
    /\ UPGRADEABLE_READER \in Nat \ {0}
    /\ BEING_UPGRADED \in Nat \ {0}
  <1>1. Cardinality(ReaderBitOwners) \in Nat
    BY ReaderCount, MaxReaderAssumption, SMTT(30)
  <1>2. QED
    BY <1>1, MaxReaderAssumption, SMTT(30) DEF Bit, WRITER, UPGRADEABLE_READER, BEING_UPGRADED

\* The word is 0 only when nobody owns a part of it.
LEMMA EmptyWord ==
    ASSUME IInv, lock = 0
    PROVE  /\ Writers = {} /\ UpreaderBitOwners = {} /\ At({"upgrading"}) = {}
           /\ Cardinality(ReaderBitOwners) = 0
  <1> DEFINE w == Bit(Writers, WRITER)
             u == Bit(UpreaderBitOwners, UPGRADEABLE_READER)
             b == Bit(At({"upgrading"}), BEING_UPGRADED)
             r == Cardinality(ReaderBitOwners)
  <1>1. w \in Nat /\ u \in Nat /\ b \in Nat /\ r \in Nat
    BY FieldTypes, SMTT(30)
  <1>2. 0 = w + u + b + r
    BY Zenon DEF IInv, WordAccounts
  <1>3. w = 0 /\ u = 0 /\ b = 0 /\ r = 0
    <2> HIDE DEF w, u, b, r
    <2>1. QED
      BY <1>1, <1>2, SMTT(30)
  <1>4. QED
    BY <1>3, FieldTypes, Zenon DEF Bit

\* Where a step takes its thread decides how the sets of owners change.
LEMMA GotoSets ==
    ASSUME TypeOK, NEW t \in Thread, NEW loc \in Locations, Goto(t, loc)
    PROVE  /\ pc' \in [Thread -> Locations]
           /\ pc'[t] = loc
           /\ \A L : At(L)' = IF loc \in L THEN At(L) \cup {t} ELSE At(L) \ {t}
  BY Zenon DEF TypeOK, Goto, At

\* What is left to show of a step: the four fields of the new word.
LEMMA Preserve ==
    ASSUME IInv, Exclusion', NEW t \in Thread, NEW loc \in Locations, Goto(t, loc),
           spin' \in [Thread -> BOOLEAN],
           \A s, q \in UpreaderBitOwners' : s = q,
           lock' = Bit(Writers', WRITER)
                   + Bit(UpreaderBitOwners', UPGRADEABLE_READER)
                   + Bit(At({"upgrading"})', BEING_UPGRADED)
                   + Cardinality(ReaderBitOwners')
    PROVE  IInv'
  <1>1. pc' \in [Thread -> Locations]
    BY GotoSets, Zenon DEF IInv
  <1>2. ReaderBitOwners' \subseteq Thread
    BY Zenon DEF ReaderBitOwners, At
  <1>3. /\ Cardinality(ReaderBitOwners') \in Nat
        /\ Cardinality(Thread) \in Nat
        /\ Cardinality(ReaderBitOwners') <= Cardinality(Thread)
    BY <1>2, ThreadAssumption, FS_Subset, FS_CardinalityType, Zenon
  <1>4. Cardinality(ReaderBitOwners') \in 0 .. 2 * MAX_READER - 1
    BY <1>3, ThreadAssumption, MaxReaderAssumption, SMTT(30)
  <1>5. lock' \in Word
    <2> DEFINE w == Bit(Writers', WRITER)
               u == Bit(UpreaderBitOwners', UPGRADEABLE_READER)
               b == Bit(At({"upgrading"})', BEING_UPGRADED)
               r == Cardinality(ReaderBitOwners')
    <2>1. w \in {0, WRITER} /\ u \in {0, UPGRADEABLE_READER} /\ b \in {0, BEING_UPGRADED}
      BY Zenon DEF Bit
    <2>2. lock' = w + u + b + r
      BY Zenon
    <2>3. r \in 0 .. 2 * MAX_READER - 1
      BY <1>4, Zenon
    <2> HIDE DEF w, u, b, r
    <2>4. QED
      BY <2>1, <2>2, <2>3, Decode, SMTT(30)
  <1>6. QED
    BY <1>1, <1>5, Zenon DEF IInv, TypeOK, WordAccounts

\* A reader count is added or taken back without a carry into the bits above.
LEMMA AddReader ==
    ASSUME IInv, NEW t \in Thread, t \notin ReaderBitOwners,
           ReaderBitOwners' = ReaderBitOwners \cup {t}
    PROVE  /\ Cardinality(ReaderBitOwners') = Cardinality(ReaderBitOwners) + 1
           /\ FetchAdd(lock, READER) = lock + 1
  <1>1. /\ Cardinality(ReaderBitOwners') = Cardinality(ReaderBitOwners) + 1
        /\ Cardinality(ReaderBitOwners) \in Nat
    BY ReaderCount, FS_AddElement, SMTT(30)
  <1>2. ReaderBitOwners' \subseteq Thread
    BY Zenon DEF ReaderBitOwners, At
  <1>3. /\ Cardinality(ReaderBitOwners') <= Cardinality(Thread)
        /\ Cardinality(Thread) \in Nat
    BY <1>2, ThreadAssumption, FS_Subset, FS_CardinalityType, Zenon
  <1>4. Cardinality(ReaderBitOwners) + 1 < 2 * MAX_READER
    BY <1>1, <1>3, ThreadAssumption, MaxReaderAssumption, SMTT(30)
  <1>5. lock + 1 < WordSize /\ lock \in Nat
    BY <1>1, <1>4, MaxReaderAssumption
   , SMTT(30) DEF IInv, TypeOK, Word, WordAccounts, Bit, WordSize, WRITER, UPGRADEABLE_READER, BEING_UPGRADED
  <1>6. QED
    BY <1>1, <1>5, MaxReaderAssumption, SMTT(30) DEF FetchAdd, Wrap, READER, WordSize

LEMMA RemoveReader ==
    ASSUME IInv, NEW t \in Thread, t \in ReaderBitOwners,
           ReaderBitOwners' = ReaderBitOwners \ {t}
    PROVE  /\ Cardinality(ReaderBitOwners') = Cardinality(ReaderBitOwners) - 1
           /\ FetchSub(lock, READER) = lock - 1
  <1>1. /\ Cardinality(ReaderBitOwners') = Cardinality(ReaderBitOwners) - 1
        /\ Cardinality(ReaderBitOwners) \in Nat
        /\ Cardinality(ReaderBitOwners') \in Nat
    BY ReaderCount, FS_RemoveElement, FS_CardinalityType, Zenon
  <1>2. lock - 1 >= 0 /\ lock \in Nat /\ lock - 1 < WordSize
    BY <1>1, MaxReaderAssumption
   , SMTT(30) DEF IInv, TypeOK, Word, WordAccounts, Bit, WordSize, WRITER, UPGRADEABLE_READER, BEING_UPGRADED
  <1>3. QED
    BY <1>1, <1>2, MaxReaderAssumption, SMTT(30) DEF FetchSub, Wrap, READER, WordSize

-----------------------------------------------------------------------------
LEMMA TryReadStep ==
    ASSUME IInv, NEW t \in Thread, TryRead(t)
    PROVE  IInv'
  <1> DEFINE loc == IF AdmitsReader(lock) THEN "reading" ELSE "read_retract"
  <1>1. loc \in Locations /\ Goto(t, loc) /\ pc[t] = "read" /\ spin' = spin
    BY Zenon DEF TryRead, Locations, Calls
  <1>2. \A L : At(L)' = IF loc \in L THEN At(L) \cup {t} ELSE At(L) \ {t}
    BY <1>1, GotoSets, Zenon DEF IInv
  <1>3. \A L : "read" \notin L => t \notin At(L)
    BY <1>1, Zenon DEF At
  <1>4. /\ Writers' = Writers
        /\ UpreaderBitOwners' = UpreaderBitOwners
        /\ Upreaders' = Upreaders
        /\ At({"upgrading"})' = At({"upgrading"})
        /\ t \notin ReaderBitOwners
        /\ ReaderBitOwners' = ReaderBitOwners \cup {t}
        /\ At({"reading"})' = IF AdmitsReader(lock) THEN At({"reading"}) \cup {t} ELSE At({"reading"})
    BY <1>2, <1>3, Zenon DEF Writers, Upreaders, UpreaderBitOwners, ReaderBitOwners
  <1>5. AdmitsReader(lock) => Writers = {}
    BY Fields, Zenon DEF AdmitsReader
  <1>6. Exclusion'
    BY <1>4, <1>5, Zenon DEF IInv, Exclusion
  <1>7. /\ Cardinality(ReaderBitOwners') = Cardinality(ReaderBitOwners) + 1
        /\ lock' = lock + 1
        /\ Cardinality(ReaderBitOwners) \in Nat
    <2>1. t \notin ReaderBitOwners /\ ReaderBitOwners' = ReaderBitOwners \cup {t}
      BY <1>4, Zenon
    <2>2. /\ Cardinality(ReaderBitOwners') = Cardinality(ReaderBitOwners) + 1
          /\ FetchAdd(lock, READER) = lock + 1
      BY <2>1, AddReader, Zenon
    <2>3. Cardinality(ReaderBitOwners) \in Nat
      BY ReaderCount, MaxReaderAssumption, SMTT(30)
    <2>4. QED
      BY <2>2, <2>3, Zenon DEF TryRead
  <1>8. lock' = Bit(Writers', WRITER)
                + Bit(UpreaderBitOwners', UPGRADEABLE_READER)
                + Bit(At({"upgrading"})', BEING_UPGRADED)
                + Cardinality(ReaderBitOwners')
    BY <1>4, <1>7, MaxReaderAssumption
   , SMTT(30) DEF IInv, WordAccounts, Bit, WRITER, UPGRADEABLE_READER, BEING_UPGRADED
  <1>9. QED
    <2> HIDE DEF loc
    <2>1. QED
      BY <1>1, <1>4, <1>6, <1>8, Preserve, Zenon DEF IInv, TypeOK, WordAccounts

LEMMA RetractReadStep ==
    ASSUME IInv, NEW t \in Thread, RetractRead(t) \/ DropRead(t)
    PROVE  IInv'
  <1> PICK loc \in Locations : Goto(t, loc) /\ loc \in {"idle", "read"}
    BY Zenon DEF RetractRead, DropRead, AfterFailure, Locations, Calls
  <1>1. pc[t] \in {"read_retract", "reading"} /\ spin' = spin
    BY Zenon DEF RetractRead, DropRead
  <1>2. \A L : At(L)' = IF loc \in L THEN At(L) \cup {t} ELSE At(L) \ {t}
    BY GotoSets, Zenon DEF IInv
  <1>3. \A L : t \in At(L) <=> pc[t] \in L
    BY Zenon DEF At
  <1>4. /\ Writers' = Writers
        /\ UpreaderBitOwners' = UpreaderBitOwners
        /\ Upreaders' = Upreaders
        /\ At({"upgrading"})' = At({"upgrading"})
        /\ At({"reading"})' = At({"reading"}) \ {t}
    BY <1>1, <1>2, <1>3, Zenon DEF Writers, Upreaders, UpreaderBitOwners
  <1>5. t \in ReaderBitOwners /\ ReaderBitOwners' = ReaderBitOwners \ {t}
    BY <1>1, <1>2, <1>3, Zenon DEF ReaderBitOwners
  <1>6. Exclusion'
    BY <1>4, Zenon DEF IInv, Exclusion
  <1>7. /\ Cardinality(ReaderBitOwners') = Cardinality(ReaderBitOwners) - 1
        /\ FetchSub(lock, READER) = lock - 1
    BY <1>5, RemoveReader, Zenon
  <1>8. Cardinality(ReaderBitOwners) \in Nat
    BY ReaderCount, MaxReaderAssumption, SMTT(30)
  <1>9. lock' = lock - 1
    BY <1>7, Zenon DEF RetractRead, DropRead
  <1>10. lock' = Bit(Writers', WRITER)
                 + Bit(UpreaderBitOwners', UPGRADEABLE_READER)
                 + Bit(At({"upgrading"})', BEING_UPGRADED)
                 + Cardinality(ReaderBitOwners')
    BY <1>4, <1>7, <1>8, <1>9, MaxReaderAssumption
   , SMTT(30) DEF IInv, WordAccounts, Bit, WRITER, UPGRADEABLE_READER, BEING_UPGRADED
  <1>11. QED
    BY <1>1, <1>4, <1>6, <1>10, Preserve, Zenon DEF IInv, TypeOK, WordAccounts

\* compare_exchange from 0 succeeds only when no guard and no attempt is about.
LEMMA TryWriteStep ==
    ASSUME IInv, NEW t \in Thread, TryWrite(t)
    PROVE  IInv'
  <1> PICK loc \in Locations : /\ Goto(t, loc)
                               /\ loc \in {"idle", "write", "writing"}
                               /\ loc = "writing" <=> lock = 0
    BY SMTT(30) DEF TryWrite, AfterFailure, Locations, Calls
  <1>1. /\ pc[t] = "write" /\ spin' = spin
        /\ lock' = IF lock = 0 THEN WRITER ELSE lock
    BY Zenon DEF TryWrite
  <1>2. \A L : At(L)' = IF loc \in L THEN At(L) \cup {t} ELSE At(L) \ {t}
    BY GotoSets, Zenon DEF IInv
  <1>3. \A L : t \in At(L) <=> pc[t] \in L
    BY Zenon DEF At
  <1>4. /\ UpreaderBitOwners' = UpreaderBitOwners
        /\ Upreaders' = Upreaders
        /\ At({"upgrading"})' = At({"upgrading"})
        /\ At({"reading"})' = At({"reading"})
        /\ ReaderBitOwners' = ReaderBitOwners
        /\ Writers' = IF lock = 0 THEN Writers \cup {t} ELSE Writers
    BY <1>1, <1>2, <1>3, Zenon DEF Writers, Upreaders, UpreaderBitOwners, ReaderBitOwners
  <1>5. Cardinality(ReaderBitOwners) \in Nat
    BY ReaderCount, MaxReaderAssumption, SMTT(30)
  <1>6. CASE lock = 0
    <2>1. /\ Writers = {} /\ UpreaderBitOwners = {} /\ At({"upgrading"}) = {}
          /\ Cardinality(ReaderBitOwners) = 0
      BY <1>6, EmptyWord, Zenon
    <2>2. ReaderBitOwners = {}
      BY <2>1, ReaderCount, FS_EmptySet, Zenon
    <2>3. At({"reading"}) = {} /\ Upreaders = {}
      BY <2>1, <2>2, Zenon DEF ReaderBitOwners, UpreaderBitOwners, Upreaders, At
    <2>4. Exclusion'
      BY <1>4, <1>6, <2>1, <2>3, Zenon DEF Exclusion
    <2>5. lock' = Bit(Writers', WRITER)
                  + Bit(UpreaderBitOwners', UPGRADEABLE_READER)
                  + Bit(At({"upgrading"})', BEING_UPGRADED)
                  + Cardinality(ReaderBitOwners')
      <3>1. Writers' # {} /\ UpreaderBitOwners' = {} /\ At({"upgrading"})' = {}
        BY <1>4, <1>6, <2>1, Zenon
      <3>2. Cardinality(ReaderBitOwners') = 0 /\ lock' = WRITER
        BY <1>1, <1>4, <1>6, <2>1, Zenon
      <3>3. QED
        BY <3>1, <3>2, MaxReaderAssumption, SMTT(30) DEF Bit, WRITER
    <2>6. QED
      BY <1>1, <1>4, <2>1, <2>4, <2>5, Preserve, Zenon DEF IInv, TypeOK
  <1>7. CASE lock # 0
    <2>1. Exclusion'
      BY <1>4, <1>7, Zenon DEF IInv, Exclusion
    <2>2. lock' = Bit(Writers', WRITER)
                  + Bit(UpreaderBitOwners', UPGRADEABLE_READER)
                  + Bit(At({"upgrading"})', BEING_UPGRADED)
                  + Cardinality(ReaderBitOwners')
      BY <1>1, <1>4, <1>7, Zenon DEF IInv, WordAccounts
    <2>3. QED
      BY <1>1, <1>4, <2>1, <2>2, Preserve, Zenon DEF IInv, TypeOK, WordAccounts
  <1>8. QED
    BY <1>6, <1>7, Zenon

LEMMA DropWriteStep ==
    ASSUME IInv, NEW t \in Thread, DropWrite(t)
    PROVE  IInv'
  <1>1. Goto(t, "idle") /\ "idle" \in Locations /\ pc[t] = "writing" /\ spin' = spin
    BY Zenon DEF DropWrite, Locations
  <1>2. \A L : At(L)' = IF "idle" \in L THEN At(L) \cup {t} ELSE At(L) \ {t}
    BY <1>1, GotoSets, Zenon DEF IInv
  <1>3. \A L : t \in At(L) <=> pc[t] \in L
    BY Zenon DEF At
  <1>4. /\ UpreaderBitOwners' = UpreaderBitOwners
        /\ Upreaders' = Upreaders
        /\ At({"upgrading"})' = At({"upgrading"})
        /\ At({"reading"})' = At({"reading"})
        /\ ReaderBitOwners' = ReaderBitOwners
        /\ t \in Writers /\ Writers' = Writers \ {t}
    BY <1>1, <1>2, <1>3, Zenon DEF Writers, Upreaders, UpreaderBitOwners, ReaderBitOwners
  <1>5. Writers' = {}
    BY <1>4, Zenon DEF IInv, Exclusion
  <1>6. Exclusion'
    BY <1>4, <1>5, Zenon DEF IInv, Exclusion
  <1>7. lock' = lock - WRITER
    BY <1>4, Fields, Zenon DEF DropWrite, FetchAndNotWriter
  <1>8. Cardinality(ReaderBitOwners) \in Nat
    BY ReaderCount, MaxReaderAssumption, SMTT(30)
  <1>9. lock' = Bit(Writers', WRITER)
                + Bit(UpreaderBitOwners', UPGRADEABLE_READER)
                + Bit(At({"upgrading"})', BEING_UPGRADED)
                + Cardinality(ReaderBitOwners')
    BY <1>4, <1>5, <1>7, <1>8, MaxReaderAssumption
   , SMTT(30) DEF IInv, WordAccounts, Bit, WRITER, UPGRADEABLE_READER, BEING_UPGRADED
  <1>10. QED
    BY <1>1, <1>4, <1>6, <1>9, Preserve, Zenon DEF IInv, TypeOK, WordAccounts

\* fetch_sub(UPGRADEABLE_READER) by an owner of the bit does not borrow.
LEMMA SubUpreader ==
    ASSUME IInv, UpreaderBitOwners # {}
    PROVE  FetchSub(lock, UPGRADEABLE_READER) = lock - UPGRADEABLE_READER
  <1> DEFINE w == Bit(Writers, WRITER)
             b == Bit(At({"upgrading"}), BEING_UPGRADED)
             r == Cardinality(ReaderBitOwners)
  <1>1. w \in Nat /\ b \in Nat /\ r \in Nat /\ UPGRADEABLE_READER \in Nat
    BY FieldTypes, SMTT(30)
  <1>2. lock = w + UPGRADEABLE_READER + b + r
    BY Zenon DEF IInv, WordAccounts, Bit
  <1>3. lock < WordSize /\ WordSize \in Nat
    BY MaxReaderAssumption, SMTT(30) DEF IInv, TypeOK, Word, WordSize
  <1>4. QED
    <2> HIDE DEF w, b, r
    <2>1. QED
      BY <1>1, <1>2, <1>3, SMTT(30) DEF FetchSub, Wrap

LEMMA TryUpreadStep ==
    ASSUME IInv, NEW t \in Thread, TryUpread(t)
    PROVE  IInv'
  <1> PICK loc \in Locations :
          /\ Goto(t, loc)
          /\ HasUpreader(lock) => loc \in {"idle", "upread"}
          /\ ~HasUpreader(lock) /\ HasWriter(lock) => loc = "upread_retract"
          /\ ~HasUpreader(lock) /\ ~HasWriter(lock) => loc = "upreading"
    BY Zenon DEF TryUpread, AfterFailure, Locations, Calls
  <1>1. /\ pc[t] = "upread" /\ spin' = spin
        /\ lock' = IF HasUpreader(lock) THEN lock ELSE lock + UPGRADEABLE_READER
    BY Zenon DEF TryUpread, FetchOrUpreader
  <1>2. \A L : At(L)' = IF loc \in L THEN At(L) \cup {t} ELSE At(L) \ {t}
    BY GotoSets, Zenon DEF IInv
  <1>3. \A L : t \in At(L) <=> pc[t] \in L
    BY Zenon DEF At
  <1>4. /\ Writers' = Writers
        /\ At({"upgrading"})' = At({"upgrading"})
        /\ At({"reading"})' = At({"reading"})
        /\ ReaderBitOwners' = ReaderBitOwners
        /\ UpreaderBitOwners' = IF HasUpreader(lock) THEN UpreaderBitOwners
                                ELSE UpreaderBitOwners \cup {t}
        /\ Upreaders' = IF HasUpreader(lock) \/ HasWriter(lock) THEN Upreaders
                        ELSE Upreaders \cup {t}
    BY <1>1, <1>2, <1>3, Zenon DEF Writers, Upreaders, UpreaderBitOwners, ReaderBitOwners
  <1>5. Upreaders \subseteq UpreaderBitOwners
    BY Zenon DEF Upreaders, UpreaderBitOwners, At
  <1>6. /\ HasWriter(lock) <=> Writers # {}
        /\ HasUpreader(lock) <=> UpreaderBitOwners # {}
    BY Fields, Zenon
  <1>7. Exclusion'
    BY <1>4, <1>5, <1>6, Zenon DEF IInv, Exclusion
  <1>8. \A s, q \in UpreaderBitOwners' : s = q
    BY <1>4, <1>6, Zenon DEF IInv, WordAccounts
  <1>9. lock' = Bit(Writers', WRITER)
                + Bit(UpreaderBitOwners', UPGRADEABLE_READER)
                + Bit(At({"upgrading"})', BEING_UPGRADED)
                + Cardinality(ReaderBitOwners')
    BY <1>1, <1>4, <1>6, FieldTypes, SMTT(30) DEF IInv, WordAccounts, Bit
  <1>10. QED
    BY <1>1, <1>7, <1>8, <1>9, Preserve, Zenon DEF IInv, TypeOK

LEMMA LeaveUpreadStep ==
    ASSUME IInv, NEW t \in Thread, RetractUpread(t) \/ DropUpread(t)
    PROVE  IInv'
  <1> PICK loc \in Locations : Goto(t, loc) /\ loc \in {"idle", "upread"}
    BY Zenon DEF RetractUpread, DropUpread, AfterFailure, Locations, Calls
  <1>1. pc[t] \in {"upread_retract", "upreading"} /\ spin' = spin
    BY Zenon DEF RetractUpread, DropUpread
  <1>2. \A L : At(L)' = IF loc \in L THEN At(L) \cup {t} ELSE At(L) \ {t}
    BY GotoSets, Zenon DEF IInv
  <1>3. \A L : t \in At(L) <=> pc[t] \in L
    BY Zenon DEF At
  <1>4. /\ Writers' = Writers
        /\ At({"upgrading"})' = At({"upgrading"})
        /\ At({"reading"})' = At({"reading"})
        /\ ReaderBitOwners' = ReaderBitOwners
        /\ Upreaders' = Upreaders \ {t}
        /\ t \in UpreaderBitOwners /\ UpreaderBitOwners' = UpreaderBitOwners \ {t}
    BY <1>1, <1>2, <1>3, ZenonT(40) DEF Writers, Upreaders, UpreaderBitOwners, ReaderBitOwners
  <1>5. UpreaderBitOwners' = {}
    BY <1>4, Zenon DEF IInv, WordAccounts
  <1>6. lock' = lock - UPGRADEABLE_READER
    BY <1>4, SubUpreader, Zenon DEF RetractUpread, DropUpread
  <1>7. Exclusion'
    BY <1>4, Zenon DEF IInv, Exclusion
  <1>8. lock' = Bit(Writers', WRITER)
                + Bit(UpreaderBitOwners', UPGRADEABLE_READER)
                + Bit(At({"upgrading"})', BEING_UPGRADED)
                + Cardinality(ReaderBitOwners')
    BY <1>4, <1>5, <1>6, FieldTypes, SMTT(30) DEF IInv, WordAccounts, Bit
  <1>9. QED
    BY <1>1, <1>5, <1>7, <1>8, Preserve, Zenon DEF IInv, TypeOK

\* Only the one upreader can be upgrading, so the bit it sets was clear.
LEMMA UpgradeStep ==
    ASSUME IInv, NEW t \in Thread, Upgrade(t)
    PROVE  IInv'
  <1>1. Goto(t, "upgrading") /\ "upgrading" \in Locations /\ pc[t] = "upreading" /\ spin' = spin
    BY Zenon DEF Upgrade, Locations
  <1>2. \A L : At(L)' = IF "upgrading" \in L THEN At(L) \cup {t} ELSE At(L) \ {t}
    BY <1>1, GotoSets, Zenon DEF IInv
  <1>3. \A L : t \in At(L) <=> pc[t] \in L
    BY Zenon DEF At
  <1>4. /\ Writers' = Writers
        /\ UpreaderBitOwners' = UpreaderBitOwners
        /\ Upreaders' = Upreaders
        /\ At({"upgrading"})' = At({"upgrading"}) \cup {t}
        /\ At({"reading"})' = At({"reading"})
        /\ ReaderBitOwners' = ReaderBitOwners
        /\ t \in Upreaders /\ t \notin At({"upgrading"})
    <2>1. t \in Upreaders /\ t \in UpreaderBitOwners /\ t \notin At({"upgrading"})
      BY <1>1, <1>3, SMTT(30) DEF Upreaders, UpreaderBitOwners
    <2>2. /\ Upreaders' = Upreaders \cup {t}
          /\ UpreaderBitOwners' = UpreaderBitOwners \cup {t}
          /\ At({"upgrading"})' = At({"upgrading"}) \cup {t}
      BY <1>2, Zenon DEF Upreaders, UpreaderBitOwners
    <2>3. /\ Writers' = Writers /\ At({"reading"})' = At({"reading"})
          /\ ReaderBitOwners' = ReaderBitOwners
      BY <1>1, <1>2, <1>3, Zenon DEF Writers, ReaderBitOwners
    <2>4. QED
      BY <2>1, <2>2, <2>3, Zenon
  <1>5. At({"upgrading"}) = {}
    BY <1>4, Zenon DEF IInv, Exclusion, Upreaders, At
  <1>6. lock' = lock + BEING_UPGRADED
    BY <1>5, Fields, Zenon DEF Upgrade, FetchOrUpgrading
  <1>7. Exclusion'
    BY <1>4, Zenon DEF IInv, Exclusion
  <1>8. lock' = Bit(Writers', WRITER)
                + Bit(UpreaderBitOwners', UPGRADEABLE_READER)
                + Bit(At({"upgrading"})', BEING_UPGRADED)
                + Cardinality(ReaderBitOwners')
    BY <1>4, <1>5, <1>6, FieldTypes, SMTT(30) DEF IInv, WordAccounts, Bit
  <1>9. QED
    BY <1>1, <1>4, <1>7, <1>8, Preserve, Zenon DEF IInv, TypeOK, WordAccounts

\* compare_exchange from UPGRADEABLE_READER | BEING_UPGRADED succeeds only when
\* no reader and no failed attempt is left beside the upgrading thread.
LEMMA TryUpgradeStep ==
    ASSUME IInv, NEW t \in Thread, TryUpgrade(t),
           lock = UPGRADEABLE_READER + BEING_UPGRADED
    PROVE  IInv' /\ \A s \in Thread \ {t} : s \notin ReaderBitOwners \cup UpreaderBitOwners \cup Writers
  <1>1. /\ Goto(t, "upgrade_retract") /\ "upgrade_retract" \in Locations
        /\ pc[t] = "upgrading" /\ spin' = spin
        /\ lock' = WRITER + UPGRADEABLE_READER
    BY Zenon DEF TryUpgrade, Locations
  <1>2. \A L : At(L)' = IF "upgrade_retract" \in L THEN At(L) \cup {t} ELSE At(L) \ {t}
    BY <1>1, GotoSets, Zenon DEF IInv
  <1>3. \A L : t \in At(L) <=> pc[t] \in L
    BY Zenon DEF At
  <1>4. /\ t \in UpreaderBitOwners /\ t \in Upreaders /\ t \in At({"upgrading"})
        /\ UpreaderBitOwners = {t} /\ Upreaders = {t} /\ At({"upgrading"}) = {t}
    <2>1. t \in UpreaderBitOwners /\ t \in Upreaders /\ t \in At({"upgrading"})
      BY <1>1, <1>3, Zenon DEF UpreaderBitOwners, Upreaders
    <2>2. UpreaderBitOwners = {t}
      BY <2>1, Zenon DEF IInv, WordAccounts
    <2>3. Upreaders \subseteq UpreaderBitOwners /\ At({"upgrading"}) \subseteq UpreaderBitOwners
      BY Zenon DEF Upreaders, UpreaderBitOwners, At
    <2>4. QED
      BY <2>1, <2>2, <2>3, Zenon
  <1>5. Writers = {} /\ Cardinality(ReaderBitOwners) = 0
    <2> DEFINE w == Bit(Writers, WRITER)
               r == Cardinality(ReaderBitOwners)
    <2>1. w \in Nat /\ r \in Nat /\ UPGRADEABLE_READER \in Nat /\ BEING_UPGRADED \in Nat
      BY FieldTypes, SMTT(30)
    <2>2. UPGRADEABLE_READER + BEING_UPGRADED = w + UPGRADEABLE_READER + BEING_UPGRADED + r
      BY <1>4, Zenon DEF IInv, WordAccounts, Bit
    <2>3. w = 0 /\ r = 0
      <3> HIDE DEF w, r
      <3>1. QED
        BY <2>1, <2>2, SMTT(30)
    <2>4. QED
      BY <2>3, FieldTypes, Zenon DEF Bit
  <1>6. ReaderBitOwners = {}
    BY <1>5, ReaderCount, FS_EmptySet, Zenon
  <1>7. /\ Writers' = {t} /\ UpreaderBitOwners' = {t} /\ Upreaders' = {}
        /\ At({"upgrading"})' = {} /\ ReaderBitOwners' = {}
    <2>1. Writers' = Writers \cup {t} /\ UpreaderBitOwners' = UpreaderBitOwners \cup {t}
      BY <1>2, Zenon DEF Writers, UpreaderBitOwners
    <2>2. /\ Upreaders' = Upreaders \ {t}
          /\ At({"upgrading"})' = At({"upgrading"}) \ {t}
          /\ ReaderBitOwners' = ReaderBitOwners \ {t}
      BY <1>2, Zenon DEF Upreaders, ReaderBitOwners
    <2>3. QED
      BY <1>4, <1>5, <1>6, <2>1, <2>2, Zenon
  <1>8. At({"reading"})' = {}
    BY <1>7, Zenon DEF ReaderBitOwners, At
  <1>9. Exclusion'
    BY <1>7, <1>8, Zenon DEF Exclusion
  <1>10. Cardinality(ReaderBitOwners') = 0
    BY <1>7, FS_EmptySet, Zenon
  <1>11. lock' = Bit(Writers', WRITER)
                + Bit(UpreaderBitOwners', UPGRADEABLE_READER)
                + Bit(At({"upgrading"})', BEING_UPGRADED)
                + Cardinality(ReaderBitOwners')
    BY <1>1, <1>7, <1>10, FieldTypes, SMTT(30) DEF Bit
  <1>12. IInv'
    BY <1>1, <1>7, <1>9, <1>11, Preserve, Zenon DEF IInv, TypeOK
  <1>13. QED
    BY <1>4, <1>5, <1>6, <1>12, Zenon

LEMMA RetractUpgradeStep ==
    ASSUME IInv, NEW t \in Thread, RetractUpgrade(t)
    PROVE  IInv'
  <1>1. Goto(t, "writing") /\ "writing" \in Locations /\ pc[t] = "upgrade_retract" /\ spin' = spin
    BY Zenon DEF RetractUpgrade, Locations
  <1>2. \A L : At(L)' = IF "writing" \in L THEN At(L) \cup {t} ELSE At(L) \ {t}
    BY <1>1, GotoSets, Zenon DEF IInv
  <1>3. \A L : t \in At(L) <=> pc[t] \in L
    BY Zenon DEF At
  <1>4. /\ t \in Writers /\ t \in UpreaderBitOwners /\ t \notin Upreaders
        /\ t \notin At({"upgrading"}) /\ t \notin ReaderBitOwners
    BY <1>1, <1>3, SMTT(30) DEF Writers, Upreaders, UpreaderBitOwners, ReaderBitOwners
  <1>5. /\ Writers' = Writers
        /\ UpreaderBitOwners' = UpreaderBitOwners \ {t}
        /\ Upreaders' = Upreaders
        /\ At({"upgrading"})' = At({"upgrading"})
        /\ ReaderBitOwners' = ReaderBitOwners
        /\ At({"reading"})' = At({"reading"}) \ {t}
    <2>1. Writers' = Writers \cup {t}
      BY <1>2, Zenon DEF Writers
    <2>2. /\ UpreaderBitOwners' = UpreaderBitOwners \ {t}
          /\ Upreaders' = Upreaders \ {t}
          /\ At({"upgrading"})' = At({"upgrading"}) \ {t}
          /\ ReaderBitOwners' = ReaderBitOwners \ {t}
          /\ At({"reading"})' = At({"reading"}) \ {t}
      BY <1>2, Zenon DEF Upreaders, UpreaderBitOwners, ReaderBitOwners
    <2>3. QED
      BY <1>4, <2>1, <2>2, Zenon
  <1>6. UpreaderBitOwners' = {}
    BY <1>4, <1>5, Zenon DEF IInv, WordAccounts
  <1>7. lock' = lock - UPGRADEABLE_READER
    BY <1>4, SubUpreader, Zenon DEF RetractUpgrade
  <1>8. Exclusion'
    BY <1>5, Zenon DEF IInv, Exclusion
  <1>9. lock' = Bit(Writers', WRITER)
                + Bit(UpreaderBitOwners', UPGRADEABLE_READER)
                + Bit(At({"upgrading"})', BEING_UPGRADED)
                + Cardinality(ReaderBitOwners')
    BY <1>4, <1>5, <1>6, <1>7, FieldTypes, SMTT(30) DEF IInv, WordAccounts, Bit
  <1>10. QED
    BY <1>1, <1>6, <1>8, <1>9, Preserve, Zenon DEF IInv, TypeOK

LEMMA CallStep ==
    ASSUME IInv, NEW t \in Thread, NEW call \in Calls, NEW b \in BOOLEAN, Call(t, call, b)
    PROVE  IInv'
  <1>1. Goto(t, call) /\ call \in Locations /\ pc[t] = "idle" /\ lock' = lock
    BY Zenon DEF Call, Locations
  <1>2. \A L : At(L)' = IF call \in L THEN At(L) \cup {t} ELSE At(L) \ {t}
    BY <1>1, GotoSets, Zenon DEF IInv
  <1>3. \A L : t \in At(L) <=> pc[t] \in L
    BY Zenon DEF At
  <1>4. /\ Writers' = Writers
        /\ UpreaderBitOwners' = UpreaderBitOwners
        /\ Upreaders' = Upreaders
        /\ At({"upgrading"})' = At({"upgrading"})
        /\ At({"reading"})' = At({"reading"})
        /\ ReaderBitOwners' = ReaderBitOwners
    BY <1>1, <1>2, <1>3, Zenon DEF Writers, Upreaders, UpreaderBitOwners, ReaderBitOwners, Calls
  <1>5. Exclusion'
    BY <1>4, Zenon DEF IInv, Exclusion
  <1>6. lock' = Bit(Writers', WRITER)
                + Bit(UpreaderBitOwners', UPGRADEABLE_READER)
                + Bit(At({"upgrading"})', BEING_UPGRADED)
                + Cardinality(ReaderBitOwners')
    BY <1>1, <1>4, Zenon DEF IInv, WordAccounts
  <1>7. spin' \in [Thread -> BOOLEAN]
    BY Zenon DEF Call, IInv, TypeOK
  <1>8. QED
    BY <1>1, <1>4, <1>5, <1>6, <1>7, Preserve, Zenon DEF IInv, WordAccounts

-----------------------------------------------------------------------------
LEMMA InitIInv == Init => IInv
  <1> SUFFICES ASSUME Init PROVE IInv
    BY Zenon
  <1>1. \A L : "idle" \notin L => At(L) = {}
    BY Zenon DEF Init, At
  <1>2. /\ Writers = {} /\ Upreaders = {} /\ UpreaderBitOwners = {}
        /\ At({"upgrading"}) = {} /\ At({"reading"}) = {} /\ ReaderBitOwners = {}
    BY <1>1, Zenon DEF Writers, Upreaders, UpreaderBitOwners, ReaderBitOwners
  <1>3. Cardinality(ReaderBitOwners) = 0
    BY <1>2, FS_EmptySet, Zenon
  <1>4. WordAccounts
    BY <1>2, <1>3, SMTT(30) DEF Init, WordAccounts, Bit
  <1>5. TypeOK
    BY MaxReaderAssumption, SMTT(30) DEF Init, TypeOK, Word, WordSize, Locations
  <1>6. QED
    BY <1>2, <1>4, <1>5, Zenon DEF IInv, Exclusion

LEMMA StutterIInv ==
    ASSUME IInv, UNCHANGED vars
    PROVE  IInv'
  <1>1. \A L : At(L)' = At(L)
    BY Zenon DEF At, vars
  <1>2. /\ Writers' = Writers /\ Upreaders' = Upreaders
        /\ UpreaderBitOwners' = UpreaderBitOwners /\ ReaderBitOwners' = ReaderBitOwners
        /\ At({"upgrading"})' = At({"upgrading"}) /\ At({"reading"})' = At({"reading"})
    BY <1>1, Zenon DEF Writers, Upreaders, UpreaderBitOwners, ReaderBitOwners
  <1>3. QED
    BY <1>2, Zenon DEF IInv, TypeOK, WordAccounts, Exclusion, vars

LEMMA NextIInv == IInv /\ [Next]_vars => IInv'
  <1> SUFFICES ASSUME IInv, [Next]_vars PROVE IInv'
    BY Zenon
  <1>1. CASE UNCHANGED vars
    BY <1>1, StutterIInv, Zenon
  <1>2. CASE Next
    <2> PICK t \in Thread :
            \/ \E call \in Calls, b \in BOOLEAN : Call(t, call, b)
            \/ Attempt(t) \/ Retract(t) \/ Drop(t) \/ Upgrade(t)
      BY <1>2, Zenon DEF Next
    <2>1. CASE \E call \in Calls, b \in BOOLEAN : Call(t, call, b)
      BY <2>1, CallStep, Zenon
    <2>2. CASE TryRead(t)
      BY <2>2, TryReadStep, Zenon
    <2>3. CASE TryWrite(t)
      BY <2>3, TryWriteStep, Zenon
    <2>4. CASE TryUpread(t)
      BY <2>4, TryUpreadStep, Zenon
    <2>5. CASE TryUpgrade(t)
      <3>1. CASE lock = UPGRADEABLE_READER + BEING_UPGRADED
        BY <2>5, <3>1, TryUpgradeStep, Zenon
      <3>2. CASE lock # UPGRADEABLE_READER + BEING_UPGRADED
        BY <2>5, <3>2, StutterIInv, Zenon DEF TryUpgrade, vars
      <3>3. QED
        BY <3>1, <3>2, Zenon
    <2>6. CASE RetractRead(t) \/ DropRead(t)
      BY <2>6, RetractReadStep, Zenon
    <2>7. CASE RetractUpread(t) \/ DropUpread(t)
      BY <2>7, LeaveUpreadStep, Zenon
    <2>8. CASE RetractUpgrade(t)
      BY <2>8, RetractUpgradeStep, Zenon
    <2>9. CASE DropWrite(t)
      BY <2>9, DropWriteStep, Zenon
    <2>10. CASE Upgrade(t)
      BY <2>10, UpgradeStep, Zenon
    <2>11. QED
      BY <2>1, <2>2, <2>3, <2>4, <2>5, <2>6, <2>7, <2>8, <2>9, <2>10
     , ZenonT(40) DEF Attempt, Retract, Drop
  <1>3. QED
    BY <1>1, <1>2, Zenon

LEMMA Invariance == Spec => []IInv
  BY InitIInv, NextIInv, PTL DEF Spec

\* RwLock keeps its word within 64 bits and its threads at known places.
THEOREM TypeCorrect == Spec => []TypeOK
  BY Invariance, PTL DEF IInv

\* The word accounts for every guard and every failed attempt: the atomic
\* invariant of RwLock, for any number of threads and any reader limit.
THEOREM WordAlwaysAccounts == Spec => []WordAccounts
  BY Invariance, PTL DEF IInv

\* A write guard is exclusive and there is at most one upreader, for any number
\* of threads: what RwLockWriteGuard::deref_mut needs.
THEOREM GuardsExclude == Spec => []Exclusion
  BY Invariance, PTL DEF IInv

\* try_read turns nobody away without cause, for any number of threads.
THEOREM NoSpuriousReadFailure == Spec => ReaderTurnedAwayForCause
  <1> DEFINE Cause == \/ Writers # {}
                      \/ At({"upgrading"}) # {}
                      \/ Cardinality(ReaderBitOwners) >= MAX_READER
             Step == \A t \in Thread : pc[t] = "read" /\ pc'[t] = "read_retract" => Cause
  <1>1. IInv /\ [Next]_vars => [Step]_vars
    <2> SUFFICES ASSUME IInv, Next, NEW t \in Thread,
                        pc[t] = "read", pc'[t] = "read_retract"
                 PROVE  Cause
      BY Zenon DEF vars
    <2>1. TryRead(t) /\ ~AdmitsReader(lock)
      BY ZenonT(40) DEF IInv, TypeOK, Next, Attempt, Retract, Drop, Call, Calls, TryRead, TryWrite, TryUpread,
             TryUpgrade, RetractRead, RetractUpread, RetractUpgrade, DropRead,
             DropWrite, DropUpread, Upgrade, Goto, AfterFailure
    <2>2. QED
      BY <2>1, Fields, Zenon DEF AdmitsReader
  <1>2. QED
    BY <1>1, Invariance, PTL DEF Spec, ReaderTurnedAwayForCause

-----------------------------------------------------------------------------
(* Refinement. *)

\* A step of one thread changes its mode and nobody else's.
LEMMA HoldingGoto ==
    ASSUME TypeOK, NEW t \in Thread, NEW loc \in Locations, Goto(t, loc)
    PROVE  /\ Holding[t] = ModeOf(pc[t])
           /\ Holding' = [Holding EXCEPT ![t] = ModeOf(loc)]
  BY Zenon DEF TypeOK, Goto, Holding

\* The holders of the abstract lock are the owners of the parts of the word.
LEMMA Holders ==
    ASSUME TypeOK
    PROVE  /\ Abstract!HoldersIn({"upgrading", "write"}) = At({"upgrading"}) \cup Writers
           /\ Abstract!HoldersIn({"upread", "upgrading", "write"}) = Upreaders \cup Writers
           /\ Abstract!HoldersIn({"read", "upread", "upgrading", "write"})
                = At({"reading"}) \cup Upreaders \cup Writers
  BY Zenon DEF TypeOK, Abstract!HoldersIn, Holding, ModeOf, At, Upreaders, Writers

LEMMA InitRefines == Init => Abstract!Init
  BY Zenon DEF Init, Abstract!Init, Holding, ModeOf

LEMMA StepRefines == IInv /\ [Next]_vars => [Abstract!Next]_Holding
  <1> SUFFICES ASSUME IInv, [Next]_vars PROVE [Abstract!Next]_Holding
    BY Zenon
  <1>1. TypeOK
    BY Zenon DEF IInv
  <1>2. CASE UNCHANGED vars
    BY <1>2, Zenon DEF vars, Holding
  <1>3. CASE Next
    <2> PICK t \in Thread :
            \/ \E call \in Calls, b \in BOOLEAN : Call(t, call, b)
            \/ Attempt(t) \/ Retract(t) \/ Drop(t) \/ Upgrade(t)
      BY <1>3, Zenon DEF Next
    \* Steps that change nobody's mode.
    <2>1. ASSUME NEW loc \in Locations, Goto(t, loc), ModeOf(loc) = ModeOf(pc[t])
          PROVE  UNCHANGED Holding
      BY <1>1, <2>1, HoldingGoto, Zenon DEF Holding
    <2>2. CASE \E call \in Calls, b \in BOOLEAN : Call(t, call, b)
      BY <2>1, <2>2, Zenon DEF Call, Calls, Locations, ModeOf
    <2>3. CASE RetractRead(t) \/ RetractUpread(t) \/ RetractUpgrade(t)
      BY <2>1, <2>3
     , Zenon DEF RetractRead, RetractUpread, RetractUpgrade, AfterFailure, Locations, Calls, ModeOf
    <2>4. CASE TryRead(t)
      <3>1. CASE AdmitsReader(lock)
        <4>1. Goto(t, "reading") /\ "reading" \in Locations /\ pc[t] = "read"
          BY <2>4, <3>1, Zenon DEF TryRead, Locations
        <4>2. Holding[t] = "none" /\ Holding' = [Holding EXCEPT ![t] = "read"]
          BY <1>1, <4>1, HoldingGoto, Zenon DEF ModeOf
        <4>3. At({"upgrading"}) = {} /\ Writers = {}
          BY <3>1, Fields, Zenon DEF AdmitsReader
        <4>4. Abstract!AcquireRead(t)
          BY <1>1, <4>2, <4>3, Holders, Zenon DEF Abstract!AcquireRead
        <4>5. QED
          BY <4>4, Zenon DEF Abstract!Next
      <3>2. CASE ~AdmitsReader(lock)
        BY <2>1, <2>4, <3>2, Zenon DEF TryRead, Locations, ModeOf
      <3>3. QED
        BY <3>1, <3>2, Zenon
    <2>5. CASE TryWrite(t)
      <3>1. CASE lock = 0
        <4>1. Goto(t, "writing") /\ "writing" \in Locations /\ pc[t] = "write"
          BY <2>5, <3>1, Zenon DEF TryWrite, Locations
        <4>2. Holding[t] = "none" /\ Holding' = [Holding EXCEPT ![t] = "write"]
          BY <1>1, <4>1, HoldingGoto, Zenon DEF ModeOf
        <4>3. Writers = {} /\ UpreaderBitOwners = {} /\ Cardinality(ReaderBitOwners) = 0
          BY <3>1, EmptyWord, Zenon
        <4>4. ReaderBitOwners = {}
          BY <4>3, ReaderCount, FS_EmptySet, Zenon
        <4>5. At({"reading"}) = {} /\ Upreaders = {}
          BY <4>3, <4>4, Zenon DEF ReaderBitOwners, UpreaderBitOwners, Upreaders, At
        <4>6. Abstract!AcquireWrite(t)
          BY <1>1, <4>2, <4>3, <4>5, Holders, Zenon DEF Abstract!AcquireWrite
        <4>7. QED
          BY <4>6, Zenon DEF Abstract!Next
      <3>2. CASE lock # 0
        BY <2>1, <2>5, <3>2, Zenon DEF TryWrite, AfterFailure, Locations, Calls, ModeOf
      <3>3. QED
        BY <3>1, <3>2, Zenon
    <2>6. CASE TryUpread(t)
      <3>1. CASE ~HasUpreader(lock) /\ ~HasWriter(lock)
        <4>1. Goto(t, "upreading") /\ "upreading" \in Locations /\ pc[t] = "upread"
          BY <2>6, <3>1, Zenon DEF TryUpread, Locations
        <4>2. Holding[t] = "none" /\ Holding' = [Holding EXCEPT ![t] = "upread"]
          BY <1>1, <4>1, HoldingGoto, Zenon DEF ModeOf
        <4>3. UpreaderBitOwners = {} /\ Writers = {}
          BY <3>1, Fields, Zenon
        <4>4. Upreaders = {}
          BY <4>3, Zenon DEF UpreaderBitOwners, Upreaders, At
        <4>5. Abstract!AcquireUpread(t)
          BY <1>1, <4>2, <4>3, <4>4, Holders, Zenon DEF Abstract!AcquireUpread
        <4>6. QED
          BY <4>5, Zenon DEF Abstract!Next
      <3>2. CASE HasUpreader(lock) \/ HasWriter(lock)
        BY <2>1, <2>6, <3>2, Zenon DEF TryUpread, AfterFailure, Locations, Calls, ModeOf
      <3>3. QED
        BY <3>1, <3>2, Zenon
    <2>7. CASE Upgrade(t)
      <3>1. Goto(t, "upgrading") /\ "upgrading" \in Locations /\ pc[t] = "upreading"
        BY <2>7, Zenon DEF Upgrade, Locations
      <3>2. Holding[t] = "upread" /\ Holding' = [Holding EXCEPT ![t] = "upgrading"]
        BY <1>1, <3>1, HoldingGoto, Zenon DEF ModeOf
      <3>3. QED
        BY <3>2, Zenon DEF Abstract!StartUpgrade, Abstract!Next
    <2>8. CASE TryUpgrade(t)
      <3>1. CASE lock = UPGRADEABLE_READER + BEING_UPGRADED
        <4>1. Goto(t, "upgrade_retract") /\ "upgrade_retract" \in Locations /\ pc[t] = "upgrading"
          BY <2>8, <3>1, Zenon DEF TryUpgrade, Locations
        <4>2. Holding[t] = "upgrading" /\ Holding' = [Holding EXCEPT ![t] = "write"]
          BY <1>1, <4>1, HoldingGoto, Zenon DEF ModeOf
        <4>3. \A s \in Thread \ {t} : s \notin ReaderBitOwners \cup UpreaderBitOwners \cup Writers
          BY <2>8, <3>1, TryUpgradeStep, Zenon
        <4>4. \A s \in Thread \ {t} : Holding[s] = "none"
          BY <1>1, <4>3
         , Zenon DEF TypeOK, Locations, Calls, Holding, ModeOf, ReaderBitOwners, UpreaderBitOwners, Writers, At
        <4>5. Abstract!FinishUpgrade(t)
          BY <4>2, <4>4, Zenon DEF Abstract!FinishUpgrade
        <4>6. QED
          BY <4>5, Zenon DEF Abstract!Next
      <3>2. CASE lock # UPGRADEABLE_READER + BEING_UPGRADED
        BY <2>8, <3>2, Zenon DEF TryUpgrade, Holding
      <3>3. QED
        BY <3>1, <3>2, Zenon
    <2>9. CASE Drop(t)
      <3>1. /\ Goto(t, "idle") /\ "idle" \in Locations
            /\ pc[t] \in {"reading", "writing", "upreading"}
        BY <2>9, Zenon DEF Drop, DropRead, DropWrite, DropUpread, Locations
      <3>2. Holding[t] \in {"read", "upread", "write"} /\ Holding' = [Holding EXCEPT ![t] = "none"]
        BY <1>1, <3>1, HoldingGoto, Zenon DEF ModeOf
      <3>3. QED
        BY <3>2, Zenon DEF Abstract!Release, Abstract!Next
    <2>10. QED
      BY <2>2, <2>3, <2>4, <2>5, <2>6, <2>7, <2>8, <2>9, ZenonT(40) DEF Attempt, Retract
  <1>4. QED
    BY <1>2, <1>3, Zenon

\* RwLock implements the abstract readers-writer lock, for any number of threads:
\* acquisition and upgrade are atomic and respect the modes already granted.
THEOREM Refinement == Spec => ImplementsAbstract
<1>1. [Abstract!Next]_Holding => [Holding' # Holding => Abstract!Next]_Holding
  BY Zenon
<1>. QED
  BY <1>1, InitRefines, StepRefines, Invariance, PTL DEF Spec, ImplementsAbstract, Abstract!Spec
=============================================================================

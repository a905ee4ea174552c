---------------------------- MODULE RwMutexProofs ----------------------------
(***************************************************************************)
(* The sleeping readers-writer lock, for any set of threads and any bound   *)
(* on the wakers.                                                           *)
(*                                                                          *)
(* The word.  Every thread has a share in it, which its place and its call  *)
(* determine: a guard, an attempt to be taken back, or nothing.  The word   *)
(* is the sum of the shares; a step moves the share of one thread and adds  *)
(* the difference.  What the shares exclude of each other is what the bit   *)
(* tests of the attempts find out.                                          *)
(*                                                                          *)
(* The sleepers.  Whoever sleeps is answered by somebody on the move, as in *)
(* the Mutex, but not every release wakes: a reader that is not the last    *)
(* one, an upreader that leaves readers behind and an attempt that takes    *)
(* its share back tell nobody.  A sleeper that such a share has turned away *)
(* counts on the share's owner: a guard will be dropped, and a failed       *)
(* second test is one that met a writer or an upgrade, which wakes all when *)
(* it is over.  That holds of the calls that sleep.  A try_ call that takes *)
(* its share back wakes nobody.                                             *)
(***************************************************************************)
EXTENDS RwMutex, WaitQueueProofs, FiniteSetTheorems

-----------------------------------------------------------------------------
(* The word and its shares *)

\* What a thread has in the word: a guard, an attempt to be taken back (_try),
\* or both bits of an upgrade that is not finished.
Shares ==
    {"none", "read", "read_try", "upread", "upread_try", "upgrading", "both", "write"}

Sharers(sh, K) == {t \in Thread : sh[t] \in K}

ReadShares == {"read", "read_try"}
UpreadShares == {"upread", "upread_try", "upgrading", "both"}
WriteShares == {"write", "both"}

\* The word is the sum of the shares, and guards exclude each other as they must.
Balanced(sh, v) ==
    /\ sh \in [Thread -> Shares]
    /\ v = Bit(Sharers(sh, WriteShares), WRITER)
           + Bit(Sharers(sh, UpreadShares), UPGRADEABLE_READER)
           + Bit(Sharers(sh, {"upgrading"}), BEING_UPGRADED)
           + Cardinality(Sharers(sh, ReadShares))
    /\ \A s, t \in Sharers(sh, UpreadShares) : s = t
    /\ \A s, t \in Sharers(sh, WriteShares) : s = t
    /\ Sharers(sh, WriteShares) # {} => Sharers(sh, {"read", "upread", "upgrading"}) = {}

\* The bit tests recover the four fields a word is the sum of.
LEMMA Decode ==
    ASSUME NEW w \in {0, WRITER}, NEW u \in {0, UPGRADEABLE_READER},
           NEW b \in {0, BEING_UPGRADED}, NEW r \in 0 .. 2 * MAX_READER - 1
    PROVE  /\ HasWriter(w + u + b + r) <=> w = WRITER
           /\ HasUpreader(w + u + b + r) <=> u = UPGRADEABLE_READER
           /\ HasUpgrading(w + u + b + r) <=> b = BEING_UPGRADED
           /\ HasMaxReader(w + u + b + r) <=> r >= MAX_READER
  BY MaxReaderAssumption
 , SMTT(30) DEF HasWriter, HasUpreader, HasUpgrading, HasMaxReader, ReaderBits, Below,
      WRITER, UPGRADEABLE_READER, BEING_UPGRADED

\* Readers never fill their field: there are fewer than 2 * MAX_READER threads.
LEMMA FieldTypes ==
    ASSUME NEW sh
    PROVE  /\ IsFiniteSet(Sharers(sh, ReadShares))
           /\ Cardinality(Sharers(sh, ReadShares)) \in 0 .. 2 * MAX_READER - 1
           /\ Bit(Sharers(sh, WriteShares), WRITER) \in {0, WRITER}
           /\ Bit(Sharers(sh, UpreadShares), UPGRADEABLE_READER) \in {0, UPGRADEABLE_READER}
           /\ Bit(Sharers(sh, {"upgrading"}), BEING_UPGRADED) \in {0, BEING_UPGRADED}
<1>1. Sharers(sh, ReadShares) \subseteq Thread
  BY Zenon DEF Sharers
<1>2. /\ IsFiniteSet(Sharers(sh, ReadShares))
      /\ Cardinality(Sharers(sh, ReadShares)) \in Nat
      /\ Cardinality(Thread) \in Nat
      /\ Cardinality(Sharers(sh, ReadShares)) <= Cardinality(Thread)
  BY <1>1, RwMutexAssumption, FS_Subset, FS_CardinalityType, Zenon
<1>. QED
  BY <1>2, RwMutexAssumption, MaxReaderAssumption, SMTT(30) DEF Bit

\* What the bit tests say of a balanced word.
LEMMA Fields ==
    ASSUME NEW sh, NEW v, Balanced(sh, v)
    PROVE  /\ HasWriter(v) <=> Sharers(sh, WriteShares) # {}
           /\ HasUpreader(v) <=> Sharers(sh, UpreadShares) # {}
           /\ HasUpgrading(v) <=> Sharers(sh, {"upgrading"}) # {}
           /\ HasMaxReader(v) <=> Cardinality(Sharers(sh, ReadShares)) >= MAX_READER
           /\ v \in Nat /\ v < WordSize
<1> DEFINE w == Bit(Sharers(sh, WriteShares), WRITER)
           u == Bit(Sharers(sh, UpreadShares), UPGRADEABLE_READER)
           b == Bit(Sharers(sh, {"upgrading"}), BEING_UPGRADED)
           r == Cardinality(Sharers(sh, ReadShares))
<1>1. /\ w \in {0, WRITER} /\ (w = WRITER <=> Sharers(sh, WriteShares) # {})
      /\ u \in {0, UPGRADEABLE_READER} /\ (u = UPGRADEABLE_READER <=> Sharers(sh, UpreadShares) # {})
      /\ b \in {0, BEING_UPGRADED} /\ (b = BEING_UPGRADED <=> Sharers(sh, {"upgrading"}) # {})
  BY MaxReaderAssumption, SMTT(30) DEF Bit, WRITER, UPGRADEABLE_READER, BEING_UPGRADED
<1>2. v = w + u + b + r
  BY Zenon DEF Balanced
<1>3. r \in 0 .. 2 * MAX_READER - 1
  BY FieldTypes, Zenon
<1> HIDE DEF w, u, b, r
<1>4. /\ HasWriter(w + u + b + r) <=> w = WRITER
      /\ HasUpreader(w + u + b + r) <=> u = UPGRADEABLE_READER
      /\ HasUpgrading(w + u + b + r) <=> b = BEING_UPGRADED
      /\ HasMaxReader(w + u + b + r) <=> r >= MAX_READER
  BY <1>1, <1>3, Decode, Zenon
<1>5. v \in Nat /\ v < WordSize
  BY <1>1, <1>2, <1>3, MaxReaderAssumption, SMTT(30) DEF WRITER, UPGRADEABLE_READER, BEING_UPGRADED, WordSize
<1>. QED
  BY <1>1, <1>2, <1>4, <1>5, Zenon DEF r

\* What a share puts into the word.
Weight(k) ==
    (IF k \in WriteShares THEN WRITER ELSE 0)
    + (IF k \in UpreadShares THEN UPGRADEABLE_READER ELSE 0)
    + (IF k \in {"upgrading"} THEN BEING_UPGRADED ELSE 0)
    + (IF k \in ReadShares THEN READER ELSE 0)

\* A bit follows its only owner.
LEMMA BitMoves ==
    ASSUME NEW S, NEW S2, NEW t, NEW bit \in Nat,
           \A s : s # t => (s \in S2 <=> s \in S),
           \A r, s \in S : r = s,
           t \in S2 => S \subseteq {t}
    PROVE  /\ \A r, s \in S2 : r = s
           /\ Bit(S2, bit) = Bit(S, bit) + (IF t \in S2 THEN bit ELSE 0) - (IF t \in S THEN bit ELSE 0)
<1>1. \A r, s \in S2 : r = s
  BY Zenon
<1>2. /\ t \in S2 => S2 # {}
      /\ t \notin S2 /\ t \in S => S2 = {} /\ S # {}
      /\ t \notin S2 /\ t \notin S => S2 = S
      /\ t \in S2 /\ t \notin S => S = {}
      /\ t \in S2 /\ t \in S => S # {}
  BY SMTT(30)
<1>. QED
  BY <1>1, <1>2, SMTT(30) DEF Bit

\* A count follows each of its contributors.
LEMMA CountMoves ==
    ASSUME NEW S, NEW S2, NEW t, IsFiniteSet(S), \A s : s # t => (s \in S2 <=> s \in S)
    PROVE  Cardinality(S2) = Cardinality(S) + (IF t \in S2 THEN 1 ELSE 0) - (IF t \in S THEN 1 ELSE 0)
<1>1. Cardinality(S) \in Nat
  BY FS_CardinalityType, Zenon
<1>2. /\ Cardinality(S \cup {t}) = IF t \in S THEN Cardinality(S) ELSE Cardinality(S) + 1
      /\ Cardinality(S \ {t}) = IF t \in S THEN Cardinality(S) - 1 ELSE Cardinality(S)
  BY FS_AddElement, FS_RemoveElement, Zenon
<1>3. CASE t \in S2
  <2>1. S2 = S \cup {t}
    BY <1>3, Zenon
  <2>. QED
    BY <1>1, <1>2, <1>3, <2>1, SMTT(30)
<1>4. CASE t \notin S2
  <2>1. S2 = S \ {t}
    BY <1>4, Zenon
  <2>. QED
    BY <1>1, <1>2, <1>4, <2>1, SMTT(30)
<1>. QED
  BY <1>3, <1>4, Zenon

\* A thread may change its share if the others leave room for the new one; the
\* word then changes by the difference.
LEMMA Reshare ==
    ASSUME NEW sh, NEW v, Balanced(sh, v), NEW t \in Thread, NEW k \in Shares,
           k \in UpreadShares => Sharers(sh, UpreadShares) \subseteq {t},
           k \in WriteShares => /\ Sharers(sh, WriteShares) \subseteq {t}
                                /\ Sharers(sh, {"read", "upread", "upgrading"}) \subseteq {t},
           k \in {"read", "upread", "upgrading"} => Sharers(sh, WriteShares) \subseteq {t}
    PROVE  Balanced([sh EXCEPT ![t] = k], v + Weight(k) - Weight(sh[t]))
<1> DEFINE sh2 == [sh EXCEPT ![t] = k]
<1>1. sh \in [Thread -> Shares] /\ sh2 \in [Thread -> Shares]
  BY Zenon DEF Balanced
<1>2. /\ READER = 1 /\ WRITER \in Nat /\ UPGRADEABLE_READER \in Nat /\ BEING_UPGRADED \in Nat
  BY MaxReaderAssumption, SMTT(30) DEF READER, WRITER, UPGRADEABLE_READER, BEING_UPGRADED
<1>3. \A K : /\ t \in Sharers(sh, K) <=> sh[t] \in K
             /\ t \in Sharers(sh2, K) <=> k \in K
             /\ \A s : s # t => (s \in Sharers(sh2, K) <=> s \in Sharers(sh, K))
  BY <1>1, Zenon DEF Sharers
<1>4. /\ \A r, s \in Sharers(sh, WriteShares) : r = s
      /\ \A r, s \in Sharers(sh, UpreadShares) : r = s
  BY Zenon DEF Balanced
<1>5. /\ Sharers(sh, {"upgrading"}) \subseteq Sharers(sh, UpreadShares)
      /\ k = "upgrading" => k \in UpreadShares
  BY Zenon DEF Sharers, UpreadShares
<1> HIDE DEF sh2
<1>6. /\ \A r, s \in Sharers(sh2, WriteShares) : r = s
      /\ Bit(Sharers(sh2, WriteShares), WRITER) =
           Bit(Sharers(sh, WriteShares), WRITER) + (IF k \in WriteShares THEN WRITER ELSE 0)
                                                 - (IF sh[t] \in WriteShares THEN WRITER ELSE 0)
  <2> DEFINE S == Sharers(sh, WriteShares)
             S2 == Sharers(sh2, WriteShares)
  <2>1. /\ t \in S2 <=> k \in WriteShares
        /\ t \in S <=> sh[t] \in WriteShares
        /\ \A s : s # t => (s \in S2 <=> s \in S)
        /\ \A r, s \in S : r = s
        /\ t \in S2 => S \subseteq {t}
    BY <1>3, <1>4, Zenon
  <2> HIDE DEF S, S2
  <2>2. /\ \A r, s \in S2 : r = s
        /\ Bit(S2, WRITER) = Bit(S, WRITER) + (IF t \in S2 THEN WRITER ELSE 0)
                                            - (IF t \in S THEN WRITER ELSE 0)
    BY <1>2, <2>1, BitMoves, SMTT(30)
  <2>. QED
    BY <2>1, <2>2, Zenon DEF S, S2
<1>7. /\ \A r, s \in Sharers(sh2, UpreadShares) : r = s
      /\ Bit(Sharers(sh2, UpreadShares), UPGRADEABLE_READER) =
           Bit(Sharers(sh, UpreadShares), UPGRADEABLE_READER)
             + (IF k \in UpreadShares THEN UPGRADEABLE_READER ELSE 0)
             - (IF sh[t] \in UpreadShares THEN UPGRADEABLE_READER ELSE 0)
  <2> DEFINE S == Sharers(sh, UpreadShares)
             S2 == Sharers(sh2, UpreadShares)
  <2>1. /\ t \in S2 <=> k \in UpreadShares
        /\ t \in S <=> sh[t] \in UpreadShares
        /\ \A s : s # t => (s \in S2 <=> s \in S)
        /\ \A r, s \in S : r = s
        /\ t \in S2 => S \subseteq {t}
    BY <1>3, <1>4, Zenon
  <2> HIDE DEF S, S2
  <2>2. /\ \A r, s \in S2 : r = s
        /\ Bit(S2, UPGRADEABLE_READER) =
             Bit(S, UPGRADEABLE_READER) + (IF t \in S2 THEN UPGRADEABLE_READER ELSE 0)
                                        - (IF t \in S THEN UPGRADEABLE_READER ELSE 0)
    BY <1>2, <2>1, BitMoves, SMTT(30)
  <2>. QED
    BY <2>1, <2>2, Zenon DEF S, S2
<1>8. Bit(Sharers(sh2, {"upgrading"}), BEING_UPGRADED) =
        Bit(Sharers(sh, {"upgrading"}), BEING_UPGRADED)
          + (IF k \in {"upgrading"} THEN BEING_UPGRADED ELSE 0)
          - (IF sh[t] \in {"upgrading"} THEN BEING_UPGRADED ELSE 0)
  <2> DEFINE S == Sharers(sh, {"upgrading"})
             S2 == Sharers(sh2, {"upgrading"})
  <2>1. /\ t \in S2 <=> k \in {"upgrading"}
        /\ t \in S <=> sh[t] \in {"upgrading"}
        /\ \A s : s # t => (s \in S2 <=> s \in S)
        /\ \A r, s \in S : r = s
        /\ t \in S2 => S \subseteq {t}
    BY <1>3, <1>4, <1>5, Zenon
  <2> HIDE DEF S, S2
  <2>2. Bit(S2, BEING_UPGRADED) = Bit(S, BEING_UPGRADED) + (IF t \in S2 THEN BEING_UPGRADED ELSE 0)
                                                         - (IF t \in S THEN BEING_UPGRADED ELSE 0)
    BY <1>2, <2>1, BitMoves, SMTT(30)
  <2>. QED
    BY <2>1, <2>2, Zenon DEF S, S2
<1>9. Cardinality(Sharers(sh2, ReadShares)) =
        Cardinality(Sharers(sh, ReadShares)) + (IF k \in ReadShares THEN READER ELSE 0)
                                             - (IF sh[t] \in ReadShares THEN READER ELSE 0)
  <2> DEFINE S == Sharers(sh, ReadShares)
             S2 == Sharers(sh2, ReadShares)
  <2>1. /\ t \in S2 <=> k \in ReadShares
        /\ t \in S <=> sh[t] \in ReadShares
        /\ \A s : s # t => (s \in S2 <=> s \in S)
        /\ IsFiniteSet(S)
    BY <1>3, FieldTypes, Zenon
  <2> HIDE DEF S, S2
  <2>2. Cardinality(S2) = Cardinality(S) + (IF t \in S2 THEN 1 ELSE 0) - (IF t \in S THEN 1 ELSE 0)
    BY <2>1, CountMoves, Zenon
  <2>. QED
    BY <1>2, <2>1, <2>2, Zenon DEF S, S2
<1>10. Sharers(sh2, WriteShares) # {} => Sharers(sh2, {"read", "upread", "upgrading"}) = {}
  <2>1. ~(k \in WriteShares /\ k \in {"read", "upread", "upgrading"})
    BY Zenon DEF WriteShares
  <2>. QED
    BY <1>3, <2>1, SMTT(30) DEF Balanced
<1> DEFINE w == Bit(Sharers(sh, WriteShares), WRITER)
           u == Bit(Sharers(sh, UpreadShares), UPGRADEABLE_READER)
           b == Bit(Sharers(sh, {"upgrading"}), BEING_UPGRADED)
           r == Cardinality(Sharers(sh, ReadShares))
<1>11. v = w + u + b + r
  BY Zenon DEF Balanced
<1>12. w \in Nat /\ u \in Nat /\ b \in Nat /\ r \in Nat
  BY <1>2, FieldTypes, MaxReaderAssumption, SMTT(30)
<1> HIDE DEF w, u, b, r
<1>13. v + Weight(k) - Weight(sh[t]) =
        (w + (IF k \in WriteShares THEN WRITER ELSE 0)
           - (IF sh[t] \in WriteShares THEN WRITER ELSE 0))
        + (u + (IF k \in UpreadShares THEN UPGRADEABLE_READER ELSE 0)
             - (IF sh[t] \in UpreadShares THEN UPGRADEABLE_READER ELSE 0))
        + (b + (IF k \in {"upgrading"} THEN BEING_UPGRADED ELSE 0)
             - (IF sh[t] \in {"upgrading"} THEN BEING_UPGRADED ELSE 0))
        + (r + (IF k \in ReadShares THEN READER ELSE 0)
             - (IF sh[t] \in ReadShares THEN READER ELSE 0))
  BY <1>2, <1>11, <1>12, SMTT(30) DEF Weight
<1>14. v + Weight(k) - Weight(sh[t]) =
         Bit(Sharers(sh2, WriteShares), WRITER)
           + Bit(Sharers(sh2, UpreadShares), UPGRADEABLE_READER)
           + Bit(Sharers(sh2, {"upgrading"}), BEING_UPGRADED)
           + Cardinality(Sharers(sh2, ReadShares))
  BY <1>6, <1>7, <1>8, <1>9, <1>13, SMTT(30) DEF w, u, b, r
<1>15. Balanced(sh2, v + Weight(k) - Weight(sh[t]))
  BY <1>1, <1>6, <1>7, <1>10, <1>14, Zenon DEF Balanced
<1>. QED
  BY <1>15, Zenon DEF sh2

\* What one step does to the word and to the share of its thread.
WordStep(k, v, k2, v2) ==
    \/ k2 = k /\ v2 = v
    \/ k = "none" /\ k2 = "read" /\ AdmitsReader(v) /\ v2 = FetchAdd(v, READER)
    \/ k = "none" /\ k2 = "read_try" /\ v2 = FetchAdd(v, READER)
    \/ k = "none" /\ k2 = "write" /\ v = 0 /\ v2 = WRITER
    \/ /\ k = "none" /\ k2 = "upread" /\ ~HasUpreader(v) /\ ~HasWriter(v)
       /\ v2 = FetchOrUpreader(v)
    \/ k = "none" /\ k2 = "upread_try" /\ ~HasUpreader(v) /\ v2 = FetchOrUpreader(v)
    \/ k \in ReadShares /\ k2 = "none" /\ v2 = FetchSub(v, READER)
    \/ k \in {"upread", "upread_try"} /\ k2 = "none" /\ v2 = FetchSub(v, UPGRADEABLE_READER)
    \/ k = "write" /\ k2 = "none" /\ v2 = FetchAndNotWriter(v)
    \/ k = "upread" /\ k2 = "upgrading" /\ v2 = FetchOrUpgrading(v)
    \/ /\ k = "upgrading" /\ k2 = "both" /\ v = UPGRADEABLE_READER + BEING_UPGRADED
       /\ v2 = WRITER + UPGRADEABLE_READER
    \/ k = "both" /\ k2 = "write" /\ v2 = FetchSub(v, UPGRADEABLE_READER)
    \/ k = "write" /\ k2 = "upread" /\ v = WRITER /\ v2 = UPGRADEABLE_READER
    \/ k = "upread" /\ k2 = "upread" /\ v2 = FetchAndNotWriter(v)

\* An empty reader field.
LEMMA NoReaders ==
    ASSUME NEW sh, NEW v, Balanced(sh, v)
    PROVE  /\ v = 0 => \A t \in Thread : sh[t] = "none"
           /\ v = WRITER => \A s, t \in Thread : sh[s] # "none" /\ sh[t] # "none" => s = t
           /\ v = UPGRADEABLE_READER + BEING_UPGRADED =>
                \A s, t \in Thread : sh[s] # "none" /\ sh[t] # "none" => s = t
<1> DEFINE w == Bit(Sharers(sh, WriteShares), WRITER)
           u == Bit(Sharers(sh, UpreadShares), UPGRADEABLE_READER)
           b == Bit(Sharers(sh, {"upgrading"}), BEING_UPGRADED)
           r == Cardinality(Sharers(sh, ReadShares))
<1>1. /\ w \in {0, WRITER} /\ (w = WRITER <=> Sharers(sh, WriteShares) # {})
      /\ u \in {0, UPGRADEABLE_READER} /\ (u = UPGRADEABLE_READER <=> Sharers(sh, UpreadShares) # {})
      /\ b \in {0, BEING_UPGRADED} /\ (b = BEING_UPGRADED <=> Sharers(sh, {"upgrading"}) # {})
  BY MaxReaderAssumption, SMTT(30) DEF Bit, WRITER, UPGRADEABLE_READER, BEING_UPGRADED
<1>2. v = w + u + b + r
  BY Zenon DEF Balanced
<1>3. r \in 0 .. 2 * MAX_READER - 1 /\ (r = 0 <=> Sharers(sh, ReadShares) = {})
  BY FieldTypes, FS_EmptySet, Zenon
<1>4. \A t \in Thread : sh[t] # "none" => t \in Sharers(sh, WriteShares) \cup Sharers(sh, UpreadShares)
                                                \cup Sharers(sh, ReadShares)
  BY Zenon DEF Balanced, Sharers, Shares, WriteShares, UpreadShares, ReadShares
<1> HIDE DEF w, u, b, r
<1>5. /\ v = 0 => w = 0 /\ u = 0 /\ r = 0
      /\ v = WRITER => u = 0 /\ r = 0
      /\ v = UPGRADEABLE_READER + BEING_UPGRADED => w = 0 /\ r = 0
  BY <1>1, <1>2, <1>3, MaxReaderAssumption, SMTT(30) DEF WRITER, UPGRADEABLE_READER, BEING_UPGRADED
<1>6. WRITER # 0 /\ UPGRADEABLE_READER # 0
  BY MaxReaderAssumption, SMTT(30) DEF WRITER, UPGRADEABLE_READER
<1>. QED
  BY <1>1, <1>3, <1>4, <1>5, <1>6, Zenon DEF Balanced

LEMMA WordStepBalanced ==
    ASSUME NEW sh, NEW v, Balanced(sh, v), NEW t \in Thread, NEW k, NEW v2, WordStep(sh[t], v, k, v2)
    PROVE  Balanced([sh EXCEPT ![t] = k], v2)
<1>1. /\ sh \in [Thread -> Shares]
      /\ \A K : t \in Sharers(sh, K) <=> sh[t] \in K
      /\ \A K : Sharers(sh, K) \subseteq Thread
  BY Zenon DEF Balanced, Sharers
<1>2. v \in Nat /\ v < WordSize
  BY Fields, Zenon
<1>3. ASSUME Balanced([sh EXCEPT ![t] = k], v + Weight(k) - Weight(sh[t]))
      PROVE  /\ v + Weight(k) - Weight(sh[t]) \in Nat
             /\ v + Weight(k) - Weight(sh[t]) < WordSize
  BY <1>3, Fields, Zenon
<1>4. /\ Weight("none") = 0
      /\ Weight("read") = READER /\ Weight("read_try") = READER
      /\ Weight("upread") = UPGRADEABLE_READER /\ Weight("upread_try") = UPGRADEABLE_READER
      /\ Weight("upgrading") = UPGRADEABLE_READER + BEING_UPGRADED
      /\ Weight("both") = WRITER + UPGRADEABLE_READER
      /\ Weight("write") = WRITER
      /\ READER = 1 /\ WRITER \in Nat /\ UPGRADEABLE_READER \in Nat /\ BEING_UPGRADED \in Nat
      /\ WordSize \in Nat
  BY MaxReaderAssumption, SMTT(30) DEF Weight, ReadShares, UpreadShares, WriteShares,
                             READER, WRITER, UPGRADEABLE_READER, BEING_UPGRADED, WordSize
<1>5. /\ HasWriter(v) <=> Sharers(sh, WriteShares) # {}
      /\ HasUpreader(v) <=> Sharers(sh, UpreadShares) # {}
      /\ HasUpgrading(v) <=> Sharers(sh, {"upgrading"}) # {}
  BY Fields, Zenon
<1>6. /\ \A r, s \in Sharers(sh, UpreadShares) : r = s
      /\ \A r, s \in Sharers(sh, WriteShares) : r = s
      /\ Sharers(sh, WriteShares) # {} => Sharers(sh, {"read", "upread", "upgrading"}) = {}
  BY Zenon DEF Balanced
<1>7. CASE k = sh[t] /\ v2 = v
  BY <1>1, <1>7, Zenon
<1>8. CASE sh[t] = "none" /\ k = "read" /\ AdmitsReader(v) /\ v2 = FetchAdd(v, READER)
  <2>1. k \in Shares \ (UpreadShares \cup WriteShares)
    BY <1>8, Zenon DEF Shares, ReadShares, UpreadShares, WriteShares
  <2>2. Sharers(sh, WriteShares) \subseteq {t}
    BY <1>5, <1>8, Zenon DEF AdmitsReader
  <2>3. Balanced([sh EXCEPT ![t] = k], v + Weight(k) - Weight(sh[t]))
    BY <2>1, <2>2, Reshare, Zenon
  <2>4. v2 = v + Weight(k) - Weight(sh[t])
    BY <1>2, <1>3, <1>4, <1>8, <2>3, SMTT(30) DEF FetchAdd, Wrap
  <2>. QED
    BY <2>3, <2>4, Zenon
<1>9. CASE sh[t] = "none" /\ k = "read_try" /\ v2 = FetchAdd(v, READER)
  <2>1. /\ k \in Shares \ (UpreadShares \cup WriteShares)
        /\ k \notin {"read", "upread", "upgrading"}
    BY <1>9, Zenon DEF Shares, ReadShares, UpreadShares, WriteShares
  <2>2. Balanced([sh EXCEPT ![t] = k], v + Weight(k) - Weight(sh[t]))
    BY <2>1, Reshare, Zenon
  <2>3. v2 = v + Weight(k) - Weight(sh[t])
    BY <1>2, <1>3, <1>4, <1>9, <2>2, SMTT(30) DEF FetchAdd, Wrap
  <2>. QED
    BY <2>2, <2>3, Zenon
<1>10. CASE sh[t] = "none" /\ k = "write" /\ v = 0 /\ v2 = WRITER
  <2>1. /\ k \in Shares \ UpreadShares
        /\ k \notin {"read", "upread", "upgrading"}
    BY <1>10, Zenon DEF Shares, ReadShares, UpreadShares, WriteShares
  <2>2. /\ Sharers(sh, WriteShares) \subseteq {t}
        /\ Sharers(sh, {"read", "upread", "upgrading"}) \subseteq {t}
    BY <1>10, NoReaders, Zenon DEF Sharers, WriteShares
  <2>3. Balanced([sh EXCEPT ![t] = k], v + Weight(k) - Weight(sh[t]))
    BY <2>1, <2>2, Reshare, Zenon
  <2>4. v2 = v + Weight(k) - Weight(sh[t])
    BY <1>4, <1>10, SMTT(30)
  <2>. QED
    BY <2>3, <2>4, Zenon
<1>11. CASE /\ sh[t] = "none" /\ k = "upread" /\ ~HasUpreader(v) /\ ~HasWriter(v)
            /\ v2 = FetchOrUpreader(v)
  <2>1. k \in Shares \ WriteShares
    BY <1>11, Zenon DEF Shares, ReadShares, UpreadShares, WriteShares
  <2>2. /\ Sharers(sh, UpreadShares) \subseteq {t}
        /\ Sharers(sh, WriteShares) \subseteq {t}
    BY <1>5, <1>11, Zenon
  <2>3. Balanced([sh EXCEPT ![t] = k], v + Weight(k) - Weight(sh[t]))
    BY <2>1, <2>2, Reshare, Zenon
  <2>4. v2 = v + Weight(k) - Weight(sh[t])
    BY <1>2, <1>4, <1>11, SMTT(30) DEF FetchOrUpreader
  <2>. QED
    BY <2>3, <2>4, Zenon
<1>12. CASE sh[t] = "none" /\ k = "upread_try" /\ ~HasUpreader(v) /\ v2 = FetchOrUpreader(v)
  <2>1. /\ k \in Shares \ WriteShares
        /\ k \notin {"read", "upread", "upgrading"}
    BY <1>12, Zenon DEF Shares, ReadShares, UpreadShares, WriteShares
  <2>2. Sharers(sh, UpreadShares) \subseteq {t}
    BY <1>5, <1>12, Zenon
  <2>3. Balanced([sh EXCEPT ![t] = k], v + Weight(k) - Weight(sh[t]))
    BY <2>1, <2>2, Reshare, Zenon
  <2>4. v2 = v + Weight(k) - Weight(sh[t])
    BY <1>2, <1>4, <1>12, SMTT(30) DEF FetchOrUpreader
  <2>. QED
    BY <2>3, <2>4, Zenon
<1>13. CASE sh[t] \in ReadShares /\ k = "none" /\ v2 = FetchSub(v, READER)
  <2>1. /\ k \in Shares \ (UpreadShares \cup WriteShares)
        /\ k \notin {"read", "upread", "upgrading"}
    BY <1>13, Zenon DEF Shares, ReadShares, UpreadShares, WriteShares
  <2>2. Balanced([sh EXCEPT ![t] = k], v + Weight(k) - Weight(sh[t]))
    BY <2>1, Reshare, Zenon
  <2>3. v2 = v + Weight(k) - Weight(sh[t])
    BY <1>2, <1>3, <1>4, <1>13, <2>2, SMTT(30) DEF FetchSub, Wrap, ReadShares
  <2>. QED
    BY <2>2, <2>3, Zenon
<1>14. CASE sh[t] \in {"upread", "upread_try"} /\ k = "none" /\ v2 = FetchSub(v, UPGRADEABLE_READER)
  <2>1. /\ k \in Shares \ (UpreadShares \cup WriteShares)
        /\ k \notin {"read", "upread", "upgrading"}
    BY <1>14, Zenon DEF Shares, ReadShares, UpreadShares, WriteShares
  <2>2. Balanced([sh EXCEPT ![t] = k], v + Weight(k) - Weight(sh[t]))
    BY <2>1, Reshare, Zenon
  <2>3. v2 = v + Weight(k) - Weight(sh[t])
    BY <1>2, <1>3, <1>4, <1>14, <2>2, SMTT(30) DEF FetchSub, Wrap
  <2>. QED
    BY <2>2, <2>3, Zenon
<1>15. CASE sh[t] = "write" /\ k = "none" /\ v2 = FetchAndNotWriter(v)
  <2>1. /\ k \in Shares \ (UpreadShares \cup WriteShares)
        /\ k \notin {"read", "upread", "upgrading"}
    BY <1>15, Zenon DEF Shares, ReadShares, UpreadShares, WriteShares
  <2>2. HasWriter(v)
    BY <1>1, <1>5, <1>15, Zenon DEF WriteShares
  <2>3. Balanced([sh EXCEPT ![t] = k], v + Weight(k) - Weight(sh[t]))
    BY <2>1, <2>2, Reshare, Zenon
  <2>4. v2 = v + Weight(k) - Weight(sh[t])
    BY <1>2, <1>4, <1>15, <2>2, SMTT(30) DEF FetchAndNotWriter
  <2>. QED
    BY <2>3, <2>4, Zenon
<1>16. CASE sh[t] = "upread" /\ k = "upgrading" /\ v2 = FetchOrUpgrading(v)
  <2>1. k \in Shares \ WriteShares
    BY <1>16, Zenon DEF Shares, ReadShares, UpreadShares, WriteShares
  <2>2. /\ Sharers(sh, UpreadShares) \subseteq {t}
        /\ Sharers(sh, WriteShares) \subseteq {t}
        /\ ~HasUpgrading(v)
    <3>1. /\ t \in Sharers(sh, UpreadShares)
          /\ t \in Sharers(sh, {"read", "upread", "upgrading"})
          /\ Sharers(sh, {"upgrading"}) \subseteq Sharers(sh, UpreadShares)
          /\ t \notin Sharers(sh, {"upgrading"})
      BY <1>1, <1>16, Zenon DEF UpreadShares, Sharers
    <3>. QED
      BY <1>5, <1>6, <3>1, Zenon
  <2>3. Balanced([sh EXCEPT ![t] = k], v + Weight(k) - Weight(sh[t]))
    BY <2>1, <2>2, Reshare, Zenon
  <2>4. v2 = v + Weight(k) - Weight(sh[t])
    BY <1>2, <1>4, <1>16, <2>2, SMTT(30) DEF FetchOrUpgrading
  <2>. QED
    BY <2>3, <2>4, Zenon
<1>17. CASE /\ sh[t] = "upgrading" /\ k = "both" /\ v = UPGRADEABLE_READER + BEING_UPGRADED
            /\ v2 = WRITER + UPGRADEABLE_READER
  <2>1. k \in Shares
    BY <1>17, Zenon DEF Shares, ReadShares, UpreadShares, WriteShares
  <2>2. /\ Sharers(sh, UpreadShares) \subseteq {t}
        /\ Sharers(sh, WriteShares) \subseteq {t}
        /\ Sharers(sh, {"read", "upread", "upgrading"}) \subseteq {t}
    BY <1>17, NoReaders, Zenon DEF Sharers, WriteShares, UpreadShares
  <2>3. Balanced([sh EXCEPT ![t] = k], v + Weight(k) - Weight(sh[t]))
    BY <2>1, <2>2, Reshare, Zenon
  <2>4. v2 = v + Weight(k) - Weight(sh[t])
    BY <1>4, <1>17, SMTT(30)
  <2>. QED
    BY <2>3, <2>4, Zenon
<1>18. CASE sh[t] = "both" /\ k = "write" /\ v2 = FetchSub(v, UPGRADEABLE_READER)
  <2>1. /\ k \in Shares \ UpreadShares
        /\ sh[t] \in WriteShares
        /\ k \notin {"read", "upread", "upgrading"}
    BY <1>18, Zenon DEF Shares, ReadShares, UpreadShares, WriteShares
  <2>2. /\ Sharers(sh, WriteShares) \subseteq {t}
        /\ Sharers(sh, {"read", "upread", "upgrading"}) \subseteq {t}
    BY <1>1, <1>6, <1>18, Zenon DEF WriteShares
  <2>3. Balanced([sh EXCEPT ![t] = k], v + Weight(k) - Weight(sh[t]))
    BY <2>1, <2>2, Reshare, Zenon
  <2>4. v2 = v + Weight(k) - Weight(sh[t])
    BY <1>2, <1>3, <1>4, <1>18, <2>3, SMTT(30) DEF FetchSub, Wrap
  <2>. QED
    BY <2>3, <2>4, Zenon
<1>19. CASE sh[t] = "write" /\ k = "upread" /\ v = WRITER /\ v2 = UPGRADEABLE_READER
  <2>1. k \in Shares \ WriteShares
    BY <1>19, Zenon DEF Shares, ReadShares, UpreadShares, WriteShares
  <2>2. /\ Sharers(sh, UpreadShares) \subseteq {t}
        /\ Sharers(sh, WriteShares) \subseteq {t}
    BY <1>19, NoReaders, Zenon DEF Sharers, WriteShares, UpreadShares
  <2>3. Balanced([sh EXCEPT ![t] = k], v + Weight(k) - Weight(sh[t]))
    BY <2>1, <2>2, Reshare, Zenon
  <2>4. v2 = v + Weight(k) - Weight(sh[t])
    BY <1>4, <1>19, SMTT(30)
  <2>. QED
    BY <2>3, <2>4, Zenon
<1>20. CASE sh[t] = "upread" /\ k = "upread" /\ v2 = FetchAndNotWriter(v)
  <2>1. t \in Sharers(sh, {"read", "upread", "upgrading"})
    BY <1>1, <1>20, Zenon
  <2>2. v2 = v
    BY <1>5, <1>6, <1>20, <2>1, Zenon DEF FetchAndNotWriter
  <2>. QED
    BY <1>1, <1>20, <2>2, Zenon
<1>. QED
  BY <1>7, <1>8, <1>9, <1>10, <1>11, <1>12, <1>13, <1>14, <1>15, <1>16, <1>17, <1>18, <1>19, <1>20
 , Zenon DEF WordStep

-----------------------------------------------------------------------------
(* The steps of the mutex *)

\* The share of a thread at place p of a call that acquires, or gives up, c.
ShareAt(p, c) ==
    CASE p = "close" -> c
      [] p = "reading" -> "read"
      [] p \in {"upreading", "downgrade"} -> "upread"
      [] p \in WakeLocations /\ c = "downgrade" -> "upread"
      [] p = "upgrading" -> "upgrading"
      [] p = "upgrade_retract" -> "both"
      [] p = "writing" -> "write"
      [] p = "read_retract" -> "read_try"
      [] p = "upread_retract" -> "upread_try"
      [] OTHER -> "none"

ShareMap == [t \in Thread |-> ShareAt(pc[t], call[t])]

\* A call's argument is there where it is needed.
CallOK(p, c) ==
    /\ p = "attempt" \/ p \in WaitLocations => c \in Calls
    /\ p = "read_retract" => c = "read"
    /\ p = "upread_retract" => c = "upread"
    /\ p = "downgrade" => c = "downgrade"

ControlOK ==
    /\ DOMAIN pc = Thread
    /\ DOMAIN call = Thread
    /\ \A t \in Thread : CallOK(pc[t], call[t])

WordInv == ControlOK /\ Balanced(ShareMap, lock)

LEMMA SharesAt ==
    ASSUME NEW c
    PROVE  /\ \A p \in {"idle", "attempt", "enqueue", "count", "recheck", "wait", "park", "parked"} :
                ShareAt(p, c) = "none"
           /\ \A p \in WakeLocations :
                ShareAt(p, c) = IF c = "downgrade" THEN "upread" ELSE "none"
           /\ ShareAt("close", c) = c
           /\ ShareAt("reading", c) = "read"
           /\ ShareAt("upreading", c) = "upread" /\ ShareAt("downgrade", c) = "upread"
           /\ ShareAt("upgrading", c) = "upgrading"
           /\ ShareAt("upgrade_retract", c) = "both"
           /\ ShareAt("writing", c) = "write"
           /\ ShareAt("read_retract", c) = "read_try"
           /\ ShareAt("upread_retract", c) = "upread_try"
  BY Zenon DEF ShareAt, WakeLocations

\* What a step of thread t does, seen from the word.
ShareStep(t) ==
    /\ DOMAIN pc' = Thread /\ DOMAIN call' = Thread
    /\ \A s \in Thread \ {t} : pc'[s] = pc[s] /\ call'[s] = call[s]
    /\ CallOK(pc'[t], call'[t])
    /\ WordStep(ShareAt(pc[t], call[t]), lock, ShareAt(pc'[t], call'[t]), lock')

\* The arguments of a call that goes on are kept, and those of one that returns
\* are forgotten.
LEMMA Arguments ==
    ASSUME ControlOK, NEW t \in Thread, KeepArguments(t)
    PROVE  /\ DOMAIN call' = Thread
           /\ \A s \in Thread \ {t} : call'[s] = call[s]
           /\ call'[t] = IF pc'[t] \in Resting THEN "none" ELSE call[t]
  BY Zenon DEF ControlOK, KeepArguments

LEMMA Goes ==
    ASSUME ControlOK, NEW t \in Thread, NEW loc, Goto(t, loc)
    PROVE  /\ DOMAIN pc' = Thread
           /\ \A s \in Thread \ {t} : pc'[s] = pc[s]
           /\ pc'[t] = loc
  BY Zenon DEF ControlOK, Goto

\* An attempt that succeeds, and one that fails.
LEMMA SucceedGoes ==
    ASSUME ControlOK, NEW t \in Thread, Succeed(t), KeepArguments(t), call[t] \in Calls
    PROVE  /\ DOMAIN pc' = Thread /\ DOMAIN call' = Thread
           /\ \A s \in Thread \ {t} : pc'[s] = pc[s] /\ call'[s] = call[s]
           /\ CallOK(pc'[t], call'[t])
           /\ ShareAt(pc'[t], call'[t]) = call[t]
<1>1. PICK loc : Goto(t, loc) /\ loc \in {GuardOf[call[t]], "close"}
  BY Zenon DEF Succeed
<1>2. pc'[t] \in {GuardOf[call[t]], "close"}
  BY <1>1, Goes, Zenon
<1>3. \/ pc'[t] = "close" /\ call'[t] = call[t]
      \/ pc'[t] = "reading" /\ call[t] = "read"
      \/ pc'[t] = "writing" /\ call[t] = "write"
      \/ pc'[t] = "upreading" /\ call[t] = "upread"
  BY <1>2, Arguments, SMTT(30) DEF GuardOf, Calls, Resting
<1>4. CallOK(pc'[t], call'[t])
  BY <1>3, Zenon DEF CallOK, WaitLocations
<1>. QED
  BY <1>1, <1>3, <1>4, Goes, Arguments, SharesAt, SMTT(30)

LEMMA FailGoes ==
    ASSUME ControlOK, NEW t \in Thread, Fail(t), KeepArguments(t), call[t] \in Calls
    PROVE  /\ DOMAIN pc' = Thread /\ DOMAIN call' = Thread
           /\ \A s \in Thread \ {t} : pc'[s] = pc[s] /\ call'[s] = call[s]
           /\ CallOK(pc'[t], call'[t])
           /\ ShareAt(pc'[t], call'[t]) = "none"
<1>1. PICK loc : Goto(t, loc) /\ loc \in {"wait", "enqueue", "idle"}
  BY Zenon DEF Fail
<1>2. pc'[t] \in {"wait", "enqueue", "idle"}
  BY <1>1, Goes, Zenon
<1>3. pc'[t] # "idle" => call'[t] = call[t]
  BY <1>2, Arguments, Zenon DEF Resting
<1>4. CallOK(pc'[t], call'[t])
  BY <1>2, <1>3, Zenon DEF CallOK, WaitLocations
<1>. QED
  BY <1>1, <1>2, <1>4, Goes, Arguments, SharesAt, SMTT(30)

LEMMA CallShares ==
    ASSUME WordInv, NEW t \in Thread, NEW c \in Calls, NEW k, Call(t, c, k) PROVE ShareStep(t)
<1>1. ControlOK /\ pc[t] = "idle" /\ Goto(t, "attempt")
  BY Zenon DEF WordInv, Call
<1>2. DOMAIN call' = Thread /\ call'[t] = c /\ \A s \in Thread \ {t} : call'[s] = call[s]
  BY <1>1, Zenon DEF ControlOK, Call
<1>3. CallOK(pc'[t], call'[t])
  BY <1>1, <1>2, Goes, SMTT(30) DEF CallOK
<1>4. ShareAt(pc[t], call[t]) = "none" /\ ShareAt(pc'[t], call'[t]) = "none" /\ lock' = lock
  BY <1>1, Goes, SharesAt, SMTT(30) DEF Call
<1>. QED
  BY <1>1, <1>2, <1>3, <1>4, Goes, ZenonT(40) DEF ShareStep, WordStep

LEMMA TryReadShares == ASSUME WordInv, NEW t \in Thread, TryRead(t) PROVE ShareStep(t)
<1>1. ControlOK /\ pc[t] \in {"attempt", "recheck"} /\ call[t] = "read" /\ KeepArguments(t)
  BY Zenon DEF WordInv, TryRead, Attempting
<1>2. ShareAt(pc[t], call[t]) = "none" /\ lock' = FetchAdd(lock, READER)
  BY <1>1, SharesAt, SMTT(30) DEF TryRead
<1>3. CASE AdmitsReader(lock)
  BY <1>1, <1>2, <1>3, SucceedGoes, Zenon DEF TryRead, ShareStep, WordStep, Calls
<1>4. CASE ~AdmitsReader(lock)
  <2>1. Goto(t, "read_retract")
    BY <1>4, Zenon DEF TryRead
  <2>2. pc'[t] = "read_retract" /\ call'[t] = "read"
    BY <1>1, <2>1, Goes, Arguments, SMTT(30) DEF Resting
  <2>3. CallOK(pc'[t], call'[t]) /\ ShareAt(pc'[t], call'[t]) = "read_try"
    BY <2>2, SharesAt, SMTT(30) DEF CallOK, WaitLocations
  <2>. QED
    BY <1>1, <1>2, <2>1, <2>3, Goes, Arguments, Zenon DEF ShareStep, WordStep
<1>. QED
  BY <1>3, <1>4, Zenon

LEMMA RetractReadShares == ASSUME WordInv, NEW t \in Thread, RetractRead(t) PROVE ShareStep(t)
<1>1. ControlOK /\ pc[t] = "read_retract" /\ call[t] \in Calls /\ KeepArguments(t)
  BY Zenon DEF WordInv, ControlOK, CallOK, RetractRead, Calls
<1>2. ShareAt(pc[t], call[t]) \in ReadShares /\ lock' = FetchSub(lock, READER)
  BY <1>1, SharesAt, SMTT(30) DEF RetractRead, ReadShares
<1>. QED
  BY <1>1, <1>2, FailGoes, Zenon DEF RetractRead, ShareStep, WordStep

LEMMA TryWriteShares == ASSUME WordInv, NEW t \in Thread, TryWrite(t) PROVE ShareStep(t)
<1>1. ControlOK /\ pc[t] \in {"attempt", "recheck"} /\ call[t] = "write" /\ KeepArguments(t)
  BY Zenon DEF WordInv, TryWrite, Attempting
<1>2. ShareAt(pc[t], call[t]) = "none"
  BY <1>1, SharesAt, SMTT(30)
<1>3. CASE lock = 0
  BY <1>1, <1>2, <1>3, SucceedGoes, Zenon DEF TryWrite, ShareStep, WordStep, Calls
<1>4. CASE lock # 0
  BY <1>1, <1>2, <1>4, FailGoes, Zenon DEF TryWrite, ShareStep, WordStep, Calls
<1>. QED
  BY <1>3, <1>4, Zenon

LEMMA TryUpreadShares == ASSUME WordInv, NEW t \in Thread, TryUpread(t) PROVE ShareStep(t)
<1>1. ControlOK /\ pc[t] \in {"attempt", "recheck"} /\ call[t] = "upread" /\ KeepArguments(t)
  BY Zenon DEF WordInv, TryUpread, Attempting
<1>2. ShareAt(pc[t], call[t]) = "none" /\ lock' = FetchOrUpreader(lock)
  BY <1>1, SharesAt, SMTT(30) DEF TryUpread
<1>3. CASE HasUpreader(lock)
  <2>1. lock' = lock
    BY <1>2, <1>3, Zenon DEF FetchOrUpreader
  <2>. QED
    BY <1>1, <1>2, <1>3, <2>1, FailGoes, Zenon DEF TryUpread, ShareStep, WordStep, Calls
<1>4. CASE ~HasUpreader(lock) /\ HasWriter(lock)
  <2>1. Goto(t, "upread_retract")
    BY <1>4, Zenon DEF TryUpread
  <2>2. pc'[t] = "upread_retract" /\ call'[t] = "upread"
    BY <1>1, <2>1, Goes, Arguments, SMTT(30) DEF Resting
  <2>3. CallOK(pc'[t], call'[t]) /\ ShareAt(pc'[t], call'[t]) = "upread_try"
    BY <2>2, SharesAt, SMTT(30) DEF CallOK, WaitLocations
  <2>. QED
    BY <1>1, <1>2, <1>4, <2>1, <2>3, Goes, Arguments, Zenon DEF ShareStep, WordStep
<1>5. CASE ~HasUpreader(lock) /\ ~HasWriter(lock)
  BY <1>1, <1>2, <1>5, SucceedGoes, Zenon DEF TryUpread, ShareStep, WordStep, Calls
<1>. QED
  BY <1>3, <1>4, <1>5, Zenon

LEMMA RetractUpreadShares == ASSUME WordInv, NEW t \in Thread, RetractUpread(t) PROVE ShareStep(t)
<1>1. ControlOK /\ pc[t] = "upread_retract" /\ call[t] \in Calls /\ KeepArguments(t)
  BY Zenon DEF WordInv, ControlOK, CallOK, RetractUpread, Calls
<1>2. ShareAt(pc[t], call[t]) = "upread_try" /\ lock' = FetchSub(lock, UPGRADEABLE_READER)
  BY <1>1, SharesAt, SMTT(30) DEF RetractUpread
<1>. QED
  BY <1>1, <1>2, FailGoes, Zenon DEF RetractUpread, ShareStep, WordStep

\* The steps that say where they go and which argument they leave.
LEMMA PlainShares ==
    ASSUME WordInv, NEW t \in Thread, NEW loc, Goto(t, loc), NEW c,
           call' = [call EXCEPT ![t] = c], CallOK(loc, c),
           WordStep(ShareAt(pc[t], call[t]), lock, ShareAt(loc, c), lock')
    PROVE  ShareStep(t)
<1>1. ControlOK
  BY Zenon DEF WordInv
<1>2. DOMAIN call' = Thread /\ call'[t] = c /\ \A s \in Thread \ {t} : call'[s] = call[s]
  BY <1>1, Zenon DEF ControlOK
<1>. QED
  BY <1>1, <1>2, Goes, SMTT(30) DEF ShareStep

LEMMA DropShares == ASSUME WordInv, NEW t \in Thread, Drop(t) PROVE ShareStep(t)
<1>1. CASE DropRead(t)
  <2>1. PICK loc, c : /\ Goto(t, loc) /\ call' = [call EXCEPT ![t] = c]
                      /\ loc \in {"is_empty", "idle"} /\ c \in {"read", "none"}
    BY <1>1, Zenon DEF DropRead
  <2>2. ShareAt(pc[t], call[t]) \in ReadShares /\ ShareAt(loc, c) = "none"
    BY <1>1, <2>1, SharesAt, SMTT(30) DEF DropRead, ReadShares, WakeLocations
  <2>3. CallOK(loc, c)
    BY <2>1, Zenon DEF CallOK, WaitLocations
  <2>. QED
    BY <1>1, <2>1, <2>2, <2>3, PlainShares, Zenon DEF DropRead, WordStep
<1>2. CASE DropWrite(t)
  <2>1. ShareAt(pc[t], call[t]) = "write" /\ ShareAt("is_empty", "write") = "none"
    BY <1>2, SharesAt, SMTT(30) DEF DropWrite, WakeLocations
  <2>2. CallOK("is_empty", "write")
    BY Zenon DEF CallOK, WaitLocations
  <2>. QED
    BY <1>2, <2>1, <2>2, PlainShares, Zenon DEF DropWrite, WordStep
<1>3. CASE DropUpread(t)
  <2>1. PICK loc, c : /\ Goto(t, loc) /\ call' = [call EXCEPT ![t] = c]
                      /\ loc \in {"is_empty", "idle"} /\ c \in {"upread", "none"}
    BY <1>3, Zenon DEF DropUpread
  <2>2. ShareAt(pc[t], call[t]) = "upread" /\ ShareAt(loc, c) = "none"
    BY <1>3, <2>1, SharesAt, SMTT(30) DEF DropUpread, WakeLocations
  <2>3. CallOK(loc, c)
    BY <2>1, Zenon DEF CallOK, WaitLocations
  <2>. QED
    BY <1>3, <2>1, <2>2, <2>3, PlainShares, Zenon DEF DropUpread, WordStep
<1>. QED
  BY <1>1, <1>2, <1>3, Zenon DEF Drop

LEMMA UpgradeShares ==
    ASSUME WordInv, NEW t \in Thread, Upgrade(t) \/ TryUpgrade(t) \/ RetractUpgrade(t)
    PROVE  ShareStep(t)
<1>1. ControlOK /\ call' = call
  BY Zenon DEF WordInv, Upgrade, TryUpgrade, RetractUpgrade
<1>2. CASE Upgrade(t)
  <2>1. pc[t] = "upreading" /\ Goto(t, "upgrading") /\ lock' = FetchOrUpgrading(lock)
    BY <1>2, Zenon DEF Upgrade
  <2>2. /\ ShareAt(pc[t], call[t]) = "upread" /\ ShareAt(pc'[t], call'[t]) = "upgrading"
        /\ CallOK(pc'[t], call'[t])
    BY <1>1, <2>1, Goes, SharesAt, SMTT(30) DEF CallOK, WaitLocations
  <2>. QED
    BY <1>1, <2>1, <2>2, Goes, Zenon DEF ShareStep, WordStep, ControlOK
<1>3. CASE TryUpgrade(t) /\ lock = UPGRADEABLE_READER + BEING_UPGRADED
  <2>1. pc[t] = "upgrading" /\ Goto(t, "upgrade_retract") /\ lock' = WRITER + UPGRADEABLE_READER
    BY <1>3, Zenon DEF TryUpgrade
  <2>2. /\ ShareAt(pc[t], call[t]) = "upgrading" /\ ShareAt(pc'[t], call'[t]) = "both"
        /\ CallOK(pc'[t], call'[t])
    BY <1>1, <2>1, Goes, SharesAt, SMTT(30) DEF CallOK, WaitLocations
  <2>. QED
    BY <1>1, <1>3, <2>1, <2>2, Goes, Zenon DEF ShareStep, WordStep, ControlOK
<1>4. CASE TryUpgrade(t) /\ lock # UPGRADEABLE_READER + BEING_UPGRADED
  BY <1>1, <1>4, Zenon DEF TryUpgrade, ShareStep, WordStep, ControlOK
<1>5. CASE RetractUpgrade(t)
  <2>1. /\ pc[t] = "upgrade_retract" /\ Goto(t, "writing")
        /\ lock' = FetchSub(lock, UPGRADEABLE_READER)
    BY <1>5, Zenon DEF RetractUpgrade
  <2>2. /\ ShareAt(pc[t], call[t]) = "both" /\ ShareAt(pc'[t], call'[t]) = "write"
        /\ CallOK(pc'[t], call'[t])
    BY <1>1, <2>1, Goes, SharesAt, SMTT(30) DEF CallOK, WaitLocations
  <2>. QED
    BY <1>1, <2>1, <2>2, Goes, Zenon DEF ShareStep, WordStep, ControlOK
<1>. QED
  BY <1>2, <1>3, <1>4, <1>5, Zenon

LEMMA DowngradeShares ==
    ASSUME WordInv, NEW t \in Thread, TryDowngrade(t) \/ FinishDowngrade(t) PROVE ShareStep(t)
<1>1. CASE TryDowngrade(t)
  <2>1. ShareAt(pc[t], call[t]) = "write" /\ ShareAt("downgrade", "downgrade") = "upread"
    BY <1>1, SharesAt, SMTT(30) DEF TryDowngrade
  <2>2. CallOK("downgrade", "downgrade")
    BY Zenon DEF CallOK, WaitLocations
  <2>. QED
    BY <1>1, <2>1, <2>2, PlainShares, Zenon DEF TryDowngrade, WordStep
<1>2. CASE FinishDowngrade(t)
  <2>1. ControlOK /\ pc[t] = "downgrade" /\ Goto(t, "is_empty") /\ call' = call
    BY <1>2, Zenon DEF WordInv, FinishDowngrade
  <2>2. call[t] = "downgrade" /\ pc'[t] = "is_empty"
    BY <2>1, Goes, Zenon DEF ControlOK, CallOK
  <2>3. /\ ShareAt(pc[t], call[t]) = "upread" /\ ShareAt(pc'[t], call'[t]) = "upread"
        /\ CallOK(pc'[t], call'[t])
    BY <2>1, <2>2, SharesAt, SMTT(30) DEF CallOK, WaitLocations, WakeLocations
  <2>. QED
    BY <1>2, <2>1, <2>3, Goes, Zenon DEF ShareStep, WordStep, ControlOK, FinishDowngrade
<1>. QED
  BY <1>1, <1>2, Zenon

\* Waiting and waking leave the word alone; a wait that ends has its guard.
LEMMA QueueStepShares == ASSUME WordInv, NEW t \in Thread, QueueStep(t) PROVE ShareStep(t)
<1>1. ControlOK /\ KeepArguments(t) /\ lock' = lock
  BY Zenon DEF WordInv, QueueStep
<1>2. CASE WaitStep(t, GuardOf[call[t]])
  <2>1. call[t] \in Calls
    BY <1>1, <1>2, Zenon DEF ControlOK, CallOK, WaitLocations, WaitStep, EnqueuePush, EnqueueCount, DoWait,
                      ParkCurrent, Resume, Close
  <2>2. CASE Close(t, GuardOf[call[t]])
    <3>1. pc[t] = "close" /\ Goto(t, GuardOf[call[t]])
      BY <2>2, Zenon DEF Close
    <3>2. \/ pc'[t] = "reading" /\ call[t] = "read"
          \/ pc'[t] = "writing" /\ call[t] = "write"
          \/ pc'[t] = "upreading" /\ call[t] = "upread"
      BY <1>1, <2>1, <3>1, Goes, SMTT(30) DEF GuardOf, Calls
    <3>3. ShareAt(pc[t], call[t]) = call[t] /\ ShareAt(pc'[t], call'[t]) = call[t]
      BY <3>1, <3>2, SharesAt, SMTT(30)
    <3>4. CallOK(pc'[t], call'[t])
      BY <3>2, Zenon DEF CallOK, WaitLocations
    <3>. QED
      BY <1>1, <3>1, <3>3, <3>4, Goes, Arguments, Zenon DEF ShareStep, WordStep
  <2>3. CASE ~Close(t, GuardOf[call[t]])
    <3> DEFINE Places == {"enqueue", "count", "recheck", "wait", "park", "parked"}
    <3>1. PICK loc \in Places : Goto(t, loc) /\ pc[t] \in Places
      BY <1>2, <2>3, Zenon DEF WaitStep, EnqueuePush, EnqueueCount, DoWait, ParkCurrent, Resume
    <3>2. pc'[t] \in Places /\ call'[t] = call[t]
      BY <1>1, <3>1, Goes, Arguments, Zenon DEF Resting
    <3>3. ShareAt(pc[t], call[t]) = "none" /\ ShareAt(pc'[t], call'[t]) = "none"
      BY <3>1, <3>2, SharesAt, SMTT(30)
    <3>4. CallOK(pc'[t], call'[t])
      BY <2>1, <3>2, Zenon DEF CallOK
    <3>. QED
      BY <1>1, <3>1, <3>3, <3>4, Goes, Arguments, ZenonT(40) DEF ShareStep, WordStep
  <2>. QED
    BY <2>2, <2>3, Zenon
<1>3. ASSUME NEW done, done = (IF call[t] = "downgrade" THEN "upreading" ELSE "idle"),
             WakeStep(t, call[t] # "read", done)
      PROVE  ShareStep(t)
  <2>1. PICK loc \in WakeLocations \cup {done} : Goto(t, loc) /\ pc[t] \in WakeLocations
    <3>. USE DEF WakeLocations
    <3>1. CASE IsEmpty(t, done)
      BY <3>1, Zenon DEF IsEmpty
    <3>2. CASE PopFront(t, done)
      BY <3>2, Zenon DEF PopFront
    <3>3. CASE PopCount(t)
      BY <3>3, Zenon DEF PopCount
    <3>4. CASE WakeUp(t)
      BY <3>4, Zenon DEF WakeUp
    <3>5. CASE UnparkTarget(t, call[t] # "read", done)
      BY <3>5, Zenon DEF UnparkTarget
    <3>. QED
      BY <1>3, <3>1, <3>2, <3>3, <3>4, <3>5, Zenon DEF WakeStep
  <2>2. pc'[t] = loc /\ DOMAIN pc' = Thread /\ \A s \in Thread \ {t} : pc'[s] = pc[s]
    BY <1>1, <2>1, Goes, Zenon
  <2>3. \/ pc'[t] \in WakeLocations /\ call'[t] = call[t]
        \/ pc'[t] = "upreading" /\ call[t] = "downgrade"
        \/ pc'[t] = "idle" /\ call[t] # "downgrade"
    BY <1>1, <1>3, <2>1, <2>2, Arguments, Zenon DEF Resting, WakeLocations
  <2>4. ShareAt(pc'[t], call'[t]) = ShareAt(pc[t], call[t])
    BY <2>1, <2>3, SharesAt, SMTT(30)
  <2>5. CallOK(pc'[t], call'[t])
    BY <2>3, Zenon DEF CallOK, WaitLocations, WakeLocations
  <2>. QED
    BY <1>1, <2>2, <2>4, <2>5, Arguments, Zenon DEF ShareStep, WordStep
<1>. QED
  BY <1>2, <1>3, Zenon DEF QueueStep

\* Every step is a step of one thread.
LEMMA NextShares == ASSUME WordInv, Next PROVE \E t \in Thread : ShareStep(t)
<1>1. ASSUME NEW t \in Thread, NEW c \in Calls, NEW k \in workload, Call(t, c, k) PROVE ShareStep(t)
  BY <1>1, CallShares, Zenon
<1>2. ASSUME NEW t \in Thread, Attempt(t) PROVE ShareStep(t)
  BY <1>2, TryReadShares, TryWriteShares, TryUpreadShares, UpgradeShares, Zenon DEF Attempt
<1>3. ASSUME NEW t \in Thread, Retract(t) PROVE ShareStep(t)
  BY <1>3, RetractReadShares, RetractUpreadShares, UpgradeShares, DowngradeShares, Zenon DEF Retract
<1>4. ASSUME NEW t \in Thread, Upgrade(t) \/ TryDowngrade(t) PROVE ShareStep(t)
  BY <1>4, UpgradeShares, DowngradeShares, Zenon
<1>. QED
  BY <1>1, <1>2, <1>3, <1>4, DropShares, QueueStepShares, Zenon DEF Next

\* ... which changes the share of that thread only.
LEMMA StepMap ==
    ASSUME WordInv, NEW t \in Thread, ShareStep(t)
    PROVE  ShareMap' = [ShareMap EXCEPT ![t] = ShareAt(pc'[t], call'[t])]
  BY Zenon DEF ShareStep, ShareMap

LEMMA ShareStepWord == ASSUME WordInv, NEW t \in Thread, ShareStep(t) PROVE WordInv'
<1>1. ControlOK'
  BY Zenon DEF WordInv, ControlOK, ShareStep
<1>2. ShareMap[t] = ShareAt(pc[t], call[t])
  BY Zenon DEF ShareMap
<1>3. Balanced([ShareMap EXCEPT ![t] = ShareAt(pc'[t], call'[t])], lock')
  BY <1>2, WordStepBalanced, SMTT(30) DEF WordInv, ShareStep
<1>4. Balanced(ShareMap', lock')
  BY <1>3, StepMap, Zenon
<1>5. Balanced(ShareMap, lock)'
  BY <1>4, Zenon DEF Balanced, Sharers, Bit
<1>. QED
  BY <1>1, <1>5, Zenon DEF WordInv

LEMMA InitWord == Init => WordInv
<1> SUFFICES ASSUME Init PROVE WordInv
  BY Zenon
<1>1. ControlOK
  BY Zenon DEF Init, ControlOK, CallOK, WaitLocations
<1>2. \A t \in Thread : pc[t] = "idle"
  BY Zenon DEF Init
<1>3. ShareMap = [t \in Thread |-> "none"]
  BY <1>2, SharesAt, SMTT(30) DEF ShareMap
<1>4. /\ Sharers(ShareMap, WriteShares) = {}
      /\ Sharers(ShareMap, UpreadShares) = {}
      /\ Sharers(ShareMap, {"upgrading"}) = {}
      /\ Sharers(ShareMap, ReadShares) = {}
  BY <1>3, Zenon DEF Sharers, WriteShares, UpreadShares, ReadShares
<1>5. Cardinality(Sharers(ShareMap, ReadShares)) = 0
  BY <1>4, FS_EmptySet, Zenon
<1>6. lock = 0
  BY Zenon DEF Init
<1>7. Balanced(ShareMap, lock)
  BY <1>3, <1>4, <1>5, <1>6, SMTT(30) DEF Balanced, Bit, Shares
<1>. QED
  BY <1>1, <1>7, Zenon DEF WordInv

LEMMA NextWord == WordInv /\ [Next]_vars => WordInv'
<1> SUFFICES ASSUME WordInv, [Next]_vars PROVE WordInv'
  BY Zenon
<1>1. CASE UNCHANGED vars
  <2>1. ControlOK' /\ ShareMap' = ShareMap /\ lock' = lock
    BY <1>1, Zenon DEF vars, WordInv, ControlOK, ShareMap
  <2>. QED
    BY <2>1, Zenon DEF WordInv, Balanced, Sharers, Bit
<1>. QED
  BY <1>1, NextShares, ShareStepWord, ZenonT(40)

-----------------------------------------------------------------------------
(* The accounts and the refinement *)

\* A guard's mode, from its thread's share.
GuardMode(k) ==
    IF k \in {"read_try", "upread_try"} THEN "none" ELSE IF k = "both" THEN "write" ELSE k

LEMMA ModeOfShare ==
    ASSUME WordInv, NEW t \in Thread
    PROVE  ModeOf(t) = GuardMode(ShareMap[t]) /\ ShareMap[t] \in Shares
<1>1. ShareMap[t] = ShareAt(pc[t], call[t]) /\ CallOK(pc[t], call[t])
  BY Zenon DEF WordInv, ControlOK, ShareMap
<1>2. CASE pc[t] = "close"
  <2>1. call[t] \in Calls
    BY <1>1, <1>2, Zenon DEF CallOK, WaitLocations
  <2>. QED
    BY <1>1, <1>2, <2>1, Zenon DEF ShareAt, ModeOf, GuardMode, Shares, Calls, WakeLocations
<1>3. CASE pc[t] # "close"
  BY <1>1, <1>3, Zenon DEF ShareAt, ModeOf, GuardMode, Shares, WakeLocations
<1>. QED
  BY <1>2, <1>3, Zenon

LEMMA ModesShare == WordInv => \A t \in Thread : ModeOf(t) = GuardMode(ShareMap[t])
  BY ModeOfShare, Zenon

LEMMA NextModesShare == WordInv' => \A t \in Thread : ModeOf(t)' = GuardMode(ShareMap'[t])
<1>1. (WordInv => \A t \in Thread : ModeOf(t) = GuardMode(ShareMap[t]))'
  BY ModesShare, PTL
<1>. QED
  BY <1>1, Zenon DEF GuardMode

LEMMA OwnersShare ==
    ASSUME WordInv
    PROVE  /\ InMode({"write"}) = Sharers(ShareMap, WriteShares)
           /\ UpreaderBitOwners = Sharers(ShareMap, UpreadShares)
           /\ InMode({"upgrading"}) = Sharers(ShareMap, {"upgrading"})
           /\ InMode({"read"}) \cup At({"read_retract"}) = Sharers(ShareMap, ReadShares)
<1>1. \A t \in Thread : ModeOf(t) = GuardMode(ShareMap[t]) /\ ShareMap[t] \in Shares
  BY ModeOfShare, Zenon
<1>2. ASSUME NEW t \in Thread
      PROVE  /\ pc[t] = "upgrade_retract" <=> ShareMap[t] = "both"
             /\ pc[t] = "upread_retract" <=> ShareMap[t] = "upread_try"
             /\ pc[t] = "read_retract" <=> ShareMap[t] = "read_try"
  <2>1. ShareMap[t] = ShareAt(pc[t], call[t]) /\ CallOK(pc[t], call[t])
    BY Zenon DEF WordInv, ControlOK, ShareMap
  <2>. QED
    BY <2>1, SMTT(30) DEF ShareAt, CallOK, Calls, WaitLocations
<1>3. \A t \in Thread : ModeOf(t) \in {"write"} <=> ShareMap[t] \in WriteShares
  BY <1>1, Zenon DEF GuardMode, Shares, WriteShares
<1>4. \A t \in Thread : /\ ModeOf(t) \in {"upread", "upgrading"} \/ pc[t] \in {"upgrade_retract", "upread_retract"}
                             <=> ShareMap[t] \in UpreadShares
  BY <1>1, <1>2, Zenon DEF GuardMode, Shares, UpreadShares
<1>5. \A t \in Thread : ModeOf(t) \in {"upgrading"} <=> ShareMap[t] \in {"upgrading"}
  BY <1>1, Zenon DEF GuardMode, Shares
<1>6. \A t \in Thread : ModeOf(t) \in {"read"} \/ pc[t] \in {"read_retract"} <=> ShareMap[t] \in ReadShares
  BY <1>1, <1>2, Zenon DEF GuardMode, Shares, ReadShares
<1>. QED
  BY <1>3, <1>4, <1>5, <1>6, Zenon DEF InMode, UpreaderBitOwners, At, Sharers

\* The word is at all times the sum of what guards and failed attempts have put
\* into it, for any number of threads that the reader field has room for: the
\* atomic invariant of RwMutex, through upgrades and downgrades.
THEOREM RwMutexWordAccounts == Spec => []WordAccounts
<1>1. WordInv => WordAccounts
  BY OwnersShare, Zenon DEF WordInv, Balanced, WordAccounts
<1>. QED
  BY <1>1, InitWord, NextWord, PTL DEF Spec

Holding == [t \in Thread |-> ModeOf(t)]

\* Nobody holds the mutex in the given modes.
LEMMA NoHolders ==
    ASSUME WordInv
    PROVE  /\ /\ Sharers(ShareMap, WriteShares) = {}
              /\ Sharers(ShareMap, {"upgrading"}) = {}
              => Abstract!HoldersIn({"upgrading", "write"}) = {}
           /\ /\ Sharers(ShareMap, WriteShares) = {}
              /\ Sharers(ShareMap, UpreadShares) = {}
              => Abstract!HoldersIn({"upread", "upgrading", "write"}) = {}
           /\ (\A t \in Thread : ShareMap[t] = "none")
              => Abstract!HoldersIn({"read", "upread", "upgrading", "write"}) = {}
<1>1. \A t \in Thread : Holding[t] = GuardMode(ShareMap[t]) /\ ShareMap[t] \in Shares
  BY ModeOfShare, Zenon DEF Holding
<1>2. \A M : Abstract!HoldersIn(M) = {t \in Thread : GuardMode(ShareMap[t]) \in M}
  BY <1>1, Zenon DEF Abstract!HoldersIn, Holding
<1>3. \A t \in Thread : /\ GuardMode(ShareMap[t]) = "write" <=> ShareMap[t] \in WriteShares
                        /\ GuardMode(ShareMap[t]) = "upgrading" <=> ShareMap[t] = "upgrading"
                        /\ GuardMode(ShareMap[t]) = "upread" => ShareMap[t] \in UpreadShares
                        /\ ShareMap[t] = "upgrading" => ShareMap[t] \in UpreadShares
                        /\ ShareMap[t] = "none" => GuardMode(ShareMap[t]) = "none"
  BY <1>1, Zenon DEF GuardMode, Shares, WriteShares, UpreadShares
<1>. QED
  BY <1>2, <1>3, Zenon DEF Sharers

LEMMA ShareStepHolding ==
    ASSUME WordInv, NEW t \in Thread, ShareStep(t)
    PROVE  /\ Holding[t] = GuardMode(ShareAt(pc[t], call[t]))
           /\ Holding' = [Holding EXCEPT ![t] = GuardMode(ShareAt(pc'[t], call'[t]))]
<1>1. WordInv'
  BY ShareStepWord, Zenon
<1>2. \A s \in Thread : Holding[s] = GuardMode(ShareMap[s])
  BY ModeOfShare, Zenon DEF Holding
<1>3. \A s \in Thread : ModeOf(s)' = GuardMode(ShareMap'[s])
  BY <1>1, NextModesShare, Zenon
<1>4. \A s \in Thread : Holding'[s] = GuardMode(ShareMap'[s])
  BY <1>3, Zenon DEF Holding
<1>5. ShareMap[t] = ShareAt(pc[t], call[t]) /\ DOMAIN ShareMap = Thread
  BY Zenon DEF ShareMap
<1>6. \A s \in Thread : ShareMap'[s] = IF s = t THEN ShareAt(pc'[t], call'[t]) ELSE ShareMap[s]
  BY <1>5, StepMap, Zenon
<1>7. \A s \in Thread : Holding'[s] = IF s = t THEN GuardMode(ShareAt(pc'[t], call'[t])) ELSE Holding[s]
  BY <1>2, <1>4, <1>6, Zenon
<1>8. Holding = [s \in Thread |-> Holding[s]] /\ Holding' = [s \in Thread |-> Holding'[s]]
  BY Zenon DEF Holding
<1> HIDE DEF Holding
<1>. QED
  BY <1>2, <1>5, <1>7, <1>8, Zenon

\* Each step of the word is a step of the abstract lock, or hidden from it.
LEMMA ShareStepRefines ==
    ASSUME WordInv, NEW t \in Thread, ShareStep(t) PROVE [Abstract!Next]_Holding
<1> DEFINE k == ShareAt(pc[t], call[t])
           k2 == ShareAt(pc'[t], call'[t])
<1>1. /\ Holding[t] = GuardMode(k)
      /\ Holding' = [Holding EXCEPT ![t] = GuardMode(k2)]
  BY ShareStepHolding, Zenon
<1>2. GuardMode(k2) = GuardMode(k) => Holding' = Holding
  <2>1. Holding = [s \in Thread |-> Holding[s]]
    BY Zenon DEF Holding
  <2> HIDE DEF k, k2, Holding
  <2>. QED
    BY <1>1, <2>1, Zenon
<1>3. WordStep(k, lock, k2, lock')
  BY Zenon DEF ShareStep
<1>4. Balanced(ShareMap, lock)
  BY Zenon DEF WordInv
<1>5. \A s \in Thread : Holding[s] = GuardMode(ShareMap[s])
  BY ModeOfShare, Zenon DEF Holding
<1>6. ShareMap[t] = k /\ k \in Shares
  BY ModeOfShare, Zenon DEF ShareMap
<1> HIDE DEF k, k2, Holding
<1>7. CASE k = "none" /\ k2 = "read" /\ AdmitsReader(lock)
  <2>1. Abstract!HoldersIn({"upgrading", "write"}) = {}
    BY <1>4, <1>7, Fields, NoHolders, Zenon DEF AdmitsReader
  <2>2. Abstract!AcquireRead(t)
    BY <1>1, <1>7, <2>1, Zenon DEF Abstract!AcquireRead, GuardMode, Holding
  <2>. QED
    BY <2>2, Zenon DEF Abstract!Next
<1>8. CASE k = "none" /\ k2 = "write" /\ lock = 0
  <2>1. Abstract!HoldersIn({"read", "upread", "upgrading", "write"}) = {}
    BY <1>4, <1>8, NoReaders, NoHolders, Zenon
  <2>2. Abstract!AcquireWrite(t)
    BY <1>1, <1>8, <2>1, Zenon DEF Abstract!AcquireWrite, GuardMode, Holding
  <2>. QED
    BY <2>2, Zenon DEF Abstract!Next
<1>9. CASE k = "none" /\ k2 = "upread" /\ ~HasUpreader(lock) /\ ~HasWriter(lock)
  <2>1. Abstract!HoldersIn({"upread", "upgrading", "write"}) = {}
    BY <1>4, <1>9, Fields, NoHolders, Zenon
  <2>2. Abstract!AcquireUpread(t)
    BY <1>1, <1>9, <2>1, Zenon DEF Abstract!AcquireUpread, GuardMode, Holding
  <2>. QED
    BY <2>2, Zenon DEF Abstract!Next
<1>10. CASE k \in {"read", "upread", "write"} /\ k2 = "none"
  <2>1. Abstract!Release(t)
    BY <1>1, <1>10, Zenon DEF Abstract!Release, GuardMode, Holding
  <2>. QED
    BY <2>1, Zenon DEF Abstract!Next
<1>11. CASE k = "upread" /\ k2 = "upgrading"
  <2>1. Abstract!StartUpgrade(t)
    BY <1>1, <1>11, Zenon DEF Abstract!StartUpgrade, GuardMode, Holding
  <2>. QED
    BY <2>1, Zenon DEF Abstract!Next
<1>12. CASE k = "upgrading" /\ k2 = "both" /\ lock = UPGRADEABLE_READER + BEING_UPGRADED
  <2>1. \A s \in Thread \ {t} : ShareMap[s] = "none"
    BY <1>4, <1>6, <1>12, NoReaders, Zenon
  <2>2. \A s \in Thread \ {t} : Holding[s] = "none"
    BY <1>5, <2>1, Zenon DEF GuardMode
  <2>3. Abstract!FinishUpgrade(t)
    BY <1>1, <1>12, <2>2, Zenon DEF Abstract!FinishUpgrade, GuardMode, Holding
  <2>. QED
    BY <2>3, Zenon DEF Abstract!Next
<1>13. CASE k = "write" /\ k2 = "upread"
  <2>1. Abstract!Downgrade(t)
    BY <1>1, <1>13, Zenon DEF Abstract!Downgrade, GuardMode, Holding
  <2>. QED
    BY <2>1, Zenon DEF Abstract!Next
<1>14. CASE \/ k2 = k
            \/ k \in {"none", "read_try", "upread_try"} /\ k2 \in {"none", "read_try", "upread_try"}
            \/ k = "both" /\ k2 = "write"
  BY <1>2, <1>14, Zenon DEF GuardMode
<1>. QED
  BY <1>3, <1>7, <1>8, <1>9, <1>10, <1>11, <1>12, <1>13, <1>14, ZenonT(40) DEF WordStep, ReadShares

\* RwMutex implements the abstract readers-writer lock, for any number of
\* threads: acquisition, upgrade and downgrade are atomic and respect the modes
\* already granted, whoever sleeps and whoever is woken.
THEOREM RwMutexRefines == Spec => ImplementsAbstract
<1>1. Init => Abstract!Init
  <2> SUFFICES ASSUME Init PROVE Abstract!Init
    BY Zenon
  <2>1. \A t \in Thread : ModeOf(t) = "none"
    BY Zenon DEF Init, ModeOf, WakeLocations
  <2>. QED
    BY <2>1, Zenon DEF Abstract!Init
<1>2. WordInv /\ [Next]_vars => [Abstract!Next]_Holding
  <2> SUFFICES ASSUME WordInv, [Next]_vars PROVE [Abstract!Next]_Holding
    BY Zenon
  <2>1. CASE UNCHANGED vars
    BY <2>1, SMTT(30) DEF vars, Holding, ModeOf
  <2>. QED
    BY <2>1, NextShares, ShareStepRefines, Zenon
<1>3. [Abstract!Next]_Holding =>
        [[t \in Thread |-> ModeOf(t)]' # [t \in Thread |-> ModeOf(t)] => Abstract!Next]_([t \in Thread |-> ModeOf(t)])
  BY Zenon DEF Holding
<1>. QED
  BY <1>1, <1>2, <1>3, InitWord, NextWord, PTL DEF Spec, ImplementsAbstract, Abstract!Spec

-----------------------------------------------------------------------------
(* Sleepers *)

Retracting == {"read_retract", "upread_retract"}

\* wait_until has no waiter before its first test and after its return.
WaiterInside == \A t \in Thread : waiter[t] # NoWaker => pc[t] \in WaitLocations \cup Retracting

\* Inside a call that may have to sleep.
Acquiring == {"attempt"} \cup Retracting \cup WaitLocations

KindsOK == DOMAIN kind = Thread /\ \A t \in Thread : pc[t] \in Acquiring => kind[t] \in workload

WakesAll(t) == pc[t] \in WakeLocations /\ call[t] # "read"

\* A thread that keeps readers and upreaders out, and wakes all of them later.
Blocking(t) ==
    \/ pc[t] \in {"upgrading", "upgrade_retract", "writing", "downgrade"}
    \/ pc[t] = "close" /\ call[t] = "write"

\* A thread that has a guard, or is about to test its condition or to look at
\* the queue.
RwMoving(t) ==
    \/ Moving(t)
    \/ pc[t] \in {"reading", "upreading"}
    \/ pc[t] \in Retracting /\ waiter[t] = NoWaker
    \/ Blocking(t)
    \/ WakesAll(t)

RwAnswered == (\E t \in Thread : pc[t] \in Sleeping) => \E t \in Thread : RwMoving(t)

\* A thread that has failed its second test, has not taken its share back and
\* has not been woken: what it put into the word turns others away, and nobody
\* is told when it is gone.
Stuck(t) == pc[t] \in Retracting /\ waiter[t] # NoWaker /\ ~has_woken[waiter[t]]

Answers(t, w) == Blocking(t) \/ WakesAll(t) \/ (pc[t] \in Popping /\ popped[t] = w)

StuckAnswered == \A r \in Thread : Stuck(r) => \E s \in Thread : Answers(s, waiter[r])

QueueFacts == QueueInv /\ WaitInv /\ PushedLast /\ WaiterInside

SleepInv ==
    /\ WordInv /\ QueueFacts /\ KindsOK
    /\ workload = {"block"} => RwAnswered /\ StuckAnswered

LEMMA AnswersMove == ASSUME NEW t \in Thread, NEW w, Answers(t, w) PROVE RwMoving(t)
  BY Zenon DEF Answers, RwMoving, Moving, Popping

\* What a share tells of its thread.
LEMMA ShareMoves ==
    ASSUME WordInv, NEW t \in Thread
    PROVE  /\ ShareMap[t] \in WriteShares \cup {"upgrading"} => Blocking(t)
           /\ ShareMap[t] # "none" => RwMoving(t) \/ Stuck(t)
<1>1. ShareMap[t] = ShareAt(pc[t], call[t]) /\ CallOK(pc[t], call[t])
  BY Zenon DEF WordInv, ControlOK, ShareMap
<1>2. ShareMap[t] \in WriteShares \cup {"upgrading"} => Blocking(t)
  <2>1. pc[t] = "close" => call[t] \in {"read", "upread", "write"}
    BY <1>1, Zenon DEF CallOK, WaitLocations, Calls
  <2>. QED
    BY <1>1, <2>1, Zenon DEF ShareAt, WriteShares, Blocking
<1>3. ShareMap[t] # "none" =>
        \/ pc[t] \in {"close", "reading", "upreading", "downgrade", "upgrading", "upgrade_retract", "writing"}
        \/ pc[t] \in WakeLocations /\ call[t] = "downgrade"
        \/ pc[t] \in Retracting
  BY <1>1, Zenon DEF ShareAt, Retracting
<1>4. pc[t] \in Retracting => RwMoving(t) \/ Stuck(t)
  BY Zenon DEF RwMoving, Moving, Stuck
<1>. QED
  BY <1>2, <1>3, <1>4, Zenon DEF RwMoving, Moving, Blocking, WakesAll

\* Whoever has a share is on the move, or somebody answers for it.
LEMMA OwnerMoves ==
    ASSUME SleepInv, workload = {"block"}, NEW t \in Thread, \A w : ~Answers(t, w),
           NEW s \in Thread \ {t}, ShareMap[s] # "none"
    PROVE  \E u \in Thread \ {t} : RwMoving(u)
<1>1. CASE RwMoving(s)
  BY <1>1, Zenon
<1>2. CASE Stuck(s)
  <2>1. PICK u \in Thread : Answers(u, waiter[s])
    BY <1>2, Zenon DEF SleepInv, StuckAnswered
  <2>. QED
    BY <2>1, AnswersMove, Zenon
<1>. QED
  BY <1>1, <1>2, ShareMoves, Zenon DEF SleepInv

\* A reader that is turned away has met a writer or an upgrade: the limit on
\* readers is not in the way of so few threads.
LEMMA TurnedAway ==
    ASSUME WordInv, Cardinality(Thread) <= MAX_READER, NEW t \in Thread, ShareMap[t] = "none",
           ~AdmitsReader(lock)
    PROVE  \E s \in Thread \ {t} : Blocking(s)
<1>1. Balanced(ShareMap, lock)
  BY Zenon DEF WordInv
<1>2. ~HasMaxReader(lock)
  <2>1. Sharers(ShareMap, ReadShares) \subseteq Thread \ {t}
    BY Zenon DEF Sharers, ReadShares
  <2>2. IsFiniteSet(Thread) /\ Cardinality(Thread) \in Nat
    BY RwMutexAssumption, FS_CardinalityType, Zenon
  <2>3. IsFiniteSet(Thread \ {t}) /\ Cardinality(Thread \ {t}) = Cardinality(Thread) - 1
    BY <2>2, FS_RemoveElement, Zenon
  <2>4. /\ Cardinality(Sharers(ShareMap, ReadShares)) \in Nat
        /\ Cardinality(Sharers(ShareMap, ReadShares)) <= Cardinality(Thread) - 1
    BY <2>1, <2>3, FS_Subset, FS_CardinalityType, SMTT(30)
  <2>5. Cardinality(Sharers(ShareMap, ReadShares)) < MAX_READER
    BY <2>2, <2>4, MaxReaderAssumption, SMTT(30)
  <2>. QED
    BY <1>1, <2>4, <2>5, MaxReaderAssumption, Fields, SMTT(30)
<1>3. Sharers(ShareMap, WriteShares) # {} \/ Sharers(ShareMap, {"upgrading"}) # {}
  BY <1>1, <1>2, Fields, Zenon DEF AdmitsReader
<1>4. PICK s \in Thread : ShareMap[s] \in WriteShares \cup {"upgrading"}
  BY <1>3, Zenon DEF Sharers
<1>5. s # t
  BY <1>4, Zenon DEF WriteShares
<1>. QED
  BY <1>4, <1>5, ShareMoves, Zenon

\* The word tells whether a thread is alone with its share.
LEMMA OnlyShare ==
    ASSUME NEW sh, NEW v, Balanced(sh, v), NEW t \in Thread, \A s \in Thread \ {t} : sh[s] = "none"
    PROVE  v = Weight(sh[t])
<1>1. \A K : "none" \notin K => Sharers(sh, K) = IF sh[t] \in K THEN {t} ELSE {}
  BY SMTT(30) DEF Sharers
<1>2. /\ Sharers(sh, WriteShares) = IF sh[t] \in WriteShares THEN {t} ELSE {}
      /\ Sharers(sh, UpreadShares) = IF sh[t] \in UpreadShares THEN {t} ELSE {}
      /\ Sharers(sh, {"upgrading"}) = IF sh[t] \in {"upgrading"} THEN {t} ELSE {}
      /\ Sharers(sh, ReadShares) = IF sh[t] \in ReadShares THEN {t} ELSE {}
  BY <1>1, Zenon DEF WriteShares, UpreadShares, ReadShares
<1>3. /\ Bit(Sharers(sh, WriteShares), WRITER) = IF sh[t] \in WriteShares THEN WRITER ELSE 0
      /\ Bit(Sharers(sh, UpreadShares), UPGRADEABLE_READER) =
           IF sh[t] \in UpreadShares THEN UPGRADEABLE_READER ELSE 0
      /\ Bit(Sharers(sh, {"upgrading"}), BEING_UPGRADED) =
           IF sh[t] \in {"upgrading"} THEN BEING_UPGRADED ELSE 0
  BY <1>2, Zenon DEF Bit
<1>4. Cardinality(Sharers(sh, ReadShares)) = IF sh[t] \in ReadShares THEN READER ELSE 0
  BY <1>2, FS_Singleton, FS_EmptySet, Zenon DEF READER
<1>. QED
  BY <1>3, <1>4, Zenon DEF Balanced, Weight

\* What a step of thread t does, seen from the sleepers: the duty of a thread on
\* the move, or of one that answers for a stuck thread, is kept or passed on.
HandsOver(t) ==
    /\ (\E u \in Thread : pc'[u] \in Sleeping) =>
         \/ RwMoving(t)'
         \/ \E s \in Thread \ {t} : RwMoving(s)
         \/ \E s \in Thread : Moving(s)'
    /\ \A r \in Thread \ {t} :
         Stuck(r) /\ ~has_woken'[waiter[r]] /\ Answers(t, waiter[r]) =>
             \/ Blocking(t)' \/ WakesAll(t)' \/ (pc'[t] \in Popping /\ popped'[t] = waiter[r])
             \/ \E s \in Thread \ {t} : Answers(s, waiter[r])
    /\ pc'[t] \in Retracting /\ waiter'[t] # NoWaker => \E s \in Thread \ {t} : Blocking(s)

SleepStep(t) ==
    /\ QueueFacts' /\ Kept(t)
    /\ DOMAIN kind' = Thread /\ workload' = workload
    /\ \A s \in Thread \ {t} : kind'[s] = kind[s]
    /\ pc'[t] \in Acquiring => kind'[t] \in workload
    /\ workload = {"block"} => HandsOver(t)

LEMMA OthersRwMove ==
    ASSUME WaitInv, NEW t \in Thread, Kept(t), ShareStep(t), NEW s \in Thread \ {t}
    PROVE  /\ RwMoving(s) => RwMoving(s)'
           /\ Blocking(s) => Blocking(s)'
           /\ WakesAll(s) => WakesAll(s)'
<1>1. pc'[s] = pc[s] /\ call'[s] = call[s] /\ waiter'[s] = waiter[s]
  BY Zenon DEF Kept, ShareStep
<1>2. (Blocking(s) => Blocking(s)') /\ (WakesAll(s) => WakesAll(s)')
  BY <1>1, Zenon DEF Blocking, WakesAll
<1>3. Moving(s) => Moving(s)'
  BY OthersMove, Zenon
<1>. QED
  BY <1>1, <1>2, <1>3, Zenon DEF RwMoving

LEMMA SleepStepInv == ASSUME SleepInv, NEW t \in Thread, ShareStep(t), SleepStep(t) PROVE SleepInv'
<1>1. WordInv' /\ QueueFacts' /\ WaitInv
  BY ShareStepWord, Zenon DEF SleepInv, SleepStep, QueueFacts
<1>2. KindsOK'
  BY Zenon DEF SleepInv, KindsOK, SleepStep, Kept
<1>3. ASSUME workload' = {"block"} PROVE RwAnswered' /\ StuckAnswered'
  <2>1. HandsOver(t) /\ StuckAnswered /\ Kept(t)
    BY <1>3, Zenon DEF SleepStep, SleepInv
  <2>2. RwAnswered'
    <3> SUFFICES ASSUME \E u \in Thread : pc'[u] \in Sleeping PROVE \E s \in Thread : RwMoving(s)'
      BY Zenon DEF RwAnswered
    <3>1. CASE \E s \in Thread \ {t} : RwMoving(s)
      BY <1>1, <2>1, <3>1, OthersRwMove, Zenon
    <3>2. CASE \E s \in Thread : Moving(s)'
      BY <3>2, Zenon DEF RwMoving
    <3>. QED
      BY <2>1, <3>1, <3>2, Zenon DEF HandsOver
  <2>3. ASSUME NEW r \in Thread, Stuck(r)' PROVE (\E s \in Thread : Answers(s, waiter[r]))'
    <3>1. CASE r = t
      <4>1. PICK s \in Thread \ {t} : Blocking(s)
        BY <2>1, <2>3, <3>1, Zenon DEF HandsOver, Stuck
      <4>2. Blocking(s)'
        BY <1>1, <2>1, <4>1, OthersRwMove, Zenon
      <4>. QED
        BY <4>2, Zenon DEF Answers
    <3>2. CASE r # t
      <4>1. PICK w : w = waiter[r] /\ waiter'[r] = w /\ pc'[r] = pc[r] /\ w # NoWaker /\ ~has_woken'[w]
        BY <2>1, <2>3, <3>2, Zenon DEF Kept, Stuck
      <4>2. w \in Waker /\ Task(w) = r
        BY <1>1, <4>1, Zenon DEF WaitInv, WaitTypes, WaiterOwned
      <4>3. Stuck(r)
        BY <2>1, <2>3, <3>2, <4>1, <4>2, ZenonT(40) DEF Kept, Stuck
      <4>4. ASSUME NEW s \in Thread \ {t}, Answers(s, w) PROVE Answers(s, w)'
        <5>1. pc'[s] = pc[s] /\ popped'[s] = popped[s]
          BY <2>1, Zenon DEF Kept
        <5>. QED
          BY <1>1, <2>1, <4>4, <5>1, OthersRwMove, ZenonT(40) DEF Answers
      <4>5. \E s \in Thread : Answers(s, w)'
        <5>1. PICK s \in Thread : Answers(s, w)
          BY <2>1, <4>1, <4>3, Zenon DEF StuckAnswered
        <5>2. CASE s # t
          BY <4>4, <5>1, <5>2, Zenon
        <5>3. CASE s = t
          <6>1. \/ Answers(t, w)'
                \/ \E u \in Thread \ {t} : Answers(u, w)
            BY <2>1, <3>2, <4>1, <4>3, <5>1, <5>3, ZenonT(40) DEF HandsOver, Answers
          <6>. QED
            BY <4>4, <6>1, Zenon
        <5>. QED
          BY <5>2, <5>3, Zenon
      <4>. QED
        BY <4>1, <4>5, Zenon DEF Answers
    <3>. QED
      BY <3>1, <3>2, Zenon
  <2>. QED
    BY <2>2, <2>3, Zenon DEF StuckAnswered
<1>. QED
  BY <1>1, <1>2, <1>3, Zenon DEF SleepInv

\* A step that leaves the queue and its own waiter alone.
LEMMA MoveSleep ==
    ASSUME SleepInv, NEW t \in Thread, NEW loc, Goto(t, loc), UNCHANGED wqVars,
           pc[t] \notin WakeLocations \cup WaitLocations \/ pc[t] = "recheck",
           loc \notin InHand \cup {"count"},
           waiter[t] # NoWaker => loc \in WaitLocations \cup Retracting,
           loc \in WaitLocations => waiter[t] # NoWaker
    PROVE  QueueFacts' /\ Kept(t)
<1>1. QueueInv /\ WaitInv /\ PushedLast /\ WaiterInside
  BY Zenon DEF SleepInv, QueueFacts
<1>2. \A s \in Thread : pc'[s] = IF s = t THEN loc ELSE pc[s]
  BY <1>1, Zenon DEF QueueInv, Goto
<1>3. Kept(t)
  BY <1>2, Zenon DEF Kept, wqVars
<1>4. /\ pc[t] \notin InHand \cup Counting \cup {"enqueue", "parked"}
      /\ loc \notin InHand \cup Counting
  BY Zenon DEF InHand, Counting, WakeLocations, WaitLocations
<1>5. QueueInv'
  BY <1>1, <1>4, MoveQueue, Zenon DEF wqVars
<1>6. t \notin parked
  BY <1>1, <1>4, Zenon DEF WaitInv, ParkedWaits
<1>7. WaitInv'
  BY <1>1, <1>4, <1>6, MoveWait, ZenonT(40) DEF wqVars
<1>8. PushedLast'
  BY <1>1, <1>2, <1>3, MovePushed, Zenon DEF wqVars
<1>9. WaiterInside'
  BY <1>1, <1>2, Zenon DEF WaiterInside, wqVars
<1>. QED
  BY <1>3, <1>5, <1>7, <1>8, <1>9, ZenonT(40) DEF QueueFacts

\* The arguments of a call that goes on.
LEMMA KindKept ==
    ASSUME SleepInv, NEW t \in Thread, KeepArguments(t), pc[t] \in Acquiring \/ pc'[t] \notin Acquiring
    PROVE  /\ DOMAIN kind' = Thread /\ workload' = workload
           /\ \A s \in Thread \ {t} : kind'[s] = kind[s]
           /\ pc'[t] \in Acquiring => kind'[t] \in workload
<1>1. \A loc \in Resting : loc \notin Acquiring
  BY Zenon DEF Resting, Acquiring, Retracting, WaitLocations
<1>. QED
  BY <1>1, Zenon DEF SleepInv, KindsOK, KeepArguments

LEMMA CallSleep ==
    ASSUME SleepInv, NEW t \in Thread, NEW c \in Calls, NEW k \in workload, Call(t, c, k)
    PROVE  SleepStep(t)
<1>1. pc[t] = "idle" /\ Goto(t, "attempt") /\ UNCHANGED wqVars
  BY Zenon DEF Call
<1>2. waiter[t] = NoWaker
  BY <1>1, Zenon DEF SleepInv, QueueFacts, WaiterInside, WaitLocations, Retracting
<1>3. QueueFacts' /\ Kept(t)
  BY <1>1, <1>2, MoveSleep, Zenon DEF WakeLocations, WaitLocations, InHand
<1>4. /\ DOMAIN kind' = Thread /\ workload' = workload /\ kind'[t] \in workload
      /\ \A s \in Thread \ {t} : kind'[s] = kind[s]
  BY Zenon DEF SleepInv, KindsOK, Call
<1>5. pc'[t] = "attempt"
  BY <1>1, Goes, Zenon DEF SleepInv, WordInv
<1>6. ~RwMoving(t)
  BY <1>1, <1>2, Zenon DEF RwMoving, Moving, Blocking, WakesAll, WakeLocations, Retracting
<1>7. ASSUME workload = {"block"} PROVE HandsOver(t)
  <2>1. (\E u \in Thread : pc'[u] \in Sleeping) => \E s \in Thread \ {t} : RwMoving(s)
    BY <1>3, <1>5, <1>6, <1>7, Zenon DEF Kept, Sleeping, SleepInv, RwAnswered
  <2>2. \A w : ~Answers(t, w)
    BY <1>6, AnswersMove, Zenon
  <2>. QED
    BY <1>5, <2>1, <2>2, Zenon DEF HandsOver, Retracting
<1>. QED
  BY <1>3, <1>4, <1>7, Zenon DEF SleepStep

\* Where a test is made.
Testing == {"attempt", "recheck"} \cup Retracting

LEMMA TestingFacts ==
    ASSUME SleepInv, NEW t \in Thread, pc[t] \in Testing
    PROVE  /\ pc[t] \in Acquiring
           /\ pc[t] = "attempt" => waiter[t] = NoWaker
           /\ pc[t] = "recheck" => waiter[t] # NoWaker
           /\ pc[t] \notin WakeLocations \cup WaitLocations \/ pc[t] = "recheck"
           /\ \A w : ~Answers(t, w)
<1>1. WaiterInside /\ WaiterOwned
  BY Zenon DEF SleepInv, QueueFacts, WaitInv
<1>2. /\ pc[t] \in Acquiring
      /\ pc[t] \notin WakeLocations \cup WaitLocations \/ pc[t] = "recheck"
  BY Zenon DEF Testing, Acquiring, WaitLocations, WakeLocations, Retracting
<1>3. \A w : ~Answers(t, w)
  BY Zenon DEF Testing, Retracting, Answers, Blocking, WakesAll, WakeLocations, Popping
<1>4. pc[t] = "attempt" => waiter[t] = NoWaker
  BY <1>1, Zenon DEF WaiterInside, WaitLocations, Retracting
<1>5. pc[t] = "recheck" => waiter[t] # NoWaker
  BY <1>1, Zenon DEF WaiterOwned, WaitLocations
<1>. QED
  BY <1>2, <1>3, <1>4, <1>5, ZenonT(40)

\* A test that succeeds.
LEMMA SucceedSleep ==
    ASSUME SleepInv, NEW t \in Thread, pc[t] \in {"attempt", "recheck"}, call[t] \in Calls, Succeed(t),
           KeepArguments(t)
    PROVE  SleepStep(t)
<1>1. PICK loc : /\ Goto(t, loc) /\ UNCHANGED wqVars
                 /\ loc = IF waiter[t] = NoWaker THEN GuardOf[call[t]] ELSE "close"
  BY Zenon DEF Succeed
<1>2. GuardOf[call[t]] \in {"reading", "writing", "upreading"}
  BY SMTT(30) DEF GuardOf, Calls
<1>3. pc[t] \in Testing
  BY Zenon DEF Testing
<1>4. QueueFacts' /\ Kept(t)
  BY <1>1, <1>2, <1>3, TestingFacts, MoveSleep, ZenonT(40) DEF InHand, WaitLocations
<1>5. pc'[t] \in {"reading", "writing", "upreading", "close"}
  BY <1>1, <1>2, Goes, Zenon DEF SleepInv, WordInv
<1>6. RwMoving(t)' /\ pc'[t] \notin Retracting
  BY <1>5, Zenon DEF RwMoving, Moving, Blocking, Retracting
<1>7. HandsOver(t)
  BY <1>3, <1>6, TestingFacts, Zenon DEF HandsOver
<1>. QED
  BY <1>3, <1>4, <1>7, TestingFacts, KindKept, ZenonT(40) DEF SleepStep

\* A test that fails: somebody else is on the move, or this thread is.
LEMMA FailSleep ==
    ASSUME SleepInv, NEW t \in Thread, pc[t] \in Testing, Fail(t), KeepArguments(t),
           workload = {"block"} /\ waiter[t] # NoWaker /\ ~has_woken[waiter[t]] =>
               \E s \in Thread \ {t} : RwMoving(s)
    PROVE  SleepStep(t)
<1>1. ControlOK /\ KindsOK /\ QueueInv /\ WaitInv /\ PushedLast /\ WaiterInside
  BY Zenon DEF SleepInv, WordInv, QueueFacts
<1>2. CASE waiter[t] # NoWaker
  <2>1. Goto(t, "wait") /\ UNCHANGED wqVars
    BY <1>2, Zenon DEF Fail
  <2>2. QueueFacts' /\ Kept(t)
    BY <1>2, <2>1, TestingFacts, MoveSleep, ZenonT(40) DEF InHand, WaitLocations
  <2>3. pc'[t] = "wait" /\ waiter'[t] = waiter[t] /\ has_woken' = has_woken
    BY <1>1, <2>1, Goes, Zenon DEF wqVars
  <2>4. has_woken[waiter[t]] => RwMoving(t)'
    BY <1>2, <2>3, Zenon DEF RwMoving, Moving
  <2>5. workload = {"block"} => HandsOver(t)
    BY <1>2, <2>3, <2>4, TestingFacts, ZenonT(40) DEF HandsOver, Retracting
  <2>. QED
    BY <2>2, <2>5, TestingFacts, KindKept, ZenonT(40) DEF SleepStep
<1>3. CASE waiter[t] = NoWaker /\ kind[t] = "block"
  <2>1. /\ Goto(t, "enqueue") /\ NewPair(t)
        /\ UNCHANGED <<wakers, num_wakers, wq_lock, popped, parked>>
    BY <1>3, Zenon DEF Fail
  <2>2. \A s \in Thread : pc'[s] = IF s = t THEN "enqueue" ELSE pc[s]
    BY <1>1, <2>1, Zenon DEF ControlOK, Goto
  <2>3. PICK w \in Waker : w = FreshWaker(t) /\ Task(w) = t
    BY <2>1, FreshWakerType, Zenon DEF NewPair
  <2>4. /\ waiter' = [waiter EXCEPT ![t] = w]
        /\ has_woken' = [has_woken EXCEPT ![w] = FALSE]
    BY <2>1, <2>3, Zenon DEF NewPair
  <2>5. Kept(t)
    BY <1>1, <2>1, <2>2, <2>3, <2>4, ZenonT(40) DEF Kept, WaitInv, WaitTypes
  <2>6. pc[t] \notin InHand \cup Counting \cup {"parked"}
    BY Zenon DEF Testing, Retracting, InHand, Counting
  <2>7. QueueInv'
    BY <1>1, <2>1, <2>6, MoveQueue, ZenonT(40) DEF Counting
  <2>8. WaitInv'
    BY <1>1, <1>3, <2>1, <2>6, NewPairWait, ZenonT(40)
  <2>9. PushedLast'
    BY <1>1, <2>1, <2>2, <2>5, MovePushed, ZenonT(40)
  <2>10. WaiterInside'
    BY <1>1, <2>2, <2>5, Zenon DEF WaiterInside, Kept, WaitLocations
  <2>11. QueueFacts' /\ Kept(t)
    BY <2>5, <2>7, <2>8, <2>9, <2>10, ZenonT(40) DEF QueueFacts
  <2>12. RwMoving(t)' /\ pc'[t] \notin Retracting
    BY <2>2, Zenon DEF RwMoving, Moving, Retracting
  <2>13. HandsOver(t)
    BY <2>12, TestingFacts, Zenon DEF HandsOver
  <2>. QED
    BY <2>11, <2>13, TestingFacts, KindKept, ZenonT(40) DEF SleepStep
<1>4. CASE waiter[t] = NoWaker /\ kind[t] = "try"
  <2>1. Goto(t, "idle") /\ UNCHANGED wqVars
    BY <1>4, Zenon DEF Fail
  <2>2. QueueFacts' /\ Kept(t)
    BY <1>4, <2>1, TestingFacts, MoveSleep, ZenonT(40) DEF InHand, WaitLocations
  <2>3. workload # {"block"}
    BY <1>1, <1>4, TestingFacts, Zenon DEF KindsOK
  <2>. QED
    BY <2>2, <2>3, TestingFacts, KindKept, ZenonT(40) DEF SleepStep
<1>. QED
  BY <1>2, <1>3, <1>4, Zenon DEF Fail

\* A test that leaves something to take back has met a thread that blocks it.
LEMMA RetractSleep ==
    ASSUME SleepInv, NEW t \in Thread, pc[t] \in {"attempt", "recheck"}, NEW loc \in Retracting,
           Goto(t, loc), UNCHANGED wqVars, KeepArguments(t), \E s \in Thread \ {t} : Blocking(s)
    PROVE  SleepStep(t)
<1>1. pc[t] \in Testing
  BY Zenon DEF Testing
<1>2. QueueFacts' /\ Kept(t)
  BY <1>1, TestingFacts, MoveSleep, Zenon DEF InHand, WaitLocations, Retracting
<1>3. \E s \in Thread \ {t} : RwMoving(s)
  BY Zenon DEF RwMoving
<1>4. HandsOver(t)
  BY <1>1, <1>3, TestingFacts, Zenon DEF HandsOver
<1>. QED
  BY <1>1, <1>2, <1>4, TestingFacts, KindKept, ZenonT(40) DEF SleepStep

LEMMA TestShare ==
    ASSUME SleepInv, NEW t \in Thread, pc[t] \in {"attempt", "recheck"}
    PROVE  ShareMap[t] = "none" /\ pc[t] \in Testing
  BY SharesAt, SMTT(30) DEF ShareMap, Testing

LEMMA TryReadSleep ==
    ASSUME SleepInv, Cardinality(Thread) <= MAX_READER, NEW t \in Thread, TryRead(t)
    PROVE  SleepStep(t)
<1>1. pc[t] \in {"attempt", "recheck"} /\ call[t] \in Calls /\ KeepArguments(t)
  BY Zenon DEF TryRead, Attempting, Calls
<1>2. CASE AdmitsReader(lock)
  BY <1>1, <1>2, SucceedSleep, Zenon DEF TryRead
<1>3. CASE ~AdmitsReader(lock)
  <2>1. \E s \in Thread \ {t} : Blocking(s)
    BY <1>1, <1>3, TestShare, TurnedAway, Zenon DEF SleepInv
  <2>. QED
    BY <1>1, <1>3, <2>1, RetractSleep, Zenon DEF TryRead, Retracting
<1>. QED
  BY <1>2, <1>3, Zenon

\* A share that is taken back: a thread that has not been woken leaves the
\* wake-up to the one that answers for it.
LEMMA TakeBackSleep ==
    ASSUME SleepInv, NEW t \in Thread, RetractRead(t) \/ RetractUpread(t) PROVE SleepStep(t)
<1>1. pc[t] \in Retracting /\ pc[t] \in Testing /\ Fail(t) /\ KeepArguments(t)
  BY Zenon DEF RetractRead, RetractUpread, Retracting, Testing
<1>2. ASSUME workload = {"block"}, waiter[t] # NoWaker, ~has_woken[waiter[t]]
      PROVE  \E s \in Thread \ {t} : RwMoving(s)
  <2>1. PICK s \in Thread : Answers(s, waiter[t])
    BY <1>1, <1>2, ZenonT(40) DEF SleepInv, StuckAnswered, Stuck
  <2>. QED
    BY <1>1, <2>1, TestingFacts, AnswersMove, ZenonT(40)
<1>. QED
  BY <1>1, <1>2, FailSleep, Zenon

LEMMA TryWriteSleep == ASSUME SleepInv, NEW t \in Thread, TryWrite(t) PROVE SleepStep(t)
<1>1. pc[t] \in {"attempt", "recheck"} /\ call[t] \in Calls /\ KeepArguments(t)
  BY Zenon DEF TryWrite, Attempting, Calls
<1>2. CASE lock = 0
  BY <1>1, <1>2, SucceedSleep, Zenon DEF TryWrite
<1>3. CASE lock # 0
  <2>1. ShareMap[t] = "none" /\ pc[t] \in Testing
    BY <1>1, TestShare, Zenon
  <2>2. \E s \in Thread \ {t} : ShareMap[s] # "none"
    <3> SUFFICES ASSUME \A s \in Thread \ {t} : ShareMap[s] = "none" PROVE FALSE
      BY Zenon
    <3>1. lock = Weight("none")
      BY <2>1, OnlyShare, Zenon DEF SleepInv, WordInv
    <3>2. Weight("none") = 0
      BY SMTT(30) DEF Weight, WriteShares, UpreadShares, ReadShares
    <3>. QED
      BY <1>3, <3>1, <3>2, Zenon
  <2>3. workload = {"block"} => \E s \in Thread \ {t} : RwMoving(s)
    BY <2>1, <2>2, TestingFacts, OwnerMoves, ZenonT(40)
  <2>. QED
    BY <1>1, <1>3, <2>1, <2>3, FailSleep, ZenonT(40) DEF TryWrite
<1>. QED
  BY <1>2, <1>3, Zenon

LEMMA TryUpreadSleep == ASSUME SleepInv, NEW t \in Thread, TryUpread(t) PROVE SleepStep(t)
<1>1. pc[t] \in {"attempt", "recheck"} /\ call[t] \in Calls /\ KeepArguments(t)
  BY Zenon DEF TryUpread, Attempting, Calls
<1>2. ShareMap[t] = "none" /\ pc[t] \in Testing /\ Balanced(ShareMap, lock)
  BY <1>1, TestShare, Zenon DEF SleepInv, WordInv
<1>3. CASE HasUpreader(lock)
  <2>1. PICK s \in Thread : ShareMap[s] \in UpreadShares
    BY <1>2, <1>3, Fields, Zenon DEF Sharers
  <2>2. s # t /\ ShareMap[s] # "none"
    BY <1>2, <2>1, Zenon DEF UpreadShares
  <2>3. workload = {"block"} => \E u \in Thread \ {t} : RwMoving(u)
    BY <1>2, <2>2, TestingFacts, OwnerMoves, ZenonT(40)
  <2>. QED
    BY <1>1, <1>2, <1>3, <2>3, FailSleep, ZenonT(40) DEF TryUpread
<1>4. CASE ~HasUpreader(lock) /\ HasWriter(lock)
  <2>1. PICK s \in Thread : ShareMap[s] \in WriteShares
    BY <1>2, <1>4, Fields, Zenon DEF Sharers
  <2>2. s # t /\ Blocking(s)
    BY <1>2, <2>1, ShareMoves, Zenon DEF WriteShares, SleepInv
  <2>. QED
    BY <1>1, <1>4, <2>2, RetractSleep, ZenonT(40) DEF TryUpread, Retracting
<1>5. CASE ~HasUpreader(lock) /\ ~HasWriter(lock)
  BY <1>1, <1>5, SucceedSleep, Zenon DEF TryUpread
<1>. QED
  BY <1>3, <1>4, <1>5, Zenon

\* A step of a thread that has a guard, or gives one up.
LEMMA GuardSleep ==
    ASSUME SleepInv, NEW t \in Thread, NEW loc, Goto(t, loc),
           UNCHANGED <<kind, workload, wqVars>>,
           pc[t] \in {"reading", "upreading", "writing", "upgrading", "upgrade_retract", "downgrade"},
           loc \in {"idle", "is_empty", "upgrading", "upgrade_retract", "writing", "downgrade"},
           workload = {"block"} => RwMoving(t)' \/ \E s \in Thread \ {t} : RwMoving(s),
           Blocking(t) => Blocking(t)' \/ WakesAll(t)'
    PROVE  SleepStep(t)
<1>1. QueueFacts /\ ControlOK /\ KindsOK
  BY Zenon DEF SleepInv, WordInv
<1>2. waiter[t] = NoWaker
  BY <1>1, Zenon DEF QueueFacts, WaiterInside, WaitLocations, Retracting
<1>3. QueueFacts' /\ Kept(t)
  BY <1>2, MoveSleep, Zenon DEF InHand, WaitLocations, WakeLocations
<1>4. pc'[t] = loc /\ loc \notin Acquiring
  BY <1>1, Goes, Zenon DEF Acquiring, Retracting, WaitLocations
<1>5. pc[t] \notin Popping /\ ~WakesAll(t)
  BY Zenon DEF Popping, WakesAll, WakeLocations
<1>6. pc'[t] \notin Retracting
  BY <1>4, Zenon DEF Acquiring
<1>7. workload = {"block"} => HandsOver(t)
  BY <1>5, <1>6, Zenon DEF HandsOver, Answers
<1>. QED
  BY <1>1, <1>3, <1>4, <1>7, ZenonT(40) DEF SleepStep, KindsOK

LEMMA UpgradeSleep ==
    ASSUME SleepInv, NEW t \in Thread, Upgrade(t) \/ TryUpgrade(t) \/ RetractUpgrade(t)
    PROVE  UNCHANGED vars \/ SleepStep(t)
<1>1. CASE TryUpgrade(t) /\ lock # UPGRADEABLE_READER + BEING_UPGRADED
  BY <1>1, Zenon DEF TryUpgrade, vars
<1>2. CASE Upgrade(t) \/ RetractUpgrade(t) \/ (TryUpgrade(t) /\ lock = UPGRADEABLE_READER + BEING_UPGRADED)
  <2>1. PICK loc \in {"upgrading", "upgrade_retract", "writing"} :
          /\ Goto(t, loc) /\ UNCHANGED <<kind, workload, wqVars>>
          /\ pc[t] \in {"upreading", "upgrading", "upgrade_retract"}
    BY <1>2, Zenon DEF Upgrade, TryUpgrade, RetractUpgrade
  <2>2. pc'[t] = loc
    BY <2>1, Goes, Zenon DEF SleepInv, WordInv
  <2>3. Blocking(t)' /\ RwMoving(t)'
    BY <2>1, <2>2, ZenonT(40) DEF Blocking, RwMoving
  <2>. QED
    BY <2>1, <2>3, GuardSleep, Zenon
<1>. QED
  BY <1>1, <1>2, Zenon

LEMMA DowngradeSleep ==
    ASSUME SleepInv, NEW t \in Thread, TryDowngrade(t) \/ FinishDowngrade(t) PROVE SleepStep(t)
<1>1. CASE TryDowngrade(t)
  <2>1. pc[t] = "writing" /\ Goto(t, "downgrade") /\ UNCHANGED <<kind, workload, wqVars>>
    BY <1>1, Zenon DEF TryDowngrade
  <2>2. Blocking(t)' /\ RwMoving(t)'
    BY <2>1, Goes, Zenon DEF SleepInv, WordInv, Blocking, RwMoving
  <2>. QED
    BY <2>1, <2>2, GuardSleep, Zenon
<1>2. CASE FinishDowngrade(t)
  <2>1. pc[t] = "downgrade" /\ Goto(t, "is_empty") /\ UNCHANGED <<call, kind, workload, wqVars>>
    BY <1>2, Zenon DEF FinishDowngrade
  <2>2. call[t] = "downgrade" /\ pc'[t] = "is_empty"
    BY <2>1, Goes, Zenon DEF SleepInv, WordInv, ControlOK, CallOK
  <2>3. WakesAll(t)' /\ RwMoving(t)'
    BY <2>1, <2>2, ZenonT(40) DEF WakesAll, RwMoving, WakeLocations
  <2>. QED
    BY <2>1, <2>3, GuardSleep, Zenon
<1>. QED
  BY <1>1, <1>2, Zenon

\* The guard that is dropped without a wake-up was not alone.
LEMMA DropSleep == ASSUME SleepInv, NEW t \in Thread, Drop(t) PROVE SleepStep(t)
<1>1. ControlOK /\ Balanced(ShareMap, lock)
  BY Zenon DEF SleepInv, WordInv
<1>2. /\ Weight("read") = READER
      /\ Weight("upread") = UPGRADEABLE_READER
  BY MaxReaderAssumption, SMTT(30) DEF Weight, WriteShares, UpreadShares, ReadShares, READER, WRITER,
                             UPGRADEABLE_READER, BEING_UPGRADED
<1>3. ASSUME pc[t] \in {"reading", "upreading"}, workload = {"block"}, lock # Weight(ShareMap[t])
      PROVE  \E s \in Thread \ {t} : RwMoving(s)
  <2>1. \A w : ~Answers(t, w)
    BY <1>3, Zenon DEF Answers, Blocking, WakesAll, WakeLocations, Popping
  <2>2. PICK s \in Thread \ {t} : ShareMap[s] # "none"
    BY <1>1, <1>3, OnlyShare, Zenon
  <2>. QED
    BY <1>3, <2>1, <2>2, OwnerMoves, Zenon
<1>4. CASE DropRead(t)
  <2>1. PICK loc : /\ Goto(t, loc) /\ UNCHANGED <<kind, workload, wqVars>>
                   /\ loc = IF lock = READER THEN "is_empty" ELSE "idle"
                   /\ pc[t] = "reading"
    BY <1>4, Zenon DEF DropRead
  <2>2. ShareMap[t] = "read" /\ pc'[t] = loc
    BY <1>1, <2>1, SharesAt, Goes, SMTT(30) DEF ShareMap
  <2>3. lock = READER => RwMoving(t)'
    BY <2>1, <2>2, Zenon DEF RwMoving, Moving
  <2>4. ~Blocking(t)
    BY <2>1, Zenon DEF Blocking
  <2>. QED
    BY <1>2, <1>3, <2>1, <2>2, <2>3, <2>4, GuardSleep, ZenonT(40)
<1>5. CASE DropUpread(t)
  <2>1. PICK loc : /\ Goto(t, loc) /\ UNCHANGED <<kind, workload, wqVars>>
                   /\ loc = IF lock = UPGRADEABLE_READER THEN "is_empty" ELSE "idle"
                   /\ pc[t] = "upreading"
    BY <1>5, Zenon DEF DropUpread
  <2>2. ShareMap[t] = "upread" /\ pc'[t] = loc
    BY <1>1, <2>1, SharesAt, Goes, SMTT(30) DEF ShareMap
  <2>3. lock = UPGRADEABLE_READER => RwMoving(t)'
    BY <2>1, <2>2, Zenon DEF RwMoving, Moving
  <2>4. ~Blocking(t)
    BY <2>1, Zenon DEF Blocking
  <2>. QED
    BY <1>2, <1>3, <2>1, <2>2, <2>3, <2>4, GuardSleep, Zenon
<1>6. CASE DropWrite(t)
  <2>1. pc[t] = "writing" /\ Goto(t, "is_empty") /\ UNCHANGED <<kind, workload, wqVars>>
    BY <1>6, Zenon DEF DropWrite
  <2>2. call'[t] = "write" /\ pc'[t] = "is_empty"
    BY <1>1, <1>6, <2>1, Goes, Zenon DEF DropWrite, ControlOK
  <2>3. WakesAll(t)' /\ RwMoving(t)'
    BY <2>2, Zenon DEF WakesAll, RwMoving, WakeLocations
  <2>. QED
    BY <2>1, <2>3, GuardSleep, Zenon
<1>. QED
  BY <1>4, <1>5, <1>6, Zenon DEF Drop

LEMMA WaitStepSleep ==
    ASSUME SleepInv, WaiterDrop, NEW t \in Thread, NEW guard, guard \in {"reading", "writing", "upreading"},
           guard = GuardOf[call[t]], WaitStep(t, guard), KeepArguments(t)
    PROVE  SleepStep(t)
<1>1. QueueInv /\ WaitInv /\ PushedLast /\ WaiterInside
  BY Zenon DEF SleepInv, QueueFacts
<1>2. /\ pc[t] \in WaitLocations /\ pc'[t] \in WaitLocations \cup {guard} /\ Kept(t)
      /\ pc[t] # "close" => /\ waiter' = waiter
                            /\ pc'[t] \in WaitLocations \ {"close"}
                            /\ Moving(t) => Moving(t)'
                            /\ pc'[t] \in Sleeping => pc[t] \in Sleeping
  BY <1>1, WaitStepKeeps, Zenon
<1>3. guard \notin InHand \cup WaitLocations \cup Counting \cup {"count"} \cup Retracting
  BY Zenon DEF InHand, WaitLocations, Counting, Retracting
<1>4. QueueInv' /\ WaitInv' /\ PushedLast'
  BY <1>1, <1>3, WaitStepQueue, WaitStepWait, WaitStepPushed, ZenonT(40)
<1>5. CASE pc[t] = "close"
  <2>1. Close(t, guard)
    BY <1>5, Zenon DEF WaitStep, EnqueuePush, EnqueueCount, DoWait, ParkCurrent, Resume
  <2>2. waiter'[t] = NoWaker /\ pc'[t] = guard
    BY <1>1, <2>1, Zenon DEF Close, Goto, WaitInv, WaitTypes
  <2>3. WaiterInside'
    BY <1>1, <1>2, <2>2, Zenon DEF WaiterInside, Kept
  <2>4. RwMoving(t)'
    BY <2>2, Zenon DEF RwMoving, Blocking
  <2>5. Blocking(t) => Blocking(t)'
    BY <1>5, <2>2, SMTT(30) DEF Blocking, GuardOf
  <2>6. ~WakesAll(t) /\ pc[t] \notin Popping
    BY <1>5, Zenon DEF WakesAll, WakeLocations, Popping
  <2>7. HandsOver(t)
    BY <1>3, <2>2, <2>4, <2>5, <2>6, ZenonT(40) DEF HandsOver, Answers
  <2>. QED
    BY <1>2, <1>4, <2>3, <2>7, KindKept, ZenonT(40) DEF SleepStep, QueueFacts, Acquiring
<1>6. CASE pc[t] # "close"
  <2>1. WaiterInside'
    BY <1>1, <1>2, <1>6, ZenonT(40) DEF WaiterInside, Kept
  <2>2. /\ \A w : ~Answers(t, w)
        /\ RwMoving(t) => Moving(t)
    BY <1>2, <1>6, Zenon DEF Answers, RwMoving, Blocking, WakesAll, WakeLocations, WaitLocations, Popping,
                      Retracting
  <2>3. pc'[t] \notin Retracting
    BY <1>2, <1>6, Zenon DEF WaitLocations, Retracting
  <2>4. ASSUME workload = {"block"} PROVE HandsOver(t)
    <3>1. ASSUME NEW u \in Thread, pc'[u] \in Sleeping
          PROVE  RwMoving(t)' \/ \E s \in Thread \ {t} : RwMoving(s)
      <4>1. pc[u] \in Sleeping
        BY <1>2, <1>6, <3>1, Zenon DEF Kept
      <4>2. PICK s \in Thread : RwMoving(s)
        BY <2>4, <4>1, Zenon DEF SleepInv, RwAnswered
      <4>. QED
        BY <1>2, <1>6, <2>2, <4>2, ZenonT(40) DEF RwMoving
    <3>. QED
      BY <2>2, <2>3, <3>1, Zenon DEF HandsOver
  <2>. QED
    BY <1>2, <1>4, <2>1, <2>4, KindKept, ZenonT(40) DEF SleepStep, QueueFacts, Acquiring
<1>. QED
  BY <1>5, <1>6, Zenon

\* wake_all goes on until the queue is empty; wake_one is over when it has woken
\* somebody, or found the queue empty.
LEMMA WakeStepSleep ==
    ASSUME SleepInv, NEW t \in Thread, NEW done,
           done = (IF call[t] = "downgrade" THEN "upreading" ELSE "idle"),
           WakeStep(t, call[t] # "read", done), KeepArguments(t)
    PROVE  SleepStep(t)
<1>1. QueueInv /\ WaitInv /\ PushedLast /\ WaiterInside /\ ControlOK
  BY Zenon DEF SleepInv, QueueFacts, WordInv
<1>2. done \notin InHand \cup WaitLocations \cup Counting \cup {"count"} \cup Retracting \cup Acquiring
  BY Zenon DEF InHand, WaitLocations, Counting, Retracting, Acquiring
<1>3. Kept(t) /\ waiter' = waiter /\ pc'[t] \in WakeLocations \cup {done}
  BY <1>1, WakeStepKeeps, Zenon
<1>4. QueueInv' /\ WaitInv' /\ PushedLast'
  BY <1>1, <1>2, WakeStepQueue, WakeStepWait, WakeStepPushed, ZenonT(40)
<1>5. pc[t] \in WakeLocations
  BY Zenon DEF WakeStep, IsEmpty, PopFront, PopCount, WakeUp, UnparkTarget, WakeLocations
<1>6. waiter[t] = NoWaker
  BY <1>1, <1>5, Zenon DEF WaiterInside, WakeLocations, WaitLocations, Retracting
<1>7. WaiterInside'
  BY <1>1, <1>3, <1>6, Zenon DEF WaiterInside, Kept
<1>8. pc'[t] \notin Acquiring /\ pc'[t] \notin Retracting
  BY <1>2, <1>3, Zenon DEF WakeLocations, Acquiring, Retracting, WaitLocations
<1>9. pc'[t] \in WakeLocations => call'[t] = call[t]
  BY <1>1, Arguments, Zenon DEF Resting, WakeLocations
<1>10. ASSUME workload = {"block"} PROVE HandsOver(t)
  <2>1. ASSUME NEW u \in Thread, pc'[u] \in Sleeping
        PROVE  \/ RwMoving(t)'
               \/ \E s \in Thread \ {t} : RwMoving(s)
               \/ \E s \in Thread : Moving(s)'
    <3>1. pc[u] \in Sleeping
      BY <1>2, <1>3, <2>1, Zenon DEF Kept, WakeLocations, Sleeping, WaitLocations
    <3>2. CASE pc[t] # "unpark"
      BY <1>1, <3>1, <3>2, WakeStepMoves, ZenonT(40)
    <3>3. CASE pc[t] = "unpark" /\ call[t] # "read"
      <4>1. UnparkTarget(t, call[t] # "read", done)
        BY <3>3, Zenon DEF WakeStep, IsEmpty, PopFront, PopCount, WakeUp
      <4>2. pc'[t] = "pop"
        BY <1>1, <3>3, <4>1, Zenon DEF UnparkTarget, Goto, ControlOK
      <4>. QED
        BY <4>2, Zenon DEF RwMoving, Moving
    <3>4. CASE pc[t] = "unpark" /\ call[t] = "read"
      <4>1. ~RwMoving(t)
        BY <1>6, <3>4, Zenon DEF RwMoving, Moving, Blocking, WakesAll, Retracting
      <4>. QED
        BY <1>10, <3>1, <4>1, Zenon DEF SleepInv, RwAnswered
    <3>. QED
      BY <3>2, <3>3, <3>4, Zenon
  <2>2. ASSUME NEW r \in Thread \ {t}, NEW w, w = waiter[r], Stuck(r), ~has_woken'[w], Answers(t, w)
        PROVE  \/ WakesAll(t)' \/ (pc'[t] \in Popping /\ popped'[t] = w)
               \/ \E s \in Thread \ {t} : Answers(s, w)
    <3>1. CASE pc'[t] \in WakeLocations /\ call[t] # "read"
      BY <1>9, <3>1, Zenon DEF WakesAll
    <3>2. CASE pc[t] \in {"is_empty", "pop"} /\ pc'[t] \notin WakeLocations
      <4>1. num_wakers = 0 \/ wakers = <<>>
        BY <1>1, <3>2, Zenon DEF WakeStep, IsEmpty, PopFront, PopCount, WakeUp, UnparkTarget, Goto, ControlOK,
                          WakeLocations
      <4>2. pc[r] \notin {"enqueue", "count"} /\ waiter[r] # NoWaker /\ ~has_woken[waiter[r]]
        BY <2>2, Zenon DEF Stuck, Retracting
      <4>3. \E s \in Thread \ {t} : pc[s] \in Popping /\ popped[s] = waiter[r]
        BY <1>1, <3>2, <4>1, <4>2, EmptyReachable, ZenonT(40)
      <4>. QED
        BY <2>2, <4>3, Zenon DEF Answers
    <3>3. CASE pc[t] = "uncount"
      <4>1. PopCount(t)
        BY <3>3, Zenon DEF WakeStep, IsEmpty, PopFront, WakeUp, UnparkTarget
      <4>2. pc'[t] = "wake_up" /\ popped' = popped
        BY <1>1, <4>1, Zenon DEF PopCount, Goto, ControlOK
      <4>. QED
        BY <1>9, <2>2, <3>3, <4>2, ZenonT(40) DEF Answers, Blocking, WakesAll, Popping, WakeLocations
    <3>4. CASE pc[t] = "wake_up"
      <4>1. WakeUp(t)
        BY <3>4, Zenon DEF WakeStep, IsEmpty, PopFront, PopCount, UnparkTarget
      <4>2. popped[t] \in Waker /\ has_woken'[popped[t]]
        BY <1>1, <3>4, <4>1, Zenon DEF WakeUp, WaitInv, WaitTypes, PoppedInHand, InHand
      <4>3. popped[t] # w /\ pc'[t] \in WakeLocations
        BY <1>1, <2>2, <4>1, <4>2, ZenonT(40) DEF WakeUp, Goto, ControlOK, WakeLocations
      <4>4. call[t] # "read"
        BY <2>2, <3>4, <4>3, Zenon DEF Answers, Blocking, WakesAll
      <4>. QED
        BY <3>1, <4>3, <4>4, Zenon
    <3>5. CASE pc[t] = "unpark"
      <4>1. call[t] # "read"
        BY <2>2, <3>5, Zenon DEF Answers, Blocking, WakesAll, Popping
      <4>2. UnparkTarget(t, call[t] # "read", done)
        BY <3>5, Zenon DEF WakeStep, IsEmpty, PopFront, PopCount, WakeUp
      <4>3. pc'[t] \in WakeLocations
        BY <1>1, <4>1, <4>2, Zenon DEF UnparkTarget, Goto, ControlOK, WakeLocations
      <4>. QED
        BY <3>1, <4>1, <4>3, Zenon
    <3>6. pc[t] \in {"is_empty", "pop"} => call[t] # "read"
      BY <2>2, Zenon DEF Answers, Blocking, WakesAll, Popping
    <3>. QED
      BY <1>5, <3>1, <3>2, <3>3, <3>4, <3>5, <3>6, ZenonT(40) DEF WakeLocations
  <2>. QED
    BY <1>8, <2>1, <2>2, Zenon DEF HandsOver
<1>. QED
  BY <1>3, <1>4, <1>7, <1>8, <1>10, KindKept, ZenonT(40) DEF SleepStep, QueueFacts

LEMMA QueueStepSleep == ASSUME SleepInv, WaiterDrop, NEW t \in Thread, QueueStep(t) PROVE SleepStep(t)
<1>1. KeepArguments(t)
  BY Zenon DEF QueueStep
<1>2. CASE WaitStep(t, GuardOf[call[t]])
  <2>1. pc[t] \in WaitLocations
    BY <1>2, Zenon DEF WaitStep, EnqueuePush, EnqueueCount, DoWait, ParkCurrent, Resume, Close, WaitLocations
  <2>2. call[t] \in Calls
    BY <2>1, Zenon DEF SleepInv, WordInv, ControlOK, CallOK
  <2>3. GuardOf[call[t]] \in {"reading", "writing", "upreading"}
    BY <2>2, SMTT(30) DEF Calls, GuardOf
  <2>. QED
    BY <1>1, <1>2, <2>3, WaitStepSleep, ZenonT(40)
<1>3. CASE WakeStep(t, call[t] # "read", IF call[t] = "downgrade" THEN "upreading" ELSE "idle")
  BY <1>1, <1>3, WakeStepSleep, Zenon
<1>. QED
  BY <1>2, <1>3, Zenon DEF QueueStep

LEMMA StutterSleep == ASSUME SleepInv, UNCHANGED vars PROVE SleepInv'
<1>1. WordInv'
  BY NextWord, Zenon DEF SleepInv
<1>2. UNCHANGED <<pc, call, kind, workload, wakers, num_wakers, wq_lock, has_woken, waiter, popped, parked>>
  BY Zenon DEF vars, wqVars
<1>3. QueueInv'
  BY <1>2, Zenon DEF SleepInv, QueueFacts, QueueInv, QueueTypes, QueueCounted
<1>4. WaitInv'
  BY <1>2, SMTT(30) DEF SleepInv, QueueFacts, WaitInv, WaitTypes, WaiterOwned, PoppedInHand, UnwokenIsWaiter,
              UnwokenReachable, Reachable, InQueue, ParkedWaits, Unparking
<1>5. PushedLast' /\ WaiterInside' /\ KindsOK'
  BY <1>2, Zenon DEF SleepInv, QueueFacts, PushedLast, WaiterInside, KindsOK
<1>6. workload' = {"block"} => RwAnswered' /\ StuckAnswered'
  BY <1>2, Zenon DEF SleepInv, RwAnswered, RwMoving, Moving, StuckAnswered, Stuck, Answers, Blocking, WakesAll
<1>. QED
  BY <1>1, <1>3, <1>4, <1>5, <1>6, ZenonT(40) DEF SleepInv, QueueFacts

LEMMA NextSleep ==
    ASSUME WaiterDrop, Cardinality(Thread) <= MAX_READER PROVE SleepInv /\ [Next]_vars => SleepInv'
<1> SUFFICES ASSUME SleepInv, [Next]_vars PROVE SleepInv'
  BY Zenon
<1>1. WordInv
  BY Zenon DEF SleepInv
<1>2. ASSUME NEW t \in Thread, NEW c \in Calls, NEW k \in workload, Call(t, c, k) PROVE SleepInv'
  BY <1>1, <1>2, CallShares, CallSleep, SleepStepInv, ZenonT(40)
<1>3. ASSUME NEW t \in Thread, TryRead(t) PROVE SleepInv'
  BY <1>1, <1>3, TryReadShares, TryReadSleep, SleepStepInv, ZenonT(40)
<1>4. ASSUME NEW t \in Thread, TryWrite(t) PROVE SleepInv'
  BY <1>1, <1>4, TryWriteShares, TryWriteSleep, SleepStepInv, Zenon
<1>5. ASSUME NEW t \in Thread, TryUpread(t) PROVE SleepInv'
  BY <1>1, <1>5, TryUpreadShares, TryUpreadSleep, SleepStepInv, Zenon
<1>6. ASSUME NEW t \in Thread, RetractRead(t) \/ RetractUpread(t) PROVE SleepInv'
  BY <1>1, <1>6, RetractReadShares, RetractUpreadShares, TakeBackSleep, SleepStepInv, ZenonT(40)
<1>7. ASSUME NEW t \in Thread, Upgrade(t) \/ TryUpgrade(t) \/ RetractUpgrade(t) PROVE SleepInv'
  BY <1>1, <1>7, UpgradeShares, UpgradeSleep, StutterSleep, SleepStepInv, ZenonT(40)
<1>8. ASSUME NEW t \in Thread, TryDowngrade(t) \/ FinishDowngrade(t) PROVE SleepInv'
  BY <1>1, <1>8, DowngradeShares, DowngradeSleep, SleepStepInv, ZenonT(40)
<1>9. ASSUME NEW t \in Thread, Drop(t) PROVE SleepInv'
  BY <1>1, <1>9, DropShares, DropSleep, SleepStepInv, Zenon
<1>10. ASSUME NEW t \in Thread, QueueStep(t) PROVE SleepInv'
  BY <1>1, <1>10, QueueStepShares, QueueStepSleep, SleepStepInv, ZenonT(40)
<1>. QED
  BY <1>2, <1>3, <1>4, <1>5, <1>6, <1>7, <1>8, <1>9, <1>10, StutterSleep, Zenon DEF Next, Attempt, Retract

\* A program that only makes the sleeping calls never leaves a thread asleep on
\* a mutex that nobody holds or is about to take or to release: the drop that
\* makes the mutex free, or the attempt that takes its share of the word back,
\* is always followed by a wake-up.  A reader that MAX_READER keeps out would
\* not be told when there is room again: there are at most MAX_READER threads.
THEOREM RwMutexNoLostWakeup ==
    ASSUME NoThread \notin Thread, WaiterDrop, Cardinality(Thread) <= MAX_READER
    PROVE  Spec => []NoSleeperIfAllBlock
<1>1. Init => SleepInv
  <2> SUFFICES ASSUME Init PROVE SleepInv
    BY Zenon
  <2>1. QueueInv /\ WaitInv
    BY NoThread \notin Thread, InitQueue, InitWait, Zenon DEF Init, Counting, InHand, WaitLocations
  <2>2. \A t \in Thread : pc[t] = "idle" /\ waiter[t] = NoWaker
    BY Zenon DEF Init, wqInit
  <2>3. PushedLast /\ WaiterInside /\ RwAnswered /\ StuckAnswered
    BY <2>2, Zenon DEF PushedLast, WaiterInside, RwAnswered, Sleeping, StuckAnswered, Stuck
  <2>4. KindsOK
    BY <2>2, Zenon DEF Init, KindsOK, Acquiring, Retracting, WaitLocations
  <2>. QED
    BY <2>1, <2>3, <2>4, InitWord, Zenon DEF SleepInv, QueueFacts
<1>2. SleepInv => NoSleeperIfAllBlock
  <2> SUFFICES ASSUME SleepInv, workload = {"block"}, \A t \in Thread : t \in parked \/ pc[t] = "idle",
                      NEW u \in parked
               PROVE  FALSE
    BY Zenon DEF NoSleeperIfAllBlock, NoSleeperOnFreeMutex, Settled
  <2>1. WaitInv
    BY Zenon DEF SleepInv, QueueFacts
  <2>2. \A t \in Thread : pc[t] \in {"idle", "parked"}
    BY <2>1, Zenon DEF WaitInv, ParkedWaits
  <2>3. u \in Thread /\ pc[u] \in Sleeping
    BY <2>1, Zenon DEF WaitInv, WaitTypes, ParkedWaits, Sleeping
  <2>4. PICK s \in Thread : RwMoving(s)
    BY <2>3, Zenon DEF SleepInv, RwAnswered
  <2>5. waiter[s] # NoWaker /\ has_woken[waiter[s]]
    BY <2>2, <2>4, Zenon DEF RwMoving, Moving, Blocking, WakesAll, WakeLocations, Retracting
  <2>6. s \in parked
    BY <2>2, <2>5, Zenon DEF SleepInv, QueueFacts, WaiterInside, WaitLocations, Retracting
  <2>7. Unparking(s)
    BY <2>1, <2>5, <2>6, Zenon DEF WaitInv, ParkedWaits
  <2>. QED
    BY <2>2, <2>7, Zenon DEF Unparking
<1>. QED
  BY <1>1, <1>2, NextSleep, WaiterDrop, Cardinality(Thread) <= MAX_READER, PTL DEF Spec
=============================================================================

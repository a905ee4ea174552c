------------------------------- MODULE RwWord -------------------------------
(***************************************************************************)
(* The atomic word shared by RwLock and RwMutex.  From the top bit down it  *)
(* holds WRITER, UPGRADEABLE_READER, BEING_UPGRADED, the overflow sentinel  *)
(* MAX_READER and the reader count.  The code fixes MAX_READER at 2^60; here*)
(* it is a parameter and the other bits keep their ratio to it, so that a   *)
(* small instance reaches the limit on readers.  Bits are tested by         *)
(* comparing and subtracting from the top, which equals masking for every   *)
(* value of the word.                                                       *)
(***************************************************************************)
EXTENDS Integers

CONSTANT MAX_READER

ASSUME MaxReaderAssumption == MAX_READER \in Nat \ {0}

READER == 1

BEING_UPGRADED == 2 * MAX_READER

UPGRADEABLE_READER == 4 * MAX_READER

WRITER == 8 * MAX_READER

\* One past the largest word (2^64 in the code).
WordSize == 16 * MAX_READER

Word == 0 .. WordSize - 1

\* Wrapping arithmetic of fetch_add and fetch_sub.
Wrap(x) == IF x < 0 THEN x + WordSize ELSE IF x >= WordSize THEN x - WordSize ELSE x

\* v & (bit - 1), for v < 2 * bit.
Below(v, bit) == IF v >= bit THEN v - bit ELSE v

HasWriter(v) == v >= WRITER

HasUpreader(v) == Below(v, WRITER) >= UPGRADEABLE_READER

HasUpgrading(v) == Below(Below(v, WRITER), UPGRADEABLE_READER) >= BEING_UPGRADED

\* v & MAX_READER_MASK: the reader count with its overflow sentinel.
ReaderBits(v) ==
    Below(Below(Below(v, WRITER), UPGRADEABLE_READER), BEING_UPGRADED)

HasMaxReader(v) == ReaderBits(v) >= MAX_READER

FetchAdd(v, n) == Wrap(v + n)

FetchSub(v, n) == Wrap(v - n)

FetchOrUpreader(v) == IF HasUpreader(v) THEN v ELSE v + UPGRADEABLE_READER

FetchOrUpgrading(v) == IF HasUpgrading(v) THEN v ELSE v + BEING_UPGRADED

FetchAndNotWriter(v) == IF HasWriter(v) THEN v - WRITER ELSE v

\* Mutant: the BEING_UPGRADED bit is left out of the mask.
AdmitsReaderIgnoringUpgrade(v) == ~HasWriter(v) /\ ~HasMaxReader(v)

\* prev & (WRITER | MAX_READER | BEING_UPGRADED) = 0: the test of try_read.
AdmitsReader(v) == ~HasWriter(v) /\ ~HasMaxReader(v) /\ ~HasUpgrading(v)
=============================================================================

------------------------------- MODULE RwLock -------------------------------
(***************************************************************************)
(* sync/rwlock.rs: the spinning readers-writer lock with an upgradeable     *)
(* reader.  Every atomic operation on the lock word is one step.  A failed  *)
(* try_read or try_upread has already changed the word and takes its change *)
(* back in a second step; everybody sees the word in between.               *)
(***************************************************************************)
EXTENDS RwWord, FiniteSets

CONSTANT Thread

\* no_max_reader_overflow: the reader field never overflows.
ASSUME ThreadAssumption ==
    IsFiniteSet(Thread) /\ Cardinality(Thread) < 2 * MAX_READER

VARIABLES
    lock,   \* the atomic word
    pc,     \* where each thread is
    spin    \* inside read/write/upread (retries) or inside try_* (does not)

vars == <<lock, pc, spin>>

Calls == {"read", "write", "upread"}

Locations ==
    {"idle"} \cup Calls
    \cup {"read_retract", "upread_retract"}            \* failed attempts
    \cup {"reading", "upreading", "writing"}           \* guards
    \cup {"upgrading", "upgrade_retract"}              \* inside upgrade

TypeOK ==
    /\ lock \in Word
    /\ pc \in [Thread -> Locations]
    /\ spin \in [Thread -> BOOLEAN]

At(loc) == {t \in Thread : pc[t] \in loc}

Goto(t, loc) == pc' = [pc EXCEPT ![t] = loc]

-----------------------------------------------------------------------------
\* Where a failed attempt returns to: the loop head, or None to the caller.
AfterFailure(t, call) == IF spin[t] THEN call ELSE "idle"

Init ==
    /\ lock = 0
    /\ pc = [t \in Thread |-> "idle"]
    /\ spin = [t \in Thread |-> FALSE]

\* read/write/upread (b) or try_read/try_write/try_upread (~b).
Call(t, call, b) ==
    /\ pc[t] = "idle"
    /\ Goto(t, call)
    /\ spin' = [spin EXCEPT ![t] = b]
    /\ UNCHANGED lock

\* try_read: fetch_add first, look at the previous value second.
TryRead(t) ==
    /\ pc[t] = "read"
    /\ lock' = FetchAdd(lock, READER)
    /\ Goto(t, IF AdmitsReader(lock) THEN "reading" ELSE "read_retract")
    /\ UNCHANGED spin

RetractRead(t) ==
    /\ pc[t] = "read_retract"
    /\ lock' = FetchSub(lock, READER)
    /\ Goto(t, AfterFailure(t, "read"))
    /\ UNCHANGED spin

\* try_write: compare_exchange(0, WRITER).
TryWrite(t) ==
    /\ pc[t] = "write"
    /\ IF lock = 0
       THEN lock' = WRITER /\ Goto(t, "writing")
       ELSE UNCHANGED lock /\ Goto(t, AfterFailure(t, "write"))
    /\ UNCHANGED spin

\* Mutant: every failed attempt clears the bit, also one that did not set it.
TryUpreadAlwaysRetracting(t) ==
    /\ pc[t] = "upread"
    /\ lock' = FetchOrUpreader(lock)
    /\ Goto(t, IF HasUpreader(lock) \/ HasWriter(lock) THEN "upread_retract" ELSE "upreading")
    /\ UNCHANGED spin

\* try_upread: the attempt that set the bit under a writer must clear it.
TryUpread(t) ==
    /\ pc[t] = "upread"
    /\ lock' = FetchOrUpreader(lock)
    /\ Goto(t, IF HasUpreader(lock) THEN AfterFailure(t, "upread")
               ELSE IF HasWriter(lock) THEN "upread_retract" ELSE "upreading")
    /\ UNCHANGED spin

RetractUpread(t) ==
    /\ pc[t] = "upread_retract"
    /\ lock' = FetchSub(lock, UPGRADEABLE_READER)
    /\ Goto(t, AfterFailure(t, "upread"))
    /\ UNCHANGED spin

DropRead(t) ==
    /\ pc[t] = "reading"
    /\ lock' = FetchSub(lock, READER)
    /\ Goto(t, "idle")
    /\ UNCHANGED spin

DropWrite(t) ==
    /\ pc[t] = "writing"
    /\ lock' = FetchAndNotWriter(lock)
    /\ Goto(t, "idle")
    /\ UNCHANGED spin

DropUpread(t) ==
    /\ pc[t] = "upreading"
    /\ lock' = FetchSub(lock, UPGRADEABLE_READER)
    /\ Goto(t, "idle")
    /\ UNCHANGED spin

\* upgrade: fetch_or(BEING_UPGRADED), then spin on try_upgrade.
Upgrade(t) ==
    /\ pc[t] = "upreading"
    /\ lock' = FetchOrUpgrading(lock)
    /\ Goto(t, "upgrading")
    /\ UNCHANGED spin

\* Mutant: the expected value lacks the BEING_UPGRADED bit set by upgrade.
TryUpgradeExpectingUpreaderOnly(t) ==
    /\ pc[t] = "upgrading"
    /\ IF lock = UPGRADEABLE_READER
       THEN lock' = WRITER + UPGRADEABLE_READER /\ Goto(t, "upgrade_retract")
       ELSE UNCHANGED <<lock, pc>>
    /\ UNCHANGED spin

\* Mutant: the new value keeps the BEING_UPGRADED bit.
TryUpgradeKeepingBit(t) ==
    /\ pc[t] = "upgrading"
    /\ IF lock = UPGRADEABLE_READER + BEING_UPGRADED
       THEN /\ lock' = WRITER + UPGRADEABLE_READER + BEING_UPGRADED
            /\ Goto(t, "upgrade_retract")
       ELSE UNCHANGED <<lock, pc>>
    /\ UNCHANGED spin

\* try_upgrade: compare_exchange to WRITER | UPGRADEABLE_READER ...
TryUpgrade(t) ==
    /\ pc[t] = "upgrading"
    /\ IF lock = UPGRADEABLE_READER + BEING_UPGRADED
       THEN lock' = WRITER + UPGRADEABLE_READER /\ Goto(t, "upgrade_retract")
       ELSE UNCHANGED <<lock, pc>>
    /\ UNCHANGED spin

\* ... and then fetch_sub(UPGRADEABLE_READER).
RetractUpgrade(t) ==
    /\ pc[t] = "upgrade_retract"
    /\ lock' = FetchSub(lock, UPGRADEABLE_READER)
    /\ Goto(t, "writing")
    /\ UNCHANGED spin

Attempt(t) == TryRead(t) \/ TryWrite(t) \/ TryUpread(t) \/ TryUpgrade(t)

Retract(t) == RetractRead(t) \/ RetractUpread(t) \/ RetractUpgrade(t)

Drop(t) == DropRead(t) \/ DropWrite(t) \/ DropUpread(t)

Next ==
    \E t \in Thread :
        \/ \E call \in Calls, b \in BOOLEAN : Call(t, call, b)
        \/ Attempt(t)
        \/ Retract(t)
        \/ Drop(t)
        \/ Upgrade(t)

\* A thread inside an operation keeps running, and a guard is dropped in the
\* end; nobody has to make a call.
Fairness ==
    \A t \in Thread : WF_vars(Attempt(t)) /\ WF_vars(Retract(t)) /\ WF_vars(Drop(t))

Spec == Init /\ [][Next]_vars /\ Fairness

-----------------------------------------------------------------------------
Writers == At({"writing", "upgrade_retract"})

Upreaders == At({"upreading", "upgrading"})

\* The threads that owe the word the UPGRADEABLE_READER bit.
UpreaderBitOwners == At({"upreading", "upgrading", "upgrade_retract", "upread_retract"})

\* The threads that owe the word one READER each.
ReaderBitOwners == At({"reading", "read_retract"})

\* What the threads of S together contribute when they own one bit of the word.
Bit(S, bit) == IF S = {} THEN 0 ELSE bit

\* A write guard excludes every other guard, and there is at most one upreader
\* (the data-race freedom RwLockReadGuard::deref and RwLockWriteGuard::deref_mut
\* rely on), whatever attempts fail and are taken back meanwhile.
Exclusion ==
    /\ Writers # {} => At({"reading"}) \cup Upreaders = {}
    /\ \A s, t \in Writers : s = t
    /\ \A s, t \in Upreaders : s = t

\* The word is at all times the sum of what guards and failed attempts have put
\* into it (the atomic invariant of RwLock): no fetch_sub or fetch_and ever
\* takes away a bit of somebody else, and a lock nobody uses is back at 0.
WordAccounts ==
    /\ \A s, t \in UpreaderBitOwners : s = t
    /\ lock = Bit(Writers, WRITER)
              + Bit(UpreaderBitOwners, UPGRADEABLE_READER)
              + Bit(At({"upgrading"}), BEING_UPGRADED)
              + Cardinality(ReaderBitOwners)

\* try_read turns a reader away only when a writer or an upgrading upreader is
\* there or the reader limit is reached, never because of another failed attempt
\* alone.
ReaderTurnedAwayForCause ==
    [][\A t \in Thread :
          pc[t] = "read" /\ pc'[t] = "read_retract" =>
              \/ Writers # {}
              \/ At({"upgrading"}) # {}
              \/ Cardinality(ReaderBitOwners) >= MAX_READER]_vars

\* RwLockUpgradeableGuard::upgrade gets its write guard once failed read
\* attempts stop disturbing its compare_exchange (the deadlock the comment on
\* try_upgrade reports as fixed).
UpgradeCompletes ==
    \A t \in Thread :
        <>[](At({"read_retract"}) = {}) =>
            (pc[t] = "upgrading" ~> pc[t] = "writing")

\* The mode a thread holds the lock in: failed attempts hold nothing.
ModeOf(loc) ==
    CASE loc = "reading" -> "read"
      [] loc = "upreading" -> "upread"
      [] loc = "upgrading" -> "upgrading"
      [] loc \in {"upgrade_retract", "writing"} -> "write"
      [] OTHER -> "none"

Holding == [t \in Thread |-> ModeOf(pc[t])]

Abstract == INSTANCE AbstractRwLock WITH holding <- Holding

\* The lock implements the abstract readers-writer lock: the atomic operations
\* that succeed are its acquisitions, and new readers stay out from the moment
\* BEING_UPGRADED is set until the upgraded guard is dropped.
ImplementsAbstract == Abstract!Spec
=============================================================================

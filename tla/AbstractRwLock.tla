--------------------------- MODULE AbstractRwLock ---------------------------
(***************************************************************************)
(* What RwLock and RwMutex promise their callers: who holds the lock, and   *)
(* in which mode, with acquisition as one step.                             *)
(***************************************************************************)
CONSTANT Thread

VARIABLE holding

Modes == {"none", "read", "upread", "upgrading", "write"}

HoldersIn(modes) == {t \in Thread : holding[t] \in modes}

Init == holding = [t \in Thread |-> "none"]

\* A reader shares with readers and with an upreader that is not upgrading.
AcquireRead(t) ==
    /\ holding[t] = "none"
    /\ HoldersIn({"upgrading", "write"}) = {}
    /\ holding' = [holding EXCEPT ![t] = "read"]

\* One upreader at a time, next to any number of readers.
AcquireUpread(t) ==
    /\ holding[t] = "none"
    /\ HoldersIn({"upread", "upgrading", "write"}) = {}
    /\ holding' = [holding EXCEPT ![t] = "upread"]

AcquireWrite(t) ==
    /\ HoldersIn({"read", "upread", "upgrading", "write"}) = {}
    /\ holding[t] = "none"
    /\ holding' = [holding EXCEPT ![t] = "write"]

\* From here on no new reader is admitted.
StartUpgrade(t) ==
    /\ holding[t] = "upread"
    /\ holding' = [holding EXCEPT ![t] = "upgrading"]

\* The upgrade is atomic: nobody holds the lock in between.
FinishUpgrade(t) ==
    /\ holding[t] = "upgrading"
    /\ \A s \in Thread \ {t} : holding[s] = "none"
    /\ holding' = [holding EXCEPT ![t] = "write"]

Downgrade(t) ==
    /\ holding[t] = "write"
    /\ holding' = [holding EXCEPT ![t] = "upread"]

Release(t) ==
    /\ holding[t] \in {"read", "upread", "write"}
    /\ holding' = [holding EXCEPT ![t] = "none"]

Next ==
    \E t \in Thread :
        \/ AcquireRead(t)
        \/ AcquireUpread(t)
        \/ AcquireWrite(t)
        \/ StartUpgrade(t)
        \/ FinishUpgrade(t)
        \/ Downgrade(t)
        \/ Release(t)

\* The premise changes nothing, as holding is the subscript: steps that leave it alone
\* are recognized before the disjuncts of Next are tried.
Spec == Init /\ [][holding' # holding => Next]_holding
=============================================================================

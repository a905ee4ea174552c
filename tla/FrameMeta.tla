------------------------------ MODULE FrameMeta ------------------------------
(***************************************************************************)
(* mm/frame/{meta,mod,unique}.rs: the metadata slot of every physical frame *)
(* and the handles to it, Frame (counted) and UniqueFrame (exclusive).      *)
(*                                                                          *)
(* Handles are Send and all handles of a kind to one frame are alike, so    *)
(* their number is all there is to know of them.  A handle forgotten with   *)
(* into_raw (in a page table, in a Segment) still is one: into_raw and      *)
(* from_raw do not touch the slot.                                          *)
(***************************************************************************)
EXTENDS Integers, FiniteSets

CONSTANTS
    Frame,          \* physical frames, by their address
    Thread,
    Meta,           \* what metadata can be
    REF_COUNT_MAX

\* The count may pass the maximum by one for every thread that is about to
\* panic: REF_COUNT_MAX is larger than the number of threads (2^63 - 1 in the
\* code).
REF_COUNT_UNIQUE == 2 * REF_COUNT_MAX

REF_COUNT_UNUSED == 2 * REF_COUNT_MAX + 1

Uninit == "uninit"

VARIABLES
    ref_count,  \* of each slot
    meta,       \* of each slot: storage and vtable_ptr
    handles,    \* number of Frame handles to each frame
    unique,     \* number of UniqueFrame handles to each frame
    pc, arg,    \* where each thread is in which operation on which frame
    last        \* the count get_from_in_use has loaded

vars == <<ref_count, meta, handles, unique, pc, arg, last>>

\* Threads with exclusive access to a slot by way of its count being 0, ...
Busy == {"write_shared", "write_unique", "publish_shared", "publish_unique",
         "drop_meta", "set_unused"}

\* ... or with a UniqueFrame that is being repurposed.
Repurposing == {"drop_old", "write_new"}

TypeOK ==
    /\ ref_count \in [Frame -> 0 .. REF_COUNT_UNUSED]
    /\ meta \in [Frame -> Meta \cup {Uninit}]
    /\ handles \in [Frame -> Nat]
    /\ unique \in [Frame -> Nat]
    /\ pc \in [Thread -> {"idle", "load", "cas", "panicked", "leaked"} \cup Busy \cup Repurposing]
    /\ arg \in [Thread -> Frame]
    /\ last \in [Thread -> 0 .. REF_COUNT_UNUSED]

\* alloc_meta_frames
Init ==
    /\ ref_count = [f \in Frame |-> REF_COUNT_UNUSED]
    /\ meta = [f \in Frame |-> Uninit]
    /\ handles = [f \in Frame |-> 0]
    /\ unique = [f \in Frame |-> 0]
    /\ pc = [t \in Thread |-> "idle"]
    /\ arg \in [Thread -> Frame]
    /\ last = [t \in Thread |-> 0]

Goto(t, loc) == pc' = [pc EXCEPT ![t] = loc]

Start(t, f, loc) == pc[t] = "idle" /\ Goto(t, loc) /\ arg' = [arg EXCEPT ![t] = f]

SetCount(f, n) == ref_count' = [ref_count EXCEPT ![f] = n]

-----------------------------------------------------------------------------
(* Getting hold of a frame *)

\* get_from_unused: compare_exchange(REF_COUNT_UNUSED, 0); an error leaves
\* everything as it is.
GetFromUnused(t, f, loc) ==
    /\ Start(t, f, loc)
    /\ ref_count[f] = REF_COUNT_UNUSED
    /\ SetCount(f, 0)
    /\ UNCHANGED <<meta, handles, unique, last>>

\* write_meta
WriteMeta(t, from, to) ==
    /\ pc[t] = from
    /\ \E m \in Meta : meta' = [meta EXCEPT ![arg[t]] = m]
    /\ Goto(t, to)
    /\ UNCHANGED <<ref_count, handles, unique, arg, last>>

\* The end of Frame::from_unused: store(1) hands out the first handle.
PublishShared(t) ==
    /\ pc[t] = "publish_shared"
    /\ SetCount(arg[t], 1)
    /\ handles' = [handles EXCEPT ![arg[t]] = @ + 1]
    /\ Goto(t, "idle")
    /\ UNCHANGED <<meta, unique, arg, last>>

\* The end of UniqueFrame::from_unused: store(REF_COUNT_UNIQUE).
PublishUnique(t) ==
    /\ pc[t] = "publish_unique"
    /\ SetCount(arg[t], REF_COUNT_UNIQUE)
    /\ unique' = [unique EXCEPT ![arg[t]] = @ + 1]
    /\ Goto(t, "idle")
    /\ UNCHANGED <<meta, handles, arg, last>>

\* Frame::from_in_use is called.
FromInUse(t, f) ==
    /\ Start(t, f, "load")
    /\ UNCHANGED <<ref_count, meta, handles, unique, last>>

\* get_from_in_use: Unused, Unique and Busy are errors, a saturated count is a
\* panic.
LoadCount(t) ==
    LET n == ref_count[arg[t]] IN
    /\ pc[t] = "load"
    /\ last' = [last EXCEPT ![t] = n]
    /\ Goto(t, IF n \in {REF_COUNT_UNUSED, REF_COUNT_UNIQUE, 0} THEN "idle"
               ELSE IF n >= REF_COUNT_MAX THEN "panicked" ELSE "cas")
    /\ UNCHANGED <<ref_count, meta, handles, unique, arg>>

\* compare_exchange_weak(last_ref_cnt, last_ref_cnt + 1), which may fail
\* spuriously.
IncIfUnchanged(t) ==
    /\ pc[t] = "cas"
    /\ \/ /\ ref_count[arg[t]] = last[t]
          /\ SetCount(arg[t], last[t] + 1)
          /\ handles' = [handles EXCEPT ![arg[t]] = @ + 1]
          /\ Goto(t, "idle")
       \/ /\ Goto(t, "load")
          /\ UNCHANGED <<ref_count, handles>>
    /\ UNCHANGED <<meta, unique, arg, last>>

\* Frame::clone and inc_frame_ref_count: fetch_add(1), then the test.
IncRefCount(t, f) ==
    /\ handles[f] > 0
    /\ Start(t, f, IF ref_count[f] >= REF_COUNT_MAX THEN "leaked" ELSE "idle")
    /\ SetCount(f, ref_count[f] + 1)
    /\ handles' = [handles EXCEPT ![f] = IF ref_count[f] >= REF_COUNT_MAX THEN @ ELSE @ + 1]
    /\ UNCHANGED <<meta, unique, last>>

-----------------------------------------------------------------------------
(* Giving it up *)

\* Frame::drop: fetch_sub(1); the last handle goes on to drop_last_in_place.
Drop(t, f) ==
    /\ handles[f] > 0
    /\ handles' = [handles EXCEPT ![f] = @ - 1]
    /\ SetCount(f, ref_count[f] - 1)
    /\ Start(t, f, IF ref_count[f] = 1 THEN "drop_meta" ELSE "idle")
    /\ UNCHANGED <<meta, unique, last>>

\* UniqueFrame::drop and reset_as_unused: store(0), then drop_last_in_place.
DropUnique(t, f) ==
    /\ unique[f] > 0
    /\ unique' = [unique EXCEPT ![f] = @ - 1]
    /\ SetCount(f, 0)
    /\ Start(t, f, "drop_meta")
    /\ UNCHANGED <<meta, handles, last>>

\* drop_meta_in_place
DropMeta(t, from, to) ==
    /\ pc[t] = from
    /\ meta' = [meta EXCEPT ![arg[t]] = Uninit]
    /\ Goto(t, to)
    /\ UNCHANGED <<ref_count, handles, unique, arg, last>>

\* Mutant: the final store is missing.
SetUnusedForgotten(t) ==
    /\ pc[t] = "set_unused"
    /\ Goto(t, "idle")
    /\ UNCHANGED <<ref_count, meta, handles, unique, arg, last>>

\* The end of drop_last_in_place: store(REF_COUNT_UNUSED).
SetUnused(t) ==
    /\ pc[t] = "set_unused"
    /\ SetCount(arg[t], REF_COUNT_UNUSED)
    /\ Goto(t, "idle")
    /\ UNCHANGED <<meta, handles, unique, arg, last>>

-----------------------------------------------------------------------------
(* Between the two kinds of handles *)

\* Mutant: the handle is converted whatever the count is.
TryFromSharedUnchecked(f) ==
    /\ handles[f] > 0
    /\ SetCount(f, REF_COUNT_UNIQUE)
    /\ handles' = [handles EXCEPT ![f] = @ - 1]
    /\ unique' = [unique EXCEPT ![f] = @ + 1]
    /\ UNCHANGED <<meta, pc, arg, last>>

\* UniqueFrame::try_from_shared: compare_exchange(1, REF_COUNT_UNIQUE).
TryFromShared(f) ==
    /\ handles[f] > 0
    /\ ref_count[f] = 1
    /\ SetCount(f, REF_COUNT_UNIQUE)
    /\ handles' = [handles EXCEPT ![f] = @ - 1]
    /\ unique' = [unique EXCEPT ![f] = @ + 1]
    /\ UNCHANGED <<meta, pc, arg, last>>

\* Frame::from_unique: store(1).
FromUnique(f) ==
    /\ unique[f] > 0
    /\ SetCount(f, 1)
    /\ unique' = [unique EXCEPT ![f] = @ - 1]
    /\ handles' = [handles EXCEPT ![f] = @ + 1]
    /\ UNCHANGED <<meta, pc, arg, last>>

\* UniqueFrame::repurpose takes the handle, replaces the metadata and returns it.
Repurpose(t, f) ==
    /\ unique[f] > 0
    /\ unique' = [unique EXCEPT ![f] = @ - 1]
    /\ Start(t, f, "drop_old")
    /\ UNCHANGED <<ref_count, meta, handles, last>>

Repurposed(t) ==
    /\ pc[t] = "write_new"
    /\ \E m \in Meta : meta' = [meta EXCEPT ![arg[t]] = m]
    /\ unique' = [unique EXCEPT ![arg[t]] = @ + 1]
    /\ Goto(t, "idle")
    /\ UNCHANGED <<ref_count, handles, arg, last>>

\* UniqueFrame::meta_mut
MetaMut(f) ==
    /\ unique[f] > 0
    /\ \E m \in Meta : meta' = [meta EXCEPT ![f] = m]
    /\ UNCHANGED <<ref_count, handles, unique, pc, arg, last>>

-----------------------------------------------------------------------------
Call(t, f) ==
    \/ GetFromUnused(t, f, "write_shared")
    \/ GetFromUnused(t, f, "write_unique")
    \/ FromInUse(t, f)
    \/ IncRefCount(t, f)
    \/ Drop(t, f)
    \/ DropUnique(t, f)
    \/ Repurpose(t, f)

Step(t) ==
    \/ WriteMeta(t, "write_shared", "publish_shared")
    \/ WriteMeta(t, "write_unique", "publish_unique")
    \/ PublishShared(t)
    \/ PublishUnique(t)
    \/ LoadCount(t)
    \/ IncIfUnchanged(t)
    \/ DropMeta(t, "drop_meta", "set_unused")
    \/ SetUnused(t)
    \/ DropMeta(t, "drop_old", "write_new")
    \/ Repurposed(t)

Next ==
    \/ \E t \in Thread : Step(t) \/ \E f \in Frame : Call(t, f)
    \/ \E f \in Frame : TryFromShared(f) \/ FromUnique(f) \/ MetaMut(f)

\* A thread inside an operation keeps running.
Fairness == \A t \in Thread : WF_vars(Step(t))

Spec == Init /\ [][Next]_vars /\ Fairness

-----------------------------------------------------------------------------
Owners(f, locs) == {t \in Thread : arg[t] = f /\ pc[t] \in locs}

\* The references of a frame: its handles and the increments lost in a panic.
References(f) == handles[f] + Cardinality(Owners(f, {"leaked"}))

\* The count says exactly who has the frame: nobody, a unique owner, the one
\* thread that builds it up or tears it down, or so many references.
CountAccounts ==
    \A f \in Frame :
        LET building == Cardinality(Owners(f, Busy))
            owners == unique[f] + Cardinality(Owners(f, Repurposing))
        IN CASE ref_count[f] = REF_COUNT_UNUSED -> References(f) = 0 /\ owners = 0 /\ building = 0
             [] ref_count[f] = REF_COUNT_UNIQUE -> References(f) = 0 /\ owners = 1 /\ building = 0
             [] ref_count[f] = 0 -> References(f) = 0 /\ owners = 0 /\ building = 1
             [] OTHER -> References(f) = ref_count[f] /\ owners = 0 /\ building = 0

\* Whoever has a handle finds initialized metadata (what Frame::meta and
\* UniqueFrame::meta dereference), although the slot may have been freed and
\* reused between the load and the compare_exchange of from_in_use.
MetaInitialized ==
    \A f \in Frame : handles[f] + unique[f] > 0 => meta[f] # Uninit

\* Metadata does not change under a shared handle: only a unique owner writes.
SharedMetaKept ==
    \A f \in Frame : handles[f] > 0 /\ handles'[f] > 0 => meta'[f] = meta[f]
SharedMetaImmutable == [][SharedMetaKept]_vars

\* A frame does not stay busy: who builds it up or tears it down comes to an
\* end, and from_in_use and from_unused do not report Busy for ever.
BusyEnds == \A f \in Frame : ref_count[f] = 0 ~> ref_count[f] # 0
=============================================================================

--------------------------- MODULE TlbFlushProofs ---------------------------
(***************************************************************************)
(* TLB coherence of user address spaces, for any set of CPUs, spaces, pages *)
(* and frames and any threshold of the operation stacks.                    *)
(*                                                                          *)
(* Both theorems follow from one inductive invariant, FlushInv, which says  *)
(* where the flush of a stale TLB entry is on its way:                      *)
(*                                                                          *)
(*   StaleKept    a CPU that caches a mapping the page table no longer has  *)
(*                will flush it, from its own queue, from FLUSH_OPS or from *)
(*                the stack of a cursor that has still to push to it, and   *)
(*                that stack keeps the frame;                               *)
(*   GoneAwaited  where the mapping was removed under a cursor that has not *)
(*                been dropped, that cursor also waits for the flush.       *)
(*                                                                          *)
(* The rest is what those two need: Activation (a CPU in a space is among   *)
(* the space's cpus while its TLB may be filled from it), Cursors (ranges   *)
(* of two cursors are disjoint) and Stacks (an acknowledged CPU has taken   *)
(* all its operations, and they are performed before the handler returns).  *)
(***************************************************************************)
EXTENDS TlbFlush, TLAPS

-----------------------------------------------------------------------------
(* Stacks of operations *)

\* Performing o flushes v.
Covers(o, v) == o.need_flush_all \/ v \in o.ops

\* o flushes v and keeps f until it has.
Holds(o, v, f) == Covers(o, v) /\ f \in o.page_keeper

WellFormed(o) == o \in OpsStack /\ (o.size = 0 => o.ops = {})

LEMMA EmptyFacts ==
    WellFormed(EmptyOps) /\ EmptyOps \in OpsStack /\ \A v : ~Covers(EmptyOps, v)
  BY TlbAssumption, SMTT(30) DEF WellFormed, EmptyOps, OpsStack, Covers

LEMMA IsEmptyFacts ==
    ASSUME NEW o, WellFormed(o), is_empty(o) PROVE \A v : ~Covers(o, v)
  BY Zenon DEF WellFormed, is_empty, Covers

LEMMA FlushAllFacts ==
    ASSUME NEW o \in OpsStack
    PROVE  /\ WellFormed(FlushAll(o)) /\ FlushAll(o).page_keeper = o.page_keeper
           /\ \A v : Covers(FlushAll(o), v)
<1>1. 0 \in 0 .. FLUSH_ALL_OPS_THRESHOLD
  BY TlbAssumption, SMTT(30)
<1>2. /\ FlushAll(o).ops = {} /\ FlushAll(o).size = 0 /\ FlushAll(o).need_flush_all
      /\ FlushAll(o).page_keeper = o.page_keeper
  BY Zenon DEF FlushAll, OpsStack
<1>3. FlushAll(o) \in OpsStack
  BY <1>1, Zenon DEF FlushAll, OpsStack
<1>. QED
  BY <1>2, <1>3, Zenon DEF WellFormed, Covers

\* push loses no operation and no frame, also where it gives up the addresses.
LEMMA PushFacts ==
    ASSUME NEW o, WellFormed(o), NEW v \in Page, NEW frames \in SUBSET Frame
    PROVE  /\ WellFormed(push(o, v, frames)) /\ push(o, v, frames) \in OpsStack
           /\ \A f \in frames : Holds(push(o, v, frames), v, f)
           /\ \A u : Covers(o, u) => Covers(push(o, v, frames), u)
           /\ \A u, f : Holds(o, u, f) => Holds(push(o, v, frames), u, f)
<1> DEFINE k == [o EXCEPT !.page_keeper = @ \cup frames]
<1>1. /\ k \in OpsStack /\ k.ops = o.ops /\ k.size = o.size
      /\ k.need_flush_all = o.need_flush_all
      /\ k.page_keeper = o.page_keeper \cup frames
  BY Zenon DEF WellFormed, OpsStack
<1>2. CASE o.need_flush_all
  <2>1. push(o, v, frames) = k
    BY <1>2, Zenon DEF push
  <2>. QED
    BY <1>1, <1>2, <2>1, Zenon DEF WellFormed, Covers, Holds
<1>3. CASE ~o.need_flush_all /\ o.size >= FLUSH_ALL_OPS_THRESHOLD
  <2>1. push(o, v, frames) = FlushAll(k)
    BY <1>3, Zenon DEF push
  <2> HIDE DEF k
  <2>. QED
    BY <1>1, <2>1, FlushAllFacts, Zenon DEF WellFormed, Holds
<1>4. CASE ~o.need_flush_all /\ ~(o.size >= FLUSH_ALL_OPS_THRESHOLD)
  <2> DEFINE r == [k EXCEPT !.ops = @ \cup {v}, !.size = @ + 1]
  <2>1. push(o, v, frames) = r
    BY <1>4, Zenon DEF push
  <2> HIDE DEF k
  <2>2. o.size \in 0 .. FLUSH_ALL_OPS_THRESHOLD - 1
    BY <1>4, TlbAssumption, SMTT(30) DEF WellFormed, OpsStack
  <2>3. /\ r.ops = o.ops \cup {v} /\ r.size = o.size + 1
        /\ r.need_flush_all = o.need_flush_all
        /\ r.page_keeper = o.page_keeper \cup frames
    BY <1>1, Zenon DEF OpsStack
  <2>4. k.size + 1 \in 0 .. FLUSH_ALL_OPS_THRESHOLD /\ k.ops \cup {v} \in SUBSET Page
    BY <1>1, <2>2, TlbAssumption, SMTT(30) DEF OpsStack
  <2>5. r \in OpsStack
    BY <1>1, <2>4, Zenon DEF OpsStack
  <2> HIDE DEF r
  <2>. QED
    BY <1>4, <2>1, <2>2, <2>3, <2>5, SMTT(30) DEF WellFormed, Covers, Holds
<1>. QED
  BY <1>2, <1>3, <1>4, Zenon

\* Nor does push_from, of either stack.
LEMMA PushFromFacts ==
    ASSUME NEW o, WellFormed(o), NEW other, WellFormed(other)
    PROVE  /\ WellFormed(push_from(o, other)) /\ push_from(o, other) \in OpsStack
           /\ \A v : Covers(o, v) \/ Covers(other, v) => Covers(push_from(o, other), v)
           /\ \A v, f : Holds(o, v, f) \/ Holds(other, v, f) => Holds(push_from(o, other), v, f)
<1> DEFINE k == [o EXCEPT !.page_keeper = @ \cup other.page_keeper]
<1>1. /\ k \in OpsStack /\ k.ops = o.ops /\ k.size = o.size
      /\ k.need_flush_all = o.need_flush_all
      /\ k.page_keeper = o.page_keeper \cup other.page_keeper
  BY Zenon DEF WellFormed, OpsStack
<1>2. CASE o.need_flush_all
  <2>1. push_from(o, other) = k
    BY <1>2, Zenon DEF push_from
  <2>. QED
    BY <1>1, <1>2, <2>1, Zenon DEF WellFormed, Covers, Holds
<1>3. CASE ~o.need_flush_all /\ (other.need_flush_all \/ o.size + other.size >= FLUSH_ALL_OPS_THRESHOLD)
  <2>1. push_from(o, other) = FlushAll(k)
    BY <1>3, Zenon DEF push_from
  <2> HIDE DEF k
  <2>. QED
    BY <1>1, <2>1, FlushAllFacts, ZenonT(40) DEF WellFormed, Holds
<1>4. CASE ~o.need_flush_all /\ ~(other.need_flush_all \/ o.size + other.size >= FLUSH_ALL_OPS_THRESHOLD)
  <2> DEFINE r == [k EXCEPT !.ops = @ \cup other.ops, !.size = @ + other.size]
  <2>1. push_from(o, other) = r
    BY <1>4, Zenon DEF push_from
  <2> HIDE DEF k
  <2>2. /\ o.size \in Nat /\ other.size \in Nat
        /\ o.size + other.size \in 0 .. FLUSH_ALL_OPS_THRESHOLD
        /\ o.ops \subseteq Page /\ other.ops \subseteq Page
    BY <1>4, TlbAssumption, SMTT(30) DEF WellFormed, OpsStack
  <2>3. /\ r \in OpsStack /\ r.ops = o.ops \cup other.ops /\ r.size = o.size + other.size
        /\ r.need_flush_all = o.need_flush_all
        /\ r.page_keeper = o.page_keeper \cup other.page_keeper
    BY <1>1, <2>2, TlbAssumption, Zenon DEF OpsStack
  <2> HIDE DEF r
  <2>4. r.size = 0 => o.size = 0 /\ other.size = 0
    BY <2>2, <2>3, SMTT(30)
  <2>. QED
    BY <1>4, <2>1, <2>3, <2>4, Zenon DEF WellFormed, Covers, Holds
<1>. QED
  BY <1>2, <1>3, <1>4, Zenon

LEMMA FlushedFacts ==
    ASSUME NEW o, NEW cached \in [Page -> Frame \cup {NoFrame}]
    PROVE  /\ Flushed(o, cached) \in [Page -> Frame \cup {NoFrame}]
           /\ \A v \in Page : Flushed(o, cached)[v] = IF Covers(o, v) THEN NoFrame ELSE cached[v]
  BY Zenon DEF Flushed, Covers

-----------------------------------------------------------------------------
(* The inductive invariant *)

\* The bits of TypeOK that the proofs use.
Types ==
    /\ pt \in [Space -> [Page -> Frame \cup {NoFrame}]]
    /\ cpus \in [Space -> SUBSET CPU]
    /\ activated \in [CPU -> Space \cup {NoSpace}]
    /\ cr3 \in [CPU -> Space \cup {NoSpace}]
    /\ tlb \in [CPU -> [Page -> Frame \cup {NoFrame}]]
    /\ at \in [CPU -> Points]
    /\ cursor \in [CPU -> [space : Space \cup {NoSpace}, pages : SUBSET Page]]

FlusherTypes ==
    /\ have_unsynced_flush \in [CPU -> SUBSET CPU]
    /\ targets \in [CPU -> SUBSET CPU]
    /\ left \in [CPU -> SUBSET CPU]
    /\ ACK_REMOTE_FLUSH \in [CPU -> BOOLEAN]
    /\ gone \in [CPU -> SUBSET (Page \X Frame)]

\* Operations wait for a CPU only while its acknowledgement is withdrawn, or while
\* it is in the handler.
Stacks ==
    /\ ops_stack \in [CPU -> OpsStack] /\ FLUSH_OPS \in [CPU -> OpsStack]
    /\ new_op_queue \in [CPU -> OpsStack]
    /\ \A c \in CPU : /\ WellFormed(ops_stack[c]) /\ WellFormed(FLUSH_OPS[c])
                      /\ WellFormed(new_op_queue[c])
                      /\ ACK_REMOTE_FLUSH[c] => \A v : ~Covers(FLUSH_OPS[c], v)
                      /\ c \notin handling => \A v : ~Covers(new_op_queue[c], v)

Activating == {"added", "removed"}

\* A CPU is among the CPUs of the space whose page table it walks, except at the
\* end of activate, where its TLB is about to be emptied.
Activation ==
    \A c \in CPU :
        /\ at[c] \notin Activating => activated[c] = cr3[c]
        /\ at[c] \in Activating =>
              activated[c] \in Space /\ activated[c] # cr3[c] /\ c \in cpus[activated[c]]
        /\ at[c] # "removed" /\ cr3[c] # NoSpace => c \in cpus[cr3[c]]
        /\ cr3[c] = NoSpace => \A v \in Page : tlb[c][v] = NoFrame

\* Where the thread on a CPU has no cursor.
NoCursorAt == {"user", "kernel"} \cup Activating

\* The mappings under a cursor are changed by its owner alone.
Cursors ==
    /\ \A c \in CPU : IF at[c] \in NoCursorAt THEN cursor[c] = NoCursor ELSE cursor[c].space \in Space
    /\ \A c, d \in CPU :
          c # d /\ cursor[c].space = cursor[d].space => cursor[c].pages \cap cursor[d].pages = {}
    /\ \A c \in CPU : \A v, f :
          <<v, f>> \in gone[c] => v \in cursor[c].pages /\ f # NoFrame /\ f # pt[cursor[c].space][v]

\* The cursor on e will have d flush what is on its stack.
ToPush(e, d) ==
    \/ at[e] \in {"unmap", "load"} /\ d \in cpus[cursor[e].space]
    \/ at[e] = "push" /\ d \in left[e]
    \/ at[e] \in Dispatching /\ d = e /\ e \in targets[e]

\* A flush that d will perform of v, and that keeps f until then.
Pending(d, v, f) ==
    \/ Holds(new_op_queue[d], v, f)
    \/ Holds(FLUSH_OPS[d], v, f)
    \/ \E e \in CPU : cursor[e].space = cr3[d] /\ ToPush(e, d) /\ Holds(ops_stack[e], v, f)

StaleKept ==
    \A d \in CPU, v \in Page : at[d] # "removed" /\ Stale(d, v) => Pending(d, v, tlb[d][v])

\* sync_tlb_flush on c has yet to look at the acknowledgement of d.
Awaited(c, d) == d \in have_unsynced_flush[c] /\ (at[c] = "sync" => d \in left[c])

\* d has a mapping in its TLB that the cursor on c has removed.
Sees(d, c, v) == at[d] # "removed" /\ cr3[d] = cursor[c].space /\ <<v, tlb[d][v]>> \in gone[c]

\* d is at it, c will wait for it, or c has not asked d yet.
AwaitedFlush(c, d, v) ==
    \/ Covers(new_op_queue[d], v)
    \/ Covers(FLUSH_OPS[d], v) /\ Awaited(c, d)
    \/ ToPush(c, d) /\ Covers(ops_stack[c], v)

GoneAwaited == \A c, d \in CPU, v \in Page : Sees(d, c, v) => AwaitedFlush(c, d, v)

FlushInv == Types /\ FlusherTypes /\ Stacks /\ Activation /\ Cursors /\ StaleKept /\ GoneAwaited

-----------------------------------------------------------------------------
(* What steps leave alone *)

\* The thread on c moves on.
Moves(c, q) == \A d \in CPU : at'[d] = IF d = c THEN q ELSE at[d]

LEMMA StepMoves ==
    ASSUME Types, NEW c \in CPU, NEW p, NEW q, Step(c, p, q)
    PROVE  at[c] = p /\ Moves(c, q)
  BY Zenon DEF Types, Step, Moves

LEMMA ActivationKept ==
    ASSUME Activation, UNCHANGED <<cpus, activated, cr3>>,
           \A d \in CPU : at'[d] = at[d] \/ (at[d] \notin Activating /\ at'[d] \notin Activating),
           \A d \in CPU, v \in Page : cr3[d] # NoSpace \/ tlb'[d][v] = tlb[d][v] \/ tlb'[d][v] = NoFrame
    PROVE  Activation'
  BY ZenonT(40) DEF Activation, Activating

LEMMA CursorsKept ==
    ASSUME Cursors, UNCHANGED <<pt, cursor, gone>>,
           \A d \in CPU : at'[d] \in NoCursorAt <=> at[d] \in NoCursorAt
    PROVE  Cursors'
  BY Zenon DEF Cursors

LEMMA StacksKept ==
    ASSUME Stacks, UNCHANGED <<ops_stack, FLUSH_OPS, new_op_queue, ACK_REMOTE_FLUSH, handling>>
    PROVE  Stacks'
  BY Zenon DEF Stacks, WellFormed, Covers

\* The stacks lose nothing.
Lossless ==
    /\ \A d \in CPU : \A v, f : /\ Holds(new_op_queue[d], v, f) => Holds(new_op_queue[d], v, f)'
                                /\ Holds(FLUSH_OPS[d], v, f) => Holds(FLUSH_OPS[d], v, f)'
    /\ \A d \in CPU : \A v : /\ Covers(new_op_queue[d], v) => Covers(new_op_queue[d], v)'
                             /\ Covers(FLUSH_OPS[d], v) => Covers(FLUSH_OPS[d], v)'

\* What a cursor has yet to push stays to be pushed, as long as it matters.
PushesKept ==
    \A e, d \in CPU :
        at'[d] # "removed" /\ ToPush(e, d) =>
            ToPush(e, d)' /\ ops_stack'[e] = ops_stack[e] /\ cursor'[e] = cursor[e]

LEMMA StaleKeptByStep ==
    ASSUME StaleKept, Lossless, PushesKept,
           \A d \in CPU, v \in Page :
              at'[d] # "removed" /\ Stale(d, v)' =>
                 at[d] # "removed" /\ Stale(d, v) /\ tlb'[d][v] = tlb[d][v] /\ cr3'[d] = cr3[d]
    PROVE  StaleKept'
<1> SUFFICES ASSUME NEW d \in CPU, NEW v \in Page, at'[d] # "removed", Stale(d, v)'
             PROVE  Pending(d, v, tlb[d][v])'
  BY Zenon DEF StaleKept
<1>1. Pending(d, v, tlb[d][v]) /\ tlb'[d][v] = tlb[d][v] /\ cr3'[d] = cr3[d]
  BY Zenon DEF StaleKept
<1>2. CASE Holds(new_op_queue[d], v, tlb[d][v]) \/ Holds(FLUSH_OPS[d], v, tlb[d][v])
  BY <1>1, <1>2, Zenon DEF Lossless, Pending, Holds, Covers
<1>3. ASSUME NEW e \in CPU, cursor[e].space = cr3[d], ToPush(e, d), Holds(ops_stack[e], v, tlb[d][v])
      PROVE  Pending(d, v, tlb[d][v])'
  <2>1. ToPush(e, d)' /\ ops_stack'[e] = ops_stack[e] /\ cursor'[e] = cursor[e]
    BY <1>3, Zenon DEF PushesKept
  <2>2. cursor'[e].space = cr3'[d] /\ Holds(ops_stack[e], v, tlb[d][v])'
    BY <1>1, <1>3, <2>1, Zenon DEF Holds, Covers
  <2>. QED
    BY <2>1, <2>2, Zenon DEF Pending
<1>. QED
  BY <1>1, <1>2, <1>3, Zenon DEF Pending

LEMMA GoneAwaitedByStep ==
    ASSUME GoneAwaited, Lossless, PushesKept,
           \A c, d \in CPU, v \in Page : Sees(d, c, v)' => Sees(d, c, v),
           \A c, d \in CPU, v \in Page : Covers(FLUSH_OPS[d], v) /\ Awaited(c, d) => Awaited(c, d)'
    PROVE  GoneAwaited'
<1> SUFFICES ASSUME NEW c \in CPU, NEW d \in CPU, NEW v \in Page, Sees(d, c, v)'
             PROVE  AwaitedFlush(c, d, v)'
  BY Zenon DEF GoneAwaited
<1>1. AwaitedFlush(c, d, v) /\ at'[d] # "removed"
  BY Zenon DEF GoneAwaited, Sees
<1>2. CASE Covers(new_op_queue[d], v) \/ (Covers(FLUSH_OPS[d], v) /\ Awaited(c, d))
  BY <1>2, Zenon DEF Lossless, AwaitedFlush
<1>3. CASE ToPush(c, d) /\ Covers(ops_stack[c], v)
  <2>1. ToPush(c, d)' /\ ops_stack'[c] = ops_stack[c]
    BY <1>1, <1>3, Zenon DEF PushesKept
  <2>. QED
    BY <1>3, <2>1, Zenon DEF AwaitedFlush, Covers
<1>. QED
  BY <1>1, <1>2, <1>3, Zenon DEF AwaitedFlush

-----------------------------------------------------------------------------
(* Steps of a thread that change no mapping, no TLB and no stack *)

ThreadStep(c, q) ==
    /\ Moves(c, q) /\ at' \in [CPU -> Points] /\ FlusherTypes'
    /\ UNCHANGED <<spaceVars, tlb, cursor, ops_stack, FLUSH_OPS, new_op_queue, ACK_REMOTE_FLUSH,
                   handling, gone>>
    /\ \A d \in CPU \ {c} : /\ left'[d] = left[d] /\ targets'[d] = targets[d]
                            /\ have_unsynced_flush'[d] = have_unsynced_flush[d]

LEMMA ThreadStepInv ==
    ASSUME FlushInv, NEW c \in CPU, NEW q, ThreadStep(c, q),
           at[c] \notin Activating, q \notin Activating, q \in NoCursorAt <=> at[c] \in NoCursorAt,
           \A d \in CPU : ToPush(c, d) => ToPush(c, d)',
           \A d \in CPU, v \in Page : Covers(FLUSH_OPS[d], v) /\ Awaited(c, d) => Awaited(c, d)'
    PROVE  FlushInv'
<1> USE DEF FlushInv, ThreadStep
<1>1. Types' /\ FlusherTypes'
  BY Zenon DEF Types, spaceVars
<1>2. Stacks'
  BY StacksKept, Zenon
<1>3. Activation'
  BY ActivationKept, Zenon DEF Moves, spaceVars
<1>4. Cursors'
  BY CursorsKept, Zenon DEF Moves, spaceVars
<1>5. Lossless
  BY Zenon DEF Lossless, Holds, Covers
<1>6. \A e, d \in CPU : ToPush(e, d) => ToPush(e, d)'
  <2>1. ASSUME NEW e \in CPU \ {c}, NEW d \in CPU, ToPush(e, d) PROVE ToPush(e, d)'
    BY <2>1, Zenon DEF ToPush, Moves, spaceVars
  <2>. QED
    BY <2>1, Zenon
<1>7. PushesKept
  BY <1>6, Zenon DEF PushesKept
<1>8. \A e, d \in CPU, v \in Page : Covers(FLUSH_OPS[d], v) /\ Awaited(e, d) => Awaited(e, d)'
  <2>1. ASSUME NEW e \in CPU \ {c}, NEW d \in CPU, Awaited(e, d) PROVE Awaited(e, d)'
    BY <2>1, Zenon DEF Awaited, Moves
  <2>. QED
    BY <2>1, Zenon
<1>9. \A d \in CPU : at'[d] # "removed" => at[d] # "removed"
  BY Zenon DEF Moves, Activating
<1>10. StaleKept'
  BY <1>5, <1>7, <1>9, StaleKeptByStep, Zenon DEF Stale, spaceVars
<1>11. GoneAwaited'
  <2>1. \A e, d \in CPU, v \in Page : Sees(d, e, v)' => Sees(d, e, v)
    BY <1>9, Zenon DEF Sees, spaceVars
  <2>. QED
    BY <1>5, <1>7, <1>8, <2>1, GoneAwaitedByStep, Zenon
<1>. QED
  BY <1>1, <1>2, <1>3, <1>4, <1>10, <1>11, Zenon

LEMMA PlainInv ==
    ASSUME FlushInv, NEW c \in CPU, EnterKernel(c) \/ ReturnToUser(c) \/ UnmapEnd(c) PROVE FlushInv'
<1>1. PICK p, q : /\ <<p, q>> \in {<<"user", "kernel">>, <<"kernel", "user">>, <<"unmap", "load">>}
                  /\ Step(c, p, q)
  BY SMTT(30) DEF EnterKernel, ReturnToUser, UnmapEnd
<1>2. /\ UNCHANGED <<spaceVars, tlb, cursor, ops_stack, FLUSH_OPS, new_op_queue, ACK_REMOTE_FLUSH,
                     handling, gone, have_unsynced_flush, targets, left>>
  BY Zenon DEF EnterKernel, ReturnToUser, UnmapEnd, flusherVars, remoteVars, handlerVars, historyVars
<1>3. at[c] = p /\ Moves(c, q)
  BY <1>1, StepMoves, Zenon DEF FlushInv
<1>4. /\ p \in {"user", "kernel", "unmap"} /\ q \in {"user", "kernel", "load"}
      /\ p = "unmap" <=> q = "load"
  BY <1>1, Zenon
<1>5. q \in Points /\ at' \in [CPU -> Points]
  <2>1. q \in Points
    BY <1>4, Zenon DEF Points
  <2>. QED
    BY <1>1, <2>1, Zenon DEF FlushInv, Types, Step
<1>6. FlusherTypes'
  BY <1>2, Zenon DEF FlushInv, FlusherTypes
<1>7. ThreadStep(c, q)
  BY <1>2, <1>3, <1>5, <1>6, Zenon DEF ThreadStep
<1>8. \A d \in CPU : (ToPush(c, d) => ToPush(c, d)') /\ (Awaited(c, d) => Awaited(c, d)')
  BY <1>2, <1>3, <1>4, Zenon DEF ToPush, Awaited, Dispatching, Moves, spaceVars
<1>. QED
  BY <1>3, <1>4, <1>7, <1>8, ThreadStepInv, Zenon DEF Activating, NoCursorAt

LEMMA LoadTargetsInv == ASSUME FlushInv, NEW c \in CPU, LoadTargets(c) PROVE FlushInv'
<1> DEFINE S == cpus[cursor[c].space]
           q == IF S \ {c} = {} THEN "self" ELSE "push"
<1>1. at[c] = "load" /\ S \in SUBSET CPU
  BY Zenon DEF LoadTargets, FlushInv, Types, Cursors, NoCursorAt, Activating
<1>2. /\ at' \in [CPU -> Points] /\ left' \in [CPU -> SUBSET CPU] /\ Moves(c, q)
      /\ \A d \in CPU : left'[d] = IF d # c THEN left[d] ELSE S \ {c}
  <2> DEFINE rest == S \ {c}
  <2>1. LoopEnd(c, rest, "push", "self", {}) /\ rest \in SUBSET CPU
        /\ "push" \in Points /\ "self" \in Points /\ {} \in SUBSET CPU
    BY <1>1, Zenon DEF LoadTargets, Points, Dispatching
  <2> HIDE DEF rest
  <2>2. /\ at' \in [CPU -> Points] /\ left' \in [CPU -> SUBSET CPU]
        /\ \A d \in CPU \ {c} : at'[d] = at[d] /\ left'[d] = left[d]
        /\ rest = {} => at'[c] = "self" /\ left'[c] = {}
        /\ rest # {} => at'[c] = "push" /\ left'[c] = rest
    BY <2>1, Zenon DEF FlushInv, Types, FlusherTypes, LoopEnd
  <2>. QED
    BY <2>2, Zenon DEF Moves, rest
<1>3. targets' \in [CPU -> SUBSET CPU] /\ \A d \in CPU : targets'[d] = IF d = c THEN S ELSE targets[d]
  BY <1>1, Zenon DEF LoadTargets, FlushInv, FlusherTypes
<1>4. UNCHANGED <<spaceVars, tlb, cursor, ops_stack, FLUSH_OPS, new_op_queue, ACK_REMOTE_FLUSH,
                  handling, gone, have_unsynced_flush>>
  BY Zenon DEF LoadTargets, remoteVars, handlerVars, historyVars
<1>5. FlusherTypes'
  BY <1>2, <1>3, <1>4, Zenon DEF FlushInv, FlusherTypes
<1>6. ThreadStep(c, q)
  BY <1>2, <1>3, <1>4, <1>5, Zenon DEF ThreadStep
<1>7. ASSUME NEW d \in CPU, ToPush(c, d) PROVE ToPush(c, d)'
  <2>1. d \in S
    BY <1>1, <1>7, Zenon DEF ToPush, Dispatching
  <2>2. d # c => at'[c] = "push" /\ d \in left'[c]
    BY <1>2, <2>1, Zenon DEF Moves
  <2>3. d = c => at'[c] \in Dispatching /\ d \in targets'[c]
    BY <1>2, <1>3, <2>1, Zenon DEF Moves, Dispatching
  <2>. QED
    BY <2>2, <2>3, Zenon DEF ToPush
<1>8. \A d \in CPU : Awaited(c, d) => Awaited(c, d)'
  BY <1>1, <1>2, <1>4, Zenon DEF Awaited, Moves
<1>. QED
  BY <1>1, <1>6, <1>7, <1>8, ThreadStepInv, Zenon DEF Activating, NoCursorAt

LEMMA InterProcessorCallInv ==
    ASSUME FlushInv, NEW c \in CPU, NEW d \in CPU, InterProcessorCall(c, d) PROVE FlushInv'
<1> DEFINE rest == left[c] \ {d}
           q == IF rest = {} THEN "self" ELSE "call"
<1>1. at[c] = "call" /\ rest \in SUBSET CPU
  BY Zenon DEF InterProcessorCall, FlushInv, FlusherTypes
<1>2. /\ at' \in [CPU -> Points] /\ left' \in [CPU -> SUBSET CPU] /\ Moves(c, q)
      /\ \A e \in CPU : left'[e] = IF e # c THEN left[e] ELSE rest
  <2>1. LoopEnd(c, rest, "call", "self", {}) /\ "call" \in Points /\ "self" \in Points /\ {} \in SUBSET CPU
    BY Zenon DEF InterProcessorCall, Points, Dispatching
  <2> HIDE DEF rest
  <2>2. /\ at' \in [CPU -> Points] /\ left' \in [CPU -> SUBSET CPU]
        /\ \A e \in CPU \ {c} : at'[e] = at[e] /\ left'[e] = left[e]
        /\ rest = {} => at'[c] = "self" /\ left'[c] = {}
        /\ rest # {} => at'[c] = "call" /\ left'[c] = rest
    BY <1>1, <2>1, Zenon DEF FlushInv, Types, FlusherTypes, LoopEnd
  <2>. QED
    BY <2>2, Zenon DEF Moves
<1>3. UNCHANGED <<spaceVars, tlb, cursor, ops_stack, FLUSH_OPS, new_op_queue, ACK_REMOTE_FLUSH,
                  handling, gone, have_unsynced_flush, targets>>
  BY Zenon DEF InterProcessorCall, handlerVars, historyVars
<1>4. FlusherTypes'
  BY <1>2, <1>3, Zenon DEF FlushInv, FlusherTypes
<1>5. ThreadStep(c, q)
  BY <1>2, <1>3, <1>4, Zenon DEF ThreadStep
<1>6. \A e \in CPU : (ToPush(c, e) => ToPush(c, e)') /\ (Awaited(c, e) => Awaited(c, e)')
  BY <1>1, <1>2, <1>3, Zenon DEF ToPush, Awaited, Moves, Dispatching
<1>. QED
  BY <1>1, <1>5, <1>6, ThreadStepInv, Zenon DEF Activating, NoCursorAt

LEMMA SyncInv == ASSUME FlushInv, NEW c \in CPU, sync_tlb_flush(c) PROVE FlushInv'
<1>1. at[c] = "cursor" /\ Moves(c, "sync") /\ at' \in [CPU -> Points]
  <2>1. Step(c, "cursor", "sync") /\ "sync" \in Points
    BY Zenon DEF sync_tlb_flush, Points
  <2>. QED
    BY <2>1, StepMoves, Zenon DEF FlushInv, Types, Step
<1>2. UNCHANGED <<spaceVars, tlb, cursor, ops_stack, FLUSH_OPS, new_op_queue, ACK_REMOTE_FLUSH,
                  handling, gone, have_unsynced_flush, targets>>
  BY Zenon DEF sync_tlb_flush, remoteVars, handlerVars, historyVars
<1>3. /\ left' \in [CPU -> SUBSET CPU]
      /\ \A d \in CPU : left'[d] = IF d = c THEN have_unsynced_flush[c] ELSE left[d]
  BY Zenon DEF sync_tlb_flush, FlushInv, FlusherTypes
<1>4. FlusherTypes'
  BY <1>2, <1>3, Zenon DEF FlushInv, FlusherTypes
<1>5. ThreadStep(c, "sync")
  BY <1>1, <1>2, <1>3, <1>4, Zenon DEF ThreadStep
<1>6. \A d \in CPU : (ToPush(c, d) => ToPush(c, d)') /\ (Awaited(c, d) => Awaited(c, d)')
  BY <1>1, <1>2, <1>3, Zenon DEF ToPush, Awaited, Moves, Dispatching
<1>. QED
  BY <1>1, <1>5, <1>6, ThreadStepInv, Zenon DEF Activating, NoCursorAt

\* Once the acknowledgement of d has been seen, nothing is left in its FLUSH_OPS
\* that c waits for; d is in the handler, or through with it.
LEMMA AcknowledgedInv ==
    ASSUME FlushInv, NEW c \in CPU, NEW d \in CPU, Acknowledged(c, d) PROVE FlushInv'
<1> DEFINE rest == left[c] \ {d}
           q == IF rest = {} THEN "cursor" ELSE "sync"
<1>1. at[c] = "sync" /\ rest \in SUBSET CPU /\ d \in left[c] /\ ACK_REMOTE_FLUSH[d]
  BY Zenon DEF Acknowledged, FlushInv, FlusherTypes
<1>2. /\ at' \in [CPU -> Points] /\ left' \in [CPU -> SUBSET CPU] /\ Moves(c, q)
      /\ \A e \in CPU : left'[e] = IF e # c THEN left[e] ELSE rest
  <2>1. LoopEnd(c, rest, "sync", "cursor", {}) /\ "sync" \in Points /\ "cursor" \in Points /\ {} \in SUBSET CPU
    BY Zenon DEF Acknowledged, Points
  <2> HIDE DEF rest
  <2>2. /\ at' \in [CPU -> Points] /\ left' \in [CPU -> SUBSET CPU]
        /\ \A e \in CPU \ {c} : at'[e] = at[e] /\ left'[e] = left[e]
        /\ rest = {} => at'[c] = "cursor" /\ left'[c] = {}
        /\ rest # {} => at'[c] = "sync" /\ left'[c] = rest
    BY <1>1, <2>1, Zenon DEF FlushInv, Types, FlusherTypes, LoopEnd
  <2>. QED
    BY <2>2, Zenon DEF Moves
<1>3. UNCHANGED <<spaceVars, tlb, cursor, ops_stack, FLUSH_OPS, new_op_queue, ACK_REMOTE_FLUSH,
                  handling, gone, targets>>
  BY Zenon DEF Acknowledged, remoteVars, handlerVars, historyVars
<1>4. /\ have_unsynced_flush' \in [CPU -> SUBSET CPU]
      /\ \A e \in CPU : have_unsynced_flush'[e] =
            IF e = c /\ left[c] = {d} THEN {} ELSE have_unsynced_flush[e]
  BY Zenon DEF Acknowledged, FlushInv, FlusherTypes
<1>5. FlusherTypes'
  BY <1>2, <1>3, <1>4, Zenon DEF FlushInv, FlusherTypes
<1>6. ThreadStep(c, q)
  BY <1>2, <1>3, <1>4, <1>5, Zenon DEF ThreadStep
<1>7. \A e \in CPU : ToPush(c, e) => ToPush(c, e)'
  BY <1>1, Zenon DEF ToPush, Dispatching
<1>8. ASSUME NEW e \in CPU, NEW v \in Page, Covers(FLUSH_OPS[e], v), Awaited(c, e) PROVE Awaited(c, e)'
  <2>1. e # d
    BY <1>1, <1>8, Zenon DEF FlushInv, Stacks
  <2>2. e \in rest /\ e \in have_unsynced_flush[c] /\ left[c] # {d}
    BY <1>1, <1>8, <2>1, Zenon DEF Awaited
  <2>. QED
    BY <1>2, <1>4, <2>2, Zenon DEF Awaited, Moves
<1>. QED
  BY <1>1, <1>6, <1>7, <1>8, ThreadStepInv, Zenon DEF Activating, NoCursorAt

-----------------------------------------------------------------------------
(* The processor and activate *)

\* The stacks, cursors and requests of all CPUs.
flushVars == <<cursor, flusherVars, FLUSH_OPS, ACK_REMOTE_FLUSH, handlerVars, gone>>

LEMMA FlushVarsKept ==
    ASSUME FlushInv, UNCHANGED flushVars
    PROVE  FlusherTypes' /\ Stacks' /\ Lossless
<1>1. FlusherTypes'
  BY Zenon DEF FlushInv, FlusherTypes, flushVars, flusherVars
<1>2. Stacks'
  BY StacksKept, Zenon DEF FlushInv, flushVars, flusherVars, handlerVars
<1>3. Lossless
  BY Zenon DEF flushVars, flusherVars, handlerVars, Lossless, Holds, Covers
<1>. QED
  BY <1>1, <1>2, <1>3, Zenon

\* What the processor caches is what is mapped at that time.
LEMMA WalkInv == ASSUME FlushInv, NEW c \in CPU, Walk(c) PROVE FlushInv'
<1>1. PICK v \in Page : /\ pt[cr3[c]][v] # NoFrame
                        /\ tlb' = [tlb EXCEPT ![c][v] = pt[cr3[c]][v]]
  BY Zenon DEF Walk
<1>2. UNCHANGED <<spaceVars, at, flushVars>>
  BY Zenon DEF Walk, flushVars, remoteVars, historyVars
<1>3. cr3[c] \in Space
  BY Zenon DEF Walk, FlushInv, Types
<1>4. \A d \in CPU, u \in Page :
         tlb'[d][u] = IF d = c /\ u = v THEN pt[cr3[c]][v] ELSE tlb[d][u]
  BY <1>1, Zenon DEF FlushInv, Types
<1>5. pt[cr3[c]][v] \in Frame \cup {NoFrame}
  BY <1>3, SMTT(30) DEF FlushInv, Types
<1>6. Types'
  <2>1. tlb' \in [CPU -> [Page -> Frame \cup {NoFrame}]]
    BY <1>1, <1>5, Zenon DEF FlushInv, Types
  <2>. QED
    BY <1>2, <2>1, Zenon DEF FlushInv, Types, spaceVars, flushVars
<1>7. FlusherTypes' /\ Stacks' /\ Lossless
  BY <1>2, FlushVarsKept, Zenon
<1>8. Activation'
  <2>1. cr3[c] # NoSpace
    BY <1>3, TlbAssumption, Zenon
  <2>. QED
    BY <1>2, <1>4, <2>1, ActivationKept, Zenon DEF FlushInv, spaceVars
<1>9. Cursors'
  BY <1>2, CursorsKept, Zenon DEF FlushInv, spaceVars, flushVars
<1>10. \A e, d \in CPU : (ToPush(e, d) => ToPush(e, d)') /\ (Awaited(e, d) => Awaited(e, d)')
  BY <1>2, ZenonT(40) DEF ToPush, Awaited, spaceVars, flushVars, flusherVars
<1>11. PushesKept
  BY <1>2, <1>10, Zenon DEF PushesKept, flushVars, flusherVars
<1>12. StaleKept'
  BY <1>2, <1>4, <1>7, <1>11, StaleKeptByStep, ZenonT(40) DEF FlushInv, Stale, spaceVars
<1>13. GoneAwaited'
  <2>1. ASSUME NEW e \in CPU, NEW d \in CPU, NEW u \in Page, Sees(d, e, u)' PROVE Sees(d, e, u)
    <3>1. at[d] # "removed" /\ cr3[d] = cursor[e].space /\ <<u, tlb'[d][u]>> \in gone[e]
      BY <1>2, <2>1, Zenon DEF Sees, spaceVars, flushVars
    <3>2. tlb'[d][u] # pt[cr3[d]][u]
      BY <3>1, Zenon DEF FlushInv, Cursors
    <3>3. tlb'[d][u] = tlb[d][u]
      BY <1>4, <3>2, ZenonT(40)
    <3>. QED
      BY <3>1, <3>3, Zenon DEF Sees
  <2>. QED
    BY <1>7, <1>10, <1>11, <2>1, GoneAwaitedByStep, Zenon DEF FlushInv
<1>. QED
  BY <1>6, <1>7, <1>8, <1>9, <1>12, <1>13, Zenon DEF FlushInv

LEMMA ActivateInv == ASSUME FlushInv, NEW c \in CPU, NEW s \in Space, Activate(c, s) PROVE FlushInv'
<1>1. at[c] = "kernel" /\ Moves(c, "added") /\ at' \in [CPU -> Points] /\ activated[c] # s
  <2>1. Step(c, "kernel", "added") /\ "added" \in Points
    BY Zenon DEF Activate, Points
  <2>. QED
    BY <2>1, StepMoves, ZenonT(40) DEF FlushInv, Types, Step, Activate
<1>2. UNCHANGED <<pt, cr3, tlb, flushVars>>
  BY Zenon DEF Activate, flushVars, remoteVars, historyVars
<1>3. /\ cpus' \in [Space -> SUBSET CPU] /\ activated' \in [CPU -> Space \cup {NoSpace}]
      /\ \A x \in Space : cpus'[x] = IF x = s THEN cpus[x] \cup {c} ELSE cpus[x]
      /\ \A d \in CPU : activated'[d] = IF d = c THEN s ELSE activated[d]
  BY ZenonT(40) DEF Activate, FlushInv, Types
<1>4. Types'
  BY <1>1, <1>2, <1>3, Zenon DEF FlushInv, Types, flushVars
<1>5. FlusherTypes' /\ Stacks' /\ Lossless
  BY <1>2, FlushVarsKept, Zenon
<1>6. \A d \in CPU : cr3[d] # NoSpace => cr3[d] \in Space
  BY Zenon DEF FlushInv, Types
<1>7. Activation'
  BY <1>1, <1>2, <1>3, <1>6, SMTT(30) DEF FlushInv, Activation, Activating, Moves
<1>8. Cursors'
  BY <1>1, <1>2, CursorsKept, Zenon DEF FlushInv, flushVars, Moves, NoCursorAt, Activating
<1>9. ASSUME NEW e \in CPU, NEW d \in CPU
      PROVE  (ToPush(e, d) => ToPush(e, d)') /\ (Awaited(e, d) => Awaited(e, d)')
  <2>1. at[e] \in {"unmap", "load"} => cursor[e].space \in Space
    BY Zenon DEF FlushInv, Cursors, NoCursorAt, Activating
  <2>2. e # c \/ ~ToPush(e, d)
    BY <1>1, Zenon DEF ToPush, Dispatching
  <2>. QED
    BY <1>1, <1>2, <1>3, <2>1, <2>2, ZenonT(40) DEF ToPush, Awaited, flushVars, flusherVars, Moves
<1>10. PushesKept
  BY <1>2, <1>9, Zenon DEF PushesKept, flushVars, flusherVars
<1>11. \A d \in CPU : at'[d] # "removed" => at[d] # "removed"
  BY <1>1, Zenon DEF Moves
<1>12. StaleKept'
  BY <1>2, <1>5, <1>10, <1>11, StaleKeptByStep, Zenon DEF FlushInv, Stale
<1>13. GoneAwaited'
  <2>1. \A e, d \in CPU, v \in Page : Sees(d, e, v)' => Sees(d, e, v)
    BY <1>2, <1>11, Zenon DEF Sees, flushVars
  <2>. QED
    BY <1>5, <1>9, <1>10, <2>1, GoneAwaitedByStep, Zenon DEF FlushInv
<1>. QED
  BY <1>4, <1>5, <1>7, <1>8, <1>12, <1>13, Zenon DEF FlushInv

\* A CPU that has left the space it still walks is not asked to flush any more,
\* and does not go back to the user program before its TLB is empty.
LEMMA ActivateRemoveInv == ASSUME FlushInv, NEW c \in CPU, ActivateRemove(c) PROVE FlushInv'
<1>1. at[c] = "added" /\ Moves(c, "removed") /\ at' \in [CPU -> Points]
  <2>1. Step(c, "added", "removed") /\ "removed" \in Points
    BY Zenon DEF ActivateRemove, Points
  <2>. QED
    BY <2>1, StepMoves, Zenon DEF FlushInv, Types, Step
<1>2. UNCHANGED <<pt, activated, cr3, tlb, flushVars>>
  BY Zenon DEF ActivateRemove, flushVars, remoteVars, historyVars
<1>3. /\ cpus' \in [Space -> SUBSET CPU]
      /\ \A x \in Space : cpus'[x] = IF x = cr3[c] THEN cpus[x] \ {c} ELSE cpus[x]
  BY TlbAssumption, ZenonT(40) DEF ActivateRemove, FlushInv, Types
<1>4. Types'
  BY <1>1, <1>2, <1>3, Zenon DEF FlushInv, Types, flushVars
<1>5. FlusherTypes' /\ Stacks' /\ Lossless
  BY <1>2, FlushVarsKept, Zenon
<1>6. \A d \in CPU : cr3[d] # NoSpace => cr3[d] \in Space
  BY Zenon DEF FlushInv, Types
<1>7. Activation'
  BY <1>1, <1>2, <1>3, <1>6, SMTT(30) DEF FlushInv, Activation, Activating, Moves
<1>8. Cursors'
  BY <1>1, <1>2, CursorsKept, Zenon DEF FlushInv, flushVars, Moves, NoCursorAt, Activating
<1>9. ASSUME NEW e \in CPU, NEW d \in CPU
      PROVE  /\ at'[d] # "removed" /\ ToPush(e, d) => ToPush(e, d)'
             /\ Awaited(e, d) => Awaited(e, d)'
  <2>1. at[e] \in {"unmap", "load"} => cursor[e].space \in Space
    BY Zenon DEF FlushInv, Cursors, NoCursorAt, Activating
  <2>2. e # c \/ ~ToPush(e, d)
    BY <1>1, Zenon DEF ToPush, Dispatching
  <2>3. at'[d] # "removed" => d # c
    BY <1>1, Zenon DEF Moves
  <2>. QED
    BY <1>1, <1>2, <1>3, <2>1, <2>2, <2>3, Zenon DEF ToPush, Awaited, flushVars, flusherVars, Moves
<1>10. PushesKept
  BY <1>2, <1>9, Zenon DEF PushesKept, flushVars, flusherVars
<1>11. \A d \in CPU : at'[d] # "removed" => at[d] # "removed"
  BY <1>1, Zenon DEF Moves
<1>12. StaleKept'
  BY <1>2, <1>5, <1>10, <1>11, StaleKeptByStep, ZenonT(40) DEF FlushInv, Stale
<1>13. GoneAwaited'
  <2>1. \A e, d \in CPU, v \in Page : Sees(d, e, v)' => Sees(d, e, v)
    BY <1>2, <1>11, Zenon DEF Sees, flushVars
  <2>. QED
    BY <1>5, <1>9, <1>10, <2>1, GoneAwaitedByStep, Zenon DEF FlushInv
<1>. QED
  BY <1>4, <1>5, <1>7, <1>8, <1>12, <1>13, Zenon DEF FlushInv

LEMMA ActivateLoadInv == ASSUME FlushInv, NEW c \in CPU, ActivateLoad(c) PROVE FlushInv'
<1>1. at[c] = "removed" /\ Moves(c, "kernel") /\ at' \in [CPU -> Points]
  <2>1. Step(c, "removed", "kernel") /\ "kernel" \in Points
    BY Zenon DEF ActivateLoad, Points
  <2>. QED
    BY <2>1, StepMoves, Zenon DEF FlushInv, Types, Step
<1>2. UNCHANGED <<pt, cpus, activated, flushVars>>
  BY Zenon DEF ActivateLoad, flushVars, remoteVars, historyVars
<1>3. /\ cr3' \in [CPU -> Space \cup {NoSpace}] /\ tlb' \in [CPU -> [Page -> Frame \cup {NoFrame}]]
      /\ \A d \in CPU : cr3'[d] = IF d = c THEN activated[c] ELSE cr3[d]
      /\ \A d \in CPU, v \in Page : tlb'[d][v] = IF d = c THEN NoFrame ELSE tlb[d][v]
  BY Zenon DEF ActivateLoad, FlushInv, Types, NothingCached
<1>4. Types'
  BY <1>1, <1>2, <1>3, Zenon DEF FlushInv, Types, flushVars
<1>5. FlusherTypes' /\ Stacks' /\ Lossless
  BY <1>2, FlushVarsKept, Zenon
<1>6. Activation'
  BY <1>1, <1>2, <1>3, SMTT(30) DEF FlushInv, Activation, Activating, Moves
<1>7. Cursors'
  BY <1>1, <1>2, CursorsKept, Zenon DEF FlushInv, flushVars, Moves, NoCursorAt, Activating
<1>8. ASSUME NEW e \in CPU, NEW d \in CPU
      PROVE  (ToPush(e, d) => ToPush(e, d)') /\ (Awaited(e, d) => Awaited(e, d)')
  <2>1. e # c \/ ~ToPush(e, d)
    BY <1>1, Zenon DEF ToPush, Dispatching
  <2>. QED
    BY <1>1, <1>2, <2>1, Zenon DEF ToPush, Awaited, flushVars, flusherVars, Moves
<1>9. PushesKept
  BY <1>2, <1>8, Zenon DEF PushesKept, flushVars, flusherVars
<1>10. \A d \in CPU \ {c} : at'[d] = at[d]
  BY <1>1, Zenon DEF Moves
<1>11. StaleKept'
  BY <1>2, <1>3, <1>5, <1>9, <1>10, StaleKeptByStep, ZenonT(40) DEF FlushInv, Stale
<1>12. GoneAwaited'
  <2>1. \A e \in CPU : \A v : <<v, NoFrame>> \notin gone[e]
    BY Zenon DEF FlushInv, Cursors
  <2>2. \A e, d \in CPU, v \in Page : Sees(d, e, v)' => Sees(d, e, v)
    BY <1>2, <1>3, <1>10, <2>1, ZenonT(40) DEF Sees, flushVars
  <2>. QED
    BY <1>5, <1>8, <1>9, <2>2, GoneAwaitedByStep, Zenon DEF FlushInv
<1>. QED
  BY <1>4, <1>5, <1>6, <1>7, <1>11, <1>12, Zenon DEF FlushInv

-----------------------------------------------------------------------------
(* Cursors *)

LEMMA CursorMutInv ==
    ASSUME FlushInv, NEW c \in CPU, NEW s \in Space, NEW P \in SUBSET Page, CursorMut(c, s, P)
    PROVE  FlushInv'
<1>1. at[c] = "kernel" /\ Moves(c, "cursor") /\ at' \in [CPU -> Points]
  <2>1. Step(c, "kernel", "cursor") /\ "cursor" \in Points
    BY Zenon DEF CursorMut, Points
  <2>. QED
    BY <2>1, StepMoves, Zenon DEF FlushInv, Types, Step
<1>2. UNCHANGED <<spaceVars, tlb, flusherVars, FLUSH_OPS, ACK_REMOTE_FLUSH, handlerVars, gone>>
  BY Zenon DEF CursorMut, remoteVars, historyVars
<1>3. /\ cursor' \in [CPU -> [space : Space \cup {NoSpace}, pages : SUBSET Page]]
      /\ \A d \in CPU \ {c} : cursor'[d] = cursor[d]
      /\ cursor'[c].space = s /\ cursor'[c].pages = P
  BY Zenon DEF CursorMut, FlushInv, Types
<1>4. \A d \in CPU : cursor[d].space = s => cursor[d].pages \cap P = {}
  BY Zenon DEF CursorMut
<1>5. cursor[c].pages = {}
  BY <1>1, SMTT(30) DEF FlushInv, Cursors, NoCursorAt, NoCursor
<1>6. \A v, f : <<v, f>> \notin gone[c]
  BY <1>5, Zenon DEF FlushInv, Cursors
<1>7. Types' /\ FlusherTypes'
  BY <1>1, <1>2, <1>3, Zenon DEF FlushInv, Types, FlusherTypes, spaceVars, flusherVars
<1>8. Stacks' /\ Lossless
  BY <1>2, StacksKept, ZenonT(40) DEF FlushInv, flusherVars, handlerVars, Lossless, Holds, Covers
<1>9. Activation'
  BY <1>1, <1>2, ActivationKept, Zenon DEF FlushInv, Moves, Activating, spaceVars
<1>10. Cursors'
  <2>1. \A d \in CPU : IF at'[d] \in NoCursorAt THEN cursor'[d] = NoCursor ELSE cursor'[d].space \in Space
    BY <1>1, <1>3, ZenonT(40) DEF FlushInv, Cursors, Moves, NoCursorAt, Activating
  <2>2. \A d, e \in CPU :
           d # e /\ cursor'[d].space = cursor'[e].space => cursor'[d].pages \cap cursor'[e].pages = {}
    BY <1>3, <1>4, SMTT(30) DEF FlushInv, Cursors
  <2>3. \A d \in CPU : \A v, f : <<v, f>> \in gone'[d] =>
           v \in cursor'[d].pages /\ f # NoFrame /\ f # pt'[cursor'[d].space][v]
    BY <1>2, <1>3, <1>6, SMTT(30) DEF FlushInv, Cursors, spaceVars
  <2>. QED
    BY <2>1, <2>2, <2>3, Zenon DEF Cursors
<1>11. ASSUME NEW e \in CPU, NEW d \in CPU
       PROVE  /\ ToPush(e, d) => ToPush(e, d)' /\ cursor'[e] = cursor[e]
              /\ Awaited(e, d) => Awaited(e, d)'
  <2>1. e # c \/ ~ToPush(e, d)
    BY <1>1, Zenon DEF ToPush, Dispatching
  <2>. QED
    BY <1>1, <1>2, <1>3, <2>1, Zenon DEF ToPush, Awaited, spaceVars, flusherVars, Moves
<1>12. PushesKept
  BY <1>2, <1>11, Zenon DEF PushesKept, flusherVars
<1>13. \A d \in CPU : at'[d] # "removed" => at[d] # "removed"
  BY <1>1, Zenon DEF Moves
<1>14. StaleKept'
  BY <1>2, <1>8, <1>12, <1>13, StaleKeptByStep, Zenon DEF FlushInv, Stale, spaceVars
<1>15. GoneAwaited'
  <2>1. \A e, d \in CPU, v \in Page : Sees(d, e, v)' => Sees(d, e, v)
    BY <1>2, <1>3, <1>6, <1>13, Zenon DEF Sees, spaceVars
  <2>. QED
    BY <1>8, <1>11, <1>12, <2>1, GoneAwaitedByStep, Zenon DEF FlushInv
<1>. QED
  BY <1>7, <1>8, <1>9, <1>10, <1>14, <1>15, Zenon DEF FlushInv

\* A cursor whose flusher has nothing on its stack may be dropped before the
\* others have flushed: their queues keep the frames.
LEMMA DropCursorInv == ASSUME FlushInv, NEW c \in CPU, DropCursor(c) PROVE FlushInv'
<1>1. at[c] = "cursor" /\ Moves(c, "kernel") /\ at' \in [CPU -> Points]
  <2>1. Step(c, "cursor", "kernel") /\ "kernel" \in Points
    BY Zenon DEF DropCursor, Points
  <2>. QED
    BY <2>1, StepMoves, Zenon DEF FlushInv, Types, Step
<1>2. UNCHANGED <<spaceVars, tlb, targets, left, FLUSH_OPS, ACK_REMOTE_FLUSH, handlerVars>>
  BY Zenon DEF DropCursor, remoteVars
<1>3. /\ cursor' \in [CPU -> [space : Space \cup {NoSpace}, pages : SUBSET Page]]
      /\ \A d \in CPU : cursor'[d] = IF d = c THEN NoCursor ELSE cursor[d]
  BY Zenon DEF DropCursor, FlushInv, Types, NoCursor
<1>4. /\ have_unsynced_flush' \in [CPU -> SUBSET CPU] /\ gone' \in [CPU -> SUBSET (Page \X Frame)]
      /\ \A d \in CPU : /\ have_unsynced_flush'[d] = IF d = c THEN {} ELSE have_unsynced_flush[d]
                        /\ gone'[d] = IF d = c THEN {} ELSE gone[d]
  BY Zenon DEF DropCursor, FlushInv, FlusherTypes
<1>5. /\ ops_stack' \in [CPU -> OpsStack]
      /\ \A d \in CPU : ops_stack'[d] = IF d = c THEN EmptyOps ELSE ops_stack[d]
  BY EmptyFacts, Zenon DEF DropCursor, FlushInv, Stacks
<1>6. Types' /\ FlusherTypes'
  BY <1>1, <1>2, <1>3, <1>4, Zenon DEF FlushInv, Types, FlusherTypes, spaceVars
<1>7. Stacks'
  BY <1>2, <1>5, EmptyFacts, Zenon DEF FlushInv, Stacks, handlerVars
<1>8. Lossless
  BY <1>2, ZenonT(40) DEF handlerVars, Lossless, Holds, Covers
<1>9. Activation'
  BY <1>1, <1>2, ActivationKept, Zenon DEF FlushInv, Moves, Activating, spaceVars
<1>10. Cursors'
  <2>1. NoCursor.pages = {}
    BY Zenon DEF NoCursor
  <2>2. \A d \in CPU : IF at'[d] \in NoCursorAt THEN cursor'[d] = NoCursor ELSE cursor'[d].space \in Space
    BY <1>1, <1>3, Zenon DEF FlushInv, Cursors, Moves, NoCursorAt
  <2>3. \A d, e \in CPU :
           d # e /\ cursor'[d].space = cursor'[e].space => cursor'[d].pages \cap cursor'[e].pages = {}
    BY <1>3, <2>1, SMTT(30) DEF FlushInv, Cursors
  <2>4. \A d \in CPU : \A v, f : <<v, f>> \in gone'[d] =>
           v \in cursor'[d].pages /\ f # NoFrame /\ f # pt'[cursor'[d].space][v]
    BY <1>2, <1>3, <1>4, SMTT(30) DEF FlushInv, Cursors, spaceVars
  <2>. QED
    BY <2>2, <2>3, <2>4, Zenon DEF Cursors
<1>11. ASSUME NEW e \in CPU, NEW d \in CPU, ToPush(e, d)
       PROVE  ToPush(e, d)' /\ cursor'[e] = cursor[e] /\ ops_stack'[e] = ops_stack[e]
  <2>1. e # c
    BY <1>1, <1>11, Zenon DEF ToPush, Dispatching
  <2>. QED
    BY <1>1, <1>2, <1>3, <1>5, <1>11, <2>1, Zenon DEF ToPush, spaceVars, Moves
<1>12. PushesKept
  BY <1>11, Zenon DEF PushesKept
<1>13. \A d \in CPU : at'[d] # "removed" => at[d] # "removed"
  BY <1>1, Zenon DEF Moves
<1>14. StaleKept'
  BY <1>2, <1>8, <1>12, <1>13, StaleKeptByStep, Zenon DEF FlushInv, Stale, spaceVars
<1>15. GoneAwaited'
  <2> SUFFICES ASSUME NEW e \in CPU, NEW d \in CPU, NEW v \in Page, Sees(d, e, v)'
               PROVE  AwaitedFlush(e, d, v)'
    BY Zenon DEF GoneAwaited
  <2>1. e # c /\ Sees(d, e, v)
    BY <1>2, <1>3, <1>4, <1>13, Zenon DEF Sees, spaceVars
  <2>2. AwaitedFlush(e, d, v)
    BY <2>1, Zenon DEF FlushInv, GoneAwaited
  <2>3. Awaited(e, d) => Awaited(e, d)'
    BY <1>1, <1>2, <1>4, <2>1, Zenon DEF Awaited, Moves
  <2>4. ToPush(e, d) /\ Covers(ops_stack[e], v) => (ToPush(e, d) /\ Covers(ops_stack[e], v))'
    BY <1>11, Zenon DEF Covers
  <2>. QED
    BY <1>8, <2>2, <2>3, <2>4, Zenon DEF AwaitedFlush, Lossless
<1>. QED
  BY <1>6, <1>7, <1>9, <1>10, <1>14, <1>15, Zenon DEF FlushInv

\* The cursor on c maps its page v to f.
Remaps(c, v, f) ==
    /\ v \in cursor[c].pages /\ at[c] \notin NoCursorAt /\ cursor' = cursor
    /\ \A d \in CPU : at'[d] \in NoCursorAt <=> at[d] \in NoCursorAt
    /\ \A s \in Space, u \in Page :
          pt'[s][u] = IF s = cursor[c].space /\ u = v THEN f ELSE pt[s][u]
    /\ \A d \in CPU \ {c} : gone'[d] = gone[d]
    /\ \A u, g : <<u, g>> \in gone'[c] =>
          (<<u, g>> \in gone[c] \/ (u = v /\ g # NoFrame)) /\ (u = v => g # f)

\* What the other cursors have removed is not touched.
LEMMA RemapCursors ==
    ASSUME FlushInv, NEW c \in CPU, NEW v, NEW f, Remaps(c, v, f) PROVE Cursors'
<1> USE DEF Remaps
<1>1. cursor[c].space \in Space /\ cursor[c].pages \subseteq Page
  BY Zenon DEF FlushInv, Cursors, Types
<1>2. ASSUME NEW d \in CPU, NEW u, NEW g, <<u, g>> \in gone'[d]
      PROVE  u \in cursor[d].pages /\ g # NoFrame /\ g # pt'[cursor[d].space][u]
  <2>1. u \in cursor[d].pages /\ g # NoFrame
    <3>1. <<u, g>> \in gone[d] => u \in cursor[d].pages /\ g # NoFrame
      BY Zenon DEF FlushInv, Cursors
    <3>2. <<u, g>> \in gone[d] \/ (d = c /\ u = v /\ g # NoFrame)
      BY <1>2, Zenon
    <3>. QED
      BY <3>1, <3>2, Zenon
  <2>2. at[d] \notin NoCursorAt
    BY <2>1, SMTT(30) DEF FlushInv, Cursors, NoCursor
  <2>3. cursor[d].space \in Space /\ u \in Page
    BY <2>1, <2>2, ZenonT(40) DEF FlushInv, Cursors, Types
  <2>4. CASE d = c /\ u = v
    <3>1. g # f
      BY <1>2, <2>4, Zenon
    <3>2. pt'[cursor[d].space][u] = f
      BY <2>3, <2>4, Zenon
    <3>. QED
      BY <2>1, <3>1, <3>2, Zenon
  <2>5. CASE d = c /\ u # v
    BY <1>2, <2>3, <2>5, SMTT(30) DEF FlushInv, Cursors
  <2>6. CASE d # c
    <3>1. cursor[d].space = cursor[c].space => u # v
      BY <2>1, <2>6, SMTT(30) DEF FlushInv, Cursors
    <3>. QED
      BY <1>2, <2>3, <2>6, <3>1, SMTT(30) DEF FlushInv, Cursors
  <2>. QED
    BY <2>1, <2>4, <2>5, <2>6, Zenon
<1>3. \A d \in CPU : IF at'[d] \in NoCursorAt THEN cursor'[d] = NoCursor ELSE cursor'[d].space \in Space
  BY Zenon DEF FlushInv, Cursors
<1>4. \A d, e \in CPU :
         d # e /\ cursor'[d].space = cursor'[e].space => cursor'[d].pages \cap cursor'[e].pages = {}
  <2>1. \A d, e \in CPU :
           d # e /\ cursor[d].space = cursor[e].space => cursor[d].pages \cap cursor[e].pages = {}
    BY Zenon DEF FlushInv, Cursors
  <2>2. cursor' = cursor
    BY Zenon
  <2>. QED
    BY <2>1, <2>2, SMT
<1>5. \A d \in CPU : \A u, g :
         <<u, g>> \in gone'[d] => u \in cursor'[d].pages /\ g # NoFrame /\ g # pt'[cursor'[d].space][u]
  <2>1. cursor' = cursor
    BY Zenon
  <2> SUFFICES ASSUME NEW d \in CPU, NEW u, NEW g, <<u, g>> \in gone'[d]
               PROVE  u \in cursor'[d].pages /\ g # NoFrame /\ g # pt'[cursor'[d].space][u]
    BY Zenon
  <2>. HIDE DEF Remaps
  <2>. QED
    BY <1>2, <2>1, SMT
<1>. HIDE DEF Remaps
<1>. QED
  BY <1>3, <1>4, <1>5, Zenon DEF Cursors

\* A page without a mapping is mapped: whoever has it in the TLB had a stale entry.
LEMMA MapInv ==
    ASSUME FlushInv, NEW c \in CPU, NEW v \in cursor[c].pages, NEW f \in Frame, Map(c, v, f)
    PROVE  FlushInv'
<1>1. at[c] = "cursor" /\ Moves(c, "cursor") /\ at' \in [CPU -> Points]
  <2>1. Step(c, "cursor", "cursor") /\ "cursor" \in Points
    BY Zenon DEF Map, Points
  <2>. QED
    BY <2>1, StepMoves, Zenon DEF FlushInv, Types, Step
<1>2. \A d \in CPU : at'[d] = at[d]
  BY <1>1, Zenon DEF Moves
<1>3. UNCHANGED <<cpus, activated, cr3, tlb, cursor, flusherVars, FLUSH_OPS, ACK_REMOTE_FLUSH,
                  handlerVars>>
  BY Zenon DEF Map, remoteVars
<1>4. cursor[c].space \in Space /\ v \in Page /\ pt[cursor[c].space][v] = NoFrame
  BY <1>1, Zenon DEF Map, FlushInv, Cursors, Types, NoCursorAt, Activating
<1>5. /\ pt' \in [Space -> [Page -> Frame \cup {NoFrame}]]
      /\ \A s \in Space, u \in Page :
            pt'[s][u] = IF s = cursor[c].space /\ u = v THEN f ELSE pt[s][u]
  BY <1>4, ZenonT(40) DEF Map, FlushInv, Types
<1>6. /\ gone' \in [CPU -> SUBSET (Page \X Frame)]
      /\ \A d \in CPU : gone'[d] = IF d = c THEN gone[c] \ {<<v, f>>} ELSE gone[d]
  BY Zenon DEF Map, FlushInv, FlusherTypes
<1>7. Types' /\ FlusherTypes'
  BY <1>1, <1>3, <1>5, <1>6, ZenonT(40) DEF FlushInv, Types, FlusherTypes, flusherVars
<1>8. Stacks' /\ Lossless
  BY <1>3, StacksKept, ZenonT(40) DEF FlushInv, flusherVars, handlerVars, Lossless, Holds, Covers
<1>9. Activation'
  BY <1>2, <1>3, ActivationKept, Zenon DEF FlushInv
<1>10. Cursors'
  <2>1. \A u, g : <<u, g>> \in gone'[c] => <<u, g>> \in gone[c] /\ (u = v => g # f)
    BY <1>6, ZenonT(40)
  <2>2. Remaps(c, v, f)
    BY <1>1, <1>2, <1>3, <1>5, <1>6, <2>1, ZenonT(40) DEF Remaps, NoCursorAt, Activating
  <2>. QED
    BY <2>2, RemapCursors, Zenon
<1>11. \A e, d \in CPU : (ToPush(e, d) => ToPush(e, d)') /\ (Awaited(e, d) => Awaited(e, d)')
  BY <1>2, <1>3, ZenonT(40) DEF ToPush, Awaited, flusherVars
<1>12. PushesKept
  BY <1>3, <1>11, Zenon DEF PushesKept, flusherVars
<1>13. StaleKept'
  <2>1. ASSUME NEW d \in CPU, NEW u \in Page, at'[d] # "removed", Stale(d, u)'
        PROVE  at[d] # "removed" /\ Stale(d, u)
    <3>1. tlb[d][u] # NoFrame /\ tlb[d][u] # pt'[cr3[d]][u]
      BY <1>3, <2>1, Zenon DEF Stale
    <3>2. cr3[d] \in Space
      BY <3>1, SMTT(30) DEF FlushInv, Activation, Types
    <3>. QED
      BY <1>2, <1>4, <1>5, <2>1, <3>1, <3>2, ZenonT(40) DEF Stale
  <2>. QED
    BY <1>3, <1>8, <1>12, <2>1, StaleKeptByStep, Zenon DEF FlushInv
<1>14. GoneAwaited'
  <2>1. \A e, d \in CPU, u \in Page : Sees(d, e, u)' => Sees(d, e, u)
    BY <1>2, <1>3, <1>6, ZenonT(40) DEF Sees
  <2>. QED
    BY <1>8, <1>11, <1>12, <2>1, GoneAwaitedByStep, Zenon DEF FlushInv
<1>. QED
  BY <1>7, <1>8, <1>9, <1>10, <1>13, <1>14, ZenonT(40) DEF FlushInv

\* A mapping is replaced: everybody who may have it in the TLB is among the CPUs
\* of the space, and will be asked to flush it.
LEMMA ReplaceInv ==
    ASSUME FlushInv, NEW c \in CPU, NEW v \in cursor[c].pages, NEW f \in Frame \cup {NoFrame}, NEW q,
           q \in {"unmap", "load"}, at[c] \in {"cursor", "unmap"}, Moves(c, q), at' \in [CPU -> Points],
           pt[cursor[c].space][v] # NoFrame, f # pt[cursor[c].space][v], Replace(c, v, f),
           UNCHANGED <<cpus, activated, cr3, tlb, cursor, have_unsynced_flush, targets, left,
                       FLUSH_OPS, ACK_REMOTE_FLUSH, handlerVars>>
    PROVE  FlushInv'
<1> DEFINE s == cursor[c].space
           frame == pt[s][v]
<1>1. s \in Space /\ v \in Page /\ frame \in Frame
  <2>1. at[c] \notin NoCursorAt
    BY Zenon DEF NoCursorAt, Activating
  <2>2. s \in Space
    BY <2>1, Zenon DEF FlushInv, Cursors
  <2>3. v \in Page
    BY Zenon DEF FlushInv, Types
  <2>. QED
    BY <2>2, <2>3, SMTT(30) DEF FlushInv, Types
<1>2. /\ pt' \in [Space -> [Page -> Frame \cup {NoFrame}]]
      /\ \A x \in Space, u \in Page : pt'[x][u] = IF x = s /\ u = v THEN f ELSE pt[x][u]
  BY <1>1, Zenon DEF Replace, FlushInv, Types
<1>3. /\ gone' \in [CPU -> SUBSET (Page \X Frame)]
      /\ \A d \in CPU : gone'[d] = IF d = c THEN (gone[c] \cup {<<v, frame>>}) \ {<<v, f>>} ELSE gone[d]
  BY <1>1, SMTT(30) DEF Replace, FlushInv, FlusherTypes
<1>4. PICK o : /\ o = push(ops_stack[c], v, {frame})
               /\ WellFormed(o) /\ o \in OpsStack /\ Holds(o, v, frame)
               /\ \A u : Covers(ops_stack[c], u) => Covers(o, u)
               /\ \A u, g : Holds(ops_stack[c], u, g) => Holds(o, u, g)
  <2>1. WellFormed(ops_stack[c]) /\ {frame} \in SUBSET Frame
    BY <1>1, Zenon DEF FlushInv, Stacks
  <2>. QED
    BY <1>1, <2>1, PushFacts, Zenon
<1>5. /\ ops_stack' \in [CPU -> OpsStack]
      /\ \A d \in CPU : ops_stack'[d] = IF d = c THEN o ELSE ops_stack[d]
  BY <1>4, Zenon DEF Replace, FlushInv, Stacks
<1>6. Types' /\ FlusherTypes'
  BY <1>2, <1>3, ZenonT(40) DEF FlushInv, Types, FlusherTypes
<1>7. Stacks'
  BY <1>4, <1>5, ZenonT(40) DEF FlushInv, Stacks, handlerVars
<1>8. Activation'
  BY ActivationKept, Zenon DEF FlushInv, Moves, Activating
<1>9. Cursors'
  <2>1. at[c] \notin NoCursorAt /\ \A d \in CPU : at'[d] \in NoCursorAt <=> at[d] \in NoCursorAt
    BY Zenon DEF Moves, NoCursorAt, Activating
  <2>2. \A u, g : <<u, g>> \in gone'[c] =>
           (<<u, g>> \in gone[c] \/ (u = v /\ g # NoFrame)) /\ (u = v => g # f)
    <3>1. gone'[c] = (gone[c] \cup {<<v, frame>>}) \ {<<v, f>>} /\ frame # NoFrame
      BY <1>1, <1>3, TlbAssumption, Zenon
    <3> HIDE DEF frame
    <3>. QED
      BY <3>1, Zenon
  <2>3. \A d \in CPU \ {c} : gone'[d] = gone[d]
    BY <1>3, Zenon
  <2>4. Remaps(c, v, f)
    BY <1>2, <2>1, <2>2, <2>3, ZenonT(40) DEF Remaps
  <2>. QED
    BY <2>4, RemapCursors, Zenon
<1>10. ASSUME NEW e \in CPU, NEW d \in CPU
       PROVE  (ToPush(e, d) => ToPush(e, d)') /\ (Awaited(e, d) => Awaited(e, d)')
  BY Zenon DEF ToPush, Awaited, Moves, Dispatching
<1>11. \A e \in CPU : /\ \A u : Covers(ops_stack[e], u) => Covers(ops_stack[e], u)'
                      /\ \A u, g : Holds(ops_stack[e], u, g) => Holds(ops_stack[e], u, g)'
  BY <1>4, <1>5, ZenonT(40) DEF Covers, Holds
<1>12. \A d \in CPU : at'[d] # "removed" => at[d] # "removed"
  BY Zenon DEF Moves
<1>13. ASSUME NEW d \in CPU, at[d] # "removed", cr3[d] = s PROVE ToPush(c, d)'
  <2>1. d \in cpus[s]
    BY <1>1, <1>13, TlbAssumption, SMTT(30) DEF FlushInv, Activation
  <2>. QED
    BY <2>1, Zenon DEF ToPush, Moves
<1>14. StaleKept'
  <2> SUFFICES ASSUME NEW d \in CPU, NEW u \in Page, at'[d] # "removed", Stale(d, u)'
               PROVE  Pending(d, u, tlb[d][u])'
    BY Zenon DEF StaleKept
  <2>1. at[d] # "removed" /\ tlb[d][u] # NoFrame /\ tlb[d][u] # pt'[cr3[d]][u] /\ cr3[d] \in Space
    BY <1>12, SMTT(30) DEF Stale, FlushInv, Activation, Types
  <2>2. CASE Stale(d, u)
    <3>1. Pending(d, u, tlb[d][u])
      BY <2>1, <2>2, Zenon DEF FlushInv, StaleKept
    <3>2. CASE Holds(new_op_queue[d], u, tlb[d][u]) \/ Holds(FLUSH_OPS[d], u, tlb[d][u])
      BY <3>2, Zenon DEF Pending, Holds, Covers, handlerVars
    <3>3. ASSUME NEW e \in CPU, cursor[e].space = cr3[d], ToPush(e, d), Holds(ops_stack[e], u, tlb[d][u])
          PROVE  Pending(d, u, tlb[d][u])'
      <4>1. ToPush(e, d)' /\ Holds(ops_stack'[e], u, tlb[d][u])
        BY <1>10, <1>11, <3>3, ZenonT(40) DEF Holds, Covers
      <4>. QED
        BY <3>3, <4>1, ZenonT(40) DEF Pending, Holds, Covers
    <3>. QED
      BY <3>1, <3>2, <3>3, Zenon DEF Pending
  <2>3. CASE ~Stale(d, u)
    <3>1. cr3[d] = s /\ u = v /\ tlb[d][u] = frame
      BY <1>2, <2>1, <2>3, ZenonT(40) DEF Stale
    <3>2. ToPush(c, d)' /\ cursor'[c].space = cr3'[d]
      BY <1>13, <2>1, <3>1, Zenon
    <3>3. Holds(ops_stack'[c], u, tlb'[d][u])
      BY <1>4, <1>5, <3>1, ZenonT(40)
    <3>. QED
      BY <3>2, <3>3, ZenonT(40) DEF Pending, Holds, Covers
  <2>. QED
    BY <2>2, <2>3, Zenon
<1>15. GoneAwaited'
  <2> SUFFICES ASSUME NEW e \in CPU, NEW d \in CPU, NEW u \in Page, Sees(d, e, u)'
               PROVE  AwaitedFlush(e, d, u)'
    BY Zenon DEF GoneAwaited
  <2>1. at[d] # "removed" /\ cr3[d] = cursor[e].space /\ <<u, tlb[d][u]>> \in gone'[e]
    BY <1>12, Zenon DEF Sees
  <2>2. CASE <<u, tlb[d][u]>> \in gone[e]
    <3>1. AwaitedFlush(e, d, u)
      BY <2>1, <2>2, ZenonT(40) DEF FlushInv, GoneAwaited, Sees
    <3>2. ToPush(e, d) /\ Covers(ops_stack[e], u) => (ToPush(e, d) /\ Covers(ops_stack[e], u))'
      BY <1>10, <1>11, ZenonT(40)
    <3>. QED
      BY <1>10, <3>1, <3>2, ZenonT(40) DEF AwaitedFlush, Covers, handlerVars
  <2>3. CASE <<u, tlb[d][u]>> \notin gone[e]
    <3>1. e = c
      BY <1>3, <2>1, <2>3, ZenonT(40)
    <3>2. <<u, tlb[d][u]>> = <<v, frame>>
      BY <1>3, <2>1, <2>3, <3>1, ZenonT(40)
    <3>3. u = v
      BY <3>2, Zenon
    <3>4. ToPush(c, d)' /\ Covers(ops_stack'[c], v)
      BY <1>4, <1>5, <1>13, <2>1, <3>1, ZenonT(40) DEF Holds
    <3>. QED
      BY <3>1, <3>3, <3>4, ZenonT(40) DEF AwaitedFlush, Covers
  <2>. QED
    BY <2>2, <2>3, Zenon
<1>. QED
  BY <1>6, <1>7, <1>8, <1>9, <1>14, <1>15, ZenonT(40) DEF FlushInv

LEMMA MapOverInv ==
    ASSUME FlushInv, NEW c \in CPU, NEW v \in cursor[c].pages, NEW f \in Frame \ InUse, MapOver(c, v, f)
    PROVE  FlushInv'
<1>1. at[c] = "cursor" /\ Moves(c, "load") /\ at' \in [CPU -> Points]
  <2>1. Step(c, "cursor", "load") /\ "load" \in Points
    BY Zenon DEF MapOver, Points
  <2>. QED
    BY <2>1, StepMoves, Zenon DEF FlushInv, Types, Step
<1>2. cursor[c].space \in Space /\ v \in Page
  BY <1>1, Zenon DEF FlushInv, Cursors, Types, NoCursorAt, Activating
<1>3. f # pt[cursor[c].space][v]
  BY <1>2, SMTT(30) DEF InUse
<1>. QED
  BY <1>1, <1>3, ReplaceInv, Zenon DEF MapOver, remoteVars

LEMMA UnmapInv ==
    ASSUME FlushInv, NEW c \in CPU, NEW v \in cursor[c].pages, Unmap(c, v) PROVE FlushInv'
<1>1. at[c] \in {"cursor", "unmap"} /\ Moves(c, "unmap") /\ at' \in [CPU -> Points]
  <2>1. PICK p \in {"cursor", "unmap"} : Step(c, p, "unmap") /\ "unmap" \in Points
    BY Zenon DEF Unmap, Points
  <2>. QED
    BY <2>1, StepMoves, Zenon DEF FlushInv, Types, Step
<1>. QED
  BY <1>1, ReplaceInv, Zenon DEF Unmap, remoteVars

-----------------------------------------------------------------------------
(* Flushes *)

\* FLUSH_OPS of d takes over what the dispatcher had for d.
LEMMA PushToInv == ASSUME FlushInv, NEW c \in CPU, NEW d \in CPU, PushTo(c, d) PROVE FlushInv'
<1> DEFINE rest == left[c] \ {d}
<1>1. at[c] = "push" /\ d \in left[c] /\ rest \in SUBSET CPU /\ targets[c] \ {c} \in SUBSET CPU
  BY Zenon DEF PushTo, FlushInv, FlusherTypes
<1>2. /\ at' \in [CPU -> Points] /\ left' \in [CPU -> SUBSET CPU]
      /\ \A e \in CPU \ {c} : at'[e] = at[e] /\ left'[e] = left[e]
      /\ at'[c] \in {"push", "call"}
      /\ rest # {} => at'[c] = "push" /\ left'[c] = rest
  <2>1. LoopEnd(c, rest, "push", "call", targets[c] \ {c}) /\ "push" \in Points /\ "call" \in Points
    BY Zenon DEF PushTo, Points, Dispatching
  <2> HIDE DEF rest
  <2>. QED
    BY <1>1, <2>1, ZenonT(40) DEF FlushInv, Types, FlusherTypes, LoopEnd
<1>3. UNCHANGED <<spaceVars, tlb, cursor, ops_stack, targets, handlerVars, gone>>
  BY Zenon DEF PushTo, historyVars
<1>4. PICK o : /\ o = push_from(FLUSH_OPS[d], ops_stack[c])
               /\ WellFormed(o) /\ o \in OpsStack
               /\ \A v : Covers(FLUSH_OPS[d], v) \/ Covers(ops_stack[c], v) => Covers(o, v)
               /\ \A v, f : Holds(FLUSH_OPS[d], v, f) \/ Holds(ops_stack[c], v, f) => Holds(o, v, f)
  BY PushFromFacts, SMTT(30) DEF FlushInv, Stacks
<1>5. /\ FLUSH_OPS' \in [CPU -> OpsStack]
      /\ \A e \in CPU : FLUSH_OPS'[e] = IF e = d THEN o ELSE FLUSH_OPS[e]
  BY <1>4, Zenon DEF PushTo, FlushInv, Stacks
<1>6. /\ ACK_REMOTE_FLUSH' \in [CPU -> BOOLEAN] /\ ~ACK_REMOTE_FLUSH'[d]
      /\ \A e \in CPU \ {d} : ACK_REMOTE_FLUSH'[e] = ACK_REMOTE_FLUSH[e]
      /\ have_unsynced_flush' \in [CPU -> SUBSET CPU]
      /\ \A e \in CPU : have_unsynced_flush'[e] =
            IF e = c THEN have_unsynced_flush[c] \cup {d} ELSE have_unsynced_flush[e]
  BY ZenonT(40) DEF PushTo, FlushInv, FlusherTypes
<1>7. Types'
  BY <1>2, <1>3, ZenonT(40) DEF FlushInv, Types, spaceVars
<1>8. FlusherTypes'
  BY <1>2, <1>3, <1>6, ZenonT(40) DEF FlushInv, FlusherTypes
<1>9. Stacks'
  <2>1. ops_stack' \in [CPU -> OpsStack] /\ new_op_queue' \in [CPU -> OpsStack]
    BY <1>3, ZenonT(40) DEF FlushInv, Stacks, handlerVars
  <2>2. ASSUME NEW e \in CPU
        PROVE  /\ WellFormed(ops_stack'[e]) /\ WellFormed(FLUSH_OPS'[e]) /\ WellFormed(new_op_queue'[e])
               /\ ACK_REMOTE_FLUSH'[e] => \A v : ~Covers(FLUSH_OPS'[e], v)
               /\ e \notin handling' => \A v : ~Covers(new_op_queue'[e], v)
    BY <1>3, <1>4, <1>5, <1>6, ZenonT(40) DEF FlushInv, Stacks, handlerVars
  <2>. QED
    BY <1>5, <2>1, <2>2, ZenonT(40) DEF Stacks
<1>10. Activation'
  BY <1>1, <1>2, <1>3, ActivationKept, ZenonT(40) DEF FlushInv, spaceVars, Activating
<1>11. Cursors'
  BY <1>1, <1>2, <1>3, CursorsKept, ZenonT(40) DEF FlushInv, spaceVars, NoCursorAt, Activating
<1>12. Lossless
  BY <1>3, <1>4, <1>5, SMTT(30) DEF Lossless, Holds, Covers, handlerVars
<1>13. ASSUME NEW e \in CPU, NEW x \in CPU, e # c \/ x # d, ToPush(e, x) PROVE ToPush(e, x)'
  <2>1. CASE e # c
    BY <1>2, <1>3, <1>13, <2>1, ZenonT(40) DEF ToPush, spaceVars
  <2>2. CASE e = c
    BY <1>1, <1>2, <1>3, <1>13, <2>2, ZenonT(40) DEF ToPush, Dispatching
  <2>. QED
    BY <2>1, <2>2, Zenon
<1>14. \A e, x \in CPU : Awaited(e, x) => Awaited(e, x)'
  BY <1>1, <1>2, <1>6, ZenonT(40) DEF Awaited
<1>15. Awaited(c, d)'
  BY <1>2, <1>6, ZenonT(40) DEF Awaited
<1>16. \A x \in CPU : at'[x] # "removed" => at[x] # "removed"
  BY <1>1, <1>2, ZenonT(40)
<1>17. StaleKept'
  <2> SUFFICES ASSUME NEW x \in CPU, NEW v \in Page, at'[x] # "removed", Stale(x, v)'
               PROVE  Pending(x, v, tlb[x][v])'
    BY Zenon DEF StaleKept
  <2>1. Pending(x, v, tlb[x][v]) /\ tlb' = tlb /\ cr3' = cr3
    BY <1>3, <1>16, ZenonT(40) DEF FlushInv, StaleKept, Stale, spaceVars
  <2>2. CASE Holds(new_op_queue[x], v, tlb[x][v]) \/ Holds(FLUSH_OPS[x], v, tlb[x][v])
    BY <1>12, <2>1, <2>2, ZenonT(40) DEF Pending, Lossless, Holds, Covers
  <2>3. ASSUME NEW e \in CPU, cursor[e].space = cr3[x], ToPush(e, x), Holds(ops_stack[e], v, tlb[x][v]),
               e # c \/ x # d
        PROVE  Pending(x, v, tlb[x][v])'
    <3>1. ToPush(e, x)'
      BY <1>13, <2>3, ZenonT(40)
    <3>2. cursor'[e].space = cr3'[x] /\ Holds(ops_stack[e], v, tlb[x][v])'
      BY <1>3, <2>1, <2>3, ZenonT(40) DEF Holds, Covers
    <3>. QED
      BY <3>1, <3>2, ZenonT(40) DEF Pending
  <2>4. CASE x = d /\ Holds(ops_stack[c], v, tlb[x][v])
    <3>1. Holds(FLUSH_OPS'[x], v, tlb'[x][v])
      BY <1>4, <1>5, <2>1, <2>4, ZenonT(40)
    <3>. QED
      BY <3>1, ZenonT(40) DEF Pending, Holds, Covers
  <2>. QED
    BY <2>1, <2>2, <2>3, <2>4, ZenonT(40) DEF Pending
<1>18. GoneAwaited'
  <2> SUFFICES ASSUME NEW e \in CPU, NEW x \in CPU, NEW v \in Page, Sees(x, e, v)'
               PROVE  AwaitedFlush(e, x, v)'
    BY Zenon DEF GoneAwaited
  <2>1. AwaitedFlush(e, x, v)
    BY <1>3, <1>16, ZenonT(40) DEF FlushInv, GoneAwaited, Sees, spaceVars
  <2>2. CASE e # c \/ x # d \/ ~(ToPush(e, x) /\ Covers(ops_stack[e], v))
    <3>1. ToPush(e, x) /\ Covers(ops_stack[e], v) => (ToPush(e, x) /\ Covers(ops_stack[e], v))'
      BY <1>3, <1>13, <2>2, ZenonT(40) DEF Covers
    <3>. QED
      BY <1>12, <1>14, <2>1, <3>1, ZenonT(40) DEF AwaitedFlush, Lossless
  <2>3. CASE e = c /\ x = d /\ Covers(ops_stack[c], v)
    <3>1. Covers(FLUSH_OPS'[d], v)
      BY <1>4, <1>5, <2>3, ZenonT(40)
    <3>. QED
      BY <1>15, <2>3, <3>1, ZenonT(40) DEF AwaitedFlush, Covers
  <2>. QED
    BY <2>2, <2>3, ZenonT(40)
<1>. QED
  BY <1>7, <1>8, <1>9, <1>10, <1>11, <1>17, <1>18, Zenon DEF FlushInv

LEMMA FlushSelfInv == ASSUME FlushInv, NEW c \in CPU, FlushSelf(c) PROVE FlushInv'
<1>1. at[c] = "self" /\ Moves(c, "cursor") /\ at' \in [CPU -> Points]
  <2>1. Step(c, "self", "cursor") /\ "cursor" \in Points
    BY Zenon DEF FlushSelf, Points
  <2>. QED
    BY <2>1, StepMoves, ZenonT(40) DEF FlushInv, Types, Step
<1>2. UNCHANGED <<spaceVars, cursor, have_unsynced_flush, left, FLUSH_OPS, ACK_REMOTE_FLUSH, handlerVars,
                  gone>>
  BY Zenon DEF FlushSelf, remoteVars, historyVars
<1>3. /\ tlb' \in [CPU -> [Page -> Frame \cup {NoFrame}]]
      /\ \A d \in CPU, v \in Page :
            tlb'[d][v] = IF d = c /\ c \in targets[c] /\ Covers(ops_stack[c], v) THEN NoFrame ELSE tlb[d][v]
  <2>1. tlb[c] \in [Page -> Frame \cup {NoFrame}]
    BY Zenon DEF FlushInv, Types
  <2>2. PICK new : /\ new = Flushed(ops_stack[c], tlb[c]) /\ new \in [Page -> Frame \cup {NoFrame}]
                   /\ \A v \in Page : new[v] = IF Covers(ops_stack[c], v) THEN NoFrame ELSE tlb[c][v]
    BY <2>1, FlushedFacts, SMTT(30)
  <2>. QED
    BY <2>2, ZenonT(40) DEF FlushSelf, FlushInv, Types
<1>4. /\ targets' \in [CPU -> SUBSET CPU]
      /\ \A d \in CPU : targets'[d] = IF d = c THEN {} ELSE targets[d]
  BY Zenon DEF FlushSelf, FlushInv, FlusherTypes
<1>5. /\ ops_stack' \in [CPU -> OpsStack]
      /\ \A d \in CPU : ops_stack'[d] = IF d = c THEN EmptyOps ELSE ops_stack[d]
  BY EmptyFacts, Zenon DEF FlushSelf, FlushInv, Stacks
<1>6. Types' /\ FlusherTypes'
  BY <1>1, <1>2, <1>3, <1>4, Zenon DEF FlushInv, Types, FlusherTypes, spaceVars
<1>7. Stacks'
  BY <1>2, <1>5, EmptyFacts, ZenonT(40) DEF FlushInv, Stacks, handlerVars
<1>8. Activation'
  BY <1>1, <1>2, <1>3, ActivationKept, ZenonT(40) DEF FlushInv, Moves, spaceVars, Activating
<1>9. Cursors'
  BY <1>1, <1>2, CursorsKept, ZenonT(40) DEF FlushInv, Moves, spaceVars, NoCursorAt, Activating
<1>10. Lossless
  BY <1>2, ZenonT(40) DEF handlerVars, Lossless, Holds, Covers
<1>11. ASSUME NEW e \in CPU, NEW d \in CPU, e # c, ToPush(e, d)
       PROVE  ToPush(e, d)' /\ cursor'[e] = cursor[e] /\ ops_stack'[e] = ops_stack[e]
  BY <1>1, <1>2, <1>4, <1>5, <1>11, Zenon DEF ToPush, spaceVars, Moves
<1>12. \A d \in CPU : ToPush(c, d) => d = c /\ c \in targets[c]
  BY <1>1, Zenon DEF ToPush
<1>13. \A e, d \in CPU : Awaited(e, d) => Awaited(e, d)'
  BY <1>1, <1>2, Zenon DEF Awaited, Moves
<1>14. \A d \in CPU : at'[d] # "removed" => at[d] # "removed"
  BY <1>1, ZenonT(40) DEF Moves
<1>15. StaleKept'
  <2> SUFFICES ASSUME NEW d \in CPU, NEW v \in Page, at'[d] # "removed", Stale(d, v)'
               PROVE  Pending(d, v, tlb[d][v])'
    BY Zenon DEF StaleKept
  <2>1. /\ tlb'[d][v] = tlb[d][v] /\ cr3' = cr3
        /\ ~(d = c /\ c \in targets[c] /\ Covers(ops_stack[c], v))
    BY <1>2, <1>3, ZenonT(40) DEF Stale, spaceVars
  <2>2. Pending(d, v, tlb[d][v])
    BY <1>2, <1>14, <2>1, ZenonT(40) DEF FlushInv, StaleKept, Stale, spaceVars
  <2>3. CASE Holds(new_op_queue[d], v, tlb[d][v]) \/ Holds(FLUSH_OPS[d], v, tlb[d][v])
    BY <1>10, <2>1, <2>3, ZenonT(40) DEF Pending, Lossless, Holds, Covers
  <2>4. ASSUME NEW e \in CPU, cursor[e].space = cr3[d], ToPush(e, d), Holds(ops_stack[e], v, tlb[d][v])
        PROVE  Pending(d, v, tlb[d][v])'
    <3>1. e # c
      BY <1>12, <2>1, <2>4, ZenonT(40) DEF Holds
    <3>2. ToPush(e, d)' /\ cursor'[e] = cursor[e] /\ ops_stack'[e] = ops_stack[e]
      BY <1>11, <2>4, <3>1, ZenonT(40)
    <3>3. cursor'[e].space = cr3'[d] /\ Holds(ops_stack[e], v, tlb[d][v])'
      BY <2>1, <2>4, <3>2, ZenonT(40) DEF Holds, Covers
    <3>. QED
      BY <3>2, <3>3, ZenonT(40) DEF Pending
  <2>. QED
    BY <2>2, <2>3, <2>4, ZenonT(40) DEF Pending
<1>16. GoneAwaited'
  <2> SUFFICES ASSUME NEW e \in CPU, NEW d \in CPU, NEW v \in Page, Sees(d, e, v)'
               PROVE  AwaitedFlush(e, d, v)'
    BY Zenon DEF GoneAwaited
  <2>1. at[d] # "removed" /\ cr3[d] = cursor[e].space /\ <<v, tlb'[d][v]>> \in gone[e]
    BY <1>2, <1>14, ZenonT(40) DEF Sees, spaceVars
  <2>2. tlb'[d][v] # NoFrame
    BY <2>1, Zenon DEF FlushInv, Cursors
  <2>3. tlb'[d][v] = tlb[d][v] /\ ~(d = c /\ c \in targets[c] /\ Covers(ops_stack[c], v))
    BY <1>3, <2>2, ZenonT(40)
  <2>4. AwaitedFlush(e, d, v)
    BY <2>1, <2>3, ZenonT(40) DEF FlushInv, GoneAwaited, Sees
  <2>5. ToPush(e, d) /\ Covers(ops_stack[e], v) => (ToPush(e, d) /\ Covers(ops_stack[e], v))'
    BY <1>11, <1>12, <2>3, ZenonT(40) DEF Covers
  <2>. QED
    BY <1>10, <1>13, <2>4, <2>5, ZenonT(40) DEF AwaitedFlush, Lossless
<1>. QED
  BY <1>6, <1>7, <1>8, <1>9, <1>15, <1>16, Zenon DEF FlushInv

\* The handler acknowledges as it takes the operations, before it performs them;
\* it does not return to the user program in between.
LEMMA TakeOpsInv == ASSUME FlushInv, NEW c \in CPU, TakeOps(c) PROVE FlushInv'
<1>1. UNCHANGED <<spaceVars, tlb, at, cursor, flusherVars, gone>>
  BY Zenon DEF TakeOps, historyVars
<1>2. \A v : ~Covers(new_op_queue[c], v)
  BY IsEmptyFacts, Zenon DEF TakeOps, FlushInv, Stacks
<1>3. /\ new_op_queue' \in [CPU -> OpsStack] /\ FLUSH_OPS' \in [CPU -> OpsStack]
      /\ \A d \in CPU : /\ new_op_queue'[d] = IF d = c THEN FLUSH_OPS[c] ELSE new_op_queue[d]
                        /\ FLUSH_OPS'[d] = IF d = c THEN EmptyOps ELSE FLUSH_OPS[d]
  BY EmptyFacts, Zenon DEF TakeOps, FlushInv, Stacks
<1>4. /\ ACK_REMOTE_FLUSH' \in [CPU -> BOOLEAN]
      /\ \A d \in CPU \ {c} : ACK_REMOTE_FLUSH'[d] = ACK_REMOTE_FLUSH[d]
      /\ handling' = handling \cup {c}
  BY Zenon DEF TakeOps, FlushInv, FlusherTypes
<1>5. Types' /\ FlusherTypes'
  BY <1>1, <1>4, ZenonT(40) DEF FlushInv, Types, FlusherTypes, spaceVars, flusherVars
<1>6. Stacks'
  BY <1>1, <1>3, <1>4, EmptyFacts, ZenonT(40) DEF FlushInv, Stacks, flusherVars
<1>7. Activation'
  BY <1>1, ActivationKept, Zenon DEF FlushInv, spaceVars
<1>8. Cursors'
  BY <1>1, CursorsKept, Zenon DEF FlushInv, spaceVars
<1>9. \A e, d \in CPU : (ToPush(e, d) => ToPush(e, d)') /\ (Awaited(e, d) => Awaited(e, d)')
  BY <1>1, ZenonT(40) DEF ToPush, Awaited, spaceVars, flusherVars
<1>10. \A d \in CPU : \A v, f :
          Holds(new_op_queue[d], v, f) \/ Holds(FLUSH_OPS[d], v, f) =>
             Holds(new_op_queue'[d], v, f) \/ Holds(FLUSH_OPS'[d], v, f)
  BY <1>2, <1>3, ZenonT(40) DEF Holds
<1>11. StaleKept'
  <2> SUFFICES ASSUME NEW d \in CPU, NEW v \in Page, at'[d] # "removed", Stale(d, v)'
               PROVE  Pending(d, v, tlb[d][v])'
    BY Zenon DEF StaleKept
  <2>1. Pending(d, v, tlb[d][v]) /\ tlb' = tlb /\ cr3' = cr3 /\ cursor' = cursor /\ ops_stack' = ops_stack
    BY <1>1, Zenon DEF FlushInv, StaleKept, Stale, spaceVars, flusherVars
  <2>. QED
    BY <1>9, <1>10, <2>1, ZenonT(40) DEF Pending, Holds, Covers
<1>12. GoneAwaited'
  <2>1. \A d \in CPU : \A v : /\ Covers(new_op_queue[d], v) => Covers(new_op_queue'[d], v)
                              /\ Covers(FLUSH_OPS[d], v) => Covers(new_op_queue'[d], v) \/ Covers(FLUSH_OPS'[d], v)
    BY <1>2, <1>3, Zenon
  <2>2. \A e, d \in CPU : \A v : Sees(d, e, v)' => Sees(d, e, v)
    BY <1>1, Zenon DEF Sees, spaceVars
  <2>3. ops_stack' = ops_stack
    BY <1>1, ZenonT(40) DEF flusherVars
  <2>. QED
    BY <1>9, <2>1, <2>2, <2>3, SMTT(30) DEF FlushInv, GoneAwaited, AwaitedFlush, Covers
<1>. QED
  BY <1>5, <1>6, <1>7, <1>8, <1>11, <1>12, Zenon DEF FlushInv

LEMMA RemoteFlushInv == ASSUME FlushInv, NEW c \in CPU, RemoteFlush(c) PROVE FlushInv'
<1>1. UNCHANGED <<spaceVars, at, cursor, flusherVars, FLUSH_OPS, ACK_REMOTE_FLUSH, gone>>
  BY Zenon DEF RemoteFlush, remoteVars, historyVars
<1>2. /\ tlb' \in [CPU -> [Page -> Frame \cup {NoFrame}]]
      /\ \A d \in CPU, v \in Page :
            tlb'[d][v] = IF d = c /\ Covers(new_op_queue[c], v) THEN NoFrame ELSE tlb[d][v]
  <2>1. tlb[c] \in [Page -> Frame \cup {NoFrame}]
    BY Zenon DEF FlushInv, Types
  <2>2. PICK new : /\ new = Flushed(new_op_queue[c], tlb[c]) /\ new \in [Page -> Frame \cup {NoFrame}]
                   /\ \A v \in Page : new[v] = IF Covers(new_op_queue[c], v) THEN NoFrame ELSE tlb[c][v]
    BY <2>1, FlushedFacts, SMTT(30)
  <2>. QED
    BY <2>2, ZenonT(40) DEF RemoteFlush, FlushInv, Types
<1>3. /\ new_op_queue' \in [CPU -> OpsStack]
      /\ \A d \in CPU : new_op_queue'[d] = IF d = c THEN EmptyOps ELSE new_op_queue[d]
      /\ \A d \in CPU \ {c} : d \in handling' <=> d \in handling
  BY EmptyFacts, Zenon DEF RemoteFlush, FlushInv, Stacks
<1>4. Types' /\ FlusherTypes'
  BY <1>1, <1>2, ZenonT(40) DEF FlushInv, Types, FlusherTypes, spaceVars, flusherVars
<1>5. Stacks'
  BY <1>1, <1>3, EmptyFacts, ZenonT(40) DEF FlushInv, Stacks, flusherVars
<1>6. Activation'
  BY <1>1, <1>2, ActivationKept, ZenonT(40) DEF FlushInv, spaceVars
<1>7. Cursors'
  BY <1>1, CursorsKept, Zenon DEF FlushInv, spaceVars
<1>8. \A e, d \in CPU : (ToPush(e, d) => ToPush(e, d)') /\ (Awaited(e, d) => Awaited(e, d)')
  BY <1>1, ZenonT(40) DEF ToPush, Awaited, spaceVars, flusherVars
<1>9. StaleKept'
  <2> SUFFICES ASSUME NEW d \in CPU, NEW v \in Page, at'[d] # "removed", Stale(d, v)'
               PROVE  Pending(d, v, tlb[d][v])'
    BY Zenon DEF StaleKept
  <2>1. tlb'[d][v] = tlb[d][v] /\ ~(d = c /\ Covers(new_op_queue[c], v))
    BY <1>2, Zenon DEF Stale
  <2>2. Pending(d, v, tlb[d][v])
    BY <1>1, <2>1, Zenon DEF FlushInv, StaleKept, Stale, spaceVars
  <2>3. Holds(new_op_queue[d], v, tlb[d][v]) => new_op_queue'[d] = new_op_queue[d]
    BY <1>3, <2>1, Zenon DEF Holds
  <2>. QED
    BY <1>1, <1>8, <2>1, <2>2, <2>3, Zenon DEF Pending, Holds, Covers, spaceVars, flusherVars
<1>10. GoneAwaited'
  <2> SUFFICES ASSUME NEW e \in CPU, NEW d \in CPU, NEW v \in Page, Sees(d, e, v)'
               PROVE  AwaitedFlush(e, d, v)'
    BY Zenon DEF GoneAwaited
  <2>1. at[d] # "removed" /\ cr3[d] = cursor[e].space /\ <<v, tlb'[d][v]>> \in gone[e]
    BY <1>1, ZenonT(40) DEF Sees, spaceVars
  <2>2. tlb'[d][v] # NoFrame
    BY <2>1, Zenon DEF FlushInv, Cursors
  <2>3. tlb'[d][v] = tlb[d][v] /\ ~(d = c /\ Covers(new_op_queue[c], v))
    BY <1>2, <2>2, Zenon
  <2>4. AwaitedFlush(e, d, v)
    BY <2>1, <2>3, Zenon DEF FlushInv, GoneAwaited, Sees
  <2>5. Covers(new_op_queue[d], v) => new_op_queue'[d] = new_op_queue[d]
    BY <1>3, <2>3, ZenonT(40)
  <2>. QED
    BY <1>1, <1>8, <2>4, <2>5, ZenonT(40) DEF AwaitedFlush, Covers, flusherVars
<1>. QED
  BY <1>4, <1>5, <1>6, <1>7, <1>9, <1>10, Zenon DEF FlushInv

-----------------------------------------------------------------------------
(* The theorems *)

LEMMA InitFlush == Init => FlushInv
<1> SUFFICES ASSUME Init PROVE FlushInv
  BY Zenon
<1>1. Types
  <2>1. "kernel" \in Points
    BY Zenon DEF Points
  <2>. QED
    BY <2>1, Zenon DEF Init, Types, NothingCached, NoCursor
<1>2. FlusherTypes
  BY Zenon DEF Init, FlusherTypes
<1>3. Stacks
  BY EmptyFacts, Zenon DEF Init, Stacks
<1>4. \A c \in CPU : /\ at[c] = "kernel" /\ cr3[c] = NoSpace /\ activated[c] = NoSpace
                     /\ cursor[c] = NoCursor /\ gone[c] = {}
                     /\ \A v \in Page : tlb[c][v] = NoFrame
  BY Zenon DEF Init, NothingCached
<1>5. Activation
  BY <1>4, Zenon DEF Activation, Activating
<1>6. Cursors
  <2>1. \A c \in CPU : at[c] \in NoCursorAt /\ cursor[c] = NoCursor
    BY <1>4, Zenon DEF NoCursorAt
  <2>2. \A c \in CPU : cursor[c].pages = {}
    BY <1>4, SMTT(30) DEF NoCursor
  <2>. QED
    BY <1>4, <2>1, <2>2, ZenonT(40) DEF Cursors
<1>7. StaleKept /\ GoneAwaited
  BY <1>4, Zenon DEF StaleKept, Stale, GoneAwaited, Sees
<1>. QED
  BY <1>1, <1>2, <1>3, <1>5, <1>6, <1>7, ZenonT(40) DEF FlushInv

LEMMA StutterFlush == ASSUME FlushInv, UNCHANGED vars PROVE FlushInv'
<1> USE DEF vars, spaceVars, flusherVars, remoteVars, handlerVars, historyVars
<1>1. Types' /\ FlusherTypes'
  BY Zenon DEF FlushInv, Types, FlusherTypes
<1>2. Stacks'
  BY StacksKept, Zenon DEF FlushInv
<1>3. Activation' /\ Cursors'
  BY ActivationKept, CursorsKept, Zenon DEF FlushInv
<1>4. \A e, d \in CPU : (ToPush(e, d) => ToPush(e, d)') /\ (Awaited(e, d) => Awaited(e, d)')
  BY ZenonT(40) DEF ToPush, Awaited
<1>5. StaleKept'
  BY StaleKeptByStep, SMTT(30) DEF FlushInv, Lossless, PushesKept, ToPush, Stale, Holds, Covers
<1>6. GoneAwaited'
  BY <1>4, SMTT(30) DEF FlushInv, GoneAwaited, Sees, AwaitedFlush, Covers
<1>. QED
  BY <1>1, <1>2, <1>3, <1>5, <1>6, Zenon DEF FlushInv

LEMMA NextFlush == FlushInv /\ [Next]_vars => FlushInv'
<1> SUFFICES ASSUME FlushInv, [Next]_vars PROVE FlushInv'
  BY Zenon
<1>1. ASSUME NEW c \in CPU, Walk(c) \/ EnterKernel(c) \/ ReturnToUser(c) PROVE FlushInv'
  BY <1>1, WalkInv, PlainInv, ZenonT(40)
<1>2. ASSUME NEW c \in CPU, Request(c) PROVE FlushInv'
  <2>1. ASSUME NEW s \in Space, Activate(c, s) PROVE FlushInv'
    BY <2>1, ActivateInv, Zenon
  <2>2. ASSUME NEW s \in Edited, NEW P \in SUBSET Page \ {{}}, CursorMut(c, s, P) PROVE FlushInv'
    BY <2>2, CursorMutInv, TlbAssumption, ZenonT(40)
  <2>3. ASSUME NEW v \in cursor[c].pages, NEW f \in Frame \ InUse, Map(c, v, f) \/ MapOver(c, v, f)
        PROVE  FlushInv'
    BY <2>3, MapInv, MapOverInv, ZenonT(40)
  <2>4. ASSUME NEW v \in cursor[c].pages, Unmap(c, v) PROVE FlushInv'
    BY <2>4, UnmapInv, Zenon
  <2>. QED
    BY <1>2, <2>1, <2>2, <2>3, <2>4, SyncInv, DropCursorInv, ZenonT(40) DEF Request
<1>3. ASSUME NEW c \in CPU, Call(c) PROVE FlushInv'
  BY <1>3, ActivateRemoveInv, ActivateLoadInv, PlainInv, LoadTargetsInv, FlushSelfInv, PushToInv,
     InterProcessorCallInv, AcknowledgedInv, ZenonT(40) DEF Call
<1>4. ASSUME NEW c \in CPU, Handler(c) PROVE FlushInv'
  BY <1>4, TakeOpsInv, RemoteFlushInv, ZenonT(40) DEF Handler
<1>. QED
  BY <1>1, <1>2, <1>3, <1>4, StutterFlush, Zenon DEF Next

\* No frame that a user program still reaches through a TLB is reused: whatever the
\* number of CPUs, wherever activate, unmap and the handler of the flush requests
\* interrupt each other, and also where the stacks have given up the addresses
\* (dispatch_tlb_flush, push_from, VmSpace::activate).
THEOREM NoFrameReusedEarly == Spec => []FramesOutliveTlb
<1>1. FlushInv => FramesOutliveTlb
  <2> SUFFICES ASSUME FlushInv, NEW c \in CPU, NEW v \in Page, InUser(c), Stale(c, v)
               PROVE  tlb[c][v] \in Kept
    BY Zenon DEF FramesOutliveTlb
  <2>1. Pending(c, v, tlb[c][v])
    BY Zenon DEF FlushInv, StaleKept, InUser
  <2>2. PICK d \in CPU : \/ tlb[c][v] \in ops_stack[d].page_keeper
                         \/ tlb[c][v] \in FLUSH_OPS[d].page_keeper
                         \/ tlb[c][v] \in new_op_queue[d].page_keeper
    BY <2>1, Zenon DEF Pending, Holds
  <2>. QED
    BY <2>2, SMTT(30) DEF Kept
<1>. QED
  BY <1>1, InitFlush, NextFlush, PTL DEF Spec

\* After sync_tlb_flush no user program sees a mapping that the cursor has removed,
\* although a CPU acknowledges a request before it has performed it, and another
\* dispatcher may withdraw the acknowledgement again (sync_tlb_flush, do_remote_flush).
THEOREM SyncCoherent == Spec => []CoherentAfterSync
<1>1. FlushInv => CoherentAfterSync
  <2> SUFFICES ASSUME FlushInv, NEW c \in CPU, NEW d \in CPU, NEW v \in Page, at[c] = "cursor",
                      have_unsynced_flush[c] = {}, InUser(d), cr3[d] = cursor[c].space,
                      <<v, tlb[d][v]>> \in gone[c]
               PROVE  FALSE
    BY Zenon DEF CoherentAfterSync
  <2>1. AwaitedFlush(c, d, v)
    BY Zenon DEF FlushInv, GoneAwaited, Sees, InUser
  <2>2. ~Covers(new_op_queue[d], v)
    BY Zenon DEF FlushInv, Stacks, InUser
  <2>. QED
    BY <2>1, <2>2, Zenon DEF AwaitedFlush, Awaited, ToPush, Dispatching
<1>. QED
  BY <1>1, InitFlush, NextFlush, PTL DEF Spec
=============================================================================

------------------------------ MODULE Segment ------------------------------
(***************************************************************************)
(* Contiguous ranges of frames (mm/frame/segment.rs) on top of the         *)
(* reference counts of the metadata slots and of the global frame          *)
(* allocator (mm/frame/allocator.rs).                                      *)
(*                                                                         *)
(* A handle is a Segment, a Frame (one page) or a range that into_raw has  *)
(* forgotten.  The loops over the pages of a range are one step per page,  *)
(* so the threads interleave inside from_unused, clone, slice and drop.    *)
(* The last drop of a frame resets the slot and only then gives the page   *)
(* to the allocator.                                                       *)
(***************************************************************************)
EXTENDS Integers, FiniteSets, FiniteSetsExt

CONSTANTS
    SegThread,    \* the threads that work on segments
    SegHandle,    \* the places a handle can be kept in
    PAGE_SIZE,
    MAX_PADDR,    \* the end of physical memory
    FREE_START,   \* boot gives the pages from here on to the allocator
    BootThread    \* the thread that runs before the others exist

VARIABLES
    ref_count,    \* the reference count of each page, or UNUSED
    handle,       \* what each place keeps
    seg_op,       \* the call each thread is in
    free_pages,   \* the pages the global allocator may hand out
    booting,      \* the boot code is still tracking the memory it found
    alloc_panic   \* an unwrap in the allocation path has failed

segVars == <<ref_count, handle, seg_op, free_pages, booting, alloc_panic>>

UNUSED == -1
NoPage == -1

Page == {p \in 0 .. MAX_PADDR - 1 : p % PAGE_SIZE = 0}
Pages(start, end) == {p \in Page : start <= p /\ p < end}

NoHandle == [kind |-> "none", start |-> 0, end |-> 0]
NoOp == [kind |-> "idle", start |-> 0, end |-> 0, at |-> 0, src |-> "none", to |-> "none",
         dealloc |-> NoPage]

Init ==
    /\ ref_count = [p \in Page |-> UNUSED]
    /\ handle = [h \in SegHandle |-> NoHandle]
    /\ seg_op = [t \in SegThread |-> NoOp]
    /\ free_pages = Pages(FREE_START, MAX_PADDR)
    /\ booting = TRUE
    /\ alloc_panic = FALSE

Aligned(x) == x % PAGE_SIZE = 0

Idle(t) == seg_op[t].kind = "idle" /\ ~ alloc_panic

(* A place is free for a new handle when it is empty and no call will fill it. *)
Vacant(h) == handle[h] = NoHandle /\ \A t \in SegThread : seg_op[t].to # h

(* A call that borrows the handle keeps its owner from giving it away. *)
Owned(h, kind) == handle[h].kind = kind /\ \A t \in SegThread : seg_op[t].src # h

Begin(t, kind, start, end, src, to) ==
    seg_op' = [seg_op EXCEPT ![t] = [kind |-> kind, start |-> start, end |-> end, at |-> start,
                                     src |-> src, to |-> to, dealloc |-> NoPage]]

-----------------------------------------------------------------------------
(* Segment::from_unused on memory that the allocator was never given.  Its  *)
(* only callers outside the allocator run at boot, on one thread, and       *)
(* forget the segment.  A misaligned or out-of-bound range is refused       *)
(* before anything is touched, an empty one panics.                         *)
from_unused(t, start, end, h) ==
    /\ booting /\ t = BootThread
    /\ Idle(t)
    /\ Vacant(h)
    /\ Aligned(start) /\ Aligned(end)
    /\ end <= MAX_PADDR
    /\ start < end
    /\ Pages(start, end) \cap free_pages = {}
    /\ Begin(t, "from_unused", start, end, "none", h)
    /\ UNCHANGED <<ref_count, handle, free_pages, booting, alloc_panic>>

BootEnd(t) ==
    /\ booting /\ t = BootThread
    /\ Idle(t)
    /\ booting' = FALSE
    /\ UNCHANGED <<ref_count, handle, seg_op, free_pages, alloc_panic>>

(* FrameAllocOptions::alloc_segment_with (a single frame is the case n = 1): *)
(* no pages or no contiguous run of free pages is an error without effect.   *)
alloc_segment_with(t, start, n, h) ==
    LET end == start + n * PAGE_SIZE IN
    /\ ~ booting
    /\ Idle(t)
    /\ Vacant(h)
    /\ n # 0
    /\ end <= MAX_PADDR
    /\ Pages(start, end) \subseteq free_pages
    /\ free_pages' = free_pages \ Pages(start, end)
    /\ Begin(t, "alloc", start, end, "none", h)
    /\ UNCHANGED <<ref_count, handle, booting, alloc_panic>>

(* One page of the loop.  When a page is in use the pages taken so far are  *)
(* dropped again; the allocation path unwraps the error.                    *)
TakePage(t) ==
    LET o == seg_op[t] IN
    /\ o.kind \in {"from_unused", "alloc"}
    /\ o.at < o.end
    /\ IF ref_count[o.at] = UNUSED
       THEN /\ ref_count' = [ref_count EXCEPT ![o.at] = 1]
            /\ seg_op' = [seg_op EXCEPT ![t].at = @ + PAGE_SIZE]
            /\ UNCHANGED alloc_panic
       ELSE /\ seg_op' = [seg_op EXCEPT ![t] =
                            [@ EXCEPT !.kind = "drop", !.end = o.at, !.at = o.start, !.to = "none"]]
            /\ alloc_panic' = (o.kind = "alloc")
            /\ UNCHANGED ref_count
    /\ UNCHANGED <<handle, free_pages, booting>>

-----------------------------------------------------------------------------
(* Segment::clone and Segment::slice borrow the segment and take one more   *)
(* reference of every page of the (sub)range.                               *)
slice(t, h, from, to, dest) ==
    /\ Idle(t)
    /\ handle[h].kind = "segment"
    /\ Vacant(dest)
    /\ Aligned(from) /\ Aligned(to)
    /\ from <= to /\ to <= handle[h].end - handle[h].start
    /\ Begin(t, "slice", handle[h].start + from, handle[h].start + to, h, dest)
    /\ UNCHANGED <<ref_count, handle, free_pages, booting, alloc_panic>>

clone(t, h, dest) == slice(t, h, 0, handle[h].end - handle[h].start, dest)

inc_frame_ref_count(t) ==
    LET o == seg_op[t] IN
    /\ o.kind = "slice"
    /\ o.at < o.end
    /\ ref_count' = [ref_count EXCEPT ![o.at] = @ + 1]
    /\ seg_op' = [seg_op EXCEPT ![t].at = @ + PAGE_SIZE]
    /\ UNCHANGED <<handle, free_pages, booting, alloc_panic>>

(* The loop has reached the end: the new segment is returned. *)
Return(t) ==
    LET o == seg_op[t] IN
    /\ o.kind \in {"from_unused", "alloc", "slice"}
    /\ o.at = o.end
    /\ handle' = [handle EXCEPT ![o.to] = [kind |-> IF booting THEN "raw" ELSE "segment",
                                            start |-> o.start, end |-> o.end]]
    /\ seg_op' = [seg_op EXCEPT ![t] = NoOp]
    /\ UNCHANGED <<ref_count, free_pages, booting, alloc_panic>>

-----------------------------------------------------------------------------
(* Operations that only move handles around. *)

MoveHandles(new) ==
    /\ handle' = new
    /\ UNCHANGED <<ref_count, seg_op, free_pages, booting, alloc_panic>>

split(t, h, offset, dest) ==
    LET s == handle[h] IN
    /\ Idle(t)
    /\ Owned(h, "segment")
    /\ Vacant(dest)
    /\ Aligned(offset)
    /\ 0 < offset /\ offset < s.end - s.start
    /\ MoveHandles([handle EXCEPT ![h] = [s EXCEPT !.end = s.start + offset],
                                  ![dest] = [s EXCEPT !.start = s.start + offset]])

into_raw(t, h) ==
    /\ Idle(t)
    /\ Owned(h, "segment")
    /\ MoveHandles([handle EXCEPT ![h].kind = "raw"])

from_raw(t, h) ==
    /\ ~ booting
    /\ Idle(t)
    /\ Owned(h, "raw")
    /\ MoveHandles([handle EXCEPT ![h].kind = "segment"])

(* From<Frame> for Segment. *)
from(t, h) ==
    /\ Idle(t)
    /\ Owned(h, "frame")
    /\ MoveHandles([handle EXCEPT ![h].kind = "segment"])

(* Iterator::next gives the first page away as a Frame. *)
next(t, h, dest) ==
    LET s == handle[h] IN
    /\ Idle(t)
    /\ Owned(h, "segment")
    /\ Vacant(dest)
    /\ s.start < s.end
    /\ MoveHandles([handle EXCEPT
                      ![h] = [s EXCEPT !.start = s.start + PAGE_SIZE],
                      ![dest] = [kind |-> "frame", start |-> s.start, end |-> s.start + PAGE_SIZE]])

-----------------------------------------------------------------------------
(* Segment::drop and Frame::drop: one reference of every page of the range. *)
drop(t, h) ==
    /\ Idle(t)
    /\ handle[h].kind \in {"segment", "frame"}
    /\ Owned(h, handle[h].kind)
    /\ Begin(t, "drop", handle[h].start, handle[h].end, "none", "none")
    /\ handle' = [handle EXCEPT ![h] = NoHandle]
    /\ UNCHANGED <<ref_count, free_pages, booting, alloc_panic>>

(* The page given to the allocator while its slot is still in use. *)
DropPageDeallocFirst(t) ==
    LET o == seg_op[t] IN
    /\ o.kind = "drop"
    /\ o.at < o.end
    /\ IF ref_count[o.at] = 1 /\ o.at \notin free_pages
       THEN /\ free_pages' = free_pages \cup {o.at}
            /\ UNCHANGED <<ref_count, seg_op>>
       ELSE /\ ref_count' = [ref_count EXCEPT ![o.at] = IF @ = 1 THEN UNUSED ELSE @ - 1]
            /\ seg_op' = [seg_op EXCEPT ![t].at = @ + PAGE_SIZE]
            /\ UNCHANGED free_pages
    /\ UNCHANGED <<handle, booting, alloc_panic>>

DropPage(t) ==
    LET o == seg_op[t] IN
    /\ o.kind = "drop"
    /\ o.dealloc = NoPage
    /\ o.at < o.end
    /\ ref_count' = [ref_count EXCEPT ![o.at] = IF @ = 1 THEN UNUSED ELSE @ - 1]
    /\ seg_op' = [seg_op EXCEPT ![t].at = @ + PAGE_SIZE,
                                ![t].dealloc = IF ref_count[o.at] = 1 THEN o.at ELSE NoPage]
    /\ UNCHANGED <<handle, free_pages, booting, alloc_panic>>

dealloc(t) ==
    LET o == seg_op[t] IN
    /\ o.dealloc # NoPage
    /\ free_pages' = free_pages \cup {o.dealloc}
    /\ seg_op' = [seg_op EXCEPT ![t].dealloc = NoPage]
    /\ UNCHANGED <<ref_count, handle, booting, alloc_panic>>

DropReturn(t) ==
    LET o == seg_op[t] IN
    /\ o.kind = "drop"
    /\ o.dealloc = NoPage
    /\ o.at = o.end
    /\ seg_op' = [seg_op EXCEPT ![t] = NoOp]
    /\ UNCHANGED <<ref_count, handle, free_pages, booting, alloc_panic>>

Call(t) ==
    \/ booting /\ \E start, end \in 0 .. MAX_PADDR + 1, h \in SegHandle : from_unused(t, start, end, h)
    \/ \E h \in SegHandle :
          /\ Vacant(h)
          /\ \E start \in Page, n \in 0 .. MAX_PADDR \div PAGE_SIZE : alloc_segment_with(t, start, n, h)
    \/ BootEnd(t)
    \/ \E h, dest \in SegHandle :
          /\ handle[h].kind = "segment" /\ Vacant(dest)
          /\ \/ clone(t, h, dest)
             \/ next(t, h, dest)
             \/ \E a, b \in 0 .. MAX_PADDR : slice(t, h, a, b, dest)
             \/ \E offset \in 0 .. MAX_PADDR : split(t, h, offset, dest)
    \/ \E h \in SegHandle : into_raw(t, h) \/ from_raw(t, h) \/ from(t, h) \/ drop(t, h)

Step(t) ==
    \/ TakePage(t) \/ inc_frame_ref_count(t) \/ Return(t)
    \/ DropPage(t) \/ dealloc(t) \/ DropReturn(t)

Next == \E t \in SegThread : (Idle(t) /\ Call(t)) \/ Step(t)

-----------------------------------------------------------------------------
(* The part of a call that already counts: the pages taken so far, or the  *)
(* pages still to be dropped.                                              *)
HoldsInCall(t, p) ==
    LET o == seg_op[t] IN
    \/ o.kind \in {"from_unused", "alloc", "slice"} /\ p \in Pages(o.start, o.at)
    \/ o.kind = "drop" /\ p \in Pages(o.at, o.end)

Holders(p) ==
    Cardinality({h \in SegHandle : p \in Pages(handle[h].start, handle[h].end)})
      + Cardinality({t \in SegThread : HoldsInCall(t, p)})

Reserved(p) ==
    \E t \in SegThread : \/ seg_op[t].dealloc = p
                         \/ seg_op[t].kind = "alloc" /\ p \in Pages(seg_op[t].at, seg_op[t].end)

(* At every moment, also in the middle of from_unused, of its error path,   *)
(* of clone, slice and drop: the reference count of a page is the number of *)
(* handles and calls that hold it, a page nobody holds is unused, and a     *)
(* page of the allocator's memory is free, on its way, or held - exactly    *)
(* one of them, so nothing leaks and nothing is handed out twice.           *)
PagesAccounted ==
    /\ \A p \in Page :
          /\ IF ref_count[p] = UNUSED THEN Holders(p) = 0 ELSE ref_count[p] = Holders(p)
          /\ p \in free_pages => Holders(p) = 0 /\ ~ Reserved(p)
          /\ p >= FREE_START => p \in free_pages \/ Holders(p) > 0 \/ Reserved(p)

(* Frame::from_unused(..).unwrap() and Segment::from_unused(..).unwrap() in *)
(* FrameAllocOptions never meet a page in use: a page reaches the allocator *)
(* only after its slot has been reset.                                      *)
AllocNeverPanics == ~ alloc_panic
=============================================================================

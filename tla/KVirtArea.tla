----------------------------- MODULE KVirtArea ------------------------------
(* Kernel virtual addresses: the allocator of ranges, and the areas that are *)
(* made of them.                                                            *)
EXTENDS Integers, Sequences, SequencesExt, FiniteSets

-----------------------------------------------------------------------------
(***************************************************************************)
(* The first-fit range allocator (util/range_alloc.rs).  The free list is  *)
(* a map from the start of a free block to the block, created by the first *)
(* allocation; every operation runs under the lock of the free list.       *)
(* Allocation takes the end of the first block that is long enough,        *)
(* allocation of a given range cuts it out of the block that contains it,  *)
(* and freeing merges with the neighbours on both sides.                   *)
(***************************************************************************)
CONSTANTS FULL_START, FULL_END   \* the range the allocator manages

VARIABLES
    initialized,  \* the free list exists
    freelist,     \* its blocks, keyed by their start
    allocated     \* the ranges the callers hold

rangeVars == <<initialized, freelist, allocated>>

Block(s, e) == [start |-> s, end |-> e]

RangeInit ==
    /\ initialized = FALSE
    /\ freelist = {}
    /\ allocated = {}

(* What get_freelist_guard returns: the list, created on the first use. *)
Blocks == IF initialized THEN freelist ELSE {Block(FULL_START, FULL_END)}

(* The entry with the least key among some entries. *)
Lowest(B) == CHOOSE b \in B : \A c \in B : b.start <= c.start
Highest(B) == CHOOSE b \in B : \A c \in B : b.start >= c.start

(* BTreeMap::insert replaces an entry with the same key. *)
Insert(B, b) == {c \in B : c.start # b.start} \cup {b}

NonEmpty(b) == {c \in {b} : c.start < c.end}

-----------------------------------------------------------------------------
Fits(size) == {b \in Blocks : b.end - b.start >= size}

(* alloc(size); it fails without effect when no block is long enough. *)
Alloc(size) ==
    /\ Fits(size) # {}
    /\ LET b == Lowest(Fits(size)) IN
         /\ freelist' = (Blocks \ {b}) \cup NonEmpty(Block(b.start, b.end - size))
         /\ allocated' = allocated \cup NonEmpty(Block(b.end - size, b.end))
    /\ initialized' = TRUE

AllocFails(size) ==
    /\ Fits(size) = {}
    /\ initialized' = TRUE
    /\ freelist' = Blocks
    /\ UNCHANGED allocated

Around(r) == {b \in Blocks : b.end >= r.end /\ b.start <= r.start}

(* alloc_specific(r) for a non-empty range inside the managed one. *)
AllocSpecific(r) ==
    /\ FULL_START <= r.start /\ r.start < r.end /\ r.end <= FULL_END
    /\ Around(r) # {}
    /\ LET b == Lowest(Around(r)) IN
         /\ freelist' = (Blocks \ {b}) \cup NonEmpty(Block(b.start, r.start))
                                       \cup NonEmpty(Block(r.end, b.end))
         /\ allocated' = allocated \cup {r}
    /\ initialized' = TRUE

AllocSpecificFails(r) ==
    /\ FULL_START <= r.start /\ r.start < r.end /\ r.end <= FULL_END
    /\ Around(r) = {}
    /\ initialized' = TRUE
    /\ freelist' = Blocks
    /\ UNCHANGED allocated

-----------------------------------------------------------------------------
Before(B, x) == {b \in B : b.start < x}
After(B, x) == {b \in B : b.start > x}

(* The neighbour on the left is absorbed when it ends where the range      *)
(* starts; the block is inserted; then the neighbour on the right is.      *)
MergeLeft(B, r) ==
    {b \in Before(B, r.start) : b = Highest(Before(B, r.start)) /\ b.end = r.start}

MergeRight(B, r) ==
    {b \in After(B, r.start) : b = Lowest(After(B, r.start)) /\ b.start = r.end}

Merged(B, r) ==
    LET left == MergeLeft(B, r)
        r1 == IF left = {} THEN r ELSE Block((CHOOSE b \in left : TRUE).start, r.end)
        B1 == Insert(B \ left, r1)
        right == MergeRight(B1, r1)
        r2 == IF right = {} THEN r1 ELSE Block(r1.start, (CHOOSE b \in right : TRUE).end)
    IN  Insert(B1 \ right, r2)

(* free(r) of a range that was allocated. *)
Free(r) ==
    /\ initialized
    /\ r \in allocated
    /\ freelist' = Merged(freelist, r)
    /\ allocated' = allocated \ {r}
    /\ UNCHANGED initialized

RangeNext ==
    \/ \E size \in 0 .. (FULL_END - FULL_START) + 1 : Alloc(size) \/ AllocFails(size)
    \/ \E s, e \in FULL_START .. FULL_END :
          \/ AllocSpecific(Block(s, e))
          \/ AllocSpecificFails(Block(s, e))
    \/ \E r \in allocated : Free(r)


-----------------------------------------------------------------------------
Apart(a, b) == a.end < b.start \/ b.end < a.start
Disjoint(a, b) == a.end <= b.start \/ b.end <= a.start

(* No address is handed out twice: the ranges the callers hold and the free *)
(* blocks are pairwise disjoint, and together they are the managed range.   *)
(* Free blocks never touch each other, so an allocation fails only when no  *)
(* run of free addresses is long enough.                                    *)
RangesAccounted ==
    /\ \A a, b \in Blocks : a # b => Apart(a, b)
    /\ \A a, b \in allocated : a # b => Disjoint(a, b)
    /\ \A a \in allocated, b \in Blocks : Disjoint(a, b)
    /\ \A x \in FULL_START .. FULL_END - 1 :
          \E b \in Blocks \cup allocated : b.start <= x /\ x < b.end

-----------------------------------------------------------------------------
(***************************************************************************)
(* Kernel virtual areas (mm/kspace/kvirt_area.rs): a range of kernel       *)
(* addresses from the range allocator, mapped in the kernel page table     *)
(* frame by frame or, for untracked physical ranges, with the largest      *)
(* pages that fit (largest_pages, mm/page_table/mod.rs), and unmapped on   *)
(* drop.  The drop is a comment in the source, and the call that would     *)
(* free the range is a comment within it: ranges are never given back.     *)
(* Addresses count base pages.  Threads interleave between the mappings;   *)
(* the kernel page table is what later translations see.                   *)
(***************************************************************************)

CONSTANTS
    KvThread,             \* the threads that create and drop areas
    KvFrame,              \* frames that can be mapped with tracking
    UntrackedPa,          \* physical addresses of device memory
    NR_SUBPAGE,           \* entries of a page table node
    NR_LEVELS,            \* levels of the kernel page table
    HIGHEST_TRANSLATION_LEVEL

VARIABLES
    kpt,          \* the translation of each kernel page, or NoItem
    area,         \* per thread, the area it owns or is building or dropping
    frame_refs    \* the handles of each frame that mappings keep

kvVars == <<initialized, freelist, allocated, kpt, area, frame_refs>>

KVa == FULL_START .. FULL_END - 1

NoItem == [pa |-> -1, tracked |-> FALSE, head |-> 0, level |-> 0]
NoArea == [pc |-> "none", range |-> Block(0, 0), offset |-> 0, va |-> 0,
           frames |-> <<>>, pages |-> <<>>, pa |-> 0, len |-> 0]

page_size[level \in 1 .. NR_LEVELS] ==
    IF level = 1 THEN 1 ELSE NR_SUBPAGE * page_size[level - 1]

KvInit ==
    /\ RangeInit
    /\ kpt = [v \in KVa |-> NoItem]
    /\ area = [t \in KvThread |-> NoArea]
    /\ frame_refs = [f \in KvFrame |-> 0]

-----------------------------------------------------------------------------

(* The levels at which a page would fit but for the physical address. *)
FittingLevelsAnyPa(va, pa, len) ==
    {l \in 1 .. HIGHEST_TRANSLATION_LEVEL : page_size[l] <= len /\ va % page_size[l] = 0}

(* The levels at which the next page fits the rest of the range. *)
FittingLevels(va, pa, len) ==
    {l \in 1 .. HIGHEST_TRANSLATION_LEVEL :
        page_size[l] <= len /\ va % page_size[l] = 0 /\ pa % page_size[l] = 0}

LargestLevel(va, pa, len) ==
    CHOOSE l \in FittingLevels(va, pa, len) : \A m \in FittingLevels(va, pa, len) : m <= l

(* largest_pages(va, pa, len) as the sequence of pages its iterator yields. *)
largest_pages(va, pa, len) ==
    LET from[done \in 0 .. len] ==
            IF done = len THEN <<>>
            ELSE LET l == LargestLevel(va + done, pa + done, len - done)
                 IN  <<[pa |-> pa + done, level |-> l]>> \o from[done + page_size[l]]
    IN  from[0]

(* cursor.map of an item at va: the mappings it covers are replaced. *)
MapItem(va, pa, tracked, level) ==
    [v \in KVa |-> IF va <= v /\ v < va + page_size[level]
                   THEN [pa |-> IF tracked THEN pa ELSE (pa - (pa % page_size[level])) + (v - va),
                         tracked |-> tracked, head |-> va, level |-> level]
                   ELSE kpt[v]]

pte_index(va, level) == (va \div page_size[level]) % NR_SUBPAGE

(* The level of the node that a cursor over len pages at va locks: the walk *)
(* goes down as long as one entry covers the whole range.  The addresses    *)
(* are fresh, so no huge page stops it.                                     *)
guard_level(va, len) ==
    CHOOSE l \in 1 .. NR_LEVELS :
       /\ l > 1 => pte_index(va, l) # pte_index(va + len - 1, l)
       /\ \A m \in l + 1 .. NR_LEVELS : pte_index(va, m) = pte_index(va + len - 1, m)

-----------------------------------------------------------------------------
(* KVirtArea::map_frames: an area that does not fit panics, and so does a   *)
(* list of frames that does not fit in the area.                            *)
map_frames(t, area_size, map_offset, frames) ==
    /\ area[t] = NoArea
    /\ map_offset < area_size
    /\ Len(frames) <= area_size - map_offset
    /\ Alloc(area_size)
    /\ LET r == CHOOSE x \in allocated' \ allocated : TRUE IN
         area' = [area EXCEPT ![t] = [NoArea EXCEPT !.pc = "frames", !.range = r, !.offset = map_offset,
                                        !.va = r.start + map_offset, !.frames = frames]]
    /\ frame_refs' = [f \in KvFrame |-> frame_refs[f]
                        + Cardinality({i \in DOMAIN frames : frames[i] = f})]
    /\ UNCHANGED kpt

MapFrame(t) ==
    LET a == area[t]
        i == a.va - (a.range.start + a.offset) + 1 IN
    /\ a.pc = "frames"
    /\ IF i <= Len(a.frames)
       THEN /\ kpt' = MapItem(a.va, a.frames[i], TRUE, 1)
            /\ area' = [area EXCEPT ![t].va = @ + 1]
       ELSE /\ area' = [area EXCEPT ![t].pc = "live"]
            /\ UNCHANGED kpt
    /\ UNCHANGED <<initialized, freelist, allocated, frame_refs>>

(* KVirtArea::map_untracked_frames; an empty physical range maps nothing. *)
map_untracked_frames(t, area_size, map_offset, pa, len) ==
    /\ area[t] = NoArea
    /\ map_offset + len <= area_size
    /\ Alloc(area_size)
    /\ LET r == CHOOSE x \in allocated' \ allocated : TRUE IN
         area' = [area EXCEPT ![t] = [NoArea EXCEPT !.pc = "untracked", !.range = r, !.offset = map_offset,
                                        !.va = r.start + map_offset, !.pa = pa, !.len = len,
                                        !.pages = largest_pages(r.start + map_offset, pa, len)]]
    /\ UNCHANGED <<kpt, frame_refs>>

(* The loop over the pages.  cursor.map asserts that the page is not above  *)
(* the node the cursor has locked.                                          *)
MapUntracked(t) ==
    LET a == area[t] IN
    /\ a.pc = "untracked"
    /\ a.pages # <<>>
    /\ IF Head(a.pages).level <= guard_level(a.range.start + a.offset, a.len)
       THEN /\ kpt' = MapItem(a.va, Head(a.pages).pa, FALSE, Head(a.pages).level)
            /\ area' = [area EXCEPT ![t].va = @ + page_size[Head(a.pages).level],
                                    ![t].pages = Tail(@)]
       ELSE /\ area' = [area EXCEPT ![t].pc = "panicked"]
            /\ UNCHANGED kpt
    /\ UNCHANGED <<initialized, freelist, allocated, frame_refs>>

MapUntrackedReturns(t) ==
    /\ area[t].pc = "untracked"
    /\ area[t].pages = <<>>
    /\ area' = [area EXCEPT ![t].pc = "live"]
    /\ UNCHANGED <<initialized, freelist, allocated, kpt, frame_refs>>

-----------------------------------------------------------------------------
(* KVirtArea::drop: take the mapped items one after the other and drop the  *)
(* frames of the tracked ones.  The range stays allocated.                  *)
Drop(t) ==
    /\ area[t].pc = "live"
    /\ area' = [area EXCEPT ![t].pc = "drop"]
    /\ UNCHANGED <<initialized, freelist, allocated, kpt, frame_refs>>

MappedIn(r) == {v \in KVa : r.start <= v /\ v < r.end /\ kpt[v] # NoItem}

TakeNext(t) ==
    LET a == area[t] IN
    /\ a.pc = "drop"
    /\ MappedIn(a.range) # {}
    /\ LET v == CHOOSE x \in MappedIn(a.range) : \A y \in MappedIn(a.range) : x <= y
           item == kpt[v] IN
         /\ kpt' = [w \in KVa |-> IF kpt[w].head = item.head THEN NoItem ELSE kpt[w]]
         /\ frame_refs' = IF item.tracked THEN [frame_refs EXCEPT ![item.pa] = @ - 1] ELSE frame_refs
    /\ UNCHANGED <<initialized, freelist, allocated, area>>

DropReturns(t) ==
    /\ area[t].pc = "drop"
    /\ MappedIn(area[t].range) = {}
    /\ area' = [area EXCEPT ![t] = NoArea]
    /\ UNCHANGED <<initialized, freelist, allocated, kpt, frame_refs>>

KvNext ==
    \E t \in KvThread :
       \/ \E size \in 1 .. FULL_END - FULL_START, off \in 0 .. 1 :
             \/ \E frames \in BoundedSeq(KvFrame, 2) : map_frames(t, size, off, frames)
             \/ \E pa \in UntrackedPa, len \in 0 .. size : map_untracked_frames(t, size, off, pa, len)
       \/ MapFrame(t) \/ MapUntracked(t) \/ MapUntrackedReturns(t)
       \/ Drop(t) \/ TakeNext(t) \/ DropReturns(t)

-----------------------------------------------------------------------------
Expected(a, v) ==
    LET i == v - (a.range.start + a.offset) IN
    IF i \in 0 .. Len(a.frames) - 1 THEN a.frames[i + 1]
    ELSE IF i \in 0 .. a.len - 1 THEN a.pa + i
    ELSE -1

(* The physical range of an area is one aligned huge page. *)
OneHugePage(a) ==
    \E l \in 2 .. HIGHEST_TRANSLATION_LEVEL :
       /\ a.len = page_size[l]
       /\ (a.range.start + a.offset) % page_size[l] = 0
       /\ a.pa % page_size[l] = 0

(* Every address of a live area translates to the frame or the physical     *)
(* address it was created for, whatever mix of page sizes was chosen, and   *)
(* to nothing in the rest of the area.  Nothing else is translated: a       *)
(* dropped area leaves no page behind, and one whose creation panicked has  *)
(* mapped none.  map_untracked_frames panics in the cursor exactly when the *)
(* physical range is one aligned huge page, so the precondition in the      *)
(* source, a length that is not the size of a huge page, is enough.  And a  *)
(* frame is kept by as many handles as it has mappings.                     *)
AreasTranslate ==
    /\ \A t \in KvThread : area[t].pc = "live" =>
          \A v \in KVa : area[t].range.start <= v /\ v < area[t].range.end =>
             kpt[v].pa = Expected(area[t], v)
    /\ \A v \in KVa : kpt[v] # NoItem =>
          \E t \in KvThread :
             /\ area[t].pc # "panicked"
             /\ area[t].range.start <= v /\ v < area[t].range.end
    /\ \A t \in KvThread :
          /\ area[t].pc = "panicked" => OneHugePage(area[t])
          /\ area[t].pc \in {"live", "drop"} => ~ OneHugePage(area[t])
    /\ (\A t \in KvThread : area[t].pc # "frames") =>
          \A f \in KvFrame : frame_refs[f] = Cardinality({v \in KVa : kpt[v].pa = f})
=============================================================================

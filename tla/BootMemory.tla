----------------------------- MODULE BootMemory -----------------------------
(***************************************************************************)
(* How boot turns what the loader reports into memory the kernel may use:  *)
(* the loader's regions are collected and made disjoint                    *)
(* (boot/memory_region.rs), a bump allocator serves the first allocations  *)
(* (EarlyFrameAllocator, mm/frame/allocator.rs), the metadata of every     *)
(* page is set up and the pages in use are tracked (mm/frame/meta.rs), and *)
(* what is left goes to the global frame allocator.                        *)
(*                                                                         *)
(* Boot runs on one CPU.  Addresses are small numbers; PADDR4G is the      *)
(* border between the two regions the bump allocator may use.              *)
(***************************************************************************)
EXTENDS Integers, Sequences, SequencesExt, FiniteSets, FiniteSetsExt

CONSTANTS
    Reported,      \* the memory map entries a loader can report: [base, len, typ]
    Framebuffers,  \* framebuffers it can report: [address, width, height, bpp]
    Modules,       \* files it can leave in memory: [vaddr, len]
    LINEAR_BASE,   \* where the linear mapping of physical memory starts
    LEN,           \* the length of MemoryRegionArray
    MaxReports,    \* reports in one boot
    BOOT_PAGE,     \* PAGE_SIZE
    PADDR4G,
    SLOT_SIZE,     \* size of a MetaSlot
    EarlySizes,    \* sizes of the allocations before the metadata exist
    LOW_ALIGN, HIGH_ALIGN, HIGH_TOP   \* where device memory may lie

VARIABLES
    phase,         \* how far boot has come
    reports,       \* what has been pushed, a ghost after normalization
    regions,       \* the MemoryRegionArray
    sweep,         \* into_non_overlapping: cur_right and result
    early,         \* the early allocator: start, tail and end of its two ranges
    slot,          \* what each page's metadata slot says; "unused" when free
    free_memory,   \* the pages given to the global frame allocator
    mmio           \* the ranges of the device memory allocator

bootVars == <<phase, reports, regions, sweep, early, slot, free_memory, mmio>>

(* Ordered by usability. *)
TypeOrder == <<"BadMemory", "Unknown", "NonVolatileSleep", "Reserved", "Kernel", "Module",
               "Framebuffer", "Reclaimable", "Usable">>
Rank(typ) == CHOOSE i \in DOMAIN TypeOrder : TypeOrder[i] = typ

End(r) == r.base + r.len
Region(base, len, typ) == [base |-> base, len |-> len, typ |-> typ]
NoEarly == [lo_start |-> 0, lo_tail |-> 0, lo_end |-> 0, hi_start |-> 0, hi_tail |-> 0, hi_end |-> 0]

AlignDown(x, a) == x - (x % a)
AlignUp(x, a) == AlignDown(x + a - 1, a)

Init ==
    /\ phase = "collect"
    /\ reports = <<>>
    /\ regions = <<>>
    /\ sweep = [cur_right |-> 0, result |-> <<>>]
    /\ early = NoEarly
    /\ slot = <<>>
    /\ free_memory = {}
    /\ mmio = {}

-----------------------------------------------------------------------------
(* The regions built from the loader's other information: the framebuffer's *)
(* size is given in bits, a module is found in the linear mapping.          *)
framebuffer(fb) ==
    Region(fb.address, (fb.width * fb.height * fb.bpp + 7) \div 8, "Framebuffer")

module(bytes) == Region(bytes.vaddr - LINEAR_BASE, bytes.len, "Reclaimable")

(* MemoryRegionArray::push; every caller unwraps the error of a full array. *)
push(r) ==
    /\ phase = "collect"
    /\ Len(reports) < MaxReports
    /\ IF Len(regions) >= LEN
       THEN phase' = "panic" /\ UNCHANGED <<reports, regions>>
       ELSE /\ regions' = Append(regions, r)
            /\ reports' = Append(reports, r)
            /\ UNCHANGED phase
    /\ UNCHANGED <<sweep, early, slot, free_memory, mmio>>

(* Usable memory shrinks to whole pages, anything else grows. *)
as_aligned(r) ==
    IF r.typ = "Usable"
    THEN LET base == AlignUp(r.base, BOOT_PAGE)
             end == AlignDown(End(r), BOOT_PAGE)
         IN  Region(base, IF end < base THEN 0 ELSE end - base, r.typ)
    ELSE LET base == AlignDown(r.base, BOOT_PAGE)
         IN  Region(base, AlignUp(End(r), BOOT_PAGE) - base, r.typ)

(* into_non_overlapping, first loop: align and drop what became empty. *)
AlignRegions ==
    /\ phase = "collect"
    /\ regions # <<>>
    /\ regions' = SelectSeq([i \in DOMAIN regions |-> as_aligned(regions[i])], LAMBDA r : r.len > 0)
    /\ phase' = "sweep"
    /\ UNCHANGED <<reports, sweep, early, slot, free_memory, mmio>>

max_region_end == Max({0} \cup {End(r) : r \in Range(regions)})

Covering(x) == {r \in Range(regions) : r.base <= x /\ x < End(r)}

most_restrictive_type(x) ==
    IF Covering(x) = {} THEN "Unknown" ELSE (CHOOSE r \in Covering(x) :
        \A s \in Covering(x) : Rank(r.typ) <= Rank(s.typ)).typ

next_region_boundary(x) ==
    Min({IF r.base > x THEN r.base ELSE End(r) : r \in {s \in Range(regions) : End(s) > x}})

(* Second loop: the next piece with one type. *)
SweepPiece ==
    /\ phase = "sweep"
    /\ sweep.cur_right < max_region_end
    /\ LET right == next_region_boundary(sweep.cur_right)
           piece == Region(sweep.cur_right, right - sweep.cur_right,
                           most_restrictive_type(sweep.cur_right))
       IN  IF Len(sweep.result) >= LEN
           THEN phase' = "panic" /\ UNCHANGED sweep
           ELSE /\ sweep' = [cur_right |-> right, result |-> Append(sweep.result, piece)]
                /\ UNCHANGED phase
    /\ UNCHANGED <<reports, regions, early, slot, free_memory, mmio>>

(* Third loop: neighbours with the same type become one region. *)
Merge(pieces) ==
    FoldLeft(LAMBDA acc, r :
                IF acc # <<>> /\ Last(acc).typ = r.typ
                THEN [acc EXCEPT ![Len(acc)].len = @ + r.len]
                ELSE Append(acc, r),
             <<>>, pieces)

MergePieces ==
    /\ phase = "sweep"
    /\ sweep.cur_right >= max_region_end
    /\ regions' = Merge(sweep.result)
    /\ phase' = "regions"
    /\ UNCHANGED <<reports, sweep, early, slot, free_memory, mmio>>

-----------------------------------------------------------------------------
Usable == {r \in Range(regions) : r.typ = "Usable"}

(* The first of the longest ranges; an empty choice is 0..0. *)
Longest(ranges) ==
    LET longest == {r \in ranges : r[2] > r[1] /\ \A s \in ranges : s[2] - s[1] <= r[2] - r[1]}
    IN  IF longest = {} THEN <<0, 0>> ELSE CHOOSE r \in longest : \A s \in longest : r[1] <= s[1]

Under4G == {<<r.base, Min({End(r), PADDR4G})>> : r \in {s \in Usable : s.base < PADDR4G}}
Above4G == {<<Max({r.base, PADDR4G}), End(r)>> : r \in {s \in Usable : End(s) >= PADDR4G}}

(* init_early_allocator *)
init_early_allocator ==
    /\ phase = "regions"
    /\ LET lo == Longest(Under4G)
           hi == Longest(Above4G)
       IN  early' = [lo_start |-> lo[1], lo_tail |-> lo[1], lo_end |-> lo[2],
                     hi_start |-> hi[1], hi_tail |-> hi[1], hi_end |-> hi[2]]
    /\ phase' = "early"
    /\ UNCHANGED <<reports, regions, sweep, slot, free_memory, mmio>>

(* EarlyFrameAllocator::alloc: where the allocation ends up and the         *)
(* allocator after it; start -1 is None.                                    *)
EarlyAlloc(e, bytes, alignment) ==
    LET size == AlignUp(bytes, BOOT_PAGE)
        align == Max({alignment, BOOT_PAGE})
        lo == AlignUp(e.lo_tail, align)
        hi == AlignUp(e.hi_tail, align)
    IN  IF lo + size <= e.lo_end THEN [start |-> lo, early |-> [e EXCEPT !.lo_tail = lo + size]]
        ELSE IF hi + size <= e.hi_end THEN [start |-> hi, early |-> [e EXCEPT !.hi_tail = hi + size]]
        ELSE [start |-> -1, early |-> e]

(* early_alloc for the CPU-local areas and the boot page table. *)
early_alloc(bytes, alignment) ==
    /\ phase = "early"
    /\ LET a == EarlyAlloc(early, bytes, alignment) IN
         /\ early' = a.early
         /\ phase' = IF a.start = -1 THEN "panic" ELSE "early"
    /\ UNCHANGED <<reports, regions, sweep, slot, free_memory, mmio>>

(* range_difference, as the set of addresses that remain. *)
Addresses(start, end) == start .. end - 1
PagesIn(S) == {p \in S : p % BOOT_PAGE = 0}

allocated_regions(e) == Addresses(e.lo_start, e.lo_tail) \cup Addresses(e.hi_start, e.hi_tail)

max_paddr == Max({End(r) : r \in Usable})

(* mark_unusable_ranges: regions above the last usable one have no slots. *)
Unusable(p) == \E r \in Range(regions) : r.typ # "Usable" /\ r.base <= p /\ p < End(r)

SlotOf(p) ==
    LET typ == (CHOOSE r \in Range(regions) : r.base <= p /\ p < End(r)).typ IN
    CASE typ \in {"BadMemory", "NonVolatileSleep", "Module", "Reclaimable"} -> "unusable"
      [] typ \in {"Unknown", "Reserved", "Framebuffer"} -> "reserved"
      [] typ = "Kernel" -> "kernel"

(* Segment::from_unused refuses a page that is tracked already, and boot    *)
(* unwraps the refusal.                                                     *)
MarkedTwice(tracked, meta) == \E p \in (tracked \cup meta) : Unusable(p)

(* meta::init: allocate and clear the slots, then track what is in use. *)
meta_init ==
    /\ phase = "early"
    /\ IF Usable = {}
       THEN phase' = "panic" /\ UNCHANGED <<early, slot>>
       ELSE LET pages == max_paddr \div BOOT_PAGE
                bytes == AlignUp(pages * SLOT_SIZE, BOOT_PAGE)
                a == EarlyAlloc(early, bytes, BOOT_PAGE)
                meta == PagesIn(Addresses(a.start, a.start + bytes))
                tracked == PagesIn(allocated_regions(a.early)) \ meta
            IN  IF a.start = -1
                THEN phase' = "panic" /\ UNCHANGED <<early, slot>>
                ELSE /\ early' = a.early
                     /\ slot' = [p \in PagesIn(Addresses(0, max_paddr)) |->
                                   IF p \in meta THEN "meta"
                                   ELSE IF p \in tracked THEN "early"
                                   ELSE IF Unusable(p) THEN SlotOf(p)
                                   ELSE "unused"]
                     /\ phase' = IF MarkedTwice(tracked, meta) THEN "double" ELSE "meta"
    /\ UNCHANGED <<reports, regions, sweep, free_memory, mmio>>

(* allocator::init: usable memory without the early allocations. *)
AllUsable == UNION {Addresses(r.base, End(r)) : r \in Usable}

FreeAddresses == AllUsable \ allocated_regions(early)

allocator_init ==
    /\ phase = "meta"
    /\ free_memory' = PagesIn(FreeAddresses)
    /\ phase' = "up"
    /\ UNCHANGED <<reports, regions, sweep, early, slot, mmio>>

(* construct_io_mem_allocator_builder: device memory lies above the last    *)
(* region below 4 GiB that is not free for devices, and above the last one  *)
(* beyond it; no room panics.                                               *)
Backed == {r \in Range(regions) : r.typ \notin {"Unknown", "Reserved", "Framebuffer"}}
TopOf(R) == End(CHOOSE r \in R : \A s \in R : s.base <= r.base)

construct_io_mem_allocator_builder ==
    LET low == {r \in Backed : r.base < PADDR4G - 1}
        high == Backed \ low
        low_start == AlignUp(TopOf(low), LOW_ALIGN)
        high_start == AlignUp(IF high = {} THEN HIGH_ALIGN ELSE TopOf(high), HIGH_ALIGN)
    IN  /\ phase = "up"
        /\ IF low # {} /\ low_start < PADDR4G /\ high_start < HIGH_TOP
           THEN /\ mmio' = {<<low_start, PADDR4G>>, <<high_start, HIGH_TOP>>}
                /\ phase' = "mmio"
           ELSE phase' = "panic" /\ UNCHANGED mmio
        /\ UNCHANGED <<reports, regions, sweep, early, slot, free_memory>>

Next ==
    \/ \E r \in Reported : push(r)
    \/ \E fb \in Framebuffers : push(framebuffer(fb))
    \/ \E bytes \in Modules : push(module(bytes))
    \/ AlignRegions \/ SweepPiece \/ MergePieces
    \/ init_early_allocator
    \/ \E bytes \in EarlySizes, a \in {1, 2 * BOOT_PAGE} : early_alloc(bytes, a)
    \/ meta_init
    \/ allocator_init
    \/ construct_io_mem_allocator_builder

-----------------------------------------------------------------------------
Reports == Range(reports)
Touches(r, p) == r.base < p + BOOT_PAGE /\ p < End(r)
Within(r, p) == r.base <= p /\ p + BOOT_PAGE <= End(r)

(* When boot is done, a page is with the allocator exactly when it lies in  *)
(* reported usable memory, no other report touches any byte of it, and the  *)
(* early allocator has not used it; its slot is then unused, and every      *)
(* other page below the last usable address is tracked, once.  No page with *)
(* memory behind it is left to device drivers.                              *)
MemoryAccounted ==
    /\ phase # "double"
    /\ phase \in {"up", "mmio"} =>
         /\ \A p \in free_memory :
               /\ p \in DOMAIN slot /\ slot[p] = "unused"
               /\ \E r \in Reports : r.typ = "Usable" /\ Within(r, p)
               /\ \A r \in Reports : Touches(r, p) => r.typ = "Usable"
         /\ \A p \in DOMAIN slot : slot[p] = "unused" => p \in free_memory
         /\ \A p \in DOMAIN slot : slot[p] \in {"unused", "early", "meta"} <=>
               /\ \E r \in Reports : r.typ = "Usable" /\ Within(r, p)
               /\ \A r \in Reports : Touches(r, p) => r.typ = "Usable"
         /\ \A range \in mmio, r \in Backed : r.base >= range[2] \/ End(r) <= range[1]
=============================================================================

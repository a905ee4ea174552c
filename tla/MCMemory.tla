------------------------------ MODULE MCMemory ------------------------------
(***************************************************************************)
(* The components of memory, devices and interrupts that TLC checks in one *)
(* run.  They share no state, so every behaviour is one of one component,  *)
(* chosen in the initial state.  They use the cells s1 .. s12 in turn, and *)
(* the instances below say which variable is kept in which cell.           *)
(***************************************************************************)
EXTENDS Integers, Sequences, TLC

VARIABLES component, s1, s2, s3, s4, s5, s6, s7, s8, s9, s10, s11, s12

cells == <<s1, s2, s3, s4, s5, s6, s7, s8, s9, s10, s11, s12>>
memVars == <<component, cells>>

Unused == "unused"

\* A component with n variables leaves the cells behind the n-th alone.
InitBehind(n) ==
    /\ IF n < 2 THEN s2 = Unused ELSE TRUE
    /\ IF n < 3 THEN s3 = Unused ELSE TRUE
    /\ IF n < 4 THEN s4 = Unused ELSE TRUE
    /\ IF n < 5 THEN s5 = Unused ELSE TRUE
    /\ IF n < 6 THEN s6 = Unused ELSE TRUE
    /\ IF n < 7 THEN s7 = Unused ELSE TRUE
    /\ IF n < 8 THEN s8 = Unused ELSE TRUE
    /\ IF n < 9 THEN s9 = Unused ELSE TRUE
    /\ IF n < 10 THEN s10 = Unused ELSE TRUE
    /\ IF n < 11 THEN s11 = Unused ELSE TRUE
    /\ IF n < 12 THEN s12 = Unused ELSE TRUE

SameBehind(n) ==
    /\ IF n < 2 THEN s2' = s2 ELSE TRUE
    /\ IF n < 3 THEN s3' = s3 ELSE TRUE
    /\ IF n < 4 THEN s4' = s4 ELSE TRUE
    /\ IF n < 5 THEN s5' = s5 ELSE TRUE
    /\ IF n < 6 THEN s6' = s6 ELSE TRUE
    /\ IF n < 7 THEN s7' = s7 ELSE TRUE
    /\ IF n < 8 THEN s8' = s8 ELSE TRUE
    /\ IF n < 9 THEN s9' = s9 ELSE TRUE
    /\ IF n < 10 THEN s10' = s10 ELSE TRUE
    /\ IF n < 11 THEN s11' = s11 ELSE TRUE
    /\ IF n < 12 THEN s12' = s12 ELSE TRUE

-----------------------------------------------------------------------------
\* One frame (operations on different frames share nothing), three threads, and
\* the largest count within reach.
F == INSTANCE FrameMeta WITH
        Frame <- {"f1"}, Thread <- {"t1", "t2", "t3"}, Meta <- {"m1", "m2"}, REF_COUNT_MAX <- 4,
        ref_count <- s1, meta <- s2, handles <- s3, unique <- s4, pc <- s5, arg <- s6, last <- s7

\* Two lists and three frames; the fourth identity of a list would abort.
L == INSTANCE LinkedList WITH
        Frame <- {"f1", "f2", "f3"}, List <- {"l1", "l2"}, MAX_LIST_ID <- 4,
        front <- s1, back <- s2, size <- s3, list_id <- s4, LIST_ID_ALLOCATOR <- s5,
        links <- s6, in_list <- s7, cursor <- s8, held <- s9, found <- s10

\* Three pages, one of which the boot code keeps to itself.
S == INSTANCE Segment WITH
        SegThread <- {"t1", "t2"}, SegHandle <- {"h1", "h2"}, BootThread <- "t1",
        PAGE_SIZE <- 2, MAX_PADDR <- 6, FREE_START <- 4,
        ref_count <- s1, handle <- s2, seg_op <- s3, free_pages <- s4, booting <- s5,
        alloc_panic <- s6

\* Four kernel pages, huge pages of two, and device memory at an odd address too.
K == INSTANCE KVirtArea WITH
        FULL_START <- 2, FULL_END <- 6, KvThread <- {"k1", "k2"}, KvFrame <- {9},
        UntrackedPa <- {0, 3}, NR_SUBPAGE <- 2, NR_LEVELS <- 3, HIGHEST_TRANSLATION_LEVEL <- 2,
        initialized <- s1, freelist <- s2, allocated <- s3, kpt <- s4, area <- s5,
        frame_refs <- s6

\* Memory maps with overlaps, an empty entry and an entry beyond the boundary
\* between low and high memory, with a framebuffer and a module.
Region(b, l, t) == [base |-> b, len |-> l, typ |-> t]
MemoryMap ==
    {Region(0, 6, "Usable"), Region(1, 9, "Usable"), Region(8, 8, "Usable"),
     Region(9, 5, "Usable"), Region(2, 12, "Usable"), Region(3, 1, "Reserved"),
     Region(0, 16, "Reserved"), Region(4, 3, "Kernel"), Region(5, 0, "Kernel"),
     Region(9, 2, "BadMemory")}
B == INSTANCE BootMemory WITH
        Reported <- MemoryMap,
        Framebuffers <- {[address |-> 11, width |-> 3, height |-> 1, bpp |-> 4]},
        Modules <- {[vaddr |-> 107, len |-> 3]}, LINEAR_BASE <- 100,
        LEN <- 5, MaxReports <- 3, BOOT_PAGE <- 2, PADDR4G <- 8, SLOT_SIZE <- 1,
        EarlySizes <- {1, 3}, LOW_ALIGN <- 2, HIGH_ALIGN <- 8, HIGH_TOP <- 32,
        phase <- s1, reports <- s2, regions <- s3, sweep <- s4, early <- s5, slot <- s6,
        free_memory <- s7, mmio <- s8

\* Two pages of two slots each.
H == INSTANCE Heap WITH
        HEAP_PAGE <- 4, SLOT_SIZE <- 2, HeapPages <- {4, 8},
        slabs <- s1, slot_list <- s2, words <- s3, slots <- s4, objects <- s5,
        leaked <- s6, heap_abort <- s7

\* Windows of three kernel and two user bytes, values of two bytes.
V == INSTANCE VmIo WITH
        ObjLen <- 3, UserLen <- 2, ValLen <- 2, MaxIoOps <- 2,
        vm_mem <- s1, faulting <- s2, activated <- s3, vm_reader <- s4, vm_writer <- s5,
        last_op <- s6, before_op <- s7, io_ops <- s8

\* A root and one child, tracked frames and an untracked huge page.
N == INSTANCE PtNode WITH
        PtKind <- {"user", "kernel"}, PtRoot <- 20, PtChildren <- {21}, PtFrames <- {1},
        HugePa <- 10, NR_ENTRIES <- 2, MaxHeld <- 2,
        pt_kind <- s1, pt_node <- s2, pt_refs <- s3, pt_held <- s4, pt_entry <- s5,
        pt_panic <- s6

\* Two spaces on two CPUs.
A == INSTANCE AddressSpace WITH
        SpaceCpu <- {"c0", "c1"}, Space <- {"s1", "s2"}, KernelIndex <- {1},
        UserIndex <- {0}, MaxHandles <- 2,
        kernel_up <- s1, node_refs <- s2, root_entry <- s3, handles <- s4, strong <- s5,
        cpus <- s6, ACTIVATED_VM_SPACE <- s7, cr3 <- s8, activating <- s9

\* Six-bit addresses: both halves, the last entry of the table, no sign
\* extension, and a table that does not translate all bits.
PtConfig == [page_bits |-> 1, index_bits |-> 2, levels |-> 2, width |-> 5,
             sign_ext |-> TRUE, first |-> 0, last |-> 2]
Y == INSTANCE PteFormat WITH
        PteArch <- {"x86", "riscv", "loongarch", "iommu"}, PageNumber <- {4},
        PteFlag <- {"R", "W", "X", "DIRTY", "AVAIL1"},
        arch <- s1, pte <- s2, meant <- s3,
        USIZE_BITS <- 6,
        PtConfigs <- {PtConfig,
                      [PtConfig EXCEPT !.first = 2, !.last = 4],
                      [PtConfig EXCEPT !.first = 3, !.last = 4],
                      [PtConfig EXCEPT !.first = 1, !.last = 2],
                      [PtConfig EXCEPT !.sign_ext = FALSE, !.last = 4],
                      [PtConfig EXCEPT !.width = 4, !.last = 1],
                      [PtConfig EXCEPT !.width = 4, !.first = 1, !.last = 2]},
        pt_config <- s1, asked <- s2

-----------------------------------------------------------------------------
\* Three registers: absent, 32-bit (the reserved type 2 among them), I/O and
\* 64-bit BARs, with and without an address from the firmware.  Capability lists
\* with and without MSI-X, whose two BARs are the same or not.  Three places on the
\* bus, two drivers.
Reg(size, flags, base) == [size |-> size, flags |-> flags, value |-> base + flags]
Singles ==
    {<<r>> : r \in {Reg(256, 0, 0), Reg(16, 0, 16), Reg(32, 8, 64), Reg(16, 0, 0),
                    Reg(16, 2, 32), Reg(4, 1, 8), Reg(8, 1, 0)}}
Mem64 ==
    {<<Reg(32, 4, 64), Reg(1, 0, h)>> : h \in {0, 1, 17}}
        \cup {<<Reg(128, 12, 0), Reg(1, 0, h)>> : h \in {0, 1, 16}}
Pairs == Mem64 \cup {a \o b : a \in Singles, b \in Singles}
Layouts == {a \o b : a \in Singles, b \in Mem64} \cup {b \o a : a \in Singles, b \in Pairs}
Cap(ptr) == [ptr |-> ptr, msix |-> [table |-> 0, pba |-> 0]]
Msix(ptr, table, pba) == [ptr |-> ptr, msix |-> [table |-> table, pba |-> pba]]
P == INSTANCE Pci WITH
        REG <- 256, BarLayouts <- Layouts,
        CapLists <- {<<>>, <<Cap(12), Cap(4)>>, <<Cap(8), Msix(4, 1, 1)>>,
                     <<Cap(4), Msix(12, 2, 1), Cap(8)>>},
        CAPABILITY_TOP <- 16, MsixEntry <- {1, 2, 3}, table_size <- 2,
        PciLine <- {"i", "j", "k"},
        header_type <- s1, remapped <- s2, cfg_bars <- s3, cfg_boot <- s4, bar_idx <- s5,
        bars <- s6, cap_list <- s7, capabilities <- s8, msix <- s9, irqs <- s10,
        setting <- s11, cfg_state <- s12,
        PciLocation <- <<"l1", "l2", "l3">>, PciDriver <- {"d1", "d2"},
        present <- s1, pci_lock <- s2, to_visit <- s3, rounds <- s4, common_devices <- s5,
        devices <- s6, drivers <- s7, probes <- s8

\* Two windows that no page boundary limits, one register and one port of the
\* system's.
M == INSTANCE IoResources WITH
        Managed <- <<<<4, 9>>, <<11, 13>>>>, SystemMmio <- {<<5, 6>>}, IO_PAGE <- 4,
        Driver <- {"d1", "d2"},
        io_up <- s1, granted <- s2, iomem <- s3,
        PortDriver <- {"d1", "d2"}, MAX_IO_PORT <- 6, SensitivePorts <- {2},
        PortWidth <- {1, 2},
        ports_up <- s1, port_bits <- s2, io_port <- s3,
        Capacity <- 6, bitset <- s1, first_available_id <- s2

\* Overlapping and separate segments, remapped by the IOMMU.
D == INSTANCE Dma WITH
        DmaObj <- {"d1", "d2"}, DmaSegment <- {{0, 1}, {1, 2}, {3}}, HasRemapping <- TRUE,
        InsertsPages <- TRUE, MaxClones <- 2,
        DMA_MAPPING_SET <- s1, dma_obj <- s2, iommu_pages <- s3, uncached <- s4,
        dma_grants <- s5, dma_panic <- s6

\* Two of the three callbacks are zero-sized and share an address.  A context
\* has two guards at most.
I == INSTANCE Interrupts WITH
        IrqIndex <- {0, 1}, LineHandle <- {"h1", "h2", "h3"}, Callback <- {"a", "b", "c"},
        CallbackAddr <- ("a" :> 1 @@ "b" :> 1 @@ "c" :> 2),
        irq_ids <- s1, line <- s2, callbacks <- s3, irq_panic <- s4,
        MaxGuards <- 2,
        irq_enabled <- s1, INTERRUPT_NESTED_LEVEL <- s2, preempt_count <- s3, stack <- s4,
        bottom_handler <- s5

\* Part of a word, a word, and a word and a half.  Two chunks of four objects,
\* each with a copy on two CPUs.
C == INSTANCE Cpu WITH
        BITS_PER_PART <- 2, CpuCounts <- {1, 2, 3},
        num_cpus <- s1, bits <- s2, members <- s3,
        SetThread <- {"t1", "t2"}, atomic_bits <- s2, access <- s3,
        DYN_CPUS <- 2, CHUNK_SIZE <- 4, ITEM_SIZE <- 1, ChunkBase <- <<8, 16>>,
        chunk <- s1, bitmap <- s2, cpu_local <- s3, values <- s4, dyn_panic <- s5

-----------------------------------------------------------------------------
MemInit ==
    \/ component = "frames" /\ F!Init /\ InitBehind(7)
    \/ component = "lists" /\ L!Init /\ InitBehind(10)
    \/ component = "segments" /\ S!Init /\ InitBehind(6)
    \/ component = "range allocator" /\ K!RangeInit /\ InitBehind(3)
    \/ component = "areas" /\ K!KvInit /\ InitBehind(6)
    \/ component = "boot memory" /\ B!Init /\ InitBehind(8)
    \/ component = "heap" /\ H!Init /\ InitBehind(7)
    \/ component = "vm io" /\ V!Init /\ InitBehind(8)
    \/ component = "page table nodes" /\ N!Init /\ InitBehind(6)
    \/ component = "spaces" /\ A!Init /\ InitBehind(9)
    \/ component = "ranges" /\ Y!VaInit /\ InitBehind(2)
    \/ component = "entries" /\ Y!Init /\ InitBehind(3)
    \/ component = "pci configuration" /\ P!ConfigInit /\ InitBehind(12)
    \/ component = "pci bus" /\ P!BusInit /\ InitBehind(8)
    \/ component = "device memory" /\ M!DeviceMemInit /\ InitBehind(3)
    \/ component = "ports" /\ M!IoPortsInit /\ InitBehind(3)
    \/ component = "dma" /\ D!Init /\ InitBehind(6)
    \/ component = "irq lines" /\ I!LinesInit /\ InitBehind(4)
    \/ component = "irq contexts" /\ I!ContextsInit /\ InitBehind(5)
    \/ component = "cpu sets" /\ C!SetsInit /\ InitBehind(3)
    \/ component = "atomic cpu sets" /\ C!AtomicSetsInit /\ InitBehind(3)
    \/ component = "cpu locals" /\ C!LocalsInit /\ InitBehind(5)
    \/ component = "ids" /\ M!IdsInit /\ InitBehind(2)

MemNext ==
    /\ \/ component = "frames" /\ F!Next /\ SameBehind(7)
       \/ component = "lists" /\ L!Next /\ SameBehind(10)
       \/ component = "segments" /\ S!Next /\ SameBehind(6)
       \/ component = "range allocator" /\ K!RangeNext /\ SameBehind(3)
       \/ component = "areas" /\ K!KvNext /\ SameBehind(6)
       \/ component = "boot memory" /\ B!Next /\ SameBehind(8)
       \/ component = "heap" /\ H!Next /\ SameBehind(7)
       \/ component = "vm io" /\ V!Next /\ SameBehind(8)
       \/ component = "page table nodes" /\ N!Next /\ SameBehind(6)
       \/ component = "spaces" /\ A!Next /\ SameBehind(9)
       \/ component = "ranges" /\ Y!VaNext /\ SameBehind(2)
       \/ component = "entries" /\ Y!Next /\ SameBehind(3)
       \/ component = "pci configuration" /\ P!ConfigNext /\ SameBehind(12)
       \/ component = "pci bus" /\ P!BusNext /\ SameBehind(8)
       \/ component = "device memory" /\ M!DeviceMemNext /\ SameBehind(3)
       \/ component = "ports" /\ M!IoPortsNext /\ SameBehind(3)
       \/ component = "dma" /\ D!Next /\ SameBehind(6)
       \/ component = "irq lines" /\ I!LinesNext /\ SameBehind(4)
       \/ component = "irq contexts" /\ I!ContextsNext /\ SameBehind(5)
       \/ component = "cpu sets" /\ C!SetsNext /\ SameBehind(3)
       \/ component = "atomic cpu sets" /\ C!AtomicSetsNext /\ SameBehind(3)
       \/ component = "cpu locals" /\ C!LocalsNext /\ SameBehind(5)
       \/ component = "ids" /\ M!IdsNext /\ SameBehind(2)
    /\ UNCHANGED component

MemSpec == MemInit /\ [][MemNext]_memVars

-----------------------------------------------------------------------------
\* Frames are handed around safely: the count says exactly who has a frame, who
\* has a handle finds initialized metadata, also when the slot was freed and
\* reused between the load and the compare_exchange of from_in_use, and metadata
\* never changes under a shared handle.
FramesSound ==
    /\ [](component = "frames" => F!CountAccounts /\ F!MetaInitialized)
    /\ [][component = "frames" => F!SharedMetaKept]_memVars

\* The intrusive lists of frames are sequences: every operation of a list or of
\* its cursors, contains and lazy identities included, implements one on
\* sequences of frames.
ListIsSequence ==
    /\ component = "lists" => L!Abs!Init
    /\ [][component = "lists" => [L!Abs!Next]_(L!Abs!avars)]_memVars

\* Whoever hands memory on loses and doubles none of it: boot turns the memory
\* map into regions, early allocations and the pages of the frame allocator
\* without giving out a byte that is reserved or in use; segments hold exactly
\* the references of their pages through splits, slices, failed allocations and
\* drops that interleave; and every slot of the heap is free in one slab or in
\* one owner's hands.
PhysicalMemoryAccounted ==
    /\ component = "boot memory" => B!MemoryAccounted
    /\ component = "segments" => S!PagesAccounted /\ S!AllocNeverPanics
    /\ component = "heap" => H!SlotsAccounted

\* Reads and writes through VmReader, VmWriter and the objects built on them
\* transfer exactly the bytes they report, in the right order and nowhere else,
\* also when a user access faults on the way.
VmIoExact == component = "vm io" => V!VmIoExact

\* Page table entries own what they point to: counts of nodes and frames agree
\* with entries and handles over replacements, splits and lazy allocation, in
\* user and in kernel tables; and a space's root lives exactly as long as a
\* handle or a CPU that has it loaded, through activations that race its drop.
PageTablesOwn ==
    /\ component = "page table nodes" => N!EntriesOwn
    /\ component = "spaces" => A!SpacesAccounted

\* Addresses translate to what was asked for: kernel virtual areas of several
\* threads do not overlap, map what they were created for whatever mix of page
\* sizes was chosen, panic exactly for a physical range that is one huge page, and
\* leave no translation behind when they are dropped; the free list stays the
\* complement of what is allocated; a range is accepted exactly when the table
\* translates all of it, with sign extension and at the top of the address space
\* too; and an entry of any architecture reads back the address and the
\* properties it was written with.
TranslationsExact ==
    /\ component \in {"range allocator", "areas"} => K!RangesAccounted
    /\ component = "areas" => K!AreasTranslate
    /\ component = "ranges" => Y!ValidRangeExact
    /\ component = "entries" => Y!EntryReadsBack

\* The PCI code finds what is there: the BARs are sized and placed as the
\* registers say with 64-bit pairs counted once, every capability is visited,
\* whatever order the list has, and MSI-X entries, which may be unmasked when the
\* kernel starts, signal lines that are alive; and every device is offered
\* to every driver in turn until one takes it, whichever comes first.
PciDevicesKept ==
    /\ component = "pci configuration" => P!PciDeviceDecoded
    /\ component = "pci bus" => P!DevicesOfferedOnce

\* Drivers never reach what the system keeps for itself, nor another driver's
\* device memory; pages under DMA belong to one mapping, which undoes in its
\* drop everything it has set up.
IoResourcesKept ==
    /\ component = "device memory" => M!DeviceRangesKept
    /\ component = "ports" => M!SystemPortsKept
    /\ component = "dma" => D!DmaPagesOwned

\* Interrupt numbers and callbacks are accounted for by handles while lines are
\* cloned and dropped; and through every nesting of interrupts one guard at a
\* time has the duty to enable them again, and preemption is off in a bottom half.
InterruptsAccounted ==
    /\ component = "irq lines" => I!CallbacksCounted
    /\ component = "irq contexts" => I!IrqNesting

\* The bitmaps mean the sets they stand for: CPU sets also in the last, partly
\* used word; atomic ones in every word a load reads while other threads store and
\* change the set; CPU-local objects by their items;
\* identifiers with a hint below which nothing is free and scans that miss no
\* run.
BitmapsExact ==
    /\ component = "cpu sets" => C!CpuSetIsSet
    /\ component = "atomic cpu sets" => C!LoadSeesStableCpus
    /\ component = "cpu locals" => C!CpuLocalsAccounted
    /\ component = "ids" => M!HintIsFirstClear /\ M!AllocationsComplete
=============================================================================

------------------------------ MODULE MCSystem ------------------------------
(***************************************************************************)
(* RCU and the components of boot, synchronization and the user address    *)
(* space that TLC checks together.  They share no state, so every          *)
(* behaviour is one of one component, chosen in the initial state.  Rcu    *)
(* has its own variables; the others use the cells s1 .. s14 in turn, and  *)
(* the instances below say which variable is kept in which cell.           *)
(***************************************************************************)
EXTENDS Rcu, Integers, Sequences, TLC

VARIABLES component, s1, s2, s3, s4, s5, s6, s7, s8, s9, s10, s11, s12, s13, s14

cells == <<s1, s2, s3, s4, s5, s6, s7, s8, s9, s10, s11, s12, s13, s14>>
sysVars == <<vars, component, cells>>

Unused == "unused"

\* A component with n variables leaves the cells behind the n-th alone.
InitBehind(n) ==
    /\ IF n < 2 THEN s2 = Unused ELSE TRUE
    /\ IF n < 3 THEN s3 = Unused ELSE TRUE
    /\ IF n < 4 THEN s4 = Unused ELSE TRUE
    /\ IF n < 5 THEN s5 = Unused ELSE TRUE
    /\ IF n < 6 THEN s6 = Unused ELSE TRUE
    /\ IF n < 7 THEN s7 = Unused ELSE TRUE
    /\ IF n < 8 THEN s8 = Unused ELSE TRUE
    /\ IF n < 9 THEN s9 = Unused ELSE TRUE
    /\ IF n < 10 THEN s10 = Unused ELSE TRUE
    /\ IF n < 11 THEN s11 = Unused ELSE TRUE
    /\ IF n < 12 THEN s12 = Unused ELSE TRUE
    /\ IF n < 13 THEN s13 = Unused ELSE TRUE
    /\ IF n < 14 THEN s14 = Unused ELSE TRUE

SameBehind(n) ==
    /\ IF n < 2 THEN s2' = s2 ELSE TRUE
    /\ IF n < 3 THEN s3' = s3 ELSE TRUE
    /\ IF n < 4 THEN s4' = s4 ELSE TRUE
    /\ IF n < 5 THEN s5' = s5 ELSE TRUE
    /\ IF n < 6 THEN s6' = s6 ELSE TRUE
    /\ IF n < 7 THEN s7' = s7 ELSE TRUE
    /\ IF n < 8 THEN s8' = s8 ELSE TRUE
    /\ IF n < 9 THEN s9' = s9 ELSE TRUE
    /\ IF n < 10 THEN s10' = s10 ELSE TRUE
    /\ IF n < 11 THEN s11' = s11 ELSE TRUE
    /\ IF n < 12 THEN s12' = s12 ELSE TRUE
    /\ IF n < 13 THEN s13' = s13 ELSE TRUE
    /\ IF n < 14 THEN s14' = s14 ELSE TRUE

-----------------------------------------------------------------------------
\* One frame and two threads; MCMemory has three.
F == INSTANCE FrameMeta WITH
        Frame <- {"f1"}, Thread <- {"t1", "t2"}, Meta <- {"m1", "m2"}, REF_COUNT_MAX <- 3,
        ref_count <- s1, meta <- s2, handles <- s3, unique <- s4, pc <- s5, arg <- s6, last <- s7

\* Three application processors.  The firmware also lists the bootstrap
\* processor, one processor twice and one with an identity above 255.
Processors == {"a1", "a2", "a3"}
Apic(id) == [kind |-> "apic", id |-> id]
X2apic(id) == [kind |-> "x2apic", id |-> id]
B == INSTANCE SmpBoot WITH
        AP <- Processors, BSP <- "bsp",
        Madt <- {Apic(0), X2apic(0), Apic(1), X2apic(300), Apic(2)},
        bsp <- s1, ap <- s2, NUM_CPUS <- s3, CPU_LOCAL_STORAGES <- s4, bsp_area <- s5,
        AP_BOOT_INFO <- s6, cpu_id_tail <- s7, cpu_id <- s8, HW_CPU_ID_MAP <- s9,
        hw_cpu_ids <- s10, boot_pt <- s11, DISMISS_COUNT <- s12, on_boot_pt <- s13,
        AP_LATE_ENTRY <- s14

\* Three levels of two entries.  The firmware shares a table between two
\* entries of the root, or maps a huge page of level 3 beside one of level 2.
Firmware(kind, pa) == [kind |-> kind, pa |-> pa, firmware |-> FALSE]
SharedTable ==
    20 :> (0 :> Firmware("table", 21) @@ 1 :> Firmware("table", 21))
      @@ 21 :> (0 :> Firmware("page", 4) @@ 1 :> Firmware("absent", 0))
HugeRootEntry ==
    20 :> (0 :> Firmware("page", 4) @@ 1 :> Firmware("table", 21))
      @@ 21 :> (0 :> Firmware("absent", 0) @@ 1 :> Firmware("page", 12))
T == INSTANCE BootPageTable WITH
        BOOT_LEVELS <- 3, BOOT_ENTRIES <- 2, FirmwareLayouts <- {SharedTable, HugeRootEntry},
        FirmwareRoot <- 20, ChildFrames <- <<30, 31, 32, 33, 34, 35>>, BootTargets <- {8, 9},
        BootCpu <- {"c1", "c2"},
        bt_tables <- s1, bt_fresh <- s2, bt_asked <- s3, bt_freed <- s4, bt_dismissed <- s5,
        bt_flagged <- s6, bt_firmware <- s7

M == INSTANCE Iommu WITH
        Device <- <<"z", "a", "b">>, Daddr <- {1, 2}, IrtIndex <- {1, 2}, QUEUE_SIZE <- 4,
        caps <- s1, iommu_pc <- s2, gsts <- s3, gcmd <- s4, context <- s5, second_stage <- s6,
        PAGE_TABLE <- s7, inv_queue <- s8, inv_done <- s9, irt <- s10, irt_writer <- s11,
        inv_requests <- s12

\* Two CPUs, each with two tasks and an interrupt handler.
S == INSTANCE SpinLock WITH
        SpinCpu <- {1, 2}, SpinTask <- {"t1", "t2"},
        guardian <- s1, sp_lock <- s2, sp_at <- s3, sp_cur <- s4, sp_handling <- s5,
        sp_irq <- s6, sp_was <- s7, sp_preempt <- s8

\* Three writing and two reading handles of one RwArc; pointer types with too few, just enough and spare alignment bits, nested too.
Ptr(kind, bits) == [kind |-> kind, align_bits |-> bits]
Either(l, r) == [kind |-> "Either", L |-> l, R |-> r]
W == INSTANCE OwnedPointers WITH
        RwHandle <- {"w1", "w2", "w3"}, RoHandle <- {"r1", "r2"},
        rw_live <- s1, num_rw <- s2, rw_guards <- s3, rw_midway <- s4,
        PtrType <- {Ptr("Box", 0), Either(Ptr("Arc", 2), Ptr("Box", 2)),
                    Either(Ptr("Arc", 2), Ptr("Box", 1)), Either(Ptr("Arc", 0), Ptr("Box", 2)),
                    Either(Either(Ptr("Arc", 2), Ptr("Box", 2)), Ptr("Frame", 3))},
        PtrHandle <- {1, 2, 3}, TOP_ADDR <- 8,
        ptr_type <- s1, memory <- s2, holds <- s3

\* Three user pages.
V == INSTANCE VmSpaceCursor WITH
        VmPage <- {0, 1, 2}, UFrame <- {10}, VmProp <- {"rw"}, MaxVmChanges <- 4,
        mapping <- s1, barrier <- s2, pos <- s3, req <- s4, ret <- s5, mutable <- s6,
        vm_pc <- s7, end_va <- s8, num_unmapped <- s9, issued <- s10, page_keeper <- s11,
        stale <- s12, before <- s13, vm_changes <- s14

-----------------------------------------------------------------------------
SysInit ==
    /\ Init
    /\ \/ component = "rcu" /\ s1 = Unused /\ InitBehind(1)
       \/ component = "frames" /\ F!Init /\ InitBehind(7)
       \/ component = "processors" /\ B!Init
       \/ component = "boot page table" /\ T!Init /\ InitBehind(7)
       \/ component = "iommu" /\ M!Init /\ InitBehind(12)
       \/ component = "spin lock" /\ S!SpinInit /\ InitBehind(8)
       \/ component = "rw arc" /\ W!Init /\ InitBehind(4)
       \/ component = "pointers" /\ W!PtrInit /\ InitBehind(3)
       \/ component = "user space" /\ V!VmCursorInit

CellsNext ==
    \/ component = "frames" /\ F!Next /\ SameBehind(7)
    \/ component = "processors" /\ B!Next
    \/ component = "boot page table" /\ T!Next /\ SameBehind(7)
    \/ component = "iommu" /\ M!Next /\ SameBehind(12)
    \/ component = "spin lock" /\ S!SpinNext /\ SameBehind(8)
    \/ component = "rw arc" /\ W!Next /\ SameBehind(4)
    \/ component = "pointers" /\ W!PtrNext /\ SameBehind(3)
    \/ component = "user space" /\ V!VmCursorNext

SysNext ==
    \/ component = "rcu" /\ Next /\ UNCHANGED <<component, cells>>
    \/ CellsNext /\ UNCHANGED <<component, vars>>

\* The fairness of Rcu, of the threads inside an operation on a frame, of every
\* processor that boots, and of the IOMMU's driver and hardware.
SysFairness ==
    /\ \A c \in CPU : /\ WF_vars(component = "rcu" /\ DropGuard(c))
                      /\ WF_vars(component = "rcu" /\ CheckMonitoring(c))
                      /\ SF_vars(component = "rcu" /\ finish_grace_period(c))
    /\ \A a \in Actor : WF_vars(component = "rcu" /\ after_grace_period(a))
    /\ \A o \in Obj : WF_vars(component = "rcu" /\ Invoke(o))
    /\ \A t \in {"t1", "t2"} : WF_cells(component = "frames" /\ F!Step(t) /\ SameBehind(7))
    /\ WF_cells(component = "processors" /\ B!BspStep)
    /\ \A a \in Processors : WF_cells(component = "processors" /\ B!ApStep(a))
    /\ WF_cells(component = "iommu" /\ M!InitStep /\ SameBehind(12))
    /\ WF_cells(component = "iommu" /\ M!HardwareServices /\ SameBehind(12))
    /\ WF_cells(component = "iommu" /\ M!HardwareInvalidates /\ SameBehind(12))
    /\ WF_cells(component = "iommu" /\ M!HardwareAcknowledges /\ SameBehind(12))

SysSpec == SysInit /\ [][SysNext]_sysVars /\ SysFairness

-----------------------------------------------------------------------------
\* A frame does not stay busy: who builds it up or tears it down comes to an
\* end, and from_in_use and from_unused do not report Busy for ever.
BusyEnds == (component = "frames" /\ s1["f1"] = 0) ~> (component = "frames" /\ s1["f1"] # 0)

\* Boot hands over without a gap: no processor uses a table that has been freed,
\* what a processor needs is there before it starts, CPU numbers and hardware
\* identities agree; and the boot page table keeps every mapping that was asked
\* for and the firmware's, but for huge pages above level 2 that it splits, and
\* goes back to the allocator once, after the last CPU has left it.
BootHandsOver ==
    /\ component = "processors" => B!BootHandsOver
    /\ component = "boot page table" => T!BootMappingsStay

\* Remapping is switched on over complete tables only and stays on, whatever
\* the capabilities, and the hardware meets no half-written entry.
RemappingComplete == component = "iommu" => M!RemappingComplete

\* Boot comes to an end: every processor the firmware reports ends up running
\* tasks, also one that misses the first STARTUP, and every wait of the IOMMU
\* initialization for the hardware ends.
BootCompletes ==
    /\ <>[](component = "processors" => B!AllRunning)
    /\ <>(component = "iommu" => s2 = "done")

\* Nobody spins for a lock whose holder cannot run before the spinner does: a
\* holder is not preempted, and no handler on its CPU asks for its lock.
SpinsEnd == component = "spin lock" => S!SpinsEnd

\* Pointers are owned once: the raw pointer of every pointer type, the tagged
\* ones of Either included, gives back the pointer it came from; and a reader
\* without the lock never overlaps a writer of the same RwArc.
PointersOwn ==
    /\ component = "pointers" => W!RawPointersOwn
    /\ component = "rw arc" => W!LocklessReadSafe

\* The unmap of a user range removes what is mapped in it and nothing else,
\* counts it, and keeps the removed pages until the flush that covers them.
UnmapExact == component = "user space" => V!UnmapExact
=============================================================================

------------------------------ MODULE SmpBoot -------------------------------
(***************************************************************************)
(* Start of the application processors (boot/smp.rs, arch/x86/boot/smp.rs, *)
(* cpu/mod.rs, cpu/local): the bootstrap processor copies the CPU-local    *)
(* area for the others, wakes them with INIT and two STARTUP interrupts,   *)
(* and waits until they are online; each CPU leaves the boot page table,   *)
(* which the last one frees.  A processor that got the second STARTUP when *)
(* it runs ignores it.  CPU numbers are given in the order of arrival by   *)
(* the assembly entry.                                                     *)
(***************************************************************************)
EXTENDS Integers, FiniteSets, Sequences

CONSTANTS
    AP,         \* the application processors (hardware identities)
    BSP,        \* the hardware identity of the bootstrap processor
    Madt        \* the usable entries of the MADT: [kind, id], kind "apic" or "x2apic"

VARIABLES
    bsp,                \* where the bootstrap processor is in the boot sequence
    ap,                 \* where each application processor is
    NUM_CPUS,
    CPU_LOCAL_STORAGES, \* the CPU-local areas of the processors 1, 2, ...: what they hold
    bsp_area,           \* the CPU-local area of the bootstrap processor
    AP_BOOT_INFO,       \* the number of processors there is a boot stack for
    cpu_id_tail,        \* the next CPU number
    cpu_id,             \* the CPU number of each processor, -1 before it has one
    HW_CPU_ID_MAP,      \* pairs of CPU number and hardware identity
    hw_cpu_ids,         \* the sequence of hardware identities, by CPU number
    boot_pt,            \* the boot page table has not been freed
    DISMISS_COUNT,
    on_boot_pt,         \* the processors that translate with the boot page table
    AP_LATE_ENTRY

smpVars == <<bsp, ap, NUM_CPUS, CPU_LOCAL_STORAGES, bsp_area, AP_BOOT_INFO, cpu_id_tail, cpu_id,
             HW_CPU_ID_MAP, hw_cpu_ids, boot_pt, DISMISS_COUNT, on_boot_pt, AP_LATE_ENTRY>>

Init ==
    /\ bsp = "start"
    /\ ap = [a \in AP |-> "off"]
    /\ NUM_CPUS = 1
    /\ CPU_LOCAL_STORAGES = <<>>
    /\ bsp_area = "constants"
    /\ AP_BOOT_INFO = 0
    /\ cpu_id_tail = 1
    /\ cpu_id = [c \in AP \cup {BSP} |-> -1]
    /\ HW_CPU_ID_MAP = {}
    /\ hw_cpu_ids = <<>>
    /\ boot_pt = TRUE
    /\ DISMISS_COUNT = 0
    /\ on_boot_pt = {BSP}
    /\ AP_LATE_ENTRY = FALSE

-----------------------------------------------------------------------------
(* An entry of the older kind that a newer one repeats is not counted. *)
count_processors ==
    Cardinality({e \in Madt : e.kind = "x2apic" \/ [kind |-> "x2apic", id |-> e.id] \notin Madt})

(* cpu::init_on_bsp: the copy precedes the first use of the area, which is  *)
(* the store of the CPU number.                                             *)
copy_bsp_for_ap ==
    /\ bsp = "start"
    /\ CPU_LOCAL_STORAGES' = [i \in 1 .. count_processors - 1 |-> bsp_area]
    /\ bsp' = "copied"
    /\ UNCHANGED <<ap, NUM_CPUS, bsp_area, AP_BOOT_INFO, cpu_id_tail, cpu_id, HW_CPU_ID_MAP,
                   hw_cpu_ids, boot_pt, DISMISS_COUNT, on_boot_pt, AP_LATE_ENTRY>>

init_on_bsp ==
    /\ bsp = "copied"
    /\ bsp_area' = "used"
    /\ cpu_id' = [cpu_id EXCEPT ![BSP] = 0]
    /\ NUM_CPUS' = count_processors
    /\ bsp' = "inited"
    /\ UNCHANGED <<ap, CPU_LOCAL_STORAGES, AP_BOOT_INFO, cpu_id_tail, HW_CPU_ID_MAP, hw_cpu_ids,
                   boot_pt, DISMISS_COUNT, on_boot_pt, AP_LATE_ENTRY>>

(* report_online_and_hw_cpu_id: a number reported twice is an assertion. *)
Report(c) == HW_CPU_ID_MAP' = HW_CPU_ID_MAP \cup {<<cpu_id[c], c>>}

(* boot_all_aps up to the wake-up: a boot stack per application processor;  *)
(* on a single processor nothing more is done.                              *)
boot_all_aps ==
    /\ bsp = "inited"
    /\ Report(BSP)
    /\ AP_BOOT_INFO' = NUM_CPUS - 1
    /\ bsp' = IF NUM_CPUS = 1 THEN "waited" ELSE "init_ipi"
    /\ UNCHANGED <<ap, NUM_CPUS, CPU_LOCAL_STORAGES, bsp_area, cpu_id_tail, cpu_id, hw_cpu_ids,
                   boot_pt, DISMISS_COUNT, on_boot_pt, AP_LATE_ENTRY>>

(* send_boot_ipis: INIT, then STARTUP twice. *)
send_init_to_all_aps ==
    /\ bsp = "init_ipi"
    /\ ap' = [a \in AP |-> "wait_for_sipi"]
    /\ bsp' = "sipi1"
    /\ UNCHANGED <<NUM_CPUS, CPU_LOCAL_STORAGES, bsp_area, AP_BOOT_INFO, cpu_id_tail, cpu_id,
                   HW_CPU_ID_MAP, hw_cpu_ids, boot_pt, DISMISS_COUNT, on_boot_pt, AP_LATE_ENTRY>>

(* STARTUP is sent once. *)
send_startup_to_all_apsOnce ==
    /\ bsp = "sipi1"
    /\ \E missed \in SUBSET AP :
          ap' = [a \in AP |-> IF a \notin missed THEN "woken" ELSE ap[a]]
    /\ bsp' = "waiting"
    /\ UNCHANGED <<NUM_CPUS, CPU_LOCAL_STORAGES, bsp_area, AP_BOOT_INFO, cpu_id_tail, cpu_id,
                   HW_CPU_ID_MAP, hw_cpu_ids, boot_pt, DISMISS_COUNT, on_boot_pt, AP_LATE_ENTRY>>

(* A processor may miss the first STARTUP but not both. *)
send_startup_to_all_aps ==
    /\ bsp \in {"sipi1", "sipi2"}
    /\ \E missed \in SUBSET AP :
          /\ bsp = "sipi2" => missed = {}
          /\ ap' = [a \in AP |-> IF ap[a] = "wait_for_sipi" /\ a \notin missed THEN "woken" ELSE ap[a]]
    /\ bsp' = IF bsp = "sipi1" THEN "sipi2" ELSE "waiting"
    /\ UNCHANGED <<NUM_CPUS, CPU_LOCAL_STORAGES, bsp_area, AP_BOOT_INFO, cpu_id_tail, cpu_id,
                   HW_CPU_ID_MAP, hw_cpu_ids, boot_pt, DISMISS_COUNT, on_boot_pt, AP_LATE_ENTRY>>

wait_for_all_aps_started ==
    /\ bsp = "waiting"
    /\ Cardinality(HW_CPU_ID_MAP) = NUM_CPUS
    /\ bsp' = "waited"
    /\ UNCHANGED <<ap, NUM_CPUS, CPU_LOCAL_STORAGES, bsp_area, AP_BOOT_INFO, cpu_id_tail, cpu_id,
                   HW_CPU_ID_MAP, hw_cpu_ids, boot_pt, DISMISS_COUNT, on_boot_pt, AP_LATE_ENTRY>>

(* smp::init takes the map, in the order of the CPU numbers, and clears it. *)
construct_hw_cpu_id_mapping ==
    /\ bsp = "waited"
    /\ Cardinality(HW_CPU_ID_MAP) = NUM_CPUS
    /\ hw_cpu_ids' = [i \in 1 .. NUM_CPUS |-> (CHOOSE e \in HW_CPU_ID_MAP : e[1] = i - 1)[2]]
    /\ HW_CPU_ID_MAP' = {}
    /\ bsp' = "mapped"
    /\ UNCHANGED <<ap, NUM_CPUS, CPU_LOCAL_STORAGES, bsp_area, AP_BOOT_INFO, cpu_id_tail, cpu_id,
                   boot_pt, DISMISS_COUNT, on_boot_pt, AP_LATE_ENTRY>>

dismissOneEarly ==
    /\ DISMISS_COUNT' = DISMISS_COUNT + 1
    /\ boot_pt' = (boot_pt /\ DISMISS_COUNT + 1 # NUM_CPUS - 1)

(* activate_kernel_page_table, then boot_pt::dismiss: the CPU that counts   *)
(* to the last one frees the table.                                         *)
dismiss ==
    /\ DISMISS_COUNT' = DISMISS_COUNT + 1
    /\ boot_pt' = (boot_pt /\ DISMISS_COUNT # NUM_CPUS - 1)

BspActivates ==
    /\ bsp = "mapped"
    /\ on_boot_pt' = on_boot_pt \ {BSP}
    /\ dismiss
    /\ bsp' = "booted"
    /\ UNCHANGED <<ap, NUM_CPUS, CPU_LOCAL_STORAGES, bsp_area, AP_BOOT_INFO, cpu_id_tail, cpu_id,
                   HW_CPU_ID_MAP, hw_cpu_ids, AP_LATE_ENTRY>>

register_ap_entry ==
    /\ bsp = "booted"
    /\ AP_LATE_ENTRY' = TRUE
    /\ bsp' = "running"
    /\ UNCHANGED <<ap, NUM_CPUS, CPU_LOCAL_STORAGES, bsp_area, AP_BOOT_INFO, cpu_id_tail, cpu_id,
                   HW_CPU_ID_MAP, hw_cpu_ids, boot_pt, DISMISS_COUNT, on_boot_pt>>

-----------------------------------------------------------------------------
(* An application processor: the assembly entry takes a number, then        *)
(* ap_early_entry.                                                          *)
ApEntry(a) ==
    /\ ap[a] = "woken"
    /\ cpu_id' = [cpu_id EXCEPT ![a] = cpu_id_tail]
    /\ cpu_id_tail' = cpu_id_tail + 1
    /\ on_boot_pt' = on_boot_pt \cup {a}
    /\ ap' = [ap EXCEPT ![a] = "early"]
    /\ UNCHANGED <<bsp, NUM_CPUS, CPU_LOCAL_STORAGES, bsp_area, AP_BOOT_INFO, HW_CPU_ID_MAP,
                   hw_cpu_ids, boot_pt, DISMISS_COUNT, AP_LATE_ENTRY>>

init_on_ap(a) ==
    /\ ap[a] = "early"
    /\ CPU_LOCAL_STORAGES' = [CPU_LOCAL_STORAGES EXCEPT ![cpu_id[a]] = "used"]
    /\ ap' = [ap EXCEPT ![a] = "inited"]
    /\ UNCHANGED <<bsp, NUM_CPUS, bsp_area, AP_BOOT_INFO, cpu_id_tail, cpu_id, HW_CPU_ID_MAP,
                   hw_cpu_ids, boot_pt, DISMISS_COUNT, on_boot_pt, AP_LATE_ENTRY>>

ApActivates(a) ==
    /\ ap[a] = "inited"
    /\ on_boot_pt' = on_boot_pt \ {a}
    /\ dismiss
    /\ ap' = [ap EXCEPT ![a] = "activated"]
    /\ UNCHANGED <<bsp, NUM_CPUS, CPU_LOCAL_STORAGES, bsp_area, AP_BOOT_INFO, cpu_id_tail, cpu_id,
                   HW_CPU_ID_MAP, hw_cpu_ids, AP_LATE_ENTRY>>

report_online_and_hw_cpu_id(a) ==
    /\ ap[a] = "activated"
    /\ Report(a)
    /\ ap' = [ap EXCEPT ![a] = "online"]
    /\ UNCHANGED <<bsp, NUM_CPUS, CPU_LOCAL_STORAGES, bsp_area, AP_BOOT_INFO, cpu_id_tail, cpu_id,
                   hw_cpu_ids, boot_pt, DISMISS_COUNT, on_boot_pt, AP_LATE_ENTRY>>

ap_late_entry(a) ==
    /\ ap[a] = "online"
    /\ AP_LATE_ENTRY
    /\ ap' = [ap EXCEPT ![a] = "running"]
    /\ UNCHANGED <<bsp, NUM_CPUS, CPU_LOCAL_STORAGES, bsp_area, AP_BOOT_INFO, cpu_id_tail, cpu_id,
                   HW_CPU_ID_MAP, hw_cpu_ids, boot_pt, DISMISS_COUNT, on_boot_pt, AP_LATE_ENTRY>>

BspStep ==
    \/ copy_bsp_for_ap \/ init_on_bsp \/ boot_all_aps \/ send_init_to_all_aps
    \/ send_startup_to_all_aps \/ wait_for_all_aps_started \/ construct_hw_cpu_id_mapping
    \/ BspActivates \/ register_ap_entry

ApStep(a) ==
    \/ ApEntry(a) \/ init_on_ap(a) \/ ApActivates(a) \/ report_online_and_hw_cpu_id(a)
    \/ ap_late_entry(a)

Next == BspStep \/ \E a \in AP : ApStep(a)

-----------------------------------------------------------------------------
(* No processor translates with a boot page table that has been freed; an   *)
(* application processor starts with constants in its CPU-local area and    *)
(* has a boot stack; and the table of hardware identities that interrupts   *)
(* between processors use names, for every CPU number, the processor that   *)
(* stores this number, once the wait for all processors has returned.       *)
BootHandsOver ==
    /\ on_boot_pt # {} => boot_pt
    /\ \A a \in AP :
          ap[a] = "early" => /\ cpu_id[a] <= AP_BOOT_INFO
                             /\ CPU_LOCAL_STORAGES[cpu_id[a]] = "constants"
    /\ bsp \in {"waited", "mapped", "booted", "running"} =>
          \A a \in AP : ap[a] \in {"online", "running"}
    /\ \A i \in DOMAIN hw_cpu_ids : cpu_id[hw_cpu_ids[i]] = i - 1

(* Every processor the firmware reports ends up running tasks, also when    *)
(* some of them miss the first STARTUP, and the boot page table is freed.   *)
AllRunning == ~ boot_pt /\ bsp = "running" /\ \A a \in AP : ap[a] = "running"
=============================================================================

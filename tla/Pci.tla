-------------------------------- MODULE Pci ---------------------------------
(* PCI (bus/pci): the configuration of a device, and the bus where devices  *)
(* meet drivers.  The two parts share no state.                             *)
EXTENDS Integers, Sequences, FiniteSets, SequencesExt

-----------------------------------------------------------------------------
(***************************************************************************)
(* The set-up of one PCI device from its configuration space               *)
(* (bus/pci/common_device.rs, cfg_space.rs, capability/): the base address *)
(* registers are sized by writing ones to them, the capability list is     *)
(* walked, and the MSI-X table is masked and later programmed with         *)
(* interrupt lines while the device may signal.  Registers have REG bits   *)
(* values (2^32 in the code).                                              *)
(***************************************************************************)

CONSTANTS
    REG,            \* number of values of a register
    BarLayouts,     \* sequences of hardware registers [size, flags, value]
    CapLists,       \* sequences of capabilities in list order: [ptr, msix], where
                    \* msix has the BARs of an MSI-X capability or is NotMsix
    CAPABILITY_TOP,
    MsixEntry,      \* indices an MSI-X caller may pass, beyond table_size too
    table_size,
    PciLine         \* interrupt lines

VARIABLES
    header_type,
    remapped,       \* interrupt remapping is enabled
    cfg_bars,       \* the registers
    cfg_boot,       \* the registers as the firmware left them
    bar_idx,        \* BarManager::new's idx
    bars,           \* decoded BARs by index
    cap_list,       \* the capabilities of the device
    capabilities,   \* what device_capabilities has found of them so far
    msix,           \* MSI-X table: [address, data, masked]
    irqs,           \* lines held by CapabilityMsixData
    setting,        \* set_interrupt_vector in progress: <<line, index>>
    cfg_state       \* "bars", "caps", "ready" or "panic"

pciCfgVars == <<header_type, remapped, cfg_bars, cfg_boot, bar_idx, bars, cap_list, capabilities, msix,
                irqs, setting, cfg_state>>

(* The hardware: the bits below the size are read-only. *)
Stored(reg, v) == [reg EXCEPT !.value = v - (v % reg.size) + reg.flags]
NoVector == "garbage"
NotMsix == [table |-> 0, pba |-> 0]
MsixCaps == {i \in DOMAIN cap_list : cap_list[i].msix # NotMsix}

ConfigInit ==
    /\ header_type \in 0..2
    /\ remapped \in BOOLEAN
    /\ cfg_bars \in BarLayouts
    /\ cfg_boot = cfg_bars
    /\ bar_idx = 1
    /\ bars = <<>>
    /\ cap_list \in CapLists
    /\ capabilities = <<>>
    /\ \E masked \in [1..table_size -> BOOLEAN] :
          msix = [i \in 1..table_size |-> [address |-> NoVector, data |-> NoVector, masked |-> masked[i]]]
    /\ MsixCaps = {} => \A i \in 1..table_size : msix[i].masked
    /\ irqs = <<>>
    /\ setting = <<>>
    /\ cfg_state = "bars"

-----------------------------------------------------------------------------
Err == [kind |-> "Err"]

(* What Bar::new, MemoryBar::new and IoBar::new make of register i; raw is  *)
(* read, ones are written and read back, raw is restored.                   *)
Encoded(regs, i) == Stored(regs[i], REG - 1).value
Align(v, n) == v - (v % n)

(* A memory BAR without an address is skipped.  (LoongArch, which gives     *)
(* every BAR an address of its own, is not modelled.)                       *)
MemoryBar_new(regs, i) ==
    LET raw == regs[i].value
        wide == (raw \div 2) % 4 = 2
        base == Align(raw, 16) + IF wide THEN REG * regs[i + 1].value ELSE 0
        size == (REG - Align(Encoded(regs, i), 16)) % REG
    IN IF (raw \div 2) % 4 \notin {0, 2} \/ base = 0 THEN Err
       ELSE [kind |-> IF wide THEN "Bits64" ELSE "Bits32", base |-> base, size |-> size]

IoBar_new(regs, i) ==
    [kind |-> "Io", base |-> Align(regs[i].value, 4), size |-> REG - Align(Encoded(regs, i), 4)]

Bar_new(regs, i) ==
    IF Encoded(regs, i) = 0 THEN Err
    ELSE IF regs[i].value % 2 = 0 THEN MemoryBar_new(regs, i) ELSE IoBar_new(regs, i)

(* The registers after the decoding of register i: raw is written back, and *)
(* a memory BAR gets its base once more.                                    *)
Restored(regs, i, bar) ==
    LET back == [regs EXCEPT ![i] = Stored(Stored(@, REG - 1), regs[i].value)] IN
    CASE bar.kind \in {"Err", "Io"} -> back
      [] bar.kind = "Bits32" -> [back EXCEPT ![i] = Stored(@, bar.base)]
      [] bar.kind = "Bits64" ->
            [back EXCEPT ![i] = Stored(@, bar.base % REG), ![i + 1] = Stored(@, bar.base \div REG)]

BarMax == CASE header_type = 0 -> Len(cfg_bars) [] header_type = 1 -> 2 [] OTHER -> 0

(* A 64-bit BAR does not skip its upper register. *)
BarManager_newNoStep ==
    /\ cfg_state = "bars"
    /\ IF bar_idx > BarMax
       THEN cfg_state' = "caps" /\ UNCHANGED <<cfg_bars, bars, bar_idx>>
       ELSE LET bar == Bar_new(cfg_bars, bar_idx) IN
            /\ cfg_bars' = Restored(cfg_bars, bar_idx, bar)
            /\ bars' = IF bar = Err THEN bars
                       ELSE [j \in DOMAIN bars \cup {bar_idx} |-> IF j = bar_idx THEN bar ELSE bars[j]]
            /\ bar_idx' = bar_idx + 1
            /\ UNCHANGED cfg_state
    /\ UNCHANGED <<header_type, remapped, cfg_boot, cap_list, capabilities, msix, irqs, setting>>

(* One turn of the loop of BarManager::new. *)
BarManager_new ==
    /\ cfg_state = "bars"
    /\ IF bar_idx > BarMax
       THEN cfg_state' = "caps" /\ UNCHANGED <<cfg_bars, bars, bar_idx>>
       ELSE LET bar == Bar_new(cfg_bars, bar_idx) IN
            /\ cfg_bars' = Restored(cfg_bars, bar_idx, bar)
            /\ bars' = IF bar = Err THEN bars
                       ELSE [j \in DOMAIN bars \cup {bar_idx} |-> IF j = bar_idx THEN bar ELSE bars[j]]
            /\ bar_idx' = bar_idx + IF bar.kind = "Bits64" THEN 2 ELSE 1
            /\ UNCHANGED cfg_state
    /\ UNCHANGED <<header_type, remapped, cfg_boot, cap_list, capabilities, msix, irqs, setting>>

(* CapabilityMsixData::new: the default address, an empty upper half, and   *)
(* every entry masked before MSI-X is enabled; it panics without a memory   *)
(* BAR for the pending bits, and then without one for the table.            *)
MsixDefault == "0xFEE0_0000"
IsMemory(bar) == bar \in DOMAIN bars /\ bars[bar].kind # "Io"
CapabilityMsix_new(cap) ==
    \/ /\ ~ IsMemory(cap.pba)
       /\ cfg_state' = "panic"
       /\ UNCHANGED msix
    \/ /\ IsMemory(cap.pba) /\ ~ IsMemory(cap.table)
       /\ cfg_state' = "panic"
       /\ UNCHANGED msix
    \/ /\ IsMemory(cap.pba) /\ IsMemory(cap.table)
       /\ msix' = [i \in 1..table_size |-> [msix[i] EXCEPT !.address = MsixDefault, !.masked = TRUE]]
       /\ UNCHANGED cfg_state

(* Capability::device_capabilities: the pointers are collected, sorted and  *)
(* closed with the top; a capability extends to the next pointer.  One turn *)
(* of the loop over them.                                                   *)
device_capabilities ==
    LET sorted == SortSeq(cap_list, LAMBDA c, d : c.ptr < d.ptr)
        i == Len(capabilities) + 1
        next_ptr == IF i = Len(sorted) THEN CAPABILITY_TOP ELSE sorted[i + 1].ptr IN
    /\ cfg_state = "caps"
    /\ i <= Len(sorted)
    /\ IF sorted[i].msix = NotMsix THEN UNCHANGED <<msix, cfg_state>>
                                   ELSE CapabilityMsix_new(sorted[i].msix)
    /\ capabilities' = IF cfg_state' = "panic" THEN capabilities
                       ELSE Append(capabilities, [pos |-> sorted[i].ptr, len |-> next_ptr - sorted[i].ptr])
    /\ UNCHANGED <<header_type, remapped, cfg_bars, cfg_boot, bar_idx, bars, cap_list, irqs, setting>>

device_capabilities_returns ==
    /\ cfg_state = "caps"
    /\ Len(capabilities) = Len(cap_list)
    /\ cfg_state' = "ready"
    /\ UNCHANGED <<header_type, remapped, cfg_bars, cfg_boot, bar_idx, bars, cap_list, capabilities, msix,
                   irqs, setting>>

-----------------------------------------------------------------------------
(* set_interrupt_vector: the message of the new line is written, then the   *)
(* line replaces the old one and the entry is unmasked; an index beyond the *)
(* table is ignored.  The device may signal between the writes.             *)
set_interrupt_vector(line, index) ==
    /\ cfg_state = "ready" /\ MsixCaps # {} /\ setting = <<>>
    /\ \A i \in DOMAIN irqs : irqs[i] # line
    /\ IF index > table_size THEN UNCHANGED <<setting, msix>>
       ELSE /\ setting' = <<line, index>>
            /\ IF remapped THEN msix' = [msix EXCEPT ![index].address = line, ![index].data = "0"]
                           ELSE msix' = [msix EXCEPT ![index].data = line]
    /\ UNCHANGED <<header_type, remapped, cfg_bars, cfg_boot, bar_idx, bars, cap_list, capabilities, irqs,
                   cfg_state>>

ReplaceLine ==
    /\ setting # <<>>
    /\ LET index == setting[2] IN
       /\ irqs' = [i \in DOMAIN irqs \cup {index} |-> IF i = index THEN setting[1] ELSE irqs[i]]
       /\ msix' = [msix EXCEPT ![index].masked = FALSE]
    /\ setting' = <<>>
    /\ UNCHANGED <<header_type, remapped, cfg_bars, cfg_boot, bar_idx, bars, cap_list, capabilities, cfg_state>>

ConfigNext ==
    \/ BarManager_new \/ device_capabilities \/ device_capabilities_returns
    \/ \E line \in PciLine, index \in MsixEntry : set_interrupt_vector(line, index)
    \/ ReplaceLine

-----------------------------------------------------------------------------
(* What the hardware has at register i. *)
IsUpper(i) == i > 1 /\ (cfg_boot[i - 1].flags \div 2) % 4 = 2 /\ cfg_boot[i - 1].flags % 2 = 0
HardwareBase(i) ==
    LET r == cfg_boot[i] IN
    r.value - r.flags + IF (r.flags \div 2) % 4 = 2 /\ r.flags % 2 = 0
                        THEN REG * cfg_boot[i + 1].value ELSE 0
HasBar(i) == /\ cfg_boot[i].size < REG /\ ~ IsUpper(i)
             /\ HardwareBase(i) # 0 \/ cfg_boot[i].flags % 2 = 1
             /\ cfg_boot[i].flags % 2 = 0 => (cfg_boot[i].flags \div 2) % 4 \in {0, 2}
Signals(i) == IF remapped THEN msix[i].address ELSE msix[i].data

(* The capabilities at a byte of the configuration space. *)
At(byte) == {i \in DOMAIN capabilities :
                capabilities[i].pos <= byte /\ byte < capabilities[i].pos + capabilities[i].len}
Pointers == {cap_list[i].ptr : i \in DOMAIN cap_list}

(* Once a device is set up its registers are as the firmware left them, and *)
(* each decoded BAR is one the hardware has, with its base and its size:    *)
(* the upper half of a 64-bit BAR is never taken for a BAR, not even when   *)
(* the BAR itself is uninitialized and skipped.  Every capability has been  *)
(* visited, in whatever order the list links them: they begin at the        *)
(* pointers of the list, and every byte from the lowest pointer to the top  *)
(* belongs to exactly one.  The set-up of a device with an MSI-X capability *)
(* panics exactly when one of its BARs is not a memory BAR.  And whatever   *)
(* was in the MSI-X table before, an entry that is not masked signals a     *)
(* line that is alive: the one held for the entry, or the one that is       *)
(* replacing it.                                                            *)
PciDeviceDecoded ==
    /\ cfg_state # "bars" =>
          /\ cfg_bars = cfg_boot
          /\ DOMAIN bars = {i \in 1..BarMax : HasBar(i)}
          /\ \A i \in DOMAIN bars :
                bars[i].base = HardwareBase(i) /\ bars[i].size = cfg_boot[i].size
    /\ cfg_state = "ready" =>
          /\ {capabilities[i].pos : i \in DOMAIN capabilities} = Pointers
          /\ \A byte \in 0 .. CAPABILITY_TOP - 1 :
                Cardinality(At(byte)) = IF \E ptr \in Pointers : ptr <= byte THEN 1 ELSE 0
    /\ cfg_state \in {"ready", "panic"} =>
          (cfg_state = "panic" <=>
             \E i \in MsixCaps : ~ IsMemory(cap_list[i].msix.table) \/ ~ IsMemory(cap_list[i].msix.pba))
    /\ cfg_state = "ready" => \A i \in 1..table_size : ~ msix[i].masked =>
          Signals(i) \in {irqs[j] : j \in {i} \cap DOMAIN irqs} \cup IF setting = <<>> THEN {} ELSE {setting[1]}

-----------------------------------------------------------------------------
(***************************************************************************)
(* The PCI bus (bus/pci/bus.rs, mod.rs): the enumeration of the devices    *)
(* and the registration of drivers meet in either order, each holding the  *)
(* lock of PCI_BUS throughout; a device no driver claims goes round the    *)
(* queue of the unclaimed.                                                 *)
(***************************************************************************)

CONSTANTS
    PciLocation,    \* the locations in the order of PciDeviceLocation::all
    PciDriver

VARIABLES
    present,        \* locations at which a device answers
    pci_lock,       \* who holds PCI_BUS: "free", "init" or a driver that registers
    to_visit,       \* locations the enumeration has still to visit
    rounds,         \* probes left in register_driver's loop
    common_devices, devices, drivers,
    probes          \* per location, the drivers that probed it, in order

pciBusVars == <<present, pci_lock, to_visit, rounds, common_devices, devices, drivers, probes>>

BusInit ==
    /\ present \in SUBSET Range(PciLocation)
    /\ pci_lock = "free"
    /\ to_visit = PciLocation
    /\ rounds = 0
    /\ common_devices = <<>> /\ devices = <<>> /\ drivers = <<>>
    /\ probes = [l \in Range(PciLocation) |-> <<>>]

Probed(l, d) == probes' = [probes EXCEPT ![l] = Append(@, d)]

-----------------------------------------------------------------------------
(* mod.rs init: the lock for the whole enumeration; a location that answers *)
(* 0xFFFF has no device.                                                    *)
init ==
    /\ pci_lock = "free" /\ to_visit = PciLocation
    /\ pci_lock' = "init"
    /\ UNCHANGED <<present, to_visit, rounds, common_devices, devices, drivers, probes>>

SkipLocation ==
    /\ pci_lock = "init" /\ to_visit # <<>>
    /\ Head(to_visit) \notin present
    /\ to_visit' = Tail(to_visit)
    /\ UNCHANGED <<present, pci_lock, rounds, common_devices, devices, drivers, probes>>

(* register_common_device: the drivers in order, until one claims it. *)
register_common_device(claimer) ==
    /\ pci_lock = "init" /\ to_visit # <<>>
    /\ Head(to_visit) \in present
    /\ claimer \in 1..(Len(drivers) + 1)
    /\ LET l == Head(to_visit) IN
       /\ probes' = [probes EXCEPT ![l] = IF claimer <= Len(drivers) THEN SubSeq(drivers, 1, claimer) ELSE drivers]
       /\ IF claimer <= Len(drivers)
          THEN devices' = Append(devices, l) /\ UNCHANGED common_devices
          ELSE common_devices' = Append(common_devices, l) /\ UNCHANGED devices
    /\ to_visit' = Tail(to_visit)
    /\ UNCHANGED <<present, pci_lock, rounds, drivers>>

init_returns ==
    /\ pci_lock = "init" /\ to_visit = <<>>
    /\ pci_lock' = "free"
    /\ UNCHANGED <<present, to_visit, rounds, common_devices, devices, drivers, probes>>

(* register_driver: as many rounds as there are unclaimed devices when it   *)
(* starts; a device that is not claimed is put back at the end.             *)
register_driver(d) ==
    /\ pci_lock = "free" /\ d \notin Range(drivers)
    /\ pci_lock' = d
    /\ rounds' = Len(common_devices)
    /\ UNCHANGED <<present, to_visit, common_devices, devices, drivers, probes>>

ProbeFront(d, claims) ==
    /\ pci_lock = d /\ rounds > 0
    /\ Probed(Head(common_devices), d)
    /\ IF claims
       THEN /\ devices' = Append(devices, Head(common_devices))
            /\ common_devices' = Tail(common_devices)
       ELSE /\ common_devices' = Append(Tail(common_devices), Head(common_devices))
            /\ UNCHANGED devices
    /\ rounds' = rounds - 1
    /\ UNCHANGED <<present, pci_lock, to_visit, drivers>>

register_driver_returns(d) ==
    /\ pci_lock = d /\ rounds = 0
    /\ drivers' = Append(drivers, d)
    /\ pci_lock' = "free"
    /\ UNCHANGED <<present, to_visit, rounds, common_devices, devices, probes>>

BusNext ==
    \/ init \/ SkipLocation \/ init_returns
    \/ \E claimer \in 1..(Cardinality(PciDriver) + 1) : register_common_device(claimer)
    \/ \E d \in PciDriver :
          \/ register_driver(d) \/ register_driver_returns(d)
          \/ \E claims \in BOOLEAN : ProbeFront(d, claims)

-----------------------------------------------------------------------------
(* Whenever the bus is unlocked, every enumerated device is exactly once    *)
(* among the claimed or the unclaimed ones; an unclaimed one was probed     *)
(* exactly once by every registered driver, in the order they registered,   *)
(* and a claimed one by a prefix of them and never after it was claimed;    *)
(* the unclaimed devices keep the order of the enumeration.                 *)
DevicesOfferedOnce ==
    pci_lock = "free" =>
       /\ \A l \in present \ Range(to_visit) :
             /\ Len(SelectSeq(common_devices \o devices, LAMBDA x : x = l)) = 1
             /\ IF l \in Range(common_devices) THEN probes[l] = drivers
                                               ELSE IsPrefix(probes[l], drivers)
       /\ common_devices =
             SelectSeq(PciLocation, LAMBDA x : x \in Range(common_devices))
=============================================================================

------------------------------- MODULE Iommu --------------------------------
(***************************************************************************)
(* The x86 IOMMU (arch/x86/iommu): the initialization, which builds the    *)
(* root and context tables and then enables queued invalidation, DMA       *)
(* remapping and interrupt remapping, each by a write to the global        *)
(* command register and a wait for the global status register; and what is *)
(* done afterwards, mapping device addresses and writing entries of the    *)
(* interrupt remapping table.  The hardware answers commands on its own.   *)
(***************************************************************************)
EXTENDS Integers, FiniteSets, Sequences

CONSTANTS
    Device,       \* the PCI locations, in the order of PciDeviceLocation::all()
    Daddr,        \* device addresses
    IrtIndex,     \* entries of the interrupt remapping table
    QUEUE_SIZE

Devices == {Device[i] : i \in 1 .. Len(Device)}
zero == Device[1]
OneShot == {"SRTP", "SIRTP"}

VARIABLES
    caps,          \* what the (extended) capability registers report
    iommu_pc,      \* the step of iommu::init
    gsts,          \* the global status register
    gcmd,          \* the commands the hardware has still to service
    context,       \* the page table each device's context entry points to
    second_stage,  \* page table -> the device addresses it maps
    PAGE_TABLE,    \* the root table is published
    inv_queue,     \* descriptors: the head of the hardware, the tail of the driver
    inv_done,      \* the completion status of the wait descriptor
    inv_requests,  \* the request bits that are set: ICC of the context command, IVT
    irt,           \* the halves of the interrupt remapping entries
    irt_writer     \* who is writing an entry, and how far

iommuVars == <<caps, iommu_pc, gsts, gcmd, context, second_stage, PAGE_TABLE,
               inv_queue, inv_done, inv_requests, irt, irt_writer>>

Free == [index |-> 0, step |-> 0, vector |-> 0]

Init ==
    /\ caps \in SUBSET {"QI", "AGAW_39BIT_3LP", "IR"}
    /\ iommu_pc = "invalidate"
    /\ gsts \in {{}, {"CFIS"}}
    /\ gcmd = (IF "CFIS" \in gsts THEN {"CFI"} ELSE {})
    /\ context = [d \in Devices |-> "none"]
    /\ second_stage = [shared |-> {}]
    /\ PAGE_TABLE = FALSE
    /\ inv_queue = [head |-> 0, tail |-> 0]
    /\ inv_done = FALSE
    /\ inv_requests = {}
    /\ irt = [i \in IrtIndex |-> [lower |-> 0, upper |-> 0]]
    /\ irt_writer = Free

-----------------------------------------------------------------------------
Enabled(c) == CASE c = "QIE" -> "QIES" [] c = "SRTP" -> "RTPS" [] c = "TE" -> "TES"
                [] c = "SIRTP" -> "IRTPS" [] c = "IRE" -> "IRES" [] c = "CFI" -> "CFIS"
Command == {"QIE", "SRTP", "TE", "SIRTP", "IRE", "CFI"}

(* write_global_command writes the command together with the features that  *)
(* are on, one-shot commands masked; without the status they are turned off.*)
write_global_commandForgets(command, enable) ==
    gcmd' = IF enable THEN {command} ELSE {}
write_global_command(command, enable) ==
    LET status == {c \in Command \ OneShot : Enabled(c) \in gsts}
    IN  gcmd' = IF enable THEN status \cup {command} ELSE status \ {command}

(* The hardware services a write: one-shot commands latch, the others       *)
(* follow the written value.                                                *)
HardwareServices ==
    /\ gsts' = {Enabled(c) : c \in (gcmd \cup {d \in OneShot : Enabled(d) \in gsts})}
    /\ gsts' # gsts
    /\ UNCHANGED <<caps, iommu_pc, gcmd, context, second_stage, PAGE_TABLE,
                   inv_queue, inv_done, inv_requests, irt, irt_writer>>

Step(from, to) == iommu_pc = from /\ iommu_pc' = to
UnchangedTables == UNCHANGED <<caps, context, second_stage, PAGE_TABLE, irt, irt_writer>>
Send(from, to, command, enable) ==
    /\ Step(from, to)
    /\ write_global_command(command, enable)
    /\ UnchangedTables
    /\ UNCHANGED <<gsts, inv_queue, inv_done, inv_requests>>
Wait(from, to, condition) ==
    /\ Step(from, to)
    /\ condition
    /\ UnchangedTables
    /\ UNCHANGED <<gsts, gcmd, inv_queue, inv_done, inv_requests>>

(* invalidate::init and enable_queued_invalidation. *)
InvalidateInit ==
    \/ "QI" \in caps /\ Send("invalidate", "qie", "QIE", TRUE)
    \/ Wait("invalidate", "dma", "QI" \notin caps)
    \/ Wait("qie", "dma", "QIES" \in gsts)

(* dma_remapping::init: specify_device_page_table for every location, with  *)
(* get_or_create_context_table; the root table is published afterwards.     *)
specify_device_page_table(d) ==
    /\ iommu_pc = "dma" /\ "AGAW_39BIT_3LP" \in caps
    /\ context[d] = "none"
    /\ \A i \in 1 .. Len(Device) : Device[i] = d =>
          \A j \in 1 .. i - 1 : context[Device[j]] # "none"
    /\ context' = [context EXCEPT ![d] = "shared"]
    /\ UNCHANGED <<caps, iommu_pc, gsts, gcmd, second_stage, PAGE_TABLE,
                   inv_queue, inv_done, inv_requests, irt, irt_writer>>

PublishTable ==
    /\ "AGAW_39BIT_3LP" \in caps
    /\ \A d \in Devices : context[d] # "none"
    /\ Step("dma", "srtp")
    /\ PAGE_TABLE' = TRUE
    /\ UNCHANGED <<caps, gsts, gcmd, context, second_stage, inv_queue, inv_done, inv_requests, irt, irt_writer>>

(* enable_dma_remapping. *)
EnableDma ==
    \/ Wait("dma", "ir", "AGAW_39BIT_3LP" \notin caps)
    \/ Send("srtp", "rtps", "SRTP", TRUE)
    \/ Wait("rtps", "te", "RTPS" \in gsts)
    \/ Send("te", "tes", "TE", TRUE)
    \/ Wait("tes", "ir", "TES" \in gsts)

(* enable_interrupt_remapping, with the invalidation of the interrupt cache *)
(* by a descriptor and a wait descriptor, or by the registers.              *)
append_descriptor(q) == [q EXCEPT !.tail = (IF @ = QUEUE_SIZE THEN 0 ELSE @) + 1]

(* global_invalidation: the invalidation of the context cache is requested  *)
(* and awaited, that of the IOTLB requested.                                *)
Request(from, to, bit) ==
    /\ Step(from, to)
    /\ inv_requests' = inv_requests \cup {bit}
    /\ UnchangedTables /\ UNCHANGED <<gsts, gcmd, inv_queue, inv_done>>
global_invalidation ==
    \/ Request("invalidate context", "icc", "ICC")
    \/ Wait("icc", "invalidate iotlb", "ICC" \notin inv_requests)
    \/ Request("invalidate iotlb", "cfi", "IVT")

EnableInterrupts ==
    \/ Wait("ir", "done", "IR" \notin caps)
    \/ "IR" \in caps /\ Send("ir", "irtps", "SIRTP", TRUE)
    \/ Wait("irtps", "ire", "IRTPS" \in gsts)
    \/ Send("ire", "ires", "IRE", TRUE)
    \/ Wait("ires", "cache", "IRES" \in gsts)
    \/ /\ "QIES" \in gsts
       /\ Step("cache", "drain")
       /\ inv_queue' = append_descriptor(inv_queue)
       /\ UnchangedTables /\ UNCHANGED <<gsts, gcmd, inv_done, inv_requests>>
    \/ Wait("cache", "invalidate context", "QIES" \notin gsts)
    \/ global_invalidation
    \/ /\ inv_queue.head + 1 # inv_queue.tail
       /\ Step("drain", "complete")
       /\ inv_queue' = append_descriptor(inv_queue)
       /\ UnchangedTables /\ UNCHANGED <<gsts, gcmd, inv_done, inv_requests>>
    \/ Wait("complete", "cfi", inv_done)
    \/ "CFIS" \in gsts /\ Send("cfi", "cfis", "CFI", FALSE)
    \/ Wait("cfi", "done", "CFIS" \notin gsts)
    \/ Wait("cfis", "done", "CFIS" \notin gsts)

(* The hardware executes the descriptors up to the tail; the second one     *)
(* here is the wait descriptor.                                             *)
HardwareInvalidates ==
    /\ inv_queue.head # inv_queue.tail
    /\ inv_queue' = [inv_queue EXCEPT !.head = @ + 1]
    /\ inv_done' = (inv_queue.head + 1 = 2)
    /\ UNCHANGED <<caps, iommu_pc, gsts, gcmd, context, second_stage, PAGE_TABLE,
                   inv_requests, irt, irt_writer>>

(* The hardware has carried out a request and clears its bit. *)
HardwareAcknowledges ==
    /\ \E bit \in inv_requests : inv_requests' = inv_requests \ {bit}
    /\ UNCHANGED <<caps, iommu_pc, gsts, gcmd, context, second_stage, PAGE_TABLE,
                   inv_queue, inv_done, irt, irt_writer>>

InitStep ==
    \/ InvalidateInit \/ PublishTable \/ EnableDma \/ EnableInterrupts
    \/ \E d \in Devices : specify_device_page_table(d)
Hardware == HardwareServices \/ HardwareInvalidates \/ HardwareAcknowledges

-----------------------------------------------------------------------------
(* ContextTable::map and unmap, on the page table of a device; every entry  *)
(* is present by then, so none is created.                                  *)
get_or_create_page_table(d) == context[d]
ContextMap(d, daddr) ==
    LET pt == get_or_create_page_table(d) IN
    /\ daddr \notin second_stage[pt]
    /\ second_stage' = [second_stage EXCEPT ![pt] = @ \cup {daddr}]
ContextUnmap(d, daddr) ==
    LET pt == get_or_create_page_table(d) IN
    /\ daddr \in second_stage[pt]
    /\ second_stage' = [second_stage EXCEPT ![pt] = @ \ {daddr}]

(* iommu::map and unmap go through the context entry of location zero.      *)
map(daddr) ==
    /\ iommu_pc = "done" /\ PAGE_TABLE
    /\ ContextMap(zero, daddr)
    /\ UNCHANGED <<caps, iommu_pc, gsts, gcmd, context, PAGE_TABLE, inv_queue, inv_done,
                   inv_requests, irt, irt_writer>>

unmap(daddr) ==
    /\ iommu_pc = "done" /\ PAGE_TABLE
    /\ ContextUnmap(zero, daddr)
    /\ UNCHANGED <<caps, iommu_pc, gsts, gcmd, context, PAGE_TABLE, inv_queue, inv_done,
                   inv_requests, irt, irt_writer>>

(* IntRemappingTable::set_entry: under the modification lock, the lower     *)
(* half is zeroed, the upper half written, then the lower half.             *)
set_entry(w) ==
    CASE w.step = 1 -> [irt EXCEPT ![w.index].lower = 0]
      [] w.step = 2 -> [irt EXCEPT ![w.index].upper = w.vector]
      [] w.step = 3 -> [irt EXCEPT ![w.index].lower = w.vector]

EnableEntry(index, vector) ==
    /\ iommu_pc = "done" /\ "IRES" \in gsts
    /\ irt_writer = Free
    /\ irt_writer' = [index |-> index, step |-> 1, vector |-> vector]
    /\ UNCHANGED <<caps, iommu_pc, gsts, gcmd, context, second_stage, PAGE_TABLE, inv_queue, inv_done, inv_requests, irt>>

EntryStep ==
    /\ irt_writer # Free
    /\ irt' = set_entry(irt_writer)
    /\ irt_writer' = IF irt_writer.step = 3 THEN Free ELSE [irt_writer EXCEPT !.step = @ + 1]
    /\ UNCHANGED <<caps, iommu_pc, gsts, gcmd, context, second_stage, PAGE_TABLE, inv_queue, inv_done,
                   inv_requests>>

Next ==
    \/ InitStep \/ Hardware \/ EntryStep
    \/ \E daddr \in Daddr : map(daddr) \/ unmap(daddr)
    \/ \E index \in IrtIndex, vector \in 1 .. 2 : EnableEntry(index, vector)

-----------------------------------------------------------------------------
(* The device addresses a device reaches once remapping is on. *)
Reaches(d) == IF context[d] = "none" THEN {} ELSE second_stage[context[d]]

(* Remapping is switched on only over complete tables and stays on: with    *)
(* translation enabled the root pointer is latched and every device goes    *)
(* through the one page table that map and unmap change; a feature the      *)
(* initialization has turned on is not turned off by the commands after it; *)
(* the context cache is clean when the initialization goes on from its      *)
(* invalidation; and the hardware never finds an interrupt entry whose      *)
(* halves belong to two different settings.                                 *)
RemappingComplete ==
    /\ "TES" \in gsts => /\ "RTPS" \in gsts /\ PAGE_TABLE
                         /\ \A d \in Devices : context[d] = "shared" /\ Reaches(d) = Reaches(zero)
    /\ "IRES" \in gsts => "IRTPS" \in gsts
    /\ iommu_pc \notin {"invalidate", "qie"} /\ "QI" \in caps => "QIES" \in gsts
    /\ iommu_pc \in {"ir", "irtps", "ire", "ires", "cache", "drain", "complete",
                    "invalidate context", "icc", "invalidate iotlb", "cfi", "cfis", "done"}
          /\ "AGAW_39BIT_3LP" \in caps => "TES" \in gsts
    /\ iommu_pc \in {"cfi", "cfis", "done"} => "ICC" \notin inv_requests
    /\ iommu_pc = "done" /\ "IR" \in caps => "IRES" \in gsts /\ "CFIS" \notin gsts
    /\ \A i \in IrtIndex : irt[i].lower # 0 => irt[i].upper = irt[i].lower

=============================================================================

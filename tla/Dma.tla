-------------------------------- MODULE Dma ---------------------------------
(***************************************************************************)
(* DMA mappings (mm/dma): DmaCoherent, DmaStream and its slices over       *)
(* segments, which may share pages.  The set of mapped pages is checked    *)
(* and extended under one lock; the page table of the IOMMU and the cache  *)
(* policy of the kernel mapping are changed page by page outside of it.    *)
(* The bodies the migration to Verus keeps as comments (the IOMMU calls,   *)
(* the cache policy, the drops) are modelled as they stand in the comments.*)
(***************************************************************************)
EXTENDS Integers, FiniteSets

CONSTANTS
    DmaObj,        \* the mappings that may exist at a time
    DmaSegment,    \* the segments: sets of pages
    HasRemapping,  \* has_dma_remapping(): DmaType::Iommu, else Direct
    InsertsPages,  \* the second loop of check_and_insert_dma_mapping inserts
    MaxClones

DmaPages == UNION DmaSegment

VARIABLES
    DMA_MAPPING_SET,
    dma_obj,       \* the mappings: progress, kind, segment, clones
    iommu_pages,   \* the device addresses the second-stage page table maps
    uncached,      \* pages whose kernel mapping is Uncacheable
    dma_grants,    \* readers and writers given out
    dma_panic

dmaVars == <<DMA_MAPPING_SET, dma_obj, iommu_pages, uncached, dma_grants, dma_panic>>

NoDma == [pc |-> "none", kind |-> "stream", segment |-> {}, left |-> {}, clones |-> 0,
          direction |-> "Bidirectional", is_cache_coherent |-> TRUE]

Init ==
    /\ DMA_MAPPING_SET = {}
    /\ dma_obj = [d \in DmaObj |-> NoDma]
    /\ iommu_pages = {}
    /\ uncached = {}
    /\ dma_grants = {}
    /\ dma_panic = FALSE

-----------------------------------------------------------------------------
(* check_and_insert_dma_mapping, under the lock of the set. *)
check_and_insert_dma_mapping(segment) ==
    /\ DMA_MAPPING_SET \cap segment = {}
    /\ DMA_MAPPING_SET' = IF InsertsPages THEN DMA_MAPPING_SET \cup segment ELSE DMA_MAPPING_SET

Fresh(kind, segment, direction, coherent) ==
    [pc |-> IF HasRemapping THEN "mapping" ELSE "live", kind |-> kind, segment |-> segment,
     left |-> segment, clones |-> 1, direction |-> direction, is_cache_coherent |-> coherent]

DmaCoherent_map(d, segment, coherent) ==
    /\ dma_obj[d].pc = "none"
    /\ check_and_insert_dma_mapping(segment)
    /\ dma_obj' = [dma_obj EXCEPT ![d] = Fresh("coherent", segment, "Bidirectional", coherent)]
    /\ uncached' = IF coherent THEN uncached ELSE uncached \cup segment
    /\ UNCHANGED <<iommu_pages, dma_grants, dma_panic>>

DmaStream_map(d, segment, direction, coherent) ==
    /\ dma_obj[d].pc = "none"
    /\ check_and_insert_dma_mapping(segment)
    /\ dma_obj' = [dma_obj EXCEPT ![d] = Fresh("stream", segment, direction, coherent)]
    /\ UNCHANGED <<iommu_pages, uncached, dma_grants, dma_panic>>

(* One round of the loop over the frames: iommu::map(...).unwrap(). *)
IommuMap(d, page) ==
    /\ dma_obj[d].pc = "mapping"
    /\ page \in dma_obj[d].left
    /\ iommu_pages' = iommu_pages \cup {page}
    /\ dma_panic' = (dma_panic \/ page \in iommu_pages)
    /\ dma_obj' = [dma_obj EXCEPT ![d].left = @ \ {page},
                                  ![d].pc = IF dma_obj[d].left = {page} THEN "live" ELSE @]
    /\ UNCHANGED <<DMA_MAPPING_SET, uncached, dma_grants>>

clone(d) ==
    /\ dma_obj[d].pc = "live"
    /\ dma_obj[d].clones < MaxClones
    /\ dma_obj' = [dma_obj EXCEPT ![d].clones = @ + 1]
    /\ UNCHANGED <<DMA_MAPPING_SET, iommu_pages, uncached, dma_grants, dma_panic>>

(* The drop of a clone; the last one drops DmaCoherentInner or              *)
(* DmaStreamInner, which unmaps page by page, restores the cache policy and *)
(* gives the pages back at the very end.                                    *)
DropClone(d) ==
    /\ dma_obj[d].pc = "live"
    /\ dma_obj[d].clones > 1 \/ \A g \in dma_grants : g.obj # d
    /\ dma_obj' = [dma_obj EXCEPT ![d].clones = @ - 1,
                      ![d].left = dma_obj[d].segment,
                      ![d].pc = IF dma_obj[d].clones > 1 THEN "live"
                                ELSE IF HasRemapping THEN "unmapping" ELSE "unmapped"]
    /\ UNCHANGED <<DMA_MAPPING_SET, iommu_pages, uncached, dma_grants, dma_panic>>

IommuUnmap(d, page) ==
    /\ dma_obj[d].pc = "unmapping"
    /\ page \in dma_obj[d].left
    /\ iommu_pages' = iommu_pages \ {page}
    /\ dma_panic' = (dma_panic \/ page \notin iommu_pages)
    /\ dma_obj' = [dma_obj EXCEPT ![d].left = @ \ {page},
                      ![d].pc = IF dma_obj[d].left = {page} THEN "unmapped" ELSE @]
    /\ UNCHANGED <<DMA_MAPPING_SET, uncached, dma_grants>>

remove_dma_mapping(segment) == DMA_MAPPING_SET' = DMA_MAPPING_SET \ segment

(* The last two steps the wrong way round: the pages are given back while   *)
(* they are still uncacheable.                                              *)
RestoreCachePolicyLate(d) ==
    /\ dma_obj[d].pc = "unmapped"
    /\ remove_dma_mapping(dma_obj[d].segment)
    /\ dma_obj' = [dma_obj EXCEPT ![d].pc = "removing"]
    /\ UNCHANGED <<uncached, iommu_pages, dma_grants, dma_panic>>

RestoreCachePolicy(d) ==
    /\ dma_obj[d].pc = "unmapped"
    /\ uncached' = IF dma_obj[d].kind = "coherent" /\ ~ dma_obj[d].is_cache_coherent
                   THEN uncached \ dma_obj[d].segment ELSE uncached
    /\ dma_obj' = [dma_obj EXCEPT ![d].pc = "removing"]
    /\ UNCHANGED <<DMA_MAPPING_SET, iommu_pages, dma_grants, dma_panic>>

DropEnds(d) ==
    /\ dma_obj[d].pc = "removing"
    /\ remove_dma_mapping(dma_obj[d].segment)
    /\ dma_obj' = [dma_obj EXCEPT ![d] = NoDma]
    /\ UNCHANGED <<iommu_pages, uncached, dma_grants, dma_panic>>

-----------------------------------------------------------------------------
(* Readers and writers of a mapping, in its direction, or of a slice of a   *)
(* stream; the constructor of a slice checks nothing, its reader and writer *)
(* do.                                                                      *)
MayRead(direction) == direction # "ToDevice"
MayWrite(direction) == direction # "FromDevice"

Grant(d, range, op) ==
    /\ dma_obj[d].pc = "live"
    /\ dma_grants' = dma_grants \cup {[obj |-> d, range |-> range, op |-> op]}
    /\ UNCHANGED <<DMA_MAPPING_SET, dma_obj, iommu_pages, uncached, dma_panic>>

DmaCoherent_reader(d) == dma_obj[d].kind = "coherent" /\ Grant(d, dma_obj[d].segment, "read")
DmaCoherent_writer(d) == dma_obj[d].kind = "coherent" /\ Grant(d, dma_obj[d].segment, "write")

DmaStream_reader(d) ==
    dma_obj[d].kind = "stream" /\ MayRead(dma_obj[d].direction) /\ Grant(d, dma_obj[d].segment, "read")
DmaStream_writer(d) ==
    dma_obj[d].kind = "stream" /\ MayWrite(dma_obj[d].direction) /\ Grant(d, dma_obj[d].segment, "write")

DmaStreamSlice_reader(d, range) ==
    /\ dma_obj[d].kind = "stream"
    /\ MayRead(dma_obj[d].direction)
    /\ range \subseteq dma_obj[d].segment
    /\ Grant(d, range, "read")

DmaStreamSlice_writer(d, range) ==
    /\ dma_obj[d].kind = "stream"
    /\ MayWrite(dma_obj[d].direction)
    /\ range \subseteq dma_obj[d].segment
    /\ Grant(d, range, "write")

AccessEnds(g) ==
    /\ dma_grants' = dma_grants \ {g}
    /\ UNCHANGED <<DMA_MAPPING_SET, dma_obj, iommu_pages, uncached, dma_panic>>

MapSome(d) ==
    \E segment \in DmaSegment, coherent \in BOOLEAN :
       \/ DmaCoherent_map(d, segment, coherent)
       \/ \E direction \in {"ToDevice", "FromDevice"} : DmaStream_map(d, segment, direction, coherent)

AccessSome(d) ==
    /\ dma_grants = {}
    /\ \/ DmaCoherent_reader(d) \/ DmaCoherent_writer(d)
       \/ DmaStream_reader(d) \/ DmaStream_writer(d)
       \/ \E page \in DmaPages :
             DmaStreamSlice_reader(d, {page}) \/ DmaStreamSlice_writer(d, {page})

Next ==
    \/ \E d \in DmaObj :
          \/ MapSome(d) \/ clone(d) \/ DropClone(d) \/ RestoreCachePolicy(d) \/ DropEnds(d)
          \/ \E page \in DmaPages : IommuMap(d, page) \/ IommuUnmap(d, page)
          \/ AccessSome(d)
    \/ \E g \in dma_grants : AccessEnds(g)

-----------------------------------------------------------------------------
Holds(d) == dma_obj[d].pc # "none"

(* A page belongs to at most one DMA mapping from the check of the mapping  *)
(* set to the end of its drop, whatever mappings over shared pages are      *)
(* created and dropped meanwhile: the set holds exactly the pages of the    *)
(* mappings; the IOMMU maps exactly the pages they have mapped and not yet  *)
(* unmapped, so none of its calls is unwrapped in vain; a page is           *)
(* uncacheable only while a mapping that asked for it holds it; and a       *)
(* reader or writer stays inside its mapping and goes its direction.        *)
DmaPagesOwned ==
    /\ ~ dma_panic
    /\ \A d, e \in DmaObj : d # e => dma_obj[d].segment \cap dma_obj[e].segment = {}
    /\ DMA_MAPPING_SET = UNION {dma_obj[d].segment : d \in DmaObj}
    /\ iommu_pages = UNION {CASE dma_obj[d].pc = "mapping" -> dma_obj[d].segment \ dma_obj[d].left
                              [] dma_obj[d].pc = "live" /\ HasRemapping -> dma_obj[d].segment
                              [] dma_obj[d].pc = "unmapping" -> dma_obj[d].left
                              [] OTHER -> {} : d \in DmaObj}
    /\ \A page \in uncached : \E d \in DmaObj :
          page \in dma_obj[d].segment /\ dma_obj[d].kind = "coherent" /\ ~ dma_obj[d].is_cache_coherent
    /\ \A d \in DmaObj : dma_obj[d].pc = "live" /\ dma_obj[d].kind = "coherent"
                            /\ ~ dma_obj[d].is_cache_coherent => dma_obj[d].segment \subseteq uncached
    /\ \A g \in dma_grants :
          /\ dma_obj[g.obj].pc = "live"
          /\ g.range \subseteq dma_obj[g.obj].segment
          /\ dma_obj[g.obj].direction # IF g.op = "read" THEN "ToDevice" ELSE "FromDevice"

(* A segment is never mapped for DMA twice at a time.                       *)
MappedOnce ==
    \A d, e \in DmaObj : d # e => dma_obj[d].segment \cap dma_obj[e].segment = {}
=============================================================================

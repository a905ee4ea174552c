--------------------------- MODULE BootPageTable ----------------------------
(***************************************************************************)
(* The boot page table (mm/page_table/boot_pt.rs): single pages are mapped *)
(* into the tables the firmware left, whose frames may be shared between   *)
(* entries, huge pages are split to protect a page, and the last CPU that  *)
(* dismisses the table frees the tables.  A page and a frame number stand  *)
(* for the addresses.                                                      *)
(***************************************************************************)
EXTENDS Integers, Sequences, SequencesExt, FiniteSets

CONSTANTS
    BOOT_LEVELS,    \* the height of the table
    BOOT_ENTRIES,   \* the entries of a table
    FirmwareLayouts, \* what the firmware may leave: functions from frames to tables
    FirmwareRoot,
    ChildFrames,    \* the frames the allocator hands out, in order
    BootTargets,    \* the frames that may be mapped
    BootCpu         \* the CPUs

VARIABLES
    bt_firmware,    \* what the firmware left (never changed)
    bt_tables,      \* the content of the frames that are page tables
    bt_fresh,       \* the frames not handed out yet
    bt_asked,       \* the pages mapped so far, with the frame they were mapped to
    bt_freed,       \* how often each frame has been given to the allocator
    bt_dismissed,   \* the CPUs that have dismissed the table
    bt_flagged      \* the singleton has been initialized

bptVars == <<bt_firmware, bt_tables, bt_fresh, bt_asked, bt_freed, bt_dismissed, bt_flagged>>

BootPages == 0 .. BOOT_ENTRIES ^ BOOT_LEVELS - 1
Index == 0 .. BOOT_ENTRIES - 1
Absent == [kind |-> "absent", pa |-> 0, firmware |-> FALSE]
new_pt(frame) == [kind |-> "table", pa |-> frame, firmware |-> FALSE]
new_page(frame) == [kind |-> "page", pa |-> frame, firmware |-> FALSE]
Empty == [i \in Index |-> Absent]

(* The index of a page in a table of the given level. *)
pte_index(page, level) == (page \div BOOT_ENTRIES ^ (level - 1)) % BOOT_ENTRIES

Init ==
    /\ bt_firmware \in FirmwareLayouts
    /\ bt_tables = bt_firmware
    /\ bt_fresh = ChildFrames
    /\ bt_asked = {}
    /\ bt_freed = [f \in DOMAIN bt_firmware \cup Range(ChildFrames) |-> 0]
    /\ bt_dismissed = {}
    /\ bt_flagged = FALSE

-----------------------------------------------------------------------------
(* from_current_pt: the walk computes the flag of a firmware table and      *)
(* writes back the property it has read.                                    *)
from_current_pt ==
    /\ ~ bt_flagged
    /\ bt_flagged' = TRUE
    /\ UNCHANGED <<bt_firmware, bt_tables, bt_fresh, bt_asked, bt_freed, bt_dismissed>>

SetEntry(tables, frame, i, pte) == [tables EXCEPT ![frame][i] = pte]

(* alloc_child: a zeroed frame. *)
alloc_child(tables, fresh) ==
    [f \in DOMAIN tables \cup {Head(fresh)} |-> IF f = Head(fresh) THEN Empty ELSE tables[f]]

(* The walk of map_base_page to the last level: absent tables are created;  *)
(* a huge page on the way ends it.                                          *)
RECURSIVE MapWalk(_, _, _, _, _)
MapWalk(tables, fresh, pt, level, page) ==
    LET i == pte_index(page, level)
        pte == tables[pt][i] IN
    IF level = 1
    THEN [ok |-> pte.kind = "absent", tables |-> tables, fresh |-> fresh, pt |-> pt]
    ELSE CASE pte.kind = "absent" ->
                MapWalk(SetEntry(alloc_child(tables, fresh), pt, i, new_pt(Head(fresh))),
                        Tail(fresh), Head(fresh), level - 1, page)
           [] pte.kind = "page" -> [ok |-> FALSE, tables |-> tables, fresh |-> fresh, pt |-> pt]
           [] pte.kind = "table" -> MapWalk(tables, fresh, pte.pa, level - 1, page)

map_base_page(page, to) ==
    LET w == MapWalk(bt_tables, bt_fresh, FirmwareRoot, BOOT_LEVELS, page) IN
    /\ bt_flagged
    /\ bt_dismissed = {}
    /\ Len(bt_fresh) >= BOOT_LEVELS - 1
    /\ w.ok
    /\ bt_tables' = SetEntry(w.tables, w.pt, pte_index(page, 1), new_page(to))
    /\ bt_fresh' = w.fresh
    /\ bt_asked' = bt_asked \cup {<<page, to>>}
    /\ UNCHANGED <<bt_firmware, bt_freed, bt_dismissed, bt_flagged>>

(* Every subpage of a huge page, as protect_base_page computes it: one base *)
(* page after the other, whatever the level of the huge page.               *)
Subpage(huge, i) == new_page(huge + i)

(* The walk of protect_base_page: a huge page is split. *)
RECURSIVE ProtectWalk(_, _, _, _, _)
ProtectWalk(tables, fresh, pt, level, page) ==
    LET i == pte_index(page, level)
        pte == tables[pt][i]
        child == Head(fresh)
        split == [SetEntry(alloc_child(tables, fresh), pt, i, new_pt(child))
                    EXCEPT ![child] = [j \in Index |-> Subpage(pte.pa, j)]] IN
    IF level = 1 \/ pte.kind = "absent"
    THEN [ok |-> pte.kind # "absent", tables |-> tables, fresh |-> fresh]
    ELSE IF pte.kind = "page"
         THEN ProtectWalk(split, Tail(fresh), child, level - 1, page)
         ELSE ProtectWalk(tables, fresh, pte.pa, level - 1, page)

(* The entry is written back with the changed property and the same frame. *)
protect_base_page(page) ==
    LET w == ProtectWalk(bt_tables, bt_fresh, FirmwareRoot, BOOT_LEVELS, page) IN
    /\ bt_flagged
    /\ bt_dismissed = {}
    /\ Len(bt_fresh) >= BOOT_LEVELS - 1
    /\ w.ok
    /\ bt_tables' = w.tables
    /\ bt_fresh' = w.fresh
    /\ UNCHANGED <<bt_firmware, bt_asked, bt_freed, bt_dismissed, bt_flagged>>

-----------------------------------------------------------------------------
(* dfs_walk_on_leave with the closure of dismiss: a table without the       *)
(* firmware flag is freed, and its entry cleared.                           *)
RECURSIVE FreeWalk(_, _, _, _)
FreeWalk(st, pt, level, i) ==
    IF level < 2 \/ i = BOOT_ENTRIES THEN st
    ELSE LET pte == st.tables[pt][i]
             below == FreeWalk(st, pte.pa, level - 1, 0)
             left == [tables |-> SetEntry(below.tables, pt, i, Absent),
                      freed |-> IF pte.firmware THEN below.freed
                                ELSE [below.freed EXCEPT ![pte.pa] = @ + 1]] IN
         FreeWalk(IF pte.kind = "table" THEN left ELSE st, pt, level, i + 1)

(* dismiss, once on every CPU after it has activated the kernel page table. *)
dismiss(cpu) ==
    LET st == FreeWalk([tables |-> bt_tables, freed |-> bt_freed], FirmwareRoot, BOOT_LEVELS, 0) IN
    /\ bt_flagged
    /\ cpu \notin bt_dismissed
    /\ bt_dismissed' = bt_dismissed \cup {cpu}
    /\ IF Cardinality(bt_dismissed) = Cardinality(BootCpu) - 1
       THEN bt_tables' = st.tables /\ bt_freed' = st.freed
       ELSE UNCHANGED <<bt_tables, bt_freed>>
    /\ UNCHANGED <<bt_firmware, bt_fresh, bt_asked, bt_flagged>>

Next ==
    \/ from_current_pt
    \/ \E page \in BootPages : protect_base_page(page) \/ \E to \in BootTargets : map_base_page(page, to)
    \/ \E cpu \in BootCpu : dismiss(cpu)

-----------------------------------------------------------------------------
(* What the hardware makes of a page; -1 when it is not mapped. *)
RECURSIVE Translate(_, _, _, _)
Translate(tables, pt, level, page) ==
    LET pte == tables[pt][pte_index(page, level)] IN
    CASE pte.kind = "absent" -> -1
      [] pte.kind = "page" -> pte.pa + (page % BOOT_ENTRIES ^ (level - 1))
      [] pte.kind = "table" -> Translate(tables, pte.pa, level - 1, page)

(* The level of the entry that maps a page. *)
RECURSIVE LeafLevel(_, _, _, _)
LeafLevel(tables, pt, level, page) ==
    LET pte == tables[pt][pte_index(page, level)] IN
    IF pte.kind = "table" THEN LeafLevel(tables, pte.pa, level - 1, page) ELSE level

Walk(page) == Translate(bt_tables, FirmwareRoot, BOOT_LEVELS, page)
Before(page) == Translate(bt_firmware, FirmwareRoot, BOOT_LEVELS, page)
LevelNow(page) == LeafLevel(bt_tables, FirmwareRoot, BOOT_LEVELS, page)
LevelBefore(page) == LeafLevel(bt_firmware, FirmwareRoot, BOOT_LEVELS, page)
Allocated == {ChildFrames[i] : i \in 1 .. Len(ChildFrames) - Len(bt_fresh)}
AllDismissed == bt_dismissed = BootCpu

(* Until every CPU has dismissed the boot page table, a page that was       *)
(* mapped keeps its frame, and so does a page of the firmware, through the  *)
(* creation of tables, the splits of huge pages of level 2 and the sharing  *)
(* of tables; a page under a larger huge page does until that is split.     *)
(* The tables allocated here are freed exactly once, by the last CPU.       *)
BootMappingsStay ==
    /\ ~ AllDismissed =>
          /\ \A r \in bt_asked : Walk(r[1]) = r[2]
          /\ \A page \in BootPages :
                Before(page) # -1 /\ (LevelBefore(page) <= 2 \/ LevelNow(page) = LevelBefore(page))
                    => Walk(page) = Before(page)
    /\ \A f \in Allocated : bt_freed[f] = IF AllDismissed THEN 1 ELSE 0

(* The split of a huge page changes no translation: not so from level 3 on, *)
(* where the entries of the new table are larger than the base page they    *)
(* are apart.                                                               *)
SplitsKeepTranslations ==
    ~ AllDismissed => \A page \in BootPages : Before(page) # -1 => Walk(page) = Before(page)

(* The tables the firmware allocated are not given to the allocator. *)
FirmwareTablesKept == \A f \in DOMAIN bt_firmware : bt_freed[f] = 0
=============================================================================

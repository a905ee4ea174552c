------------------------------ MODULE PteFormat -----------------------------
(* The formats of page tables: their entries, and the addresses they        *)
(* translate.  The two parts share no state.                                *)
EXTENDS Integers, Bitwise

-----------------------------------------------------------------------------
(***************************************************************************)
(* The page table entry formats (PageTableEntryTrait of mm/page_table and  *)
(* its implementations for x86, RISC-V, LoongArch and the x86 IOMMU): one  *)
(* entry of one format that is created, rewritten and updated by the       *)
(* hardware.  An entry is a page number and the set of the other bits that *)
(* are set in its word; masks and shifts become operations on that set.    *)
(***************************************************************************)

CONSTANTS
    PteArch,      \* the formats
    PageNumber,   \* physical addresses, in pages
    PteFlag       \* the PageFlags that occur, of those of mm/page_prop.rs

AllPriv == {"USER", "GLOBAL"}
AllCache == {"Uncacheable", "WriteCombining", "Writethrough", "Writeback"}

VARIABLES
    arch,      \* the format
    pte,       \* the entry
    meant      \* what the entry was last set to mean

pteVars == <<arch, pte, meant>>

Entry(page, bits) == [page |-> page, bits |-> bits]
new_absent == Entry(0, {})

(* parse_flags!: which flags of a table of flags and bits an entry carries, *)
(* by the presence or by the absence of the bit; and the bits of a property.*)
Carried(table, absent, e) ==
    {f \in DOMAIN table : table[f] \in e.bits}
       \cup {f \in DOMAIN absent : absent[f] \notin e.bits}
Encoded(table, absent, flags) ==
    {table[f] : f \in DOMAIN table \cap flags} \cup {absent[f] : f \in DOMAIN absent \ flags}

-----------------------------------------------------------------------------
(* x86 *)
x86_Flags == [R |-> "PRESENT", W |-> "WRITABLE", ACCESSED |-> "ACCESSED", DIRTY |-> "DIRTY",
              AVAIL1 |-> "HIGH_IGN1", AVAIL2 |-> "HIGH_IGN2"]
x86_NotFlags == [X |-> "NO_EXECUTE"]
x86_Priv == [USER |-> "USER", GLOBAL |-> "GLOBAL"]

x86_is_present(e) == {"PRESENT", "HUGE"} \cap e.bits # {}
x86_is_last(e, level) == "HUGE" \in e.bits

x86_prop(e) ==
    [flags |-> Carried(x86_Flags, x86_NotFlags, e),
     cache |-> IF "NO_CACHE" \in e.bits THEN "Uncacheable"
               ELSE IF "WRITE_THROUGH" \in e.bits THEN "Writethrough" ELSE "Writeback",
     priv |-> Carried(x86_Priv, << >>, e)]

x86_CacheBits(cache) == CASE cache = "Writethrough" -> {"WRITE_THROUGH"}
                          [] cache = "Uncacheable" -> {"NO_CACHE"} [] OTHER -> {}

x86_set_prop(e, p) ==
    IF ~ x86_is_present(e) THEN e
    ELSE Entry(e.page, (e.bits \cap {"HUGE"}) \cup Encoded(x86_Flags, x86_NotFlags, p.flags)
                          \cup Encoded(x86_Priv, << >>, p.priv) \cup x86_CacheBits(p.cache))

x86_new_page(page, level, p) == x86_set_prop(Entry(page, {"HUGE"}), p)
x86_new_pt(page) == Entry(page, {"PRESENT", "WRITABLE", "USER"})

-----------------------------------------------------------------------------
(* RISC-V *)
riscv_Flags == [R |-> "READABLE", W |-> "WRITABLE", X |-> "EXECUTABLE", ACCESSED |-> "ACCESSED",
                DIRTY |-> "DIRTY", AVAIL1 |-> "RSV1", AVAIL2 |-> "RSV2"]
riscv_Priv == [USER |-> "USER", GLOBAL |-> "GLOBAL"]

riscv_is_present(e) == "VALID" \in e.bits
riscv_is_last(e, level) == level = 1 \/ {"READABLE", "WRITABLE", "EXECUTABLE"} \cap e.bits # {}

riscv_prop(e) ==
    [flags |-> Carried(riscv_Flags, << >>, e),
     cache |-> IF "PBMT_IO" \in e.bits THEN "Uncacheable" ELSE "Writeback",
     priv |-> Carried(riscv_Priv, << >>, e)]

(* ACCESSED and DIRTY of the property are not written. *)
riscv_set_prop(e, p) ==
    IF ~ riscv_is_present(e) THEN e
    ELSE Entry(e.page, {"VALID"} \cup Encoded(riscv_Flags, << >>, p.flags \ {"ACCESSED", "DIRTY"})
                          \cup Encoded(riscv_Priv, << >>, p.priv)
                          \cup (IF p.cache = "Uncacheable" THEN {"PBMT_IO"} ELSE {}))

riscv_new_page(page, level, p) == riscv_set_prop(Entry(page, {"VALID"}), p)
riscv_new_pt(page) == Entry(page, {"VALID"})

-----------------------------------------------------------------------------
(* LoongArch; huge pages exist in the format only. *)
la_Flags == [W |-> "WRITABLE", ACCESSED |-> "PRESENT", DIRTY |-> "DIRTY",
             AVAIL1 |-> "RSV1", AVAIL2 |-> "RSV2"]
la_NotFlags == [R |-> "NOT_READABLE", X |-> "NOT_EXECUTABLE"]

is_huge(e) == "IS_BASIC" \notin e.bits /\ "GLOBAL_OR_HUGE" \in e.bits
is_global(e) == {"IS_BASIC", "GLOBAL_OR_HUGE"} \subseteq e.bits
is_user(e) == {"PLVL", "PLVH"} \subseteq e.bits

la_is_present(e) == "VALID" \in e.bits
la_is_last(e, level) == level = 1 \/ is_huge(e)

la_prop(e) ==
    [flags |-> Carried(la_Flags, la_NotFlags, e),
     cache |-> IF "MATL" \notin e.bits /\ "MATH" \in e.bits THEN "WriteCombining" ELSE "Writeback",
     priv |-> {f \in AllPriv : (f = "USER" /\ is_user(e)) \/ (f = "GLOBAL" /\ is_global(e))}]

la_set_prop(e, p) ==
    IF ~ la_is_present(e) THEN e
    ELSE Entry(e.page, (e.bits \cap {"IS_BASIC"}) \cup {"VALID", "DIRTY"}
                 \cup Encoded(la_Flags, la_NotFlags, p.flags)
                 \cup (IF "USER" \in p.priv THEN {"PLVL", "PLVH"} ELSE {})
                 \cup (IF "GLOBAL" \in p.priv /\ ~ is_huge(e) THEN {"GLOBAL_OR_HUGE"} ELSE {})
                 \cup (CASE p.cache = "Writeback" -> {"MATL"}
                         [] p.cache = "WriteCombining" -> {"MATH"} [] OTHER -> {}))

la_new_page(page, level, p) ==
    LET kind == IF level = 1 THEN "IS_BASIC" ELSE "GLOBAL_OR_HUGE"
        e == la_set_prop(Entry(page, {"VALID", kind}), p)
    IN  Entry(page, e.bits \cup {kind})
la_new_pt(page) == Entry(page, {"VALID"})

-----------------------------------------------------------------------------
(* The second stage of the x86 IOMMU. *)
iommu_Flags == [R |-> "READABLE", W |-> "WRITABLE", ACCESSED |-> "ACCESSED", DIRTY |-> "DIRTY"]

iommu_is_present(e) == {"READABLE", "WRITABLE"} \cap e.bits # {}
iommu_is_last(e, level) == level = 1

iommu_prop(e) ==
    [flags |-> Carried(iommu_Flags, << >>, e),
     cache |-> IF "SNOOP" \in e.bits THEN "Writeback" ELSE "Uncacheable",
     priv |-> {}]

iommu_set_prop(e, p) ==
    Entry(e.page, (e.bits \cap {"LAST_PAGE"}) \cup Encoded(iommu_Flags, << >>, p.flags \cap {"R", "W"})
                     \cup (IF p.cache # "Uncacheable" THEN {"SNOOP"} ELSE {}))

iommu_new_page(page, level, p) == iommu_set_prop(Entry(page, {"LAST_PAGE"}), p)
iommu_new_pt(page) == Entry(page, {"READABLE", "WRITABLE"})

-----------------------------------------------------------------------------
(* PageTableEntryTrait *)
is_present(a, e) ==
    CASE a = "x86" -> x86_is_present(e) [] a = "riscv" -> riscv_is_present(e)
      [] a = "loongarch" -> la_is_present(e) [] a = "iommu" -> iommu_is_present(e)
is_last(a, e, level) ==
    CASE a = "x86" -> x86_is_last(e, level) [] a = "riscv" -> riscv_is_last(e, level)
      [] a = "loongarch" -> la_is_last(e, level) [] a = "iommu" -> iommu_is_last(e, level)
prop(a, e) ==
    CASE a = "x86" -> x86_prop(e) [] a = "riscv" -> riscv_prop(e)
      [] a = "loongarch" -> la_prop(e) [] a = "iommu" -> iommu_prop(e)
set_prop(a, e, p) ==
    CASE a = "x86" -> x86_set_prop(e, p) [] a = "riscv" -> riscv_set_prop(e, p)
      [] a = "loongarch" -> la_set_prop(e, p) [] a = "iommu" -> iommu_set_prop(e, p)
new_page(a, page, level, p) ==
    CASE a = "x86" -> x86_new_page(page, level, p) [] a = "riscv" -> riscv_new_page(page, level, p)
      [] a = "loongarch" -> la_new_page(page, level, p) [] a = "iommu" -> iommu_new_page(page, level, p)
new_pt(a, page) ==
    CASE a = "x86" -> x86_new_pt(page) [] a = "riscv" -> riscv_new_pt(page)
      [] a = "loongarch" -> la_new_pt(page) [] a = "iommu" -> iommu_new_pt(page)

-----------------------------------------------------------------------------
(* The properties the callers may give (new_page_req and set_prop_req), and *)
(* the levels at which the format maps pages.                               *)
PropsOf(a) ==
    {p \in [flags : SUBSET PteFlag, cache : AllCache, priv : SUBSET AllPriv] :
       CASE a = "x86" -> "R" \in p.flags /\ p.cache # "WriteCombining"
         [] a = "riscv" -> /\ p.cache \in {"Writeback", "Uncacheable"}
                           /\ p.flags \cap {"R", "W", "X"} # {}
                           /\ p.flags \cap {"ACCESSED", "DIRTY"} = {}
         [] a = "loongarch" -> /\ p.cache \in {"Writeback", "WriteCombining"}
                               /\ "DIRTY" \in p.flags
         [] a = "iommu" -> /\ p.cache \in {"Writeback", "Uncacheable"} /\ p.priv = {}
                           /\ p.flags # {} /\ p.flags \subseteq {"R", "W"}}
HighestLevel(a) == CASE a = "x86" -> 2 [] a = "riscv" -> 4 [] OTHER -> 1
Props == [a \in PteArch |-> PropsOf(a)]

Absent == [kind |-> "absent", page |-> 0, level |-> 1, prop |-> prop("x86", new_absent)]

Init == arch \in PteArch /\ pte = new_absent /\ meant = Absent

NewPage(page, level, p) ==
    /\ level <= HighestLevel(arch)
    /\ pte' = new_page(arch, page, level, p)
    /\ meant' = [kind |-> "page", page |-> page, level |-> level, prop |-> p]
    /\ UNCHANGED arch

NewPt(page) ==
    /\ pte' = new_pt(arch, page)
    /\ meant' = [Absent EXCEPT !.kind = "pt", !.page = page]
    /\ UNCHANGED arch

SetProp(p) ==
    /\ meant.kind = "page" \/ (meant.kind = "absent" /\ arch # "iommu")
    /\ pte' = set_prop(arch, pte, p)
    /\ meant' = IF meant.kind = "page" THEN [meant EXCEPT !.prop = p] ELSE meant
    /\ UNCHANGED arch

(* The hardware notes an access or a write in the entry of a page. *)
HardwareMarks(f) ==
    /\ meant.kind = "page" /\ arch # "loongarch"
    /\ f \in {"ACCESSED", "DIRTY"} /\ f \in PteFlag
    /\ pte' = Entry(pte.page, pte.bits \cup {f})
    /\ meant' = [meant EXCEPT !.prop.flags = @ \cup {f}]
    /\ UNCHANGED arch

Next ==
    \/ \E page \in PageNumber, p \in Props[arch] : \E level \in 1 .. 2 : NewPage(page, level, p)
    \/ \E page \in PageNumber : NewPt(page)
    \/ \E p \in Props[arch] : SetProp(p)
    \/ \E f \in {"ACCESSED", "DIRTY"} : HardwareMarks(f)

-----------------------------------------------------------------------------
(* In every format, after any sequence of rewrites and of marks by the      *)
(* hardware, an entry reads back as what it was set to: a page is present,  *)
(* is a leaf at its level, and has the address and the properties given; an *)
(* entry for a child table is present, is no leaf above the last level and  *)
(* has the address of the table; an absent entry stays all zero.            *)
EntryReadsBack ==
    CASE meant.kind = "page" ->
           /\ is_present(arch, pte) /\ is_last(arch, pte, meant.level)
           /\ pte.page = meant.page /\ prop(arch, pte) = meant.prop
      [] meant.kind = "pt" ->
           /\ is_present(arch, pte) /\ pte.page = meant.page
           /\ \A level \in 2 .. 4 : ~ is_last(arch, pte, level)
      [] meant.kind = "absent" -> pte = new_absent /\ ~ is_present(arch, pte)

-----------------------------------------------------------------------------
(***************************************************************************)
(* The addresses a page table translates: vaddr_range and is_valid_range of *)
(* mm/page_table/mod.rs, computed in machine words of USIZE_BITS bits for   *)
(* several configurations, against the walk the hardware does.              *)
(***************************************************************************)

CONSTANTS
    USIZE_BITS,
    PtConfigs   \* set of [page_bits, index_bits, levels, width, sign_ext, first, last]

VARIABLES
    pt_config,
    asked       \* <<start, end>> given to is_valid_range, <<>> before the call

vaVars == <<pt_config, asked>>

Word == 0 .. 2 ^ USIZE_BITS - 1
Shl(a, n) == (a * 2 ^ n) % 2 ^ USIZE_BITS

pte_index_bit_offset(c, level) == c.page_bits + c.index_bits * (level - 1)

pte_index(c, va, level) ==
    (va \div 2 ^ pte_index_bit_offset(c, level)) % 2 ^ c.index_bits

pt_va_range_start(c) == Shl(c.first, pte_index_bit_offset(c, c.levels))

\* `wrapping_sub(1)`: the last address of the last top-level entry.
pt_va_range_end(c) ==
    (Shl(c.last, pte_index_bit_offset(c, c.levels)) - 1) % 2 ^ USIZE_BITS

sign_bit_of_va(c, va) == (va \div 2 ^ (c.width - 1)) % 2 = 1

apply_sign_ext(c, va) == va | (2 ^ USIZE_BITS - 2 ^ c.width)

\* Inclusive at both ends.
vaddr_range(c) ==
    LET start == pt_va_range_start(c)
        end == pt_va_range_end(c)
    IN IF c.sign_ext /\ sign_bit_of_va(c, start)
       THEN <<apply_sign_ext(c, start), apply_sign_ext(c, end)>>
       ELSE <<start, end>>

is_valid_range(c, r) ==
    /\ r[1] < r[2]
    /\ vaddr_range(c)[1] <= r[1]
    /\ r[2] - 1 <= vaddr_range(c)[2]

VaInit == pt_config \in PtConfigs /\ asked = <<>>

\* cursor, cursor_mut and largest_pages all ask before they touch the table.
Ask ==
    /\ asked = <<>>
    /\ \E start, end \in Word : asked' = <<start, end>>
    /\ UNCHANGED pt_config

VaNext == Ask

-----------------------------------------------------------------------------
\* The walk of the MMU: the bits above the width repeat the sign bit, or are
\* zero, and the top-level index lies in the range of the configuration.
Translated(c, va) ==
    /\ va \div 2 ^ c.width =
        IF c.sign_ext /\ sign_bit_of_va(c, va) THEN 2 ^ (USIZE_BITS - c.width) - 1 ELSE 0
    /\ (va % 2 ^ c.width) \div 2 ^ pte_index_bit_offset(c, c.levels) \in c.first .. c.last - 1

\* is_valid_range accepts exactly the non-empty ranges all of whose addresses
\* the table translates, up to the last word of the address space, and within
\* them the walk of pte_index tells every two pages apart.
ValidRangeExact ==
    asked # <<>> =>
        LET c == pt_config
            r == asked[1] .. asked[2] - 1
            Walk(va) == [l \in 1 .. c.levels |-> pte_index(c, va, l)]
        IN /\ is_valid_range(c, asked) <=> r # {} /\ \A va \in r : Translated(c, va)
           /\ is_valid_range(c, asked) =>
                \A va \in {asked[1]}, wa \in r :
                    Walk(va) = Walk(wa) <=> va \div 2 ^ c.page_bits = wa \div 2 ^ c.page_bits
=============================================================================

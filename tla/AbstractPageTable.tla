--------------------------- MODULE AbstractPageTable ---------------------------
(* What a page table cursor promises its caller (the documentation of Cursor  *)
(* and CursorMut in ostd/src/mm/page_table/cursor/mod.rs): a map from pages   *)
(* to the frames and properties they are translated to, and a position in it. *)
(* There are no nodes, no levels and no huge pages.                           *)
EXTENDS Integers

CONSTANTS
    Page,       \* the pages of the address space
    Items,      \* what may be mapped: [pa, len, prop], len in pages
    Props

VARIABLES
    mapping,    \* page -> <<pa, prop>>, or <<>> where nothing is mapped
    barrier,    \* <<start, end>> of the open cursor, <<>> without a cursor
    pos,        \* the cursor's address
    req,        \* the call under way: <<operation, length, arguments>>, or <<>>
    ret         \* what the last call returned

avars == <<mapping, barrier, pos, req, ret>>

Pages(lo, n) == lo .. (lo + n - 1)

\* Nothing is mapped from lo up to, not including, hi.
Empty(lo, hi) == \A p \in lo .. (hi - 1) : mapping[p] = <<>>

\* The n pages from lo are the consecutive parts of one item.
Holds(lo, n, pa, prop) == \A p \in Pages(lo, n) : mapping[p] = <<pa + (p - lo), prop>>

Write(lo, n, value(_)) ==
    mapping' = [p \in Page |-> IF p \in Pages(lo, n) THEN value(p) ELSE mapping[p]]

Result(kind, lo, n, item) == [kind |-> kind, va |-> lo, len |-> n, item |-> item]

\* A fragment for the n pages from lo: the item they hold, or a whole subtree.
Fragment(lo, n, r) ==
    \/ r = Result("stray", lo, n, <<>>)
    \/ /\ mapping[lo] # <<>>
       /\ Holds(lo, n, mapping[lo][1], mapping[lo][2])
       /\ r = Result("mapped", lo, n, mapping[lo])

AInit ==
    /\ mapping = [p \in Page |-> <<>>]
    /\ barrier = <<>> /\ pos = 0 /\ req = <<>>
    /\ ret = Result("none", 0, 0, <<>>)

New(start, end) ==
    /\ barrier = <<>> /\ start < end
    /\ barrier' = <<start, end>> /\ pos' = start
    /\ UNCHANGED <<mapping, req, ret>>

Close ==
    /\ barrier # <<>> /\ req = <<>>
    /\ barrier' = <<>> /\ pos' = 0
    /\ ret' = Result("none", 0, 0, <<>>) /\ UNCHANGED <<mapping, req>>

\* A call is made; its effect and its result come in one later step.
Invoke ==
    /\ barrier # <<>> /\ req = <<>>
    /\ \/ \E n \in 0 .. (barrier[2] - pos) :
             \/ req' \in {<<"find_next", n, <<>> >>, <<"take_next", n, <<>> >>}
             \/ \E prop \in Props : req' = <<"protect_next", n, <<prop>> >>
       \/ \E item \in Items : req' = <<"map", 0, <<item>> >>
       \/ req' = <<"query", 0, <<>> >>
       \/ \E target \in Page : req' = <<"jump", 0, <<target>> >>
    /\ UNCHANGED <<mapping, barrier, pos, ret>>

\* No mapped page within len: the cursor passes the window, and nothing mapped.
NothingWithin(len) ==
    /\ ret' = Result("none", 0, 0, <<>>)
    /\ pos' \in (pos + len) .. barrier[2] /\ Empty(pos, pos')
    /\ UNCHANGED <<mapping, barrier>>

FindNext(len) ==
    \/ NothingWithin(len)
    \/ /\ ret' = Result("found", pos', 0, <<>>)
       /\ pos' \in Pages(pos, len) /\ Empty(pos, pos') /\ mapping[pos'] # <<>>
       /\ UNCHANGED <<mapping, barrier>>

\* The first mapping, or a subtree that lies in the window, is taken out; the
\* cursor moves past it.
TakeNext(len) ==
    \/ NothingWithin(len)
    \/ LET lo == ret'.va
           n == ret'.len
       IN  /\ ret'.kind \in {"mapped", "stray"} /\ n > 0
           /\ pos <= lo /\ lo + n <= pos + len /\ Empty(pos, lo)
           /\ Fragment(lo, n, ret') /\ Write(lo, n, LAMBDA p : <<>>)
           /\ pos' = lo + n /\ UNCHANGED barrier

\* The first mapping in the window gets the new property, as far as it lies in
\* the window.
ProtectNext(len, prop) ==
    \/ NothingWithin(len)
    \/ LET lo == ret'.va
           n == ret'.len
       IN  /\ ret' = Result("protected", lo, n, <<>>) /\ n > 0
           /\ pos <= lo /\ lo + n <= pos + len /\ Empty(pos, lo)
           /\ mapping[lo] # <<>> /\ Holds(lo, n, mapping[lo][1], mapping[lo][2])
           /\ Write(lo, n, LAMBDA p : <<mapping[p][1], prop>>)
           /\ pos' = lo + n /\ UNCHANGED barrier

\* What was mapped there is handed back as one fragment.
Map(item) ==
    /\ pos' = pos + item.len /\ pos' <= barrier[2]
    /\ \/ Fragment(pos, item.len, ret')
       \/ ret' = Result("ok", 0, 0, <<>>) /\ Empty(pos, pos + item.len)
    /\ Write(pos, item.len, LAMBDA p : <<item.pa + (p - pos), item.prop>>)
    /\ UNCHANGED barrier

\* Pages around the position that hold nothing, or parts of one item.
Query ==
    LET lo == ret'.va
        n == ret'.len
        item == ret'.item
    IN  /\ \/ pos = barrier[2] /\ ret' = Result("err", 0, 0, <<>>)
           \/ /\ pos < barrier[2] /\ pos \in Pages(lo, n) /\ Pages(lo, n) \subseteq Page
              /\ ret' = Result("state", lo, n, item)
              /\ IF item = <<>> THEN Empty(lo, lo + n) ELSE Holds(lo, n, item[1], item[2])
        /\ UNCHANGED <<mapping, barrier, pos>>

\* A target out of range is an error.  A cursor that has used up its range may
\* panic instead of moving back.
Jump(target) ==
    /\ IF target \in barrier[1] .. (barrier[2] - 1)
       THEN \/ pos' = target /\ ret' = Result("ok", 0, 0, <<>>)
            \/ pos' = pos /\ pos = barrier[2] /\ ret' = Result("panic", 0, 0, <<>>)
       ELSE pos' = pos /\ ret' = Result("err", 0, 0, <<>>)
    /\ UNCHANGED <<mapping, barrier>>

Respond ==
    /\ req # <<>> /\ req' = <<>>
    /\ \/ req[1] = "find_next" /\ FindNext(req[2])
       \/ req[1] = "take_next" /\ TakeNext(req[2])
       \/ req[1] = "protect_next" /\ ProtectNext(req[2], req[3][1])
       \/ req[1] = "map" /\ Map(req[3][1])
       \/ req[1] = "query" /\ Query
       \/ req[1] = "jump" /\ Jump(req[3][1])

ANext == (\E start, end \in Page : New(start, end + 1)) \/ Close \/ Invoke \/ Respond

ASpec == AInit /\ [][ANext]_avars
================================================================================

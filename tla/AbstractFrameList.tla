------------------------- MODULE AbstractFrameList -------------------------
(***************************************************************************)
(* What a list of frames promises: each list is a sequence of frames, a    *)
(* cursor is a position in one sequence (0 is the ghost position between   *)
(* the last and the first element), and the two membership questions are   *)
(* answered by membership.                                                 *)
(***************************************************************************)
EXTENDS Naturals, Sequences, SequencesExt

CONSTANTS Frame, List

VARIABLES
    lists,     \* the frames of each list, front to back
    position,  \* the open cursors: [list, pos, dropping], or NoCursor
    unlisted,  \* the frames somebody holds outside every list
    answer     \* the last answer of contains or cursor_mut_at

avars == <<lists, position, unlisted, answer>>

NoPosition == [list |-> "none", pos |-> 0, dropping |-> FALSE]

Init ==
    /\ lists = [l \in List |-> <<>>]
    /\ position = NoPosition
    /\ unlisted = {}
    /\ answer = FALSE

Closed(l) == position.list # l

Acquire(f) ==
    /\ f \notin unlisted
    /\ \A l \in List : ~ Contains(lists[l], f)
    /\ unlisted' = unlisted \cup {f}
    /\ UNCHANGED <<lists, position, answer>>

Release(f) ==
    /\ f \in unlisted
    /\ unlisted' = unlisted \ {f}
    /\ UNCHANGED <<lists, position, answer>>

PushAt(l, f, p) ==
    /\ Closed(l)
    /\ f \in unlisted
    /\ lists' = [lists EXCEPT ![l] = InsertAt(@, p, f)]
    /\ unlisted' = unlisted \ {f}
    /\ UNCHANGED <<position, answer>>

PopAt(l, p) ==
    /\ Closed(l)
    /\ p \in DOMAIN lists[l]
    /\ lists' = [lists EXCEPT ![l] = RemoveAt(@, p)]
    /\ unlisted' = unlisted \cup {lists[l][p]}
    /\ UNCHANGED <<position, answer>>

IsMember(l, f) ==
    /\ Closed(l)
    /\ answer' = Contains(lists[l], f)
    /\ UNCHANGED <<lists, position, unlisted>>

Open(l, p, dropping) ==
    /\ position = NoPosition
    /\ position' = [list |-> l, pos |-> p, dropping |-> dropping]
    /\ UNCHANGED <<lists, unlisted, answer>>

OpenAt(l, f) ==
    /\ position = NoPosition
    /\ answer' = Contains(lists[l], f)
    /\ position' = IF answer'
                   THEN [list |-> l, pos |-> CHOOSE p \in DOMAIN lists[l] : lists[l][p] = f,
                         dropping |-> FALSE]
                   ELSE NoPosition
    /\ UNCHANGED <<lists, unlisted>>

Here == lists[position.list]

Move(p) ==
    /\ position # NoPosition
    /\ ~ position.dropping
    /\ position' = [position EXCEPT !.pos = p]
    /\ UNCHANGED <<lists, unlisted, answer>>

MoveNext == Move(IF position.pos = Len(Here) THEN 0 ELSE position.pos + 1)
MovePrev == Move(IF position.pos = 0 THEN Len(Here) ELSE position.pos - 1)

Take ==
    /\ position # NoPosition
    /\ position.pos # 0
    /\ lists' = [lists EXCEPT ![position.list] = RemoveAt(@, position.pos)]
    /\ position' = [position EXCEPT !.pos = IF @ = Len(Here) THEN 0 ELSE @]
    /\ unlisted' = IF position.dropping THEN unlisted ELSE unlisted \cup {Here[position.pos]}
    /\ UNCHANGED answer

Insert(f) ==
    /\ position # NoPosition
    /\ ~ position.dropping
    /\ f \in unlisted
    /\ lists' = [lists EXCEPT ![position.list] =
                    InsertAt(@, IF position.pos = 0 THEN Len(@) + 1 ELSE position.pos, f)]
    /\ position' = [position EXCEPT !.pos = IF @ = 0 THEN 0 ELSE @ + 1]
    /\ unlisted' = unlisted \ {f}
    /\ UNCHANGED answer

Close ==
    /\ position # NoPosition
    /\ position.dropping => Here = <<>>
    /\ position' = NoPosition
    /\ UNCHANGED <<lists, unlisted, answer>>

Next ==
    \/ \E f \in Frame : Acquire(f) \/ Release(f) \/ Insert(f)
    \/ \E l \in List, f \in Frame :
          \/ PushAt(l, f, 1)
          \/ PushAt(l, f, Len(lists[l]) + 1)
          \/ IsMember(l, f)
          \/ OpenAt(l, f)
    \/ \E l \in List : PopAt(l, 1) \/ PopAt(l, Len(lists[l]))
    \/ \E l \in List :
          \/ Open(l, IF lists[l] = <<>> THEN 0 ELSE 1, TRUE)
          \/ Open(l, IF lists[l] = <<>> THEN 0 ELSE 1, FALSE)
          \/ Open(l, Len(lists[l]), FALSE)
    \/ MoveNext \/ MovePrev \/ Take \/ Close

Spec == Init /\ [][Next]_avars
=============================================================================

----------------------------- MODULE LinkedList -----------------------------
(***************************************************************************)
(* The intrusive doubly linked list of frames (mm/frame/linked_list.rs):   *)
(* the links live in the metadata slots of the frames, a list keeps its    *)
(* two ends, a size and a lazily drawn identity, and membership is decided *)
(* by comparing the identity written in the frame's slot.                  *)
(*                                                                         *)
(* A mutable borrow is one open cursor: while it is open nothing else can  *)
(* be called on that list.  Dropping a list is a cursor that takes every   *)
(* element in turn.                                                        *)
(***************************************************************************)
EXTENDS Naturals, Sequences, SequencesExt, FiniteSets

CONSTANTS
    Frame,        \* the frames that can carry a link
    List,         \* the list objects
    MAX_LIST_ID   \* identities stop here; drawing this one aborts

NoFrame == "none"

VARIABLES
    front, back, size, list_id,  \* the fields of each list
    LIST_ID_ALLOCATOR,           \* the next identity to hand out
    links,                       \* next and prev of each frame
    in_list,                     \* the identity stored in each frame's slot
    cursor,                      \* the open cursor, or NoCursor
    held,                        \* frames owned through a UniqueFrame handle
    found                        \* the last answer of contains or cursor_mut_at

listVars == <<front, back, size, list_id, LIST_ID_ALLOCATOR, links, in_list,
              cursor, held, found>>

NoCursor == [list |-> "none", current |-> NoFrame, dropping |-> FALSE]

Init ==
    /\ front = [l \in List |-> NoFrame]
    /\ back = [l \in List |-> NoFrame]
    /\ size = [l \in List |-> 0]
    /\ list_id = [l \in List |-> 0]
    /\ LIST_ID_ALLOCATOR = 1
    /\ links = [f \in Frame |-> [next |-> NoFrame, prev |-> NoFrame]]
    /\ in_list = [f \in Frame |-> 0]
    /\ cursor = NoCursor
    /\ held = {}
    /\ found = FALSE

Listed(f) == in_list[f] # 0

-----------------------------------------------------------------------------
(* Frames come from the allocator and go back to it. *)

UniqueFrameNew(f) ==
    /\ f \notin held
    /\ ~ Listed(f)
    /\ held' = held \cup {f}
    /\ links' = [links EXCEPT ![f] = [next |-> NoFrame, prev |-> NoFrame]]
    /\ UNCHANGED <<front, back, size, list_id, LIST_ID_ALLOCATOR, in_list, cursor, found>>

UniqueFrameDrop(f) ==
    /\ f \in held
    /\ held' = held \ {f}
    /\ UNCHANGED <<front, back, size, list_id, LIST_ID_ALLOCATOR, links, in_list, cursor, found>>

-----------------------------------------------------------------------------
(* Without the lazy draw a list that never held a frame has identity 0, the *)
(* value a frame in no list carries.                                        *)
lazy_get_id_never(l) == UNCHANGED <<list_id, LIST_ID_ALLOCATOR>>

(* The identity of a list is drawn the first time it is needed; running    *)
(* out of identities aborts, so no such step exists.                       *)
lazy_get_id(l) ==
    IF list_id[l] = 0
    THEN /\ LIST_ID_ALLOCATOR < MAX_LIST_ID
         /\ list_id' = [list_id EXCEPT ![l] = LIST_ID_ALLOCATOR]
         /\ LIST_ID_ALLOCATOR' = LIST_ID_ALLOCATOR + 1
    ELSE UNCHANGED <<list_id, LIST_ID_ALLOCATOR>>

(* The links around the frame removed at c. *)
TakeCurrent(l, c) ==
    LET n == links[c].next
        p == links[c].prev IN
    /\ links' = [g \in Frame |->
                   IF g = c THEN [next |-> NoFrame, prev |-> NoFrame]
                   ELSE [next |-> IF g = p THEN n ELSE links[g].next,
                         prev |-> IF g = n THEN p ELSE links[g].prev]]
    /\ front' = IF p = NoFrame THEN [front EXCEPT ![l] = n] ELSE front
    /\ back' = IF n = NoFrame THEN [back EXCEPT ![l] = p] ELSE back
    /\ in_list' = [in_list EXCEPT ![c] = 0]
    /\ size' = [size EXCEPT ![l] = @ - 1]
    /\ UNCHANGED <<list_id, LIST_ID_ALLOCATOR>>

(* The links around the frame f inserted before c, or at the back when c is *)
(* the ghost position.                                                      *)
InsertBefore(l, c, f) ==
    LET p == IF c = NoFrame THEN back[l] ELSE links[c].prev IN
    /\ f \in held
    /\ links' = [g \in Frame |->
                   IF g = f
                   THEN [next |-> IF c = NoFrame THEN links[f].next ELSE c,
                         prev |-> IF p = NoFrame THEN links[f].prev ELSE p]
                   ELSE [next |-> IF g = p THEN f ELSE links[g].next,
                         prev |-> IF g = c THEN f ELSE links[g].prev]]
    /\ front' = IF p = NoFrame THEN [front EXCEPT ![l] = f] ELSE front
    /\ back' = IF c = NoFrame THEN [back EXCEPT ![l] = f] ELSE back
    /\ lazy_get_id(l)
    /\ in_list' = [in_list EXCEPT ![f] = list_id'[l]]
    /\ held' = held \ {f}
    /\ size' = [size EXCEPT ![l] = @ + 1]

-----------------------------------------------------------------------------
(* Calls on a list nobody has a cursor on. *)

Borrowable(l) == cursor.list # l

push_front(l, f) ==
    /\ Borrowable(l)
    /\ InsertBefore(l, front[l], f)
    /\ UNCHANGED <<cursor, found>>

push_back(l, f) ==
    /\ Borrowable(l)
    /\ InsertBefore(l, NoFrame, f)
    /\ UNCHANGED <<cursor, found>>

Pop(l, c) ==
    /\ Borrowable(l)
    /\ c # NoFrame
    /\ TakeCurrent(l, c)
    /\ held' = held \cup {c}
    /\ UNCHANGED <<cursor, found>>

pop_front(l) == Pop(l, front[l])
pop_back(l) == Pop(l, back[l])

contains(l, f) ==
    /\ Borrowable(l)
    /\ lazy_get_id(l)
    /\ found' = (in_list[f] = list_id'[l])
    /\ UNCHANGED <<front, back, size, links, in_list, cursor, held>>

-----------------------------------------------------------------------------
(* Cursors. *)

OpenCursor(l, c, dropping) ==
    /\ cursor = NoCursor
    /\ cursor' = [list |-> l, current |-> c, dropping |-> dropping]
    /\ UNCHANGED <<front, back, size, list_id, LIST_ID_ALLOCATOR, links, in_list, held, found>>

cursor_front_mut(l) == OpenCursor(l, front[l], FALSE)
cursor_back_mut(l) == OpenCursor(l, back[l], FALSE)

cursor_mut_at(l, f) ==
    /\ cursor = NoCursor
    /\ lazy_get_id(l)
    /\ found' = (in_list[f] = list_id'[l])
    /\ cursor' = IF found' THEN [list |-> l, current |-> f, dropping |-> FALSE] ELSE NoCursor
    /\ UNCHANGED <<front, back, size, links, in_list, held>>

CanMove == cursor # NoCursor /\ ~ cursor.dropping

MoveTo(c) ==
    /\ CanMove
    /\ cursor' = [cursor EXCEPT !.current = c]
    /\ UNCHANGED <<front, back, size, list_id, LIST_ID_ALLOCATOR, links, in_list, held, found>>

move_next ==
    MoveTo(IF cursor.current = NoFrame THEN front[cursor.list] ELSE links[cursor.current].next)

move_prev ==
    MoveTo(IF cursor.current = NoFrame THEN back[cursor.list] ELSE links[cursor.current].prev)

(* Taking a frame in the middle leaves the cursor on the next one. *)
take_current ==
    /\ CanMove
    /\ cursor.current # NoFrame
    /\ TakeCurrent(cursor.list, cursor.current)
    /\ cursor' = [cursor EXCEPT !.current = links[cursor.current].next]
    /\ held' = held \cup {cursor.current}
    /\ UNCHANGED found

insert_before(f) ==
    /\ CanMove
    /\ InsertBefore(cursor.list, cursor.current, f)
    /\ UNCHANGED <<cursor, found>>

(* The end of the borrow. *)
CloseCursor ==
    /\ CanMove
    /\ cursor' = NoCursor
    /\ UNCHANGED <<front, back, size, list_id, LIST_ID_ALLOCATOR, links, in_list, held, found>>

(* Dropping a list takes and drops its frames one after the other; the next *)
(* list at this place starts without an identity.                           *)
DropBegin(l) == OpenCursor(l, front[l], TRUE)

DropStep ==
    /\ cursor.dropping
    /\ IF cursor.current # NoFrame
       THEN /\ TakeCurrent(cursor.list, cursor.current)
            /\ cursor' = [cursor EXCEPT !.current = links[cursor.current].next]
       ELSE /\ cursor' = NoCursor
            /\ list_id' = [list_id EXCEPT ![cursor.list] = 0]
            /\ UNCHANGED <<front, back, size, LIST_ID_ALLOCATOR, links, in_list>>
    /\ UNCHANGED <<held, found>>

Next ==
    \/ \E f \in Frame : UniqueFrameNew(f) \/ UniqueFrameDrop(f) \/ insert_before(f)
    \/ \E l \in List, f \in Frame :
          push_front(l, f) \/ push_back(l, f) \/ contains(l, f) \/ cursor_mut_at(l, f)
    \/ \E l \in List :
          \/ pop_front(l) \/ pop_back(l)
          \/ cursor_front_mut(l) \/ cursor_back_mut(l)
          \/ DropBegin(l)
    \/ move_next \/ move_prev \/ take_current \/ CloseCursor \/ DropStep

-----------------------------------------------------------------------------
(* The sequence a list stands for: the chain of next links from the front, *)
(* as long as the size says.                                               *)
Elements(l) ==
    LET chain[i \in 1 .. size[l]] ==
            IF i = 1 THEN front[l]
            ELSE IF chain[i - 1] = NoFrame THEN NoFrame ELSE links[chain[i - 1]].next
    IN  [i \in 1 .. size[l] |-> chain[i]]

PositionOf(l, c) ==
    IF c = NoFrame THEN 0
    ELSE IF Contains(Elements(l), c) THEN CHOOSE i \in 1 .. size[l] : Elements(l)[i] = c
    ELSE size[l] + 1

Abs == INSTANCE AbstractFrameList WITH
    lists <- [l \in List |-> Elements(l)],
    position <- [list |-> cursor.list,
                 pos |-> IF cursor = NoCursor THEN 0 ELSE PositionOf(cursor.list, cursor.current),
                 dropping |-> cursor.dropping],
    unlisted <- held,
    answer <- found

(* Every operation on the links, the ends, the size and the identities does *)
(* to the sequence of frames what its name says, the cursor stays on the    *)
(* element it was on, contains and cursor_mut_at answer by real membership  *)
(* (also for a list that never had an identity and for frames of a dropped  *)
(* list), and drop leaves no frame behind.                                  *)
ListIsSequence == Abs!Spec
=============================================================================

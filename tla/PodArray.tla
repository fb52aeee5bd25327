------------------------------ MODULE PodArray ------------------------------
(***************************************************************************)
(* csjp::PodArray (src/container/csjp_pod_array.h): plain values in one    *)
(* block.  The record is that of an Array, the items are the values.       *)
(***************************************************************************)
LOCAL INSTANCE Naturals
LOCAL INSTANCE Sequences
INSTANCE Outcome

CONSTANTS
    Limit, Step,  \* below the limit the capacity grows by the step: 512 and 64
    Unknown       \* a value nobody has written

Empty == [block |-> FALSE, cap |-> 0, items |-> <<>>]

FirstItems(s, n) == SubSeq(s, 1, IF n < Len(s) THEN n ELSE Len(s))

SetCapacity(a, capacity) ==
    [block |-> TRUE, cap |-> capacity, items |-> FirstItems(a.items, capacity)]

ExtendCapacity(a, needed) ==
    SetCapacity(a, needed + (IF needed < Limit THEN Step ELSE 4 * needed))

\* Moves [from, until) towards the front, over what is there.
ShiftForward(a, from, until, offset) ==
    IF until > Len(a.items) \/ from > until \/ offset > from THEN Raised(a)
    ELSE IF ~a.block THEN Done(a)
    ELSE Done([a EXCEPT !.items =
        [i \in 1 .. IF until = Len(@) THEN Len(@) - offset ELSE Len(@) |->
            IF i > from - offset /\ i <= until - offset THEN @[i + offset] ELSE @[i]]])

\* mutant: never longer than before
ShiftBackwardKeepsLength(a, from, until, offset) ==
    LET room == IF a.cap <= until + offset THEN ExtendCapacity(a, Len(a.items) + offset) ELSE a
    IN  IF until > Len(a.items) \/ from > until THEN Raised(a)
        ELSE Done([room EXCEPT !.items = [i \in DOMAIN @ |->
            IF i > from + offset /\ i <= until + offset THEN @[i - offset] ELSE @[i]]])

\* Moves [from, until) towards the back, over what is there; the gap keeps what it had.
ShiftBackward(a, from, until, offset) ==
    LET room == IF a.cap <= until + offset THEN ExtendCapacity(a, Len(a.items) + offset) ELSE a
        last == IF Len(a.items) <= until + offset THEN until + offset ELSE Len(a.items)
    IN  IF until > Len(a.items) \/ from > until THEN Raised(a)
        ELSE Done([room EXCEPT !.items = [i \in 1 .. last |->
            IF i > from + offset /\ i <= until + offset THEN @[i - offset]
            ELSE IF i <= Len(@) THEN @[i] ELSE Unknown]])

\* add() and push()
Add(a, value) ==
    LET room == IF a.cap <= Len(a.items) THEN ExtendCapacity(a, Len(a.items) + 1) ELSE a
    IN  [room EXCEPT !.items = Append(@, value)]

\* prepend() shifts the wrong way: by 1 in front of position 0, which throws.
Prepend(a, value) ==
    LET room == IF a.cap <= Len(a.items) THEN ExtendCapacity(a, Len(a.items) + 1) ELSE a
        shifted == ShiftForward(room, 0, Len(room.items), 1)
    IN  IF shifted.raises THEN Raised(room)
        ELSE Done([shifted.self EXCEPT !.items = Append([@ EXCEPT ![1] = value], Unknown)])

(* moveToFrontAt() lets the position behind the last value through: what   *)
(* is there becomes the first of a longer array.                           *)
MoveToFrontAt(a, pos) ==
    LET shifted == ShiftBackward(a, 0, pos, 1).self
        value == IF pos = Len(a.items) THEN Unknown ELSE a.items[pos + 1]
    IN  IF pos > Len(a.items) THEN Raised(a)
        ELSE IF ~a.block THEN Ruined(a)
        ELSE Done([shifted EXCEPT !.items = [@ EXCEPT ![1] = value]])

Erase(a, from, until) ==
    IF until > Len(a.items) \/ from > until THEN Raised(a)
    ELSE ShiftForward(a, until, Len(a.items), until - from)

\* removeAt(), and remove() of what index() finds
RemoveAt(a, i) == Erase(a, i, i + 1)

Pop(a) ==
    IF ~a.block THEN Ruined(a)
    ELSE IF a.items = <<>> THEN Raised(a)
    ELSE Done([a EXCEPT !.items = FirstItems(@, Len(@) - 1)])

Clear(a) == [a EXCEPT !.items = <<>>]

\* The copy constructor
Copy(other) == [block |-> TRUE, cap |-> Len(other.items), items |-> other.items]

Index(a, value) ==
    LET hits == {i \in DOMAIN a.items : a.items[i] = value}
    IN  IF hits = {} THEN Raised(a) ELSE Done((CHOOSE i \in hits : \A j \in hits : i <= j) - 1)

==============================================================================

------------------------------ MODULE RefArray ------------------------------
(***************************************************************************)
(* csjp::RefArray (src/container/csjp_ref_array.h): pointers to objects    *)
(* that belong to somebody else.  The record is that of an Array.          *)
(***************************************************************************)
LOCAL INSTANCE Naturals
LOCAL INSTANCE Sequences
INSTANCE Outcome

CONSTANTS
    Limit, Step   \* below the limit the capacity grows by the step: 512 and 64

Empty == [block |-> FALSE, cap |-> 0, items |-> <<>>]

FirstItems(s, n) == SubSeq(s, 1, IF n < Len(s) THEN n ELSE Len(s))

SetCapacity(a, capacity) ==
    [block |-> TRUE, cap |-> capacity, items |-> FirstItems(a.items, capacity)]

\* Four times as much again, for all that the comment says of 10%.
ExtendCapacity(a, needed) ==
    SetCapacity(a, needed + (IF needed < Limit THEN Step ELSE 4 * needed))

Add(a, object) ==
    LET room == IF a.cap <= Len(a.items) THEN ExtendCapacity(a, Len(a.items) + 1) ELSE a
    IN  [room EXCEPT !.items = Append(@, object)]

\* removeAt(), and remove() with the index of an equal one
RemoveAt(a, i) ==
    IF i >= Len(a.items) THEN Raised(a)
    ELSE Done([a EXCEPT !.items = FirstItems(@, i) \o SubSeq(@, i + 2, Len(@))])

\* pop(): as Array, and the caller gets an Object<> that will delete what it refers to
Pop(a) ==
    IF ~a.block THEN Ruined(a)
    ELSE IF a.items = <<>> THEN Raised(a)
    ELSE Done([a EXCEPT !.items = FirstItems(@, Len(@) - 1)])

Clear(a) == [a EXCEPT !.items = <<>>]

\* The copy refers to the same objects.
Copy(other) == [block |-> TRUE, cap |-> Len(other.items), items |-> other.items]
==============================================================================

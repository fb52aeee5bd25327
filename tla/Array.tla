-------------------------------- MODULE Array --------------------------------
(***************************************************************************)
(* csjp::Array (src/container/csjp_array.h): pointers to objects the array *)
(* owns, in a block that grows.  An array is a record:                     *)
(*   block   val is not NULL                                               *)
(*   cap     how many pointers fit, beside the zero behind the last        *)
(*   items   the objects of the len first slots                            *)
(***************************************************************************)
LOCAL INSTANCE Naturals
LOCAL INSTANCE Sequences
INSTANCE Outcome

CONSTANTS
    Few, Many     \* the steps of the capacity: 32 and 256 in the code

Empty == [block |-> FALSE, cap |-> 0, items |-> <<>>]

\* The first n of a sequence
FirstItems(s, n) == SubSeq(s, 1, IF n < Len(s) THEN n ELSE Len(s))

\* realloc; objects beyond the new capacity are forgotten
SetCapacity(a, capacity) ==
    [block |-> TRUE, cap |-> capacity, items |-> FirstItems(a.items, capacity)]

Grown(needed) ==
    IF needed < Few THEN 2 * Few ELSE IF needed < Many THEN 2 * Many ELSE 2 * needed

\* Called with more than there are, so its ENSURE never throws.
ExtendCapacity(a, needed) == SetCapacity(a, Grown(needed))

\* All the overloads of add(); they differ in who has made the object.
Add(a, object) ==
    LET room == IF a.cap <= Len(a.items) THEN ExtendCapacity(a, Len(a.items) + 1) ELSE a
    IN  [room EXCEPT !.items = Append(@, object)]

\* join(): the pointers move over, the other array keeps its block
Join(a, other) ==
    LET total == Len(a.items) + Len(other.items)
        room == IF a.cap < total THEN ExtendCapacity(a, total) ELSE a
    IN  [room EXCEPT !.items = a.items \o other.items]
Joined(other) == [other EXCEPT !.items = <<>>]

\* mutant: closes the gap one slot too far in front
RemoveAtOffByOne(a, i) ==
    IF i >= Len(a.items) THEN Raised(a)
    ELSE Done([a EXCEPT !.items = FirstItems(@, i - 1) \o SubSeq(@, i + 1, Len(@))])

RemoveAt(a, i) ==
    IF i >= Len(a.items) THEN Raised(a)
    ELSE Done([a EXCEPT !.items = FirstItems(@, i) \o SubSeq(@, i + 2, Len(@))])

(* pop(): the check lets an array through that has no block yet; its       *)
(* length wraps around and the last slot is read from there.               *)
Pop(a) ==
    IF ~a.block THEN Ruined(a)
    ELSE IF a.items = <<>> THEN Raised(a)
    ELSE Done([a EXCEPT !.items = FirstItems(@, Len(@) - 1)])

Clear(a) == [a EXCEPT !.items = <<>>]

\* The copy constructor; "copies" are new objects, in the same order.
Copy(copies) == [block |-> TRUE, cap |-> Len(copies), items |-> copies]
==============================================================================

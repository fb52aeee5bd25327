------------------------------ MODULE SortedList ------------------------------
(***************************************************************************)
(* What a csjp container promises: a list of entries ordered by key, in    *)
(* which equal keys keep the order they were added in.  A client calls one *)
(* operation at a time and the list changes when the call returns.         *)
(***************************************************************************)
EXTENDS Naturals, Sequences

CONSTANTS Entries, Key(_), None

VARIABLES list, request

Holds(e) == \E i \in 1 .. Len(list) : list[i] = e

\* The calls the preconditions of the operations allow.
Requests ==
    {<<"add", e>> : e \in {f \in Entries : ~Holds(f)}}
    \cup {<<"removeAt", i>> : i \in 0 .. Len(list) - 1}
    \cup {<<"remove", k>> : k \in {Key(list[i]) : i \in 1 .. Len(list)}}
    \cup {<<"clear", None>>}

Without(i) == SubSeq(list, 1, i - 1) \o SubSeq(list, i + 1, Len(list))

\* "Later inserted data with equal key will be inserted after the existing one."
Added(e) ==
    LET notAfter(i) == ~ Key(e) < Key(list[i])
        n == CHOOSE m \in 0 .. Len(list) :
                /\ \A i \in 1 .. m : notAfter(i)
                /\ \A i \in m + 1 .. Len(list) : ~notAfter(i)
    IN  SubSeq(list, 1, n) \o <<e>> \o SubSeq(list, n + 1, Len(list))

Init == list = <<>> /\ request = None

Call ==
    /\ request = None
    /\ request' \in Requests
    /\ UNCHANGED list

Return ==
    /\ request # None
    /\ request' = None
    /\ \/ request[1] = "add" /\ list' = Added(request[2])
       \/ request[1] = "removeAt" /\ list' = Without(request[2] + 1)
       \/ /\ request[1] = "remove"
          /\ \E i \in 1 .. Len(list) : Key(list[i]) = request[2] /\ list' = Without(i)
       \/ request[1] = "clear" /\ list' = <<>>

Next == Call \/ Return

Spec == Init /\ [][Next]_<<list, request>>
==============================================================================

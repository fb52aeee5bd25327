---------------------------- MODULE MessageChannel ----------------------------
(* What a parser on a byte stream promises: messages arrive whole and in order. *)
EXTENDS Sequences, Naturals

CONSTANTS Messages, Acceptable(_)

VARIABLES sent, received

Init == sent = <<>> /\ received = <<>>

Send ==
    /\ \E m \in Messages : sent' = Append(sent, m)
    /\ UNCHANGED received

\* The next message; one that is not acceptable stays where it is.
Receive ==
    /\ Len(received) < Len(sent)
    /\ LET m == sent[Len(received) + 1]
       IN  Acceptable(m) /\ received' = Append(received, m)
    /\ UNCHANGED sent

Next == Send \/ Receive

Spec == Init /\ [][Next]_<<sent, received>>
==============================================================================

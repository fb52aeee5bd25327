------------------------------- MODULE MCEPoll -------------------------------
(* EPoll with a few bytes in each direction, more than one read and one write. *)
EXTENDS EPoll
==============================================================================

------------------------------- MODULE Outcome -------------------------------
(***************************************************************************)
(* How a call of a method may end (src/devel/csjp_exception.h, ENSURE): it *)
(* returns, it throws with the object left as it is by then, or it has     *)
(* gone on with memory that is not the object's and nothing more can be    *)
(* said.                                                                   *)
(***************************************************************************)
Done(self) == [self |-> self, raises |-> FALSE, ruins |-> FALSE]
Raised(self) == [self |-> self, raises |-> TRUE, ruins |-> FALSE]
Ruined(self) == [self |-> self, raises |-> FALSE, ruins |-> TRUE]
==============================================================================

----------------------------- MODULE MCContainer -----------------------------
(* Container with model values for the nodes. *)
EXTENDS Container
==============================================================================

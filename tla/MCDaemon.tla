------------------------------ MODULE MCDaemon ------------------------------
(* The daemon with one worker of the parent and one of the child. *)
EXTENDS Daemon
==============================================================================

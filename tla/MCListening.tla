----------------------------- MODULE MCListening -----------------------------
(* Two connections and the listener in an epoll file, one or two events at a time. *)
EXTENDS Listening
==============================================================================

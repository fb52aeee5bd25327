------------------------------- MODULE MCMutex -------------------------------
(* csjp::Mutex with four contenders and a word of three bits. *)
EXTENDS Mutex
==============================================================================

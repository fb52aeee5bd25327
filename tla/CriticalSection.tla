--------------------------- MODULE CriticalSection ---------------------------
(***************************************************************************)
(* What a lock promises to the code that uses it, without any word in      *)
(* memory: a contender that asked for the critical section is let in only  *)
(* while nobody is inside, and leaves only by itself.                      *)
(* csjp::Mutex (module Mutex) and, through it, the lock hidden in          *)
(* csjp::msgLogger (module Daemon) are shown to implement this module.     *)
(***************************************************************************)

CONSTANT Threads     \* the contenders

VARIABLE phase       \* where each contender stands

Phases == {"outside", "waiting", "inside"}

Init == phase = [t \in Threads |-> "outside"]

Ask(t) ==
    /\ phase[t] = "outside"
    /\ phase' = [phase EXCEPT ![t] = "waiting"]

Enter(t) ==
    /\ phase[t] = "waiting"
    /\ \A u \in Threads : phase[u] # "inside"
    /\ phase' = [phase EXCEPT ![t] = "inside"]

Leave(t) ==
    /\ phase[t] = "inside"
    /\ phase' = [phase EXCEPT ![t] = "outside"]

Next == \E t \in Threads : Ask(t) \/ Enter(t) \/ Leave(t)

Spec == Init /\ [][Next]_phase

==============================================================================

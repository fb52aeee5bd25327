-------------------------------- MODULE Mutex --------------------------------
(***************************************************************************)
(* csjp::Mutex, the spin lock of src/core/csjp_mutex.cpp.                  *)
(*                                                                         *)
(* The lock is one unsigned word changed only by atomic read-modify-write  *)
(* operations.  lock() increments the word and owns the lock when the      *)
(* value before the increment was zero; otherwise it takes its increment   *)
(* back and tries again.  Between the two operations the failed attempt is *)
(* counted in the word like an owner, which is what makes the protocol     *)
(* worth checking.  One action is one atomic operation of the code.        *)
(*                                                                         *)
(* A thread of this module is one activation of Mutex::Lock: a thread that *)
(* locks again while it owns the lock is two activations, the second of    *)
(* which can never succeed (module Daemon has such a pair).                *)
(***************************************************************************)
EXTENDS Naturals, FiniteSets

CONSTANTS
    Threads,    \* the activations of Mutex::Lock that may exist at a time
    Modulus     \* one more than the largest value of the word (2^32 in the code)

ASSUME ThreadsAssumption == IsFiniteSet(Threads)

\* The word can count every contender: fewer than 2^32 activations exist.
ASSUME WordAssumption == Modulus \in Nat /\ Cardinality(Threads) < Modulus

VARIABLES
    mutex,      \* Mutex::mutex
    pc          \* what each activation does next

vars == <<mutex, pc>>

(* "idle"  no Lock object; "add"  about to fetch-and-add in lock();        *)
(* "undo"  the attempt failed, about to fetch-and-sub;                     *)
(* "owner" between the constructor and the destructor of the Lock object.  *)
States == {"idle", "add", "undo", "owner"}

\* The unsigned word wraps in both directions.
Incremented(word) == IF word + 1 = Modulus THEN 0 ELSE word + 1
Decremented(word) == IF word = 0 THEN Modulus - 1 ELSE word - 1

Init ==
    /\ mutex = 0
    /\ pc = [t \in Threads |-> "idle"]

-----------------------------------------------------------------------------
\* Mutants of the actions below, used to show that the properties notice.

\* A store of zero instead of a fetch-and-sub forgets the failed attempts.
UnlockByStore(t) ==
    /\ pc[t] = "owner"
    /\ mutex' = 0
    /\ pc' = [pc EXCEPT ![t] = "idle"]

\* An owner that leaves with its increment still in the word.
UnlockForgotten(t) ==
    /\ pc[t] = "owner"
    /\ pc' = [pc EXCEPT ![t] = "idle"]
    /\ UNCHANGED mutex

\* A failed attempt that goes around the loop without its fetch-and-sub.
FetchAndSubForgotten(t) ==
    /\ pc[t] = "undo"
    /\ pc' = [pc EXCEPT ![t] = "add"]
    /\ UNCHANGED mutex

\* The loop tests the value after the increment of an earlier, failed attempt:
\* a word of one is taken for a free lock.
FetchAndAddOffByOne(t) ==
    /\ pc[t] = "add"
    /\ mutex' = Incremented(mutex)
    /\ pc' = [pc EXCEPT ![t] = IF mutex <= 1 THEN "owner" ELSE "undo"]

-----------------------------------------------------------------------------
\* Mutex::Lock::Lock calls lock().
Lock(t) ==
    /\ pc[t] = "idle"
    /\ pc' = [pc EXCEPT ![t] = "add"]
    /\ UNCHANGED mutex

\* mutexLast = __sync_fetch_and_add(&mutex, 1), and the two tests of mutexLast.
FetchAndAdd(t) ==
    /\ pc[t] = "add"
    /\ mutex' = Incremented(mutex)
    /\ pc' = [pc EXCEPT ![t] = IF mutex = 0 THEN "owner" ELSE "undo"]

\* __sync_fetch_and_sub(&mutex, 1); sched_yield(); and around the loop.
FetchAndSub(t) ==
    /\ pc[t] = "undo"
    /\ mutex' = Decremented(mutex)
    /\ pc' = [pc EXCEPT ![t] = "add"]

\* Mutex::Lock::~Lock calls unlock().
Unlock(t) ==
    /\ pc[t] = "owner"
    /\ mutex' = Decremented(mutex)
    /\ pc' = [pc EXCEPT ![t] = "idle"]

Next == \E t \in Threads : Lock(t) \/ FetchAndAdd(t) \/ FetchAndSub(t) \/ Unlock(t)

Spec == Init /\ [][Next]_vars

(***************************************************************************)
(* Fairness: the scheduler keeps running every runnable thread, and a Lock *)
(* object does not live for ever.  Nobody is obliged to lock.              *)
(***************************************************************************)
Fairness == \A t \in Threads : WF_vars(FetchAndAdd(t) \/ FetchAndSub(t) \/ Unlock(t))

FairSpec == Spec /\ Fairness

-----------------------------------------------------------------------------
\* The activations whose increment is in the word.
Counted == {t \in Threads : pc[t] \in {"undo", "owner"}}

Owners == {t \in Threads : pc[t] = "owner"}

\* The word never exceeds the number of contenders, so it never comes near its
\* width, and every activation is at a place lock() and unlock() have.
TypeOK ==
    /\ mutex \in 0 .. Cardinality(Threads)
    /\ pc \in [Threads -> States]

\* csjp_mutex.cpp:22-30: at most one activation is past the loop of lock() at
\* any time, although failed attempts keep incrementing the word.
MutualExclusion == \A t, u \in Owners : t = u

\* csjp_mutex.cpp:25-35: the word is the number of owners and of failed attempts
\* that have not yet taken their increment back; it never wraps, and it is zero
\* again once nobody owns the lock or tries for it.
WordCountsContenders == mutex = Cardinality(Counted)

\* The inductive invariant of MutexProofs.
IInv == TypeOK /\ WordCountsContenders /\ MutualExclusion

(***************************************************************************)
(* An activation that waits while, from some time on, nobody else wants    *)
(* the lock gets it.  More is not true: two activations that keep failing  *)
(* on each other's increments may do so for ever, with the lock free.      *)
(***************************************************************************)
LoneContenderEnters ==
    \A t \in Threads :
        <>[](\A u \in Threads \ {t} : pc[u] = "idle")
            => (pc[t] = "add" ~> pc[t] = "owner")

\* The lock as its users see it.
AsSeen(state) ==
    IF state = "idle" THEN "outside" ELSE IF state = "owner" THEN "inside" ELSE "waiting"

Abstract == INSTANCE CriticalSection WITH phase <- [t \in Threads |-> AsSeen(pc[t])]

\* csjp_mutex.h:37-53: the lock implements the abstract critical section.
ImplementsCriticalSection == Abstract!Spec

==============================================================================

----------------------------- MODULE MutexProofs -----------------------------
(***************************************************************************)
(* Proofs about csjp::Mutex, for any number of contenders the word can     *)
(* count.  The inductive invariant is Mutex!IInv: the word counts exactly  *)
(* the activations whose increment is in it, so an activation that reads   *)
(* zero finds no owner.  Mutual exclusion alone is not inductive, because  *)
(* it does not say that the word of an owned lock is not zero.             *)
(***************************************************************************)
EXTENDS Mutex, FiniteSetTheorems, TLAPS

\* Every set of contenders is finite and no larger than the set of them all.
LEMMA SubsetOfThreads ==
    ASSUME NEW S, S \subseteq Threads
    PROVE  /\ IsFiniteSet(S)
           /\ Cardinality(S) \in Nat
           /\ Cardinality(S) <= Cardinality(Threads)
           /\ Cardinality(S) < Modulus
  <1>1. IsFiniteSet(S) /\ Cardinality(S) <= Cardinality(Threads)
    BY FS_Subset, ThreadsAssumption
  <1>2. Cardinality(S) \in Nat /\ Cardinality(Threads) \in Nat
    BY <1>1, FS_CardinalityType, ThreadsAssumption
  <1>3. QED
    BY <1>1, <1>2, WordAssumption

\* One more contender in the word: the increment does not wrap.
LEMMA CountedGrows ==
    ASSUME TypeOK, WordCountsContenders, NEW t \in Threads, t \notin Counted,
           Counted' = Counted \cup {t}, mutex' = Incremented(mutex)
    PROVE  WordCountsContenders' /\ mutex' \in 0 .. Cardinality(Threads)
  <1>1. Counted \subseteq Threads /\ Counted \cup {t} \subseteq Threads
    BY DEF Counted
  <1>2. Cardinality(Counted \cup {t}) = Cardinality(Counted) + 1
    BY <1>1, SubsetOfThreads, FS_AddElement
  <1>3. /\ Cardinality(Counted \cup {t}) \in Nat
        /\ Cardinality(Counted \cup {t}) <= Cardinality(Threads)
        /\ Cardinality(Counted \cup {t}) < Modulus
        /\ Cardinality(Counted) \in Nat
    BY <1>1, SubsetOfThreads
  <1>4. mutex' = Cardinality(Counted \cup {t})
    BY <1>2, <1>3, WordAssumption DEF Incremented, WordCountsContenders
  <1>5. Cardinality(Threads) \in Nat
    BY FS_CardinalityType, ThreadsAssumption
  <1>6. WordCountsContenders'
    BY <1>4 DEF WordCountsContenders
  <1>7. QED
    BY <1>3, <1>4, <1>5, <1>6

\* One contender fewer: the word was not zero, so the decrement does not wrap.
LEMMA CountedShrinks ==
    ASSUME TypeOK, WordCountsContenders, NEW t \in Counted,
           Counted' = Counted \ {t}, mutex' = Decremented(mutex)
    PROVE  WordCountsContenders' /\ mutex' \in 0 .. Cardinality(Threads)
  <1>1. Counted \subseteq Threads /\ Counted \ {t} \subseteq Threads
    BY DEF Counted
  <1>2. Cardinality(Counted \ {t}) = Cardinality(Counted) - 1
    BY <1>1, SubsetOfThreads, FS_RemoveElement
  <1>3. /\ Cardinality(Counted \ {t}) \in Nat
        /\ Cardinality(Counted \ {t}) <= Cardinality(Threads)
        /\ Cardinality(Counted) \in Nat
    BY <1>1, SubsetOfThreads
  <1>4. mutex' = Cardinality(Counted \ {t})
    BY <1>2, <1>3 DEF Decremented, WordCountsContenders
  <1>5. Cardinality(Threads) \in Nat
    BY FS_CardinalityType, ThreadsAssumption
  <1>6. WordCountsContenders'
    BY <1>4 DEF WordCountsContenders
  <1>7. QED
    BY <1>3, <1>4, <1>5, <1>6

\* Reading zero means that nobody owns the lock.
LEMMA ZeroMeansFree ==
    ASSUME WordCountsContenders, mutex = 0
    PROVE  Owners = {}
  <1>1. Counted \subseteq Threads
    BY DEF Counted
  <1>2. Counted = {}
    BY <1>1, SubsetOfThreads, FS_EmptySet DEF WordCountsContenders
  <1>3. QED
    BY <1>2 DEF Counted, Owners

-----------------------------------------------------------------------------
LEMMA InitIInv == Init => IInv
  <1> SUFFICES ASSUME Init PROVE IInv
    OBVIOUS
  <1>1. Counted = {} /\ Owners = {}
    BY DEF Init, Counted, Owners
  <1>2. Cardinality(Threads) \in Nat
    BY FS_CardinalityType, ThreadsAssumption
  <1>3. TypeOK
    BY <1>2 DEF Init, TypeOK, States
  <1>4. WordCountsContenders
    BY <1>1, FS_EmptySet DEF Init, WordCountsContenders
  <1>5. MutualExclusion
    BY <1>1 DEF MutualExclusion
  <1>6. QED
    BY <1>3, <1>4, <1>5 DEF IInv

LEMMA NextIInv == IInv /\ [Next]_vars => IInv'
  <1> SUFFICES ASSUME IInv, [Next]_vars PROVE IInv'
    OBVIOUS
  <1> USE DEF IInv
  <1>1. ASSUME NEW t \in Threads, Lock(t) PROVE IInv'
    <2>1. Counted' = Counted /\ Owners' = Owners
      BY <1>1 DEF Lock, TypeOK, Counted, Owners
    <2>2. TypeOK'
      BY <1>1 DEF Lock, TypeOK, States
    <2>3. QED
      BY <1>1, <2>1, <2>2 DEF Lock, WordCountsContenders, MutualExclusion
  <1>2. ASSUME NEW t \in Threads, FetchAndAdd(t) PROVE IInv'
    <2>1. t \notin Counted /\ Counted' = Counted \cup {t}
      BY <1>2 DEF FetchAndAdd, TypeOK, Counted
    <2>2. WordCountsContenders' /\ mutex' \in 0 .. Cardinality(Threads)
      BY <1>2, <2>1, CountedGrows DEF FetchAndAdd
    <2>3. TypeOK'
      BY <1>2, <2>2 DEF FetchAndAdd, TypeOK, States
    <2>4. CASE mutex = 0
      <3>1. Owners = {}
        BY <2>4, ZeroMeansFree
      <3>2. Owners' = {t}
        BY <1>2, <2>4, <3>1 DEF FetchAndAdd, TypeOK, Owners
      <3>3. QED
        BY <2>2, <2>3, <3>2 DEF MutualExclusion
    <2>5. CASE mutex # 0
      <3>1. Owners' = Owners
        BY <1>2, <2>5 DEF FetchAndAdd, TypeOK, Owners
      <3>2. QED
        BY <2>2, <2>3, <3>1 DEF MutualExclusion
    <2>6. QED
      BY <2>4, <2>5
  <1>3. ASSUME NEW t \in Threads, FetchAndSub(t) PROVE IInv'
    <2>1. t \in Counted /\ Counted' = Counted \ {t} /\ Owners' = Owners
      BY <1>3 DEF FetchAndSub, TypeOK, Counted, Owners
    <2>2. WordCountsContenders' /\ mutex' \in 0 .. Cardinality(Threads)
      BY <1>3, <2>1, CountedShrinks DEF FetchAndSub
    <2>3. TypeOK'
      BY <1>3, <2>2 DEF FetchAndSub, TypeOK, States
    <2>4. QED
      BY <2>1, <2>2, <2>3 DEF MutualExclusion
  <1>4. ASSUME NEW t \in Threads, Unlock(t) PROVE IInv'
    <2>1. t \in Counted /\ Counted' = Counted \ {t} /\ Owners' \subseteq Owners
      BY <1>4 DEF Unlock, TypeOK, Counted, Owners
    <2>2. WordCountsContenders' /\ mutex' \in 0 .. Cardinality(Threads)
      BY <1>4, <2>1, CountedShrinks DEF Unlock
    <2>3. TypeOK'
      BY <1>4, <2>2 DEF Unlock, TypeOK, States
    <2>4. QED
      BY <2>1, <2>2, <2>3 DEF MutualExclusion
  <1>5. CASE UNCHANGED vars
    BY <1>5 DEF vars, TypeOK, WordCountsContenders, Counted, MutualExclusion, Owners
  <1>6. QED
    BY <1>1, <1>2, <1>3, <1>4, <1>5 DEF Next

\* csjp_mutex.cpp: the inductive invariant holds in every reachable state.
THEOREM Invariance == Spec => []IInv
  <1>1. QED
    BY InitIInv, NextIInv, PTL DEF Spec

\* The word never exceeds the number of contenders: it cannot wrap.
THEOREM TypeCorrect == Spec => []TypeOK
  <1>1. IInv => TypeOK
    BY DEF IInv
  <1>2. QED
    BY <1>1, Invariance, PTL

\* csjp_mutex.cpp:12-31: no two activations are past lock() at a time.
THEOREM Exclusion == Spec => []MutualExclusion
  <1>1. IInv => MutualExclusion
    BY DEF IInv
  <1>2. QED
    BY <1>1, Invariance, PTL

\* csjp_mutex.cpp:25-35: the word counts the owner and the failed attempts.
THEOREM WordIsCount == Spec => []WordCountsContenders
  <1>1. IInv => WordCountsContenders
    BY DEF IInv
  <1>2. QED
    BY <1>1, Invariance, PTL

-----------------------------------------------------------------------------
\* Every step of the lock is a step, or a stutter, of the abstract section.
LEMMA StepSimulation ==
    IInv /\ [Next]_vars => [Abstract!Next]_([t \in Threads |-> AsSeen(pc[t])])
  <1> DEFINE phase == [t \in Threads |-> AsSeen(pc[t])]
  <1> SUFFICES ASSUME IInv, [Next]_vars PROVE [Abstract!Next]_phase
    OBVIOUS
  <1> USE DEF IInv, TypeOK, States
  <1>1. ASSUME NEW t \in Threads, Lock(t) PROVE Abstract!Next
    <2>1. Abstract!Ask(t)
      BY <1>1 DEF Lock, Abstract!Ask, AsSeen
    <2>2. QED
      BY <2>1 DEF Abstract!Next
  <1>2. ASSUME NEW t \in Threads, FetchAndAdd(t) PROVE [Abstract!Next]_phase
    <2>1. CASE mutex = 0
      <3>1. \A u \in Threads : pc[u] # "owner"
        BY <2>1, ZeroMeansFree DEF Owners
      <3>2. Abstract!Enter(t)
        BY <1>2, <2>1, <3>1 DEF FetchAndAdd, Abstract!Enter, AsSeen
      <3>3. QED
        BY <3>2 DEF Abstract!Next
    <2>2. CASE mutex # 0
      <3>1. UNCHANGED phase
        BY <1>2, <2>2 DEF FetchAndAdd, AsSeen
      <3>2. QED
        BY <3>1
    <2>3. QED
      BY <2>1, <2>2
  <1>3. ASSUME NEW t \in Threads, FetchAndSub(t) PROVE UNCHANGED phase
    BY <1>3 DEF FetchAndSub, AsSeen
  <1>4. ASSUME NEW t \in Threads, Unlock(t) PROVE Abstract!Next
    <2>1. Abstract!Leave(t)
      BY <1>4 DEF Unlock, Abstract!Leave, AsSeen
    <2>2. QED
      BY <2>1 DEF Abstract!Next
  <1>5. CASE UNCHANGED vars
    BY <1>5 DEF vars
  <1>6. QED
    BY <1>1, <1>2, <1>3, <1>4, <1>5 DEF Next

\* csjp_mutex.h:37-53: for any number of contenders the lock implements the
\* abstract critical section.
THEOREM Implementation == Spec => ImplementsCriticalSection
  <1>1. Init => Abstract!Init
    BY DEF Init, Abstract!Init, AsSeen
  <1>2. QED
    BY <1>1, StepSimulation, Invariance, PTL
    DEF Spec, Abstract!Spec, ImplementsCriticalSection
==============================================================================

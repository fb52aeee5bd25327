---------------------------- MODULE OwnersProofs ----------------------------
(***************************************************************************)
(* Proofs about the classes that own what exists once outside of them: the *)
(* arrays their objects, a File its descriptor.                            *)
(*                                                                         *)
(* Arrays, for any number of objects, any growth of the capacity and any   *)
(* length: an object has one owner, what is counted fits the block, and    *)
(* the calls of a PodArray do to its values what their names say.  The     *)
(* slots of the two arrays are looked at as sequences without repetition   *)
(* and as the sets of their objects: an operation says what it does to     *)
(* both, and ownership is then a matter of sets.                           *)
(*                                                                         *)
(* Files, for any bytes, any amount of data in one call and any size of    *)
(* the file: the writing calls leave what csjp_file.h says they do,        *)
(* whichever call of the operating system fails; and it takes two Files    *)
(* that were moved from to close a descriptor in use.  What append()       *)
(* leaves when it fails hangs on fileSize, to which the file is cut: the   *)
(* invariant says when that is the size of the file.  What becomes of      *)
(* descriptor 0 hangs on who has it and how many Files that were moved     *)
(* from there have been.                                                   *)
(***************************************************************************)
EXTENDS Arrays, File, SequenceTheorems, WellFoundedInduction, TLAPS

LOCAL INSTANCE Outcome

ArraysSpec == ArraysInit /\ [][ArraysNext]_arrayVars

-----------------------------------------------------------------------------
(* Arrays.  The inductive invariant.                                       *)

Things(k) == IF k = "PodArray" THEN Values \cup {Unknown} ELSE Objects
ArrayRecord(S) == [block : BOOLEAN, cap : Nat, items : Seq(S)]
BlockRecord == [items : Seq(Objects), cap : Nat]
RecordOf(k) == IF k = "CArray" THEN BlockRecord ELSE ArrayRecord(Things(k))

Distinct(s) == \A i, j \in 1 .. Len(s) : s[i] = s[j] => i = j

\* What is counted fits the block, and without a block nothing is counted.
Fits(a) == IF a.block THEN Len(a.items) <= a.cap ELSE a.items = <<>> /\ a.cap = 0

TypesOK ==
    /\ kind \in Kinds \cup {"none"}
    /\ arr \in [Which -> RecordOf(kind)]
    /\ alive \subseteq Objects
    /\ ruined \in BOOLEAN

AllFit ==
    /\ kind # "CArray" => \A i \in Which : Fits(arr[i])
    /\ \A i \in Which : Len(arr[i].items) <= MaxLen

NotBegun == kind = "none" => arr = [i \in Which |-> Own!Empty] /\ alive = {} /\ ~ruined

\* The program has only what exists, and only objects that Array and RefArray hold.
HeldExist == held \subseteq alive /\ (held # {} => kind \in {"Array", "RefArray"})

Owners ==
    /\ \A i \in Which : Distinct(arr[i].items)
    /\ \A i, j \in Which : i # j => ItemsOf(i) \cap ItemsOf(j) = {}
    /\ \A i \in Which : ItemsOf(i) \cap held = {} /\ ItemsOf(i) \subseteq alive
    /\ "shrunk" \notin slips => \A o \in alive : o \in held \/ \E i \in Which : o \in ItemsOf(i)

\* Only what resize(0) leaves in a CArray spoils this.
Owned == kind = "Array" \/ (kind = "CArray" /\ "zeroed" \notin slips) => Owners

Referred == kind = "RefArray" /\ "popped" \notin slips => \A i \in Which : ItemsOf(i) \subseteq alive

\* The holes through which a call leaves its array.
Holes == ruined => IF kind = "CArray" THEN "zeroed" \in slips ELSE \E i \in Which : ~arr[i].block

ArraysIInv == TypesOK /\ AllFit /\ NotBegun /\ HeldExist /\ Owned /\ Referred /\ Holes

-----------------------------------------------------------------------------
(* Sequences without repetition, and the sets of their elements.           *)

LEMMA ElementsOf ==
    ASSUME NEW S, NEW s \in Seq(S), NEW x
    PROVE  /\ x \in ToSet(s) <=> \E i \in 1 .. Len(s) : s[i] = x
           /\ ToSet(s) \subseteq S
BY DEF ToSet

LEMMA EmptyIsDistinct ==
    Distinct(<<>>) /\ ToSet(<<>>) = {} /\ Len(<<>>) = 0
BY DEF Distinct, ToSet

LEMMA AppendItem ==
    ASSUME NEW S, NEW s \in Seq(S), NEW x \in S
    PROVE  /\ Append(s, x) \in Seq(S) /\ Len(Append(s, x)) = Len(s) + 1
           /\ ToSet(Append(s, x)) = ToSet(s) \cup {x}
           /\ Distinct(s) /\ x \notin ToSet(s) => Distinct(Append(s, x))
<1> DEFINE t == Append(s, x)
<1>1. /\ t \in Seq(S) /\ Len(t) = Len(s) + 1 /\ Len(s) \in Nat /\ t[Len(s) + 1] = x
      /\ \A i \in 1 .. Len(s) : t[i] = s[i]
  OBVIOUS
<1> HIDE DEF t
<1>2. \A i \in 1 .. Len(t) : i \in 1 .. Len(s) \/ i = Len(s) + 1
  BY <1>1
<1>3. \A i \in 1 .. Len(s) : i \in 1 .. Len(t)
  BY <1>1
<1>4. Len(s) + 1 \in 1 .. Len(t)
  BY <1>1
<1>5. ToSet(t) = ToSet(s) \cup {x}
  BY <1>1, <1>2, <1>3, <1>4, ElementsOf
<1>6. ASSUME Distinct(s), x \notin ToSet(s) PROVE Distinct(t)
  BY <1>1, <1>2, <1>6, ElementsOf DEF Distinct
<1> QED
  BY <1>1, <1>5, <1>6 DEF t

LEMMA ConcatItems ==
    ASSUME NEW S, NEW s \in Seq(S), NEW t \in Seq(S)
    PROVE  /\ s \o t \in Seq(S) /\ Len(s \o t) = Len(s) + Len(t)
           /\ ToSet(s \o t) = ToSet(s) \cup ToSet(t)
           /\ Distinct(s) /\ Distinct(t) /\ ToSet(s) \cap ToSet(t) = {} => Distinct(s \o t)
<1> DEFINE u == s \o t
<1>1. /\ u \in Seq(S) /\ Len(u) = Len(s) + Len(t) /\ Len(s) \in Nat /\ Len(t) \in Nat
      /\ \A i \in 1 .. Len(s) : u[i] = s[i]
  OBVIOUS
<1>2. \A i \in 1 .. Len(t) : u[Len(s) + i] = t[i]
  OBVIOUS
<1> HIDE DEF u
<1>3. ASSUME NEW i \in 1 .. Len(u)
      PROVE  \/ i \in 1 .. Len(s) /\ u[i] = s[i]
             \/ \E k \in 1 .. Len(t) : i = Len(s) + k /\ u[i] = t[k]
  <2>1. CASE i \in 1 .. Len(s)
    BY <1>1, <2>1
  <2>2. CASE i \notin 1 .. Len(s)
    <3>1. i - Len(s) \in 1 .. Len(t) /\ i = Len(s) + (i - Len(s))
      BY <1>1, <2>2
    <3> QED
      BY <1>2, <3>1
  <2> QED
    BY <2>1, <2>2
<1>4. (\A i \in 1 .. Len(s) : i \in 1 .. Len(u)) /\ (\A i \in 1 .. Len(t) : Len(s) + i \in 1 .. Len(u))
  BY <1>1
<1>5. ToSet(u) = ToSet(s) \cup ToSet(t)
  <2>1. ASSUME NEW x \in ToSet(u) PROVE x \in ToSet(s) \cup ToSet(t)
    <3>1. PICK i \in 1 .. Len(u) : u[i] = x
      BY <1>1, <2>1, ElementsOf
    <3> QED
      BY <1>3, <3>1, ElementsOf
  <2>2. \A x \in ToSet(s) : x \in ToSet(u)
    BY <1>1, <1>4, ElementsOf
  <2>3. ASSUME NEW x \in ToSet(t) PROVE x \in ToSet(u)
    <3>1. PICK k \in 1 .. Len(t) : t[k] = x
      BY ElementsOf
    <3>2. Len(s) + k \in 1 .. Len(u) /\ u[Len(s) + k] = x
      BY <1>2, <1>4, <3>1
    <3> QED
      BY <1>1, <3>2, ElementsOf, SMTT(30)
  <2> QED
    BY <2>1, <2>2, <2>3
<1>6. ASSUME Distinct(s), Distinct(t), ToSet(s) \cap ToSet(t) = {} PROVE Distinct(u)
  <2> SUFFICES ASSUME NEW i \in 1 .. Len(u), NEW j \in 1 .. Len(u), u[i] = u[j] PROVE i = j
    BY DEF Distinct
  <2>0. \A k \in 1 .. Len(s), l \in 1 .. Len(t) : s[k] # t[l]
    BY <1>6, ElementsOf
  <2>1. CASE i \in 1 .. Len(s) /\ j \in 1 .. Len(s)
    BY <1>1, <1>6, <2>1 DEF Distinct
  <2>2. CASE i \in 1 .. Len(s) /\ j \notin 1 .. Len(s)
    <3>1. PICK l \in 1 .. Len(t) : u[j] = t[l]
      BY <1>3, <2>2
    <3> QED
      BY <1>1, <2>0, <2>2, <3>1
  <2>3. CASE i \notin 1 .. Len(s) /\ j \in 1 .. Len(s)
    <3>1. PICK l \in 1 .. Len(t) : u[i] = t[l]
      BY <1>3, <2>3
    <3> QED
      BY <1>1, <2>0, <2>3, <3>1
  <2>4. CASE i \notin 1 .. Len(s) /\ j \notin 1 .. Len(s)
    <3>1. PICK k \in 1 .. Len(t) : i = Len(s) + k /\ u[i] = t[k]
      BY <1>3, <2>4
    <3>2. PICK l \in 1 .. Len(t) : j = Len(s) + l /\ u[j] = t[l]
      BY <1>3, <2>4
    <3>3. k = l
      BY <1>6, <3>1, <3>2 DEF Distinct
    <3> QED
      BY <3>1, <3>2, <3>3
  <2> QED
    BY <2>1, <2>2, <2>3, <2>4
<1> QED
  BY <1>1, <1>5, <1>6 DEF u

\* What is left of a block that became too short, and of one that did not.
FirstOf(s, n) == SubSeq(s, 1, IF n < Len(s) THEN n ELSE Len(s))

LEMMA FirstOfProperties ==
    ASSUME NEW S, NEW s \in Seq(S), NEW n \in Nat
    PROVE  /\ FirstOf(s, n) \in Seq(S)
           /\ Len(FirstOf(s, n)) = IF n < Len(s) THEN n ELSE Len(s)
           /\ \A i \in 1 .. Len(FirstOf(s, n)) : i \in 1 .. Len(s) /\ FirstOf(s, n)[i] = s[i]
           /\ n >= Len(s) => FirstOf(s, n) = s
           /\ Distinct(s) => Distinct(FirstOf(s, n))
           /\ ToSet(FirstOf(s, n)) \subseteq ToSet(s)
<1> DEFINE m == IF n < Len(s) THEN n ELSE Len(s)
           t == SubSeq(s, 1, m)
<1>1. m \in Nat /\ m <= Len(s) /\ Len(s) \in Nat
  OBVIOUS
<1> HIDE DEF m
<1>2. t \in Seq(S) /\ Len(t) = m /\ \A i \in 1 .. m : t[i] = s[i] /\ i \in 1 .. Len(s)
  BY <1>1
<1>3. m = Len(s) => t = s
  BY <1>1, <1>2, SeqEqual
<1> HIDE DEF t
<1>4. Distinct(s) => Distinct(t)
  BY <1>2 DEF Distinct
<1>5. ToSet(t) \subseteq ToSet(s)
  BY <1>2, ElementsOf
<1>6. FirstOf(s, n) = t
  BY DEF FirstOf, t, m
<1>7. n >= Len(s) => m = Len(s)
  BY <1>1 DEF m
<1> QED
  BY <1>2, <1>3, <1>4, <1>5, <1>6, <1>7 DEF m

\* A sequence without the item at position i, counted from zero
Without(s, i) == FirstOf(s, i) \o SubSeq(s, i + 2, Len(s))

LEMMA WithoutProperties ==
    ASSUME NEW S, NEW s \in Seq(S), NEW i \in Nat, i < Len(s)
    PROVE  /\ Without(s, i) \in Seq(S) /\ Len(Without(s, i)) = Len(s) - 1
           /\ \A k \in 1 .. Len(s) - 1 : Without(s, i)[k] = IF k <= i THEN s[k] ELSE s[k + 1]
           /\ ToSet(Without(s, i)) \subseteq ToSet(s)
           /\ Distinct(s) => Distinct(Without(s, i)) /\ ToSet(Without(s, i)) = ToSet(s) \ {s[i + 1]}
<1> DEFINE front == FirstOf(s, i)
           back == SubSeq(s, i + 2, Len(s))
           t == front \o back
<1>0. Len(s) \in Nat /\ i + 1 \in 1 .. Len(s)
  OBVIOUS
<1>1. front \in Seq(S) /\ Len(front) = i /\ \A k \in 1 .. i : front[k] = s[k]
  BY FirstOfProperties
<1>2. back \in Seq(S) /\ Len(back) = Len(s) - i - 1
      /\ \A k \in 1 .. Len(s) - i - 1 : back[k] = s[i + 1 + k]
  BY <1>0
<1> HIDE DEF front, back
<1>3. t \in Seq(S) /\ Len(t) = Len(s) - 1
  BY <1>0, <1>1, <1>2
<1>4. ASSUME NEW k \in 1 .. Len(s) - 1 PROVE t[k] = IF k <= i THEN s[k] ELSE s[k + 1]
  <2>1. CASE k <= i
    <3>1. k \in 1 .. i /\ t[k] = front[k]
      BY <1>0, <1>1, <1>2, <2>1
    <3> QED
      BY <1>1, <2>1, <3>1
  <2>2. CASE ~(k <= i)
    <3>1. k - i \in 1 .. Len(s) - i - 1 /\ i + 1 + (k - i) = k + 1
      BY <1>0, <2>2
    <3>2. t[k] = back[k - i]
      BY <1>0, <1>1, <1>2, <2>2, <3>1
    <3>3. back[k - i] = s[k + 1]
      BY <1>2, <3>1
    <3> QED
      BY <2>2, <3>2, <3>3
  <2> QED
    BY <2>1, <2>2
<1> HIDE DEF t
<1>5. \A k \in 1 .. Len(t) : \E j \in 1 .. Len(s) : j # i + 1 /\ t[k] = s[j]
  <2> SUFFICES ASSUME NEW k \in 1 .. Len(t) PROVE \E j \in 1 .. Len(s) : j # i + 1 /\ t[k] = s[j]
    OBVIOUS
  <2> DEFINE j == IF k <= i THEN k ELSE k + 1
  <2>1. j \in 1 .. Len(s) /\ j # i + 1 /\ t[k] = s[j]
    BY <1>0, <1>3, <1>4
  <2> HIDE DEF j
  <2> QED
    BY <2>1
<1>6. \A j \in 1 .. Len(s) : j # i + 1 => \E k \in 1 .. Len(t) : t[k] = s[j]
  <2> SUFFICES ASSUME NEW j \in 1 .. Len(s), j # i + 1 PROVE \E k \in 1 .. Len(t) : t[k] = s[j]
    OBVIOUS
  <2> DEFINE k == IF j <= i THEN j ELSE j - 1
  <2>1. k \in 1 .. Len(t) /\ t[k] = s[j]
    BY <1>0, <1>3, <1>4
  <2> HIDE DEF k
  <2> QED
    BY <2>1
<1>7. ToSet(t) \subseteq ToSet(s)
  BY <1>3, <1>5, ElementsOf
<1>8. ASSUME Distinct(s) PROVE Distinct(t) /\ ToSet(t) = ToSet(s) \ {s[i + 1]}
  <2>1. Distinct(t)
    <3> SUFFICES ASSUME NEW k \in 1 .. Len(t), NEW l \in 1 .. Len(t), t[k] = t[l] PROVE k = l
      BY DEF Distinct
    <3>1. (IF k <= i THEN k ELSE k + 1) = (IF l <= i THEN l ELSE l + 1)
      BY <1>0, <1>3, <1>4, <1>8 DEF Distinct
    <3> QED
      BY <1>0, <1>3, <3>1
  <2>2. \A x \in ToSet(t) : x \in ToSet(s) /\ x # s[i + 1]
    BY <1>0, <1>3, <1>5, <1>8, ElementsOf DEF Distinct
  <2>3. ASSUME NEW x \in ToSet(s), x # s[i + 1] PROVE x \in ToSet(t)
    <3>1. PICK j \in 1 .. Len(s) : s[j] = x
      BY <2>3, ElementsOf
    <3>2. PICK k \in 1 .. Len(t) : t[k] = x
      BY <1>6, <2>3, <3>1
    <3> QED
      BY <1>3, <3>2, ElementsOf
  <2> QED
    BY <2>1, <2>2, <2>3
<1>9. Without(s, i) = t
  BY DEF Without, t, front, back
<1> QED
  BY <1>3, <1>4, <1>7, <1>8, <1>9

-----------------------------------------------------------------------------
(* The operations of one array.                                            *)

Good(a, S) == a \in ArrayRecord(S) /\ Fits(a)

Resized(a, capacity) == [block |-> TRUE, cap |-> capacity, items |-> FirstOf(a.items, capacity)]

LEMMA GoodMeans ==
    ASSUME NEW S, NEW a, Good(a, S)
    PROVE  /\ a.block \in BOOLEAN /\ a.cap \in Nat /\ a.items \in Seq(S) /\ Len(a.items) \in Nat
           /\ Len(a.items) <= a.cap
           /\ ~a.block => a.items = <<>>
BY EmptySeq DEF Good, ArrayRecord, Fits

LEMMA ResizedIsGood ==
    ASSUME NEW S, NEW a, Good(a, S), NEW capacity \in Nat
    PROVE  /\ Good(Resized(a, capacity), S) /\ Resized(a, capacity).items = FirstOf(a.items, capacity)
           /\ Resized(a, capacity).cap = capacity
           /\ capacity >= Len(a.items) => Resized(a, capacity).items = a.items
<1>1. a.items \in Seq(S)
  BY GoodMeans
<1>2. /\ FirstOf(a.items, capacity) \in Seq(S) /\ Len(FirstOf(a.items, capacity)) <= capacity
      /\ capacity >= Len(a.items) => FirstOf(a.items, capacity) = a.items
  BY <1>1, FirstOfProperties
<1> QED
  BY <1>2 DEF Resized, Good, ArrayRecord, Fits

LEMMA CapacityIsSet ==
    ASSUME NEW a, NEW capacity
    PROVE  /\ Own!SetCapacity(a, capacity) = Resized(a, capacity)
           /\ Ref!SetCapacity(a, capacity) = Resized(a, capacity)
           /\ Pod!SetCapacity(a, capacity) = Resized(a, capacity)
BY DEF Own!SetCapacity, Ref!SetCapacity, Pod!SetCapacity, Own!FirstItems, Ref!FirstItems,
       Pod!FirstItems, Resized, FirstOf

\* A growing array has room for what it is asked for, and keeps what it has.
LEMMA CapacityIsExtended ==
    ASSUME NEW S, NEW a, Good(a, S), NEW needed \in Nat, needed >= Len(a.items)
    PROVE  \A b \in {Own!ExtendCapacity(a, needed), Ref!ExtendCapacity(a, needed),
                     Pod!ExtendCapacity(a, needed)} :
              Good(b, S) /\ b.block = TRUE /\ b.items = a.items /\ b.cap >= needed
<1>0. Few \in Nat /\ Many \in Nat /\ Limit \in Nat /\ Step \in Nat
  BY ArraysAssumption
<1>1. Own!Grown(needed) \in Nat /\ Own!Grown(needed) >= needed
  BY <1>0 DEF Own!Grown
<1> DEFINE more == needed + (IF needed < Limit THEN Step ELSE 4 * needed)
<1>2. more \in Nat /\ more >= needed
  BY <1>0
<1> HIDE DEF more
<1>3. ASSUME NEW c \in Nat, c >= needed
      PROVE  /\ Good(Resized(a, c), S) /\ Resized(a, c).items = a.items /\ Resized(a, c).cap >= needed
             /\ Resized(a, c).block = TRUE
  <2>1. Len(a.items) \in Nat
    BY GoodMeans
  <2>2. Resized(a, c).block = TRUE
    BY DEF Resized
  <2>3. c >= Len(a.items)
    BY <1>3, <2>1
  <2>4. /\ Good(Resized(a, c), S) /\ Resized(a, c).cap = c
        /\ c >= Len(a.items) => Resized(a, c).items = a.items
    BY ResizedIsGood
  <2> QED
    BY <1>3, <2>2, <2>3, <2>4
<1>4. Own!ExtendCapacity(a, needed) = Resized(a, Own!Grown(needed))
  BY CapacityIsSet DEF Own!ExtendCapacity
<1>5. Ref!ExtendCapacity(a, needed) = Resized(a, more) /\ Pod!ExtendCapacity(a, needed) = Resized(a, more)
  BY CapacityIsSet DEF Ref!ExtendCapacity, Pod!ExtendCapacity, more
<1> QED
  BY <1>1, <1>2, <1>3, <1>4, <1>5

LEMMA WithItems ==
    ASSUME NEW S, NEW a, Good(a, S), NEW s \in Seq(S), Len(s) <= a.cap, a.block \/ s = <<>>
    PROVE  Good([a EXCEPT !.items = s], S) /\ [a EXCEPT !.items = s].items = s
           /\ [a EXCEPT !.items = s].block = a.block
<1>1. a.block \in BOOLEAN /\ (~a.block => a.cap = 0)
  BY DEF Good, ArrayRecord, Fits
<1> QED
  BY <1>1 DEF Good, ArrayRecord, Fits

LEMMA Adding ==
    ASSUME NEW S, NEW a, Good(a, S), NEW x \in S
    PROVE  \A b \in {Own!Add(a, x), Ref!Add(a, x), Pod!Add(a, x)} :
              Good(b, S) /\ b.items = Append(a.items, x)
<1> DEFINE needed == Len(a.items) + 1
           s == Append(a.items, x)
<1>1. /\ a.items \in Seq(S) /\ Len(a.items) \in Nat /\ a.cap \in Nat /\ a.block \in BOOLEAN
      /\ ~a.block => a.items = <<>>
  BY GoodMeans
<1>2. needed \in Nat /\ needed >= Len(a.items) /\ s \in Seq(S) /\ Len(s) = needed
  BY <1>1
<1> DEFINE Roomy(r) == Good(r, S) /\ r.block = TRUE /\ r.items = a.items /\ r.cap >= needed
<1>3. \A r \in {Own!ExtendCapacity(a, needed), Ref!ExtendCapacity(a, needed),
                Pod!ExtendCapacity(a, needed)} : Roomy(r)
  BY <1>2, CapacityIsExtended
<1>4. ~(a.cap <= Len(a.items)) => Roomy(a)
  <2> SUFFICES ASSUME ~(a.cap <= Len(a.items)) PROVE Roomy(a)
    OBVIOUS
  <2>1. a.cap >= needed /\ a.cap # 0
    BY <1>1
  <2>2. a.block = TRUE
    BY <1>1, <2>1 DEF Good, Fits
  <2> QED
    BY <2>1, <2>2
<1>5. ASSUME NEW r, Roomy(r)
      PROVE  Good([r EXCEPT !.items = s], S) /\ [r EXCEPT !.items = s].items = s
             /\ Append(r.items, x) = s
  <2>1. Len(s) <= r.cap /\ r.block = TRUE /\ Good(r, S) /\ Append(r.items, x) = s
    BY <1>2, <1>5
  <2> HIDE DEF s, Roomy
  <2> QED
    BY <1>2, <2>1, WithItems
<1> HIDE DEF s
<1>6. Own!Add(a, x) = [IF a.cap <= Len(a.items) THEN Own!ExtendCapacity(a, needed) ELSE a EXCEPT
                          !.items = Append(@, x)]
  BY DEF Own!Add
<1>7. Ref!Add(a, x) = [IF a.cap <= Len(a.items) THEN Ref!ExtendCapacity(a, needed) ELSE a EXCEPT
                          !.items = Append(@, x)]
  BY DEF Ref!Add
<1>8. Pod!Add(a, x) = [IF a.cap <= Len(a.items) THEN Pod!ExtendCapacity(a, needed) ELSE a EXCEPT
                          !.items = Append(@, x)]
  BY DEF Pod!Add
<1> HIDE DEF needed, Roomy
<1>9. \A b \in {Own!Add(a, x), Ref!Add(a, x), Pod!Add(a, x)} :
          \E r : Roomy(r) /\ b = [r EXCEPT !.items = Append(@, x)]
  BY <1>3, <1>4, <1>6, <1>7, <1>8
<1>10. ASSUME NEW b \in {Own!Add(a, x), Ref!Add(a, x), Pod!Add(a, x)}
       PROVE  Good(b, S) /\ b.items = s
  <2>1. PICK r : Roomy(r) /\ b = [r EXCEPT !.items = Append(@, x)]
    BY <1>9
  <2>2. b = [r EXCEPT !.items = s]
    BY <1>5, <2>1
  <2> QED
    BY <1>5, <2>1, <2>2
<1> QED
  BY <1>10 DEF s

\* How a call ends that throws
FailedCall(self) == [self |-> self, raises |-> TRUE, ruins |-> FALSE]

LEMMA Joining ==
    ASSUME NEW S, NEW a, NEW b, Good(a, S), Good(b, S)
    PROVE  /\ Good(Own!Join(a, b), S) /\ Own!Join(a, b).items = a.items \o b.items
           /\ Good(Own!Joined(b), S) /\ Own!Joined(b).items = <<>>
<1> DEFINE total == Len(a.items) + Len(b.items)
           s == a.items \o b.items
           r == IF a.cap < total THEN Own!ExtendCapacity(a, total) ELSE a
<1>1. /\ a.items \in Seq(S) /\ Len(a.items) \in Nat /\ a.cap \in Nat /\ a.block \in BOOLEAN
      /\ b.items \in Seq(S) /\ Len(b.items) \in Nat
      /\ ~a.block => a.cap = 0
  BY GoodMeans DEF Good, Fits
<1>2. s \in Seq(S) /\ Len(s) = total /\ total \in Nat /\ total >= Len(a.items)
  <2>1. s \in Seq(S) /\ Len(s) = total
    BY <1>1, ConcatItems
  <2>2. \A m, n \in Nat : m + n \in Nat /\ m + n >= m
    OBVIOUS
  <2>3. total \in Nat /\ total >= Len(a.items)
    BY <1>1, <2>2
  <2> QED
    BY <2>1, <2>3
<1>3. Own!Join(a, b) = [r EXCEPT !.items = s]
  BY DEF Own!Join
<1> HIDE DEF s, total
<1>4. Good(r, S) /\ Len(s) <= r.cap /\ (r.block \/ s = <<>>)
  <2>1. CASE a.cap < total
    BY <1>2, <2>1, CapacityIsExtended
  <2>2. CASE ~(a.cap < total)
    <3>1. Len(s) <= a.cap
      BY <1>1, <1>2, <2>2
    <3>2. ~a.block => s = <<>>
      BY <1>1, <1>2, <3>1, EmptySeq
    <3> QED
      BY <2>2, <3>1, <3>2
  <2> QED
    BY <2>1, <2>2
<1> HIDE DEF r
<1>5. Good(Own!Join(a, b), S) /\ Own!Join(a, b).items = s
  BY <1>2, <1>3, <1>4, WithItems
<1>6. Good(Own!Joined(b), S) /\ Own!Joined(b).items = <<>>
  <2>1. <<>> \in Seq(S) /\ Len(<<>>) <= b.cap
    BY GoodMeans, EmptySeq
  <2> QED
    BY <2>1, WithItems, ZenonT(40) DEF Own!Joined
<1> QED
  BY <1>5, <1>6 DEF s

LEMMA Removing ==
    ASSUME NEW S, NEW a, Good(a, S), NEW i \in Nat
    PROVE  \A o \in {Own!RemoveAt(a, i), Ref!RemoveAt(a, i)} :
              /\ Good(o.self, S) /\ o.ruins = FALSE
              /\ o.self.items = IF i < Len(a.items) THEN Without(a.items, i) ELSE a.items
<1>1. a.items \in Seq(S) /\ Len(a.items) \in Nat /\ a.cap \in Nat /\ Len(a.items) <= a.cap
      /\ (~a.block => a.items = <<>>)
  BY GoodMeans
<1> DEFINE s == Without(a.items, i)
<1>2. CASE i >= Len(a.items)
  <2>1. Own!RemoveAt(a, i) = FailedCall(a) /\ Ref!RemoveAt(a, i) = FailedCall(a)
    BY <1>2 DEF Own!RemoveAt, Ref!RemoveAt, Own!Raised, Ref!Raised, FailedCall
  <2> QED
    BY <1>1, <1>2, <2>1 DEF FailedCall
<1>3. CASE ~(i >= Len(a.items))
  <2>1. i < Len(a.items) /\ a.block
    BY <1>1, <1>3, EmptySeq
  <2>2. s \in Seq(S) /\ Len(s) <= a.cap
    BY <1>1, <2>1, WithoutProperties
  <2>3. Own!RemoveAt(a, i) = Plain([a EXCEPT !.items = s])
        /\ Ref!RemoveAt(a, i) = Plain([a EXCEPT !.items = s])
    BY <1>3 DEF Own!RemoveAt, Ref!RemoveAt, Own!Done, Ref!Done, Plain, Own!FirstItems, Ref!FirstItems,
                FirstOf, Without
  <2> HIDE DEF s
  <2>4. Good([a EXCEPT !.items = s], S) /\ [a EXCEPT !.items = s].items = s
    BY <2>1, <2>2, WithItems
  <2>5. s = IF i < Len(a.items) THEN Without(a.items, i) ELSE a.items
    BY <2>1 DEF s
  <2> DEFINE b == [a EXCEPT !.items = s]
  <2> HIDE DEF b
  <2>6. Plain(b).self = b /\ Plain(b).ruins = FALSE
    BY DEF Plain
  <2> QED
    BY <2>3, <2>4, <2>5, <2>6 DEF b
<1> QED
  BY <1>2, <1>3

LEMMA DroppingTheLast ==
    ASSUME NEW S, NEW s \in Seq(S), s # <<>>
    PROVE  /\ FirstOf(s, Len(s) - 1) \in Seq(S) /\ Len(FirstOf(s, Len(s) - 1)) = Len(s) - 1
           /\ ToSet(FirstOf(s, Len(s) - 1)) \subseteq ToSet(s)
           /\ Distinct(s) => /\ Distinct(FirstOf(s, Len(s) - 1))
                             /\ ToSet(FirstOf(s, Len(s) - 1)) = ToSet(s) \ {Last(s)}
           /\ Last(s) \in ToSet(s)
<1> DEFINE n == Len(s) - 1
<1>1. Len(s) \in Nat \ {0} /\ n \in Nat /\ n < Len(s) /\ n + 1 = Len(s) /\ n + 2 > Len(s)
  BY EmptySeq
<1>2. SubSeq(s, n + 2, Len(s)) = <<>>
  BY <1>1
<1>3. FirstOf(s, n) \in Seq(S) /\ Len(FirstOf(s, n)) = n
  <2> HIDE DEF n
  <2>1. /\ FirstOf(s, n) \in Seq(S)
        /\ Len(FirstOf(s, n)) = IF n < Len(s) THEN n ELSE Len(s)
    BY <1>1, FirstOfProperties
  <2> QED
    BY <1>1, <2>1
<1>4. Without(s, n) = FirstOf(s, n)
  <2> HIDE DEF n
  <2> QED
    BY <1>2, <1>3, ConcatEmptySeq DEF Without
<1>5. /\ ToSet(Without(s, n)) \subseteq ToSet(s)
      /\ Distinct(s) => Distinct(Without(s, n)) /\ ToSet(Without(s, n)) = ToSet(s) \ {s[n + 1]}
  <2> HIDE DEF n
  <2> QED
    BY <1>1, WithoutProperties
<1>6. Last(s) = s[n + 1]
  BY <1>1 DEF Last
<1>7. Last(s) \in ToSet(s)
  BY <1>1, <1>6, ElementsOf
<1> QED
  <2> HIDE DEF n
  <2>1. /\ FirstOf(s, n) \in Seq(S) /\ Len(FirstOf(s, n)) = n
        /\ ToSet(FirstOf(s, n)) \subseteq ToSet(s)
        /\ Distinct(s) => Distinct(FirstOf(s, n)) /\ ToSet(FirstOf(s, n)) = ToSet(s) \ {Last(s)}
    BY <1>3, <1>4, <1>5, <1>6
  <2> QED
    BY <1>7, <2>1 DEF n

\* pop() goes outside the array only if it never had a block.
LEMMA Popping ==
    ASSUME NEW S, NEW a, Good(a, S)
    PROVE  \A o \in {Own!Pop(a), Ref!Pop(a), Pod!Pop(a)} :
              /\ Good(o.self, S) /\ o.ruins \in BOOLEAN
              /\ o.self.items = IF a.items = <<>> THEN <<>> ELSE FirstOf(a.items, Len(a.items) - 1)
              /\ o.ruins => ~o.self.block
<1>1. a.items \in Seq(S) /\ Len(a.items) \in Nat /\ a.cap \in Nat /\ Len(a.items) <= a.cap
      /\ (~a.block => a.items = <<>>)
  BY GoodMeans
<1> DEFINE left == FirstOf(a.items, Len(a.items) - 1)
           b == [a EXCEPT !.items = left]
           none == [self |-> a, raises |-> FALSE, ruins |-> TRUE]
<1>2. CASE ~a.block
  <2>1. Own!Pop(a) = none /\ Ref!Pop(a) = none /\ Pod!Pop(a) = none
    BY <1>2 DEF Own!Pop, Ref!Pop, Pod!Pop, Own!Ruined, Ref!Ruined, Pod!Ruined
  <2>2. none.self = a /\ none.ruins = TRUE
    OBVIOUS
  <2> HIDE DEF none
  <2> QED
    BY <1>1, <1>2, <2>1, <2>2
<1>3. CASE a.block /\ a.items = <<>>
  <2>1. Own!Pop(a) = FailedCall(a) /\ Ref!Pop(a) = FailedCall(a) /\ Pod!Pop(a) = FailedCall(a)
    BY <1>3 DEF Own!Pop, Ref!Pop, Pod!Pop, Own!Raised, Ref!Raised, Pod!Raised, FailedCall
  <2>2. FailedCall(a).self = a /\ FailedCall(a).ruins = FALSE
    BY DEF FailedCall
  <2> QED
    BY <1>1, <1>3, <2>1, <2>2
<1>4. CASE a.block /\ a.items # <<>>
  <2>1. left \in Seq(S) /\ Len(left) <= a.cap
    BY <1>1, <1>4, DroppingTheLast
  <2>2. Own!Pop(a) = Plain(b) /\ Ref!Pop(a) = Plain(b) /\ Pod!Pop(a) = Plain(b)
    BY <1>4 DEF Own!Pop, Ref!Pop, Pod!Pop, Own!Done, Ref!Done, Pod!Done, Own!FirstItems,
                Ref!FirstItems, Pod!FirstItems, FirstOf, Plain
  <2> HIDE DEF left
  <2>3. Good(b, S) /\ b.items = left
    BY <1>4, <2>1, WithItems
  <2> HIDE DEF b
  <2>4. Plain(b).self = b /\ Plain(b).ruins = FALSE
    BY DEF Plain
  <2> QED
    BY <1>4, <2>2, <2>3, <2>4 DEF left
<1> QED
  BY <1>1, <1>2, <1>3, <1>4

LEMMA Clearing ==
    ASSUME NEW S, NEW a, Good(a, S)
    PROVE  \A b \in {Own!Clear(a), Ref!Clear(a), Pod!Clear(a)} : Good(b, S) /\ b.items = <<>>
<1>1. <<>> \in Seq(S) /\ Len(<<>>) <= a.cap
  BY GoodMeans, EmptySeq
<1>2. Good([a EXCEPT !.items = <<>>], S) /\ [a EXCEPT !.items = <<>>].items = <<>>
  BY <1>1, WithItems, ZenonT(40)
<1> QED
  BY <1>2 DEF Own!Clear, Ref!Clear, Pod!Clear

LEMMA Copying ==
    ASSUME NEW S, NEW s \in Seq(S)
    PROVE  /\ Good(Own!Copy(s), S) /\ Own!Copy(s).items = s
           /\ \A a : a.items = s => /\ Ref!Copy(a) = Own!Copy(s)
                                    /\ Pod!Copy(a) = Own!Copy(s)
<1>1. Len(s) \in Nat /\ Len(s) <= Len(s)
  OBVIOUS
<1>2. Own!Copy(s) = [block |-> TRUE, cap |-> Len(s), items |-> s]
  BY DEF Own!Copy
<1>3. Good(Own!Copy(s), S) /\ Own!Copy(s).items = s
  BY <1>1, <1>2 DEF Good, ArrayRecord, Fits
<1>4. ASSUME NEW a, a.items = s PROVE Ref!Copy(a) = Own!Copy(s) /\ Pod!Copy(a) = Own!Copy(s)
  BY <1>2, <1>4 DEF Ref!Copy, Pod!Copy
<1> QED
  BY <1>3, <1>4

LEMMA EmptyIsGood ==
    ASSUME NEW S
    PROVE  /\ Good(Own!Empty, S) /\ Own!Empty.items = <<>> /\ Own!Empty.block = FALSE
           /\ C!Empty \in BlockRecord /\ C!Empty.items = <<>>
<1>1. <<>> \in Seq(S) /\ <<>> \in Seq(Objects)
  BY EmptySeq
<1> QED
  BY <1>1 DEF Own!Empty, C!Empty, Good, ArrayRecord, BlockRecord, Fits

-----------------------------------------------------------------------------
(* What the invariant says of one array, and what a call leaves alone.     *)

LEMMA ArraysAreGood ==
    ASSUME TypesOK, AllFit, NEW i \in Which
    PROVE  /\ kind # "CArray" => Good(arr[i], Things(kind))
           /\ kind = "CArray" => arr[i] \in BlockRecord
           /\ arr[i].items \in Seq(Things(kind)) /\ Len(arr[i].items) \in Nat
           /\ Len(arr[i].items) <= MaxLen
<1>1. arr[i] \in RecordOf(kind)
  BY DEF TypesOK
<1>2. CASE kind = "CArray"
  <2>1. arr[i] \in BlockRecord /\ Things(kind) = Objects
    BY <1>1, <1>2 DEF RecordOf, Things
  <2>2. arr[i].items \in Seq(Things(kind))
    BY <2>1 DEF BlockRecord
  <2> QED
    BY <1>2, <2>1, <2>2 DEF AllFit
<1>3. CASE kind # "CArray"
  <2>1. Good(arr[i], Things(kind))
    BY <1>1, <1>3 DEF RecordOf, Good, AllFit
  <2>2. arr[i].items \in Seq(Things(kind))
    BY <2>1, GoodMeans
  <2> QED
    BY <1>3, <2>1, <2>2 DEF AllFit
<1> QED
  BY <1>2, <1>3

LEMMA PlainOutcome ==
    ASSUME NEW a
    PROVE  Plain(a).self = a /\ Plain(a).ruins = FALSE
BY DEF Plain

\* A call that ends well changes its own array, and that stays one of its class.
LEMMA Becoming ==
    ASSUME TypesOK, AllFit, kind # "CArray", kind' = kind, NEW i \in Which, NEW o,
           Good(o.self, Things(kind)), Becomes(i, o)
    PROVE  /\ arr' \in [Which -> RecordOf(kind')] /\ AllFit'
           /\ arr'[i] = o.self /\ ItemsOf(i)' = ToSet(o.self.items)
           /\ \A j \in Which : j # i => arr'[j] = arr[j] /\ ItemsOf(j)' = ItemsOf(j)
           /\ ruined' = o.ruins
<1>1. arr' = [arr EXCEPT ![i] = o.self] /\ ruined' = o.ruins /\ Len(o.self.items) <= MaxLen
  BY DEF Becomes
<1>2. arr \in [Which -> RecordOf(kind)]
  BY DEF TypesOK
<1>3. o.self \in RecordOf(kind) /\ Fits(o.self)
  BY DEF Good, RecordOf
<1> DEFINE b == o.self
<1>4. b \in RecordOf(kind) /\ Fits(b) /\ Len(b.items) <= MaxLen /\ arr' = [arr EXCEPT ![i] = b]
  BY <1>1, <1>3
<1> HIDE DEF b
<1>5. arr' \in [Which -> RecordOf(kind)] /\ arr'[i] = b /\ \A j \in Which : j # i => arr'[j] = arr[j]
  BY <1>2, <1>4
<1>6. arr' \in [Which -> RecordOf(kind')]
  BY <1>5
<1>7. AllFit'
  <2>1. \A j \in Which : Fits(arr'[j]) /\ Len(arr'[j].items) <= MaxLen
    BY <1>4, <1>5 DEF AllFit
  <2> QED
    BY <2>1 DEF AllFit
<1>8. ItemsOf(i)' = ToSet(b.items) /\ \A j \in Which : j # i => ItemsOf(j)' = ItemsOf(j)
  BY <1>5 DEF ItemsOf
<1> QED
  BY <1>1, <1>5, <1>6, <1>7, <1>8 DEF b

-----------------------------------------------------------------------------
(* Programs with an Array.                                                 *)

\* What array i owns after a call, s, is nobody else's, and nobody else has lost anything.
LeavesOwners(i, s) ==
    /\ Distinct(s) /\ ToSet(s) \cap held' = {} /\ ToSet(s) \subseteq alive'
    /\ \A j \in Which \ {i} : /\ ToSet(s) \cap ItemsOf(j) = {}
                              /\ ItemsOf(j) \cap held' = {} /\ ItemsOf(j) \subseteq alive'
    /\ "shrunk" \notin slips' =>
          \A o \in alive' : o \in held' \cup ToSet(s) \/ \E j \in Which \ {i} : o \in ItemsOf(j)

LEMMA OwnersAfter ==
    ASSUME Owners, NEW i \in Which, NEW s, LeavesOwners(i, s),
           arr'[i].items = s, ItemsOf(i)' = ToSet(s),
           \A j \in Which : j # i => arr'[j] = arr[j] /\ ItemsOf(j)' = ItemsOf(j)
    PROVE  Owners'
<1>1. \A j \in Which : Distinct(arr'[j].items)
  BY DEF Owners, LeavesOwners
<1>2. \A j, k \in Which : j # k => ItemsOf(j)' \cap ItemsOf(k)' = {}
  <2> SUFFICES ASSUME NEW j \in Which, NEW k \in Which, j # k
               PROVE  ItemsOf(j)' \cap ItemsOf(k)' = {}
    OBVIOUS
  <2>1. CASE j = i
    BY <2>1 DEF LeavesOwners
  <2>2. CASE k = i
    BY <2>2 DEF LeavesOwners
  <2>3. CASE j # i /\ k # i
    BY <2>3 DEF Owners
  <2> QED
    BY <2>1, <2>2, <2>3
<1>3. \A j \in Which : ItemsOf(j)' \cap held' = {} /\ ItemsOf(j)' \subseteq alive'
  BY DEF LeavesOwners
<1>4. "shrunk" \notin slips' => \A o \in alive' : o \in held' \/ \E j \in Which : o \in ItemsOf(j)'
  BY DEF LeavesOwners
<1> QED
  BY <1>1, <1>2, <1>3, <1>4 DEF Owners

\* Whatever leaves every object one owner keeps the invariant of a program with an Array.
LEMMA ArrayStep ==
    ASSUME ArraysIInv, kind = "Array", kind' = kind, slips \subseteq slips',
           arr' \in [Which -> RecordOf(kind')], AllFit', alive' \subseteq Objects,
           held' \subseteq alive', ruined' \in BOOLEAN,
           ruined' => \E i \in Which : ~arr'[i].block,
           Owners'
    PROVE  ArraysIInv'
<1>1. TypesOK'
  BY DEF TypesOK, Kinds
<1>2. NotBegun' /\ HeldExist' /\ Referred' /\ Holes'
  BY DEF NotBegun, HeldExist, Referred, Holes
<1>3. Owned'
  BY DEF ArraysIInv, Owned
<1> QED
  BY <1>1, <1>2, <1>3 DEF ArraysIInv

LEMMA ArrayCall ==
    ASSUME ArraysIInv, Is({"Array"}), NEW i \in Which, NEW o, Good(o.self, Objects),
           o.ruins \in BOOLEAN, o.ruins => ~o.self.block, Becomes(i, o),
           alive' \subseteq Objects, held' \subseteq alive', slips \subseteq slips',
           LeavesOwners(i, o.self.items)
    PROVE  ArraysIInv'
<1>1. kind = "Array" /\ kind' = kind /\ TypesOK /\ AllFit
  BY DEF Is, ArraysIInv
<1>2. Things(kind) = Objects
  BY <1>1 DEF Things
<1>3. /\ arr' \in [Which -> RecordOf(kind')] /\ AllFit'
      /\ arr'[i] = o.self /\ ItemsOf(i)' = ToSet(o.self.items)
      /\ \A j \in Which : j # i => arr'[j] = arr[j] /\ ItemsOf(j)' = ItemsOf(j)
      /\ ruined' = o.ruins
  BY <1>1, <1>2, Becoming
<1>4. Owners'
  BY <1>1, <1>3, OwnersAfter DEF ArraysIInv, Owned
<1>5. ruined' \in BOOLEAN /\ (ruined' => \E j \in Which : ~arr'[j].block)
  BY <1>3
<1> QED
  BY <1>1, <1>3, <1>4, <1>5, ArrayStep

LEMMA NewObjectKeeps ==
    ASSUME ArraysIInv, NEW o \in Objects, NewObject(o)
    PROVE  ArraysIInv'
<1>1. /\ kind \in {"Array", "RefArray"} /\ kind' = kind /\ o \notin alive
      /\ alive' = alive \cup {o} /\ held' = held \cup {o}
      /\ arr' = arr /\ slips' = slips /\ ruined' = ruined
  BY DEF NewObject, Is
<1>2. \A i \in Which : ItemsOf(i)' = ItemsOf(i)
  BY <1>1 DEF ItemsOf
<1>3. TypesOK' /\ AllFit' /\ Holes' /\ HeldExist'
  BY <1>1 DEF ArraysIInv, TypesOK, AllFit, Holes, HeldExist
<1>4. NotBegun' /\ Referred'
  BY <1>1, <1>2 DEF NotBegun, ArraysIInv, Referred
<1>5. ASSUME Owners PROVE Owners'
  BY <1>1, <1>2, <1>5 DEF Owners
<1>6. Owned'
  BY <1>1, <1>5 DEF Owned, ArraysIInv
<1> QED
  BY <1>3, <1>4, <1>6 DEF ArraysIInv

LEMMA DeleteHeldKeeps ==
    ASSUME ArraysIInv, NEW o \in Objects, DeleteHeld(o)
    PROVE  ArraysIInv'
<1>1. /\ kind \in {"Array", "RefArray"} /\ kind' = kind /\ \A i \in Which : o \notin ItemsOf(i)
      /\ alive' = alive \ {o} /\ held' = held \ {o}
      /\ arr' = arr /\ slips' = slips /\ ruined' = ruined
  BY DEF DeleteHeld, Is
<1>2. \A i \in Which : ItemsOf(i)' = ItemsOf(i)
  BY <1>1 DEF ItemsOf
<1>3. TypesOK' /\ AllFit' /\ Holes' /\ HeldExist'
  BY <1>1 DEF ArraysIInv, TypesOK, AllFit, Holes, HeldExist
<1>4. NotBegun' /\ Referred'
  BY <1>1, <1>2 DEF NotBegun, ArraysIInv, Referred
<1>5. ASSUME Owners PROVE Owners'
  BY <1>1, <1>2, <1>5 DEF Owners
<1>6. Owned'
  BY <1>1, <1>5 DEF Owned, ArraysIInv
<1> QED
  BY <1>3, <1>4, <1>6 DEF ArraysIInv

LEMMA OwnersMeans ==
    ASSUME Owners, NEW i \in Which
    PROVE  /\ Distinct(arr[i].items) /\ ItemsOf(i) \cap held = {} /\ ItemsOf(i) \subseteq alive
           /\ \A j \in Which \ {i} : /\ ItemsOf(i) \cap ItemsOf(j) = {}
                                     /\ ItemsOf(j) \cap held = {} /\ ItemsOf(j) \subseteq alive
           /\ "shrunk" \notin slips =>
                 \A o \in alive : o \in held \cup ItemsOf(i) \/ \E j \in Which \ {i} : o \in ItemsOf(j)
<1>1. "shrunk" \notin slips =>
         \A o \in alive : o \in held \cup ItemsOf(i) \/ \E j \in Which \ {i} : o \in ItemsOf(j)
  BY DEF Owners
<1> QED
  BY <1>1 DEF Owners

LEMMA HoldingAnArray ==
    ASSUME ArraysIInv, Is({"Array"}), NEW i \in Which
    PROVE  /\ kind = "Array" /\ Good(arr[i], Objects) /\ arr[i].items \in Seq(Objects)
           /\ Len(arr[i].items) \in Nat /\ ToSet(arr[i].items) = ItemsOf(i)
           /\ alive \subseteq Objects /\ held \subseteq alive /\ Owners
<1>1. kind = "Array" /\ alive \subseteq Objects /\ held \subseteq alive /\ TypesOK /\ AllFit /\ Owners
  BY DEF Is, ArraysIInv, TypesOK, HeldExist, Owned
<1>2. Good(arr[i], Objects) /\ arr[i].items \in Seq(Objects) /\ Len(arr[i].items) \in Nat
  BY <1>1, ArraysAreGood DEF Things
<1> QED
  BY <1>1, <1>2, ElementsOf DEF ItemsOf

\* The ways an object comes into an Array: from the program, or made by add().
LEMMA AddingKeeps ==
    ASSUME ArraysIInv, NEW i \in Which, NEW o \in Objects, AddHeld(i, o) \/ AddNew(i, o)
    PROVE  ArraysIInv'
<1> DEFINE s == arr[i].items
           b == Own!Add(arr[i], o)
<1>1. /\ Is({"Array"}) /\ Becomes(i, Plain(b)) /\ slips' = slips
      /\ \/ o \in held /\ held' = held \ {o} /\ alive' = alive
         \/ o \notin alive /\ alive' = alive \cup {o} /\ held' = held
  BY DEF AddHeld, AddNew
<1>2. Good(arr[i], Objects) /\ s \in Seq(Objects) /\ alive \subseteq Objects /\ held \subseteq alive
      /\ Owners
  BY <1>1, HoldingAnArray
<1>3. Good(b, Objects) /\ b.items = Append(s, o)
  BY <1>2, Adding
<1> HIDE DEF b
<1>4. ToSet(Append(s, o)) = ToSet(s) \cup {o} /\ (Distinct(s) /\ o \notin ToSet(s) => Distinct(Append(s, o)))
  BY <1>2, AppendItem
<1>5. ToSet(s) = ItemsOf(i)
  BY DEF ItemsOf
<1>6. LeavesOwners(i, Append(s, o))
  <2>1. /\ Distinct(s) /\ ItemsOf(i) \cap held = {} /\ ItemsOf(i) \subseteq alive
        /\ \A j \in Which \ {i} : /\ ItemsOf(i) \cap ItemsOf(j) = {}
                                  /\ ItemsOf(j) \cap held = {} /\ ItemsOf(j) \subseteq alive
    BY <1>2, OwnersMeans
  <2>2. "shrunk" \notin slips =>
           \A x \in alive : x \in held \cup ItemsOf(i) \/ \E j \in Which \ {i} : x \in ItemsOf(j)
    BY <1>2, OwnersMeans
  <2> HIDE DEF s
  <2>3. o \in held \/ o \notin alive
    BY <1>1
  <2>4. Distinct(Append(s, o))
    BY <1>4, <1>5, <2>1, <2>3
  <2>5. ToSet(Append(s, o)) = ItemsOf(i) \cup {o}
    BY <1>4, <1>5
  <2>6. ToSet(Append(s, o)) \cap held' = {} /\ ToSet(Append(s, o)) \subseteq alive'
    BY <1>1, <1>2, <2>1, <2>5
  <2>7. \A j \in Which \ {i} : /\ ToSet(Append(s, o)) \cap ItemsOf(j) = {}
                               /\ ItemsOf(j) \cap held' = {} /\ ItemsOf(j) \subseteq alive'
    BY <1>1, <1>2, <2>1, <2>5
  <2>8. "shrunk" \notin slips' =>
           \A x \in alive' : x \in held' \cup ToSet(Append(s, o)) \/ \E j \in Which \ {i} : x \in ItemsOf(j)
    BY <1>1, <2>2, <2>5
  <2> QED
    BY <2>4, <2>6, <2>7, <2>8 DEF LeavesOwners
<1>7. alive' \subseteq Objects /\ held' \subseteq alive'
  BY <1>1, <1>2
<1>8. Plain(b).self = b /\ Plain(b).ruins = FALSE
  BY PlainOutcome
<1>9. Good(Plain(b).self, Objects) /\ Plain(b).ruins \in BOOLEAN
      /\ LeavesOwners(i, Plain(b).self.items)
  BY <1>3, <1>6, <1>8
<1> QED
  BY <1>1, <1>7, <1>8, <1>9, ArrayCall

\* What leaves an Array is deleted, or the program gets it, or the array has been shrunk.
LEMMA Giving ==
    ASSUME Owners, NEW i \in Which, NEW s, Distinct(s), ToSet(s) \subseteq ItemsOf(i),
           NEW gone, gone = ItemsOf(i) \ ToSet(s), slips \subseteq slips',
           \/ alive' = alive \ gone /\ held' = held
           \/ alive' = alive /\ held' = held \cup gone
           \/ alive' = alive /\ held' = held /\ (gone = {} \/ "shrunk" \in slips')
    PROVE  LeavesOwners(i, s)
<1>1. /\ ItemsOf(i) \cap held = {} /\ ItemsOf(i) \subseteq alive
      /\ \A j \in Which \ {i} : /\ ItemsOf(i) \cap ItemsOf(j) = {}
                                /\ ItemsOf(j) \cap held = {} /\ ItemsOf(j) \subseteq alive
      /\ "shrunk" \notin slips =>
            \A o \in alive : o \in held \cup ItemsOf(i) \/ \E j \in Which \ {i} : o \in ItemsOf(j)
  BY OwnersMeans
<1>2. ToSet(s) \cap held' = {} /\ ToSet(s) \subseteq alive'
  BY <1>1
<1>3. \A j \in Which \ {i} : /\ ToSet(s) \cap ItemsOf(j) = {}
                             /\ ItemsOf(j) \cap held' = {} /\ ItemsOf(j) \subseteq alive'
  BY <1>1
<1>4. "shrunk" \notin slips' =>
         \A o \in alive' : o \in held' \cup ToSet(s) \/ \E j \in Which \ {i} : o \in ItemsOf(j)
  <2> SUFFICES ASSUME "shrunk" \notin slips', NEW o \in alive'
               PROVE  o \in held' \cup ToSet(s) \/ \E j \in Which \ {i} : o \in ItemsOf(j)
    OBVIOUS
  <2>1. o \in alive /\ "shrunk" \notin slips
    OBVIOUS
  <2>2. CASE o \in gone
    BY <2>2
  <2>3. CASE o \notin gone
    BY <1>1, <2>1, <2>3
  <2> QED
    BY <2>2, <2>3
<1> QED
  BY <1>2, <1>3, <1>4 DEF LeavesOwners

LEMMA RemoveOwnAtKeeps ==
    ASSUME ArraysIInv, NEW i \in Which, NEW k \in Nat, RemoveOwnAt(i, k)
    PROVE  ArraysIInv'
<1> DEFINE s == arr[i].items
           b == Own!RemoveAt(arr[i], k)
           t == IF k < Len(s) THEN Without(s, k) ELSE s
           gone == IF k < Len(s) THEN {s[k + 1]} ELSE {}
<1>1. Is({"Array"}) /\ Becomes(i, b) /\ alive' = alive \ gone /\ held' = held /\ slips' = slips
  BY DEF RemoveOwnAt
<1>2. /\ Good(arr[i], Objects) /\ s \in Seq(Objects) /\ Len(s) \in Nat /\ ToSet(s) = ItemsOf(i)
      /\ alive \subseteq Objects /\ held \subseteq alive /\ Owners
  BY <1>1, HoldingAnArray
<1>3. Distinct(s) /\ ItemsOf(i) \cap held = {}
  BY <1>2, OwnersMeans
<1>4. Good(b.self, Objects) /\ b.ruins = FALSE /\ b.self.items = t
  BY <1>2, Removing
<1>5. gone \subseteq ItemsOf(i)
  BY <1>2, ElementsOf
<1>6. Distinct(t) /\ ToSet(t) \subseteq ToSet(s) /\ gone = ToSet(s) \ ToSet(t)
  <2>1. CASE k < Len(s)
    BY <1>2, <1>3, <1>5, <2>1, WithoutProperties
  <2>2. CASE ~(k < Len(s))
    BY <1>3, <2>2
  <2> QED
    BY <2>1, <2>2
<1> HIDE DEF gone, t, s, b
<1>7. alive' \subseteq Objects /\ held' \subseteq alive'
  BY <1>1, <1>2, <1>3, <1>5
<1>8. LeavesOwners(i, b.self.items)
  BY <1>1, <1>2, <1>4, <1>6, Giving
<1> QED
  BY <1>1, <1>4, <1>7, <1>8, ArrayCall

LEMMA PopOwnKeeps ==
    ASSUME ArraysIInv, NEW i \in Which, PopOwn(i)
    PROVE  ArraysIInv'
<1> DEFINE s == arr[i].items
           b == Own!Pop(arr[i])
           t == IF s = <<>> THEN <<>> ELSE FirstOf(s, Len(s) - 1)
           gone == IF s = <<>> THEN {} ELSE {Last(s)}
<1>1. Is({"Array"}) /\ Becomes(i, b) /\ alive' = alive /\ held' = held \cup gone /\ slips' = slips
  BY DEF PopOwn
<1>2. /\ Good(arr[i], Objects) /\ s \in Seq(Objects) /\ Len(s) \in Nat /\ ToSet(s) = ItemsOf(i)
      /\ alive \subseteq Objects /\ held \subseteq alive /\ Owners
  BY <1>1, HoldingAnArray
<1>3. Distinct(s) /\ ItemsOf(i) \subseteq alive
  BY <1>2, OwnersMeans
<1>4. Good(b.self, Objects) /\ b.self.items = t /\ b.ruins \in BOOLEAN /\ (b.ruins => ~b.self.block)
  BY <1>2, Popping
<1>5. Distinct(t) /\ ToSet(t) \subseteq ToSet(s) /\ gone = ToSet(s) \ ToSet(t)
  <2>1. CASE s = <<>>
    BY <2>1, EmptyIsDistinct
  <2>2. CASE s # <<>>
    BY <1>2, <1>3, <2>2, DroppingTheLast
  <2> QED
    BY <2>1, <2>2
<1> HIDE DEF gone, t, s, b
<1>6. alive' \subseteq Objects /\ held' \subseteq alive'
  BY <1>1, <1>2, <1>3, <1>5
<1>7. LeavesOwners(i, b.self.items)
  BY <1>1, <1>2, <1>4, <1>5, Giving
<1> QED
  BY <1>1, <1>4, <1>6, <1>7, ArrayCall

LEMMA ClearOwnKeeps ==
    ASSUME ArraysIInv, NEW i \in Which, ClearOwn(i)
    PROVE  ArraysIInv'
<1> DEFINE b == Own!Clear(arr[i])
<1>1. Is({"Array"}) /\ Becomes(i, Plain(b)) /\ alive' = alive \ ItemsOf(i) /\ held' = held /\ slips' = slips
  BY DEF ClearOwn
<1>2. Good(arr[i], Objects) /\ alive \subseteq Objects /\ held \subseteq alive /\ Owners
  BY <1>1, HoldingAnArray
<1>3. Good(b, Objects) /\ b.items = <<>>
  BY <1>2, Clearing
<1> HIDE DEF b
<1>4. Plain(b).self = b /\ Plain(b).ruins = FALSE
  BY PlainOutcome
<1>5. Distinct(<<>>) /\ ToSet(<<>>) = {}
  BY EmptyIsDistinct
<1>6. ItemsOf(i) = ItemsOf(i) \ ToSet(<<>>) /\ ToSet(<<>>) \subseteq ItemsOf(i)
  BY <1>5
<1>7. LeavesOwners(i, <<>>)
  BY <1>1, <1>2, <1>5, <1>6, Giving
<1>8. held' \subseteq alive' /\ alive' \subseteq Objects
  BY <1>1, <1>2, OwnersMeans
<1> QED
  BY <1>1, <1>3, <1>4, <1>7, <1>8, ArrayCall

LEMMA CopyOwnKeeps ==
    ASSUME ArraysIInv, NEW i \in Which, NEW j \in Which, CopyOwn(i, j)
    PROVE  ArraysIInv'
<1> DEFINE s == arr[i].items
<1>1. PICK c \in [DOMAIN s -> Objects \ alive] :
         /\ IsInjective(c) /\ Becomes(j, Plain(Own!Copy(c))) /\ alive' = alive \cup Range(c)
  BY DEF CopyOwn
<1>2. Is({"Array"}) /\ arr[j] = Own!Empty /\ held' = held /\ slips' = slips
  BY DEF CopyOwn
<1>3. s \in Seq(Objects) /\ alive \subseteq Objects /\ held \subseteq alive /\ Owners
  BY <1>2, HoldingAnArray
<1>4. c \in Seq(Objects) /\ DOMAIN c = 1 .. Len(c) /\ \A k \in DOMAIN c : c[k] \in Objects \ alive
  <2>1. DOMAIN s = 1 .. Len(s) /\ Len(s) \in Nat
    BY <1>3
  <2> HIDE DEF s
  <2> DEFINE n == Len(s)
  <2>2. n \in Nat /\ c \in [1 .. n -> Objects \ alive]
    BY <1>1, <2>1
  <2> HIDE DEF n
  <2>3. c \in Seq(Objects \ alive)
    BY <2>2, SeqDef
  <2>4. Len(c) = n /\ DOMAIN c = 1 .. n
    BY <2>2, <2>3
  <2>5. c \in [1 .. n -> Objects]
    BY <2>2
  <2>6. c \in Seq(Objects)
    BY <2>2, <2>5, SeqDef
  <2> QED
    BY <2>2, <2>4, <2>6
<1>5. Distinct(c) /\ ToSet(c) = Range(c) /\ ToSet(c) \cap alive = {} /\ ToSet(c) \subseteq Objects
  <2>1. Distinct(c)
    BY <1>1, <1>4 DEF Distinct, IsInjective
  <2>2. ToSet(c) = Range(c)
    BY DEF ToSet, Range
  <2>3. ToSet(c) \cap alive = {} /\ ToSet(c) \subseteq Objects
    BY <1>4 DEF ToSet
  <2> QED
    BY <2>1, <2>2, <2>3
<1>6. Good(Own!Copy(c), Objects) /\ Own!Copy(c).items = c
  BY <1>4, Copying
<1>7. Plain(Own!Copy(c)).self = Own!Copy(c) /\ Plain(Own!Copy(c)).ruins = FALSE
  BY PlainOutcome
<1>8. ItemsOf(j) = {}
  BY <1>2, EmptyIsDistinct, EmptyIsGood DEF ItemsOf
<1>9. LeavesOwners(j, c)
  <2>1. \A k \in Which \ {j} : ItemsOf(k) \cap held = {} /\ ItemsOf(k) \subseteq alive
    BY <1>3, OwnersMeans
  <2>2. "shrunk" \notin slips =>
           \A o \in alive : o \in held \/ \E k \in Which \ {j} : o \in ItemsOf(k)
    BY <1>3, <1>8, OwnersMeans
  <2>3. \A k \in Which \ {j} : /\ ToSet(c) \cap ItemsOf(k) = {}
                               /\ ItemsOf(k) \cap held' = {} /\ ItemsOf(k) \subseteq alive'
    BY <1>1, <1>2, <1>5, <2>1
  <2>4. ToSet(c) \cap held' = {} /\ ToSet(c) \subseteq alive'
    BY <1>1, <1>2, <1>3, <1>5
  <2>5. "shrunk" \notin slips' =>
           \A o \in alive' : o \in held' \cup ToSet(c) \/ \E k \in Which \ {j} : o \in ItemsOf(k)
    BY <1>1, <1>2, <1>5, <2>2
  <2> QED
    BY <1>5, <2>3, <2>4, <2>5 DEF LeavesOwners
<1>10. alive' \subseteq Objects /\ held' \subseteq alive'
  BY <1>1, <1>2, <1>3, <1>5
<1> QED
  BY <1>2, <1>1, <1>6, <1>7, <1>9, <1>10, ArrayCall

LEMMA JoinKeeps ==
    ASSUME ArraysIInv, NEW i \in Which, NEW j \in Which, Join(i, j)
    PROVE  ArraysIInv'
<1> DEFINE a == Own!Join(arr[i], arr[j])
           b == Own!Joined(arr[j])
           s == arr[i].items
           t == arr[j].items
<1>1. /\ Is({"Array"}) /\ i # j /\ Len(s) + Len(t) <= MaxLen
      /\ arr' = [arr EXCEPT ![i] = a, ![j] = b]
      /\ alive' = alive /\ held' = held /\ slips' = slips /\ ruined' = ruined
  BY DEF Join
<1>2. /\ kind = "Array" /\ kind' = kind /\ ~ruined
      /\ alive \subseteq Objects /\ held \subseteq alive /\ Owners
      /\ Good(arr[i], Objects) /\ Good(arr[j], Objects)
      /\ s \in Seq(Objects) /\ t \in Seq(Objects)
      /\ arr \in [Which -> RecordOf("Array")] /\ RecordOf("Array") = ArrayRecord(Objects)
      /\ \A k \in Which : k = i \/ k = j
  BY <1>1, HoldingAnArray DEF Is, ArraysIInv, TypesOK, RecordOf, Things, Which
<1>3. Good(a, Objects) /\ a.items = s \o t /\ Good(b, Objects) /\ b.items = <<>>
  <2>1. Good(arr[i], Objects) /\ Good(arr[j], Objects)
    BY <1>2
  <2>2. ASSUME NEW x, NEW y, Good(x, Objects), Good(y, Objects)
        PROVE  /\ Good(Own!Join(x, y), Objects) /\ Own!Join(x, y).items = x.items \o y.items
               /\ Good(Own!Joined(y), Objects) /\ Own!Joined(y).items = <<>>
    BY <2>2, Joining
  <2> QED
    BY <2>1, <2>2
<1>4. Len(s \o t) <= MaxLen /\ Len(<<>>) <= MaxLen
  <2>1. Len(s \o t) = Len(s) + Len(t)
    BY <1>2, ConcatItems
  <2>2. 0 <= MaxLen
    BY ArraysAssumption
  <2> QED
    BY <1>1, <2>1, <2>2, EmptyIsDistinct
<1> HIDE DEF a, b
<1>5. arr'[i] = a /\ arr'[j] = b /\ arr' \in [Which -> ArrayRecord(Objects)]
  BY <1>1, <1>2, <1>3 DEF Good
<1>6. AllFit'
  BY <1>2, <1>3, <1>4, <1>5 DEF AllFit, Good
<1>7. ItemsOf(i)' = ToSet(s) \cup ToSet(t) /\ ItemsOf(j)' = {}
  <2>1. ToSet(s \o t) = ToSet(s) \cup ToSet(t)
    BY <1>2, ConcatItems
  <2> HIDE DEF s, t
  <2> QED
    BY <1>3, <1>5, <2>1, EmptyIsDistinct DEF ItemsOf
<1>8. /\ Distinct(s) /\ Distinct(t) /\ ItemsOf(i) \cap ItemsOf(j) = {}
      /\ ItemsOf(i) \cap held = {} /\ ItemsOf(j) \cap held = {}
      /\ ItemsOf(i) \subseteq alive /\ ItemsOf(j) \subseteq alive
      /\ "shrunk" \notin slips => \A o \in alive : o \in held \cup ItemsOf(i) \cup ItemsOf(j)
  <2>1. /\ Distinct(s) /\ Distinct(t) /\ ItemsOf(i) \cap ItemsOf(j) = {}
        /\ ItemsOf(i) \cap held = {} /\ ItemsOf(j) \cap held = {}
        /\ ItemsOf(i) \subseteq alive /\ ItemsOf(j) \subseteq alive
    BY <1>1, <1>2, OwnersMeans
  <2>2. "shrunk" \notin slips => \A o \in alive : o \in held \cup ItemsOf(i) \cup ItemsOf(j)
    BY <1>2 DEF Owners
  <2> QED
    BY <2>1, <2>2
<1>9. ItemsOf(i) = ToSet(s) /\ ItemsOf(j) = ToSet(t)
  BY DEF ItemsOf
<1>10. Owners'
  <2>1. Distinct(arr'[i].items) /\ Distinct(arr'[j].items)
    <3>1. Distinct(s \o t)
      <4>1. ToSet(s) \cap ToSet(t) = {} /\ Distinct(s) /\ Distinct(t)
        BY <1>8, <1>9
      <4> QED
        BY <1>2, <4>1, ConcatItems
    <3> QED
      BY <1>3, <1>5, <3>1, EmptyIsDistinct
  <2> HIDE DEF s, t
  <2>2. \A k, l \in Which : k # l => ItemsOf(k)' \cap ItemsOf(l)' = {}
    BY <1>2, <1>7
  <2>3. \A k \in Which : ItemsOf(k)' \cap held' = {} /\ ItemsOf(k)' \subseteq alive'
    BY <1>1, <1>2, <1>7, <1>8, <1>9
  <2>4. "shrunk" \notin slips' => \A o \in alive' : o \in held' \/ \E k \in Which : o \in ItemsOf(k)'
    BY <1>1, <1>2, <1>7, <1>8, <1>9
  <2>5. \A k \in Which : Distinct(arr'[k].items)
    BY <1>2, <2>1
  <2> QED
    BY <2>2, <2>3, <2>4, <2>5 DEF Owners
<1>11. arr' \in [Which -> RecordOf(kind')] /\ ruined' = FALSE
  BY <1>1, <1>2, <1>5 DEF ArraysIInv, TypesOK
<1> QED
  BY <1>1, <1>2, <1>6, <1>10, <1>11, ArrayStep

-----------------------------------------------------------------------------
(* Programs with a RefArray or a PodArray.                                 *)

LEMMA OtherStep ==
    ASSUME ArraysIInv, kind \in {"RefArray", "PodArray"}, kind' = kind,
           arr' \in [Which -> RecordOf(kind')], AllFit', alive' \subseteq Objects,
           held' \subseteq alive', held' \subseteq held, ruined' \in BOOLEAN,
           ruined' => \E i \in Which : ~arr'[i].block,
           kind = "RefArray" /\ "popped" \notin slips' => \A i \in Which : ItemsOf(i)' \subseteq alive'
    PROVE  ArraysIInv'
<1>1. TypesOK'
  BY DEF TypesOK, Kinds
<1>2. NotBegun' /\ HeldExist' /\ Referred' /\ Holes' /\ Owned'
  BY DEF NotBegun, HeldExist, Referred, Holes, Owned, ArraysIInv
<1> QED
  BY <1>1, <1>2 DEF ArraysIInv

LEMMA OtherCall ==
    ASSUME ArraysIInv, kind \in {"RefArray", "PodArray"}, kind' = kind, NEW i \in Which, NEW o,
           Good(o.self, Things(kind)), o.ruins \in BOOLEAN, o.ruins => ~o.self.block, Becomes(i, o),
           alive' = alive, held' = held, slips \subseteq slips',
           kind = "RefArray" /\ "popped" \notin slips => ToSet(o.self.items) \subseteq alive
    PROVE  ArraysIInv'
<1>1. TypesOK /\ AllFit /\ held \subseteq alive /\ alive \subseteq Objects
  BY DEF ArraysIInv, TypesOK, HeldExist
<1>2. /\ arr' \in [Which -> RecordOf(kind')] /\ AllFit'
      /\ arr'[i] = o.self /\ ItemsOf(i)' = ToSet(o.self.items)
      /\ \A j \in Which : j # i => arr'[j] = arr[j] /\ ItemsOf(j)' = ItemsOf(j)
      /\ ruined' = o.ruins
  BY <1>1, Becoming
<1>3. ruined' \in BOOLEAN /\ (ruined' => \E j \in Which : ~arr'[j].block)
  BY <1>2
<1>4. ASSUME kind = "RefArray", "popped" \notin slips' PROVE \A j \in Which : ItemsOf(j)' \subseteq alive'
  BY <1>2, <1>4 DEF ArraysIInv, Referred
<1> QED
  BY <1>1, <1>2, <1>3, <1>4, OtherStep

-----------------------------------------------------------------------------
(* What the three classes with a capacity have in common.                  *)

LEMMA HoldingArrays ==
    ASSUME ArraysIInv, kind \in {"Array", "RefArray", "PodArray"}, NEW i \in Which
    PROVE  /\ Good(arr[i], Things(kind)) /\ arr[i].items \in Seq(Things(kind))
           /\ Len(arr[i].items) \in Nat /\ Len(arr[i].items) <= MaxLen /\ ToSet(arr[i].items) = ItemsOf(i)
           /\ alive \subseteq Objects /\ held \subseteq alive
           /\ kind = "Array" => Owners /\ Things(kind) = Objects
           /\ kind = "RefArray" /\ "popped" \notin slips => ItemsOf(i) \subseteq alive
<1>1. TypesOK /\ AllFit /\ alive \subseteq Objects /\ held \subseteq alive
  BY DEF ArraysIInv, TypesOK, HeldExist
<1>2. /\ kind = "Array" => Owners /\ Things(kind) = Objects
      /\ kind = "RefArray" /\ "popped" \notin slips => ItemsOf(i) \subseteq alive
  BY DEF ArraysIInv, Owned, Things, Referred
<1> QED
  BY <1>1, <1>2, ArraysAreGood DEF ItemsOf

LEMMA DestroyKeeps ==
    ASSUME ArraysIInv, NEW i \in Which, Destroy(i)
    PROVE  ArraysIInv'
<1> DEFINE o == Plain(Own!Empty)
<1>1. /\ kind \in {"Array", "RefArray", "PodArray"} /\ kind' = kind /\ ~ruined /\ ruined' = ruined
      /\ arr' = [arr EXCEPT ![i] = Own!Empty]
      /\ alive' = alive \ Deleted(i) /\ held' = held /\ slips' = slips
  BY DEF Destroy, Is
<1>2. \A S : Good(Own!Empty, S) /\ Own!Empty.items = <<>>
  BY EmptyIsGood
<1>3. o.self = Own!Empty /\ o.ruins = FALSE
  BY PlainOutcome
<1>4. Becomes(i, o)
  <2>1. 0 <= MaxLen /\ 0 <= MaxCap /\ Own!Empty.cap = 0
    BY ArraysAssumption DEF Own!Empty
  <2>2. ruined' = FALSE
    BY <1>1 DEF ArraysIInv, TypesOK
  <2> HIDE DEF o
  <2> QED
    BY <1>1, <1>2, <1>3, <2>1, <2>2, EmptyIsDistinct DEF Becomes
<1> HIDE DEF o
<1>5. Distinct(<<>>) /\ ToSet(<<>>) = {}
  BY EmptyIsDistinct
<1>6. CASE kind = "Array"
  <2>1. Is({"Array"}) /\ alive' = alive \ ItemsOf(i)
    BY <1>1, <1>6 DEF Is, Deleted
  <2>2. Owners /\ alive \subseteq Objects /\ held \subseteq alive
    BY <1>1, <1>6, HoldingArrays
  <2>3. ItemsOf(i) = ItemsOf(i) \ ToSet(<<>>) /\ ToSet(<<>>) \subseteq ItemsOf(i)
    BY <1>5
  <2>4. LeavesOwners(i, <<>>)
    BY <1>1, <1>5, <2>1, <2>2, <2>3, Giving
  <2>5. held' \subseteq alive' /\ alive' \subseteq Objects
    BY <1>1, <2>1, <2>2, OwnersMeans
  <2> QED
    BY <1>1, <1>2, <1>3, <1>4, <2>1, <2>4, <2>5, ArrayCall
<1>7. CASE kind \in {"RefArray", "PodArray"}
  <2>1. alive' = alive
    BY <1>1, <1>7 DEF Deleted
  <2> QED
    BY <1>1, <1>2, <1>3, <1>4, <1>5, <1>7, <2>1, OtherCall
<1> QED
  BY <1>1, <1>6, <1>7

LEMMA SetArrayCapacityKeeps ==
    ASSUME ArraysIInv, NEW i \in Which, NEW capacity \in Capacities, SetArrayCapacity(i, capacity)
    PROVE  ArraysIInv'
<1> DEFINE s == arr[i].items
           b == Own!SetCapacity(arr[i], capacity)
           t == FirstOf(s, capacity)
<1>1. /\ kind \in {"Array", "RefArray", "PodArray"} /\ kind' = kind
      /\ Becomes(i, Plain(b)) /\ alive' = alive /\ held' = held
      /\ slips' = slips \cup (IF kind = "Array" /\ capacity < Len(s) THEN {"shrunk"} ELSE {})
  BY DEF SetArrayCapacity, Is
<1>2. /\ Good(arr[i], Things(kind)) /\ s \in Seq(Things(kind)) /\ Len(s) \in Nat /\ ToSet(s) = ItemsOf(i)
      /\ alive \subseteq Objects /\ held \subseteq alive
      /\ kind = "Array" => Owners /\ Things(kind) = Objects
      /\ kind = "RefArray" /\ "popped" \notin slips => ItemsOf(i) \subseteq alive
  BY <1>1, HoldingArrays
<1>3. capacity \in Nat
  BY ArraysAssumption
<1>4. b = Resized(arr[i], capacity)
  BY CapacityIsSet
<1>5. Good(b, Things(kind)) /\ b.items = t /\ (capacity >= Len(s) => t = s)
  BY <1>2, <1>3, <1>4, ResizedIsGood
<1>6. (Distinct(s) => Distinct(t)) /\ ToSet(t) \subseteq ItemsOf(i)
  BY <1>2, <1>3, FirstOfProperties
<1> HIDE DEF b, t
<1>7. Plain(b).self = b /\ Plain(b).ruins = FALSE
  BY PlainOutcome
<1>8. CASE kind = "Array"
  <2>1. Is({"Array"})
    BY <1>8 DEF SetArrayCapacity, Is
  <2> DEFINE gone == ItemsOf(i) \ ToSet(t)
  <2>2. gone = {} \/ "shrunk" \in slips'
    <3>1. CASE capacity < Len(s)
      BY <1>1, <1>8, <3>1
    <3>2. CASE ~(capacity < Len(s))
      <4>1. t = s
        BY <1>2, <1>3, <1>5, <3>2
      <4> QED
        BY <1>2, <4>1
    <3> QED
      BY <3>1, <3>2
  <2>3. Distinct(t)
    BY <1>2, <1>6, <1>8, OwnersMeans
  <2> HIDE DEF s
  <2>4. slips \subseteq slips'
    BY <1>1
  <2>5. LeavesOwners(i, t)
    BY <1>1, <1>2, <1>6, <1>8, <2>2, <2>3, <2>4, Giving
  <2> QED
    BY <1>1, <1>2, <1>5, <1>7, <1>8, <2>1, <2>4, <2>5, ArrayCall
<1>9. CASE kind \in {"RefArray", "PodArray"}
  <2>1. kind = "RefArray" /\ "popped" \notin slips => ToSet(t) \subseteq alive
    BY <1>2, <1>6
  <2>2. slips \subseteq slips'
    BY <1>1
  <2> QED
    BY <1>1, <1>5, <1>7, <1>9, <2>1, <2>2, OtherCall
<1> QED
  BY <1>1, <1>8, <1>9

LEMMA MoveKeeps ==
    ASSUME ArraysIInv, NEW i \in Which, NEW j \in Which, Move(i, j)
    PROVE  ArraysIInv'
<1>1. /\ kind \in {"Array", "RefArray", "PodArray"} /\ kind' = kind /\ ~ruined /\ ruined' = ruined /\ i # j
      /\ arr' = [arr EXCEPT ![j] = arr[i], ![i] = Own!Empty]
      /\ alive' = alive \ Deleted(j) /\ held' = held /\ slips' = slips
  BY DEF Move, Is
<1>2. /\ Good(arr[i], Things(kind)) /\ Len(arr[i].items) <= MaxLen
      /\ alive \subseteq Objects /\ held \subseteq alive /\ \A k \in Which : k = i \/ k = j
      /\ kind = "Array" => Owners /\ Things(kind) = Objects
      /\ kind = "RefArray" /\ "popped" \notin slips => ItemsOf(i) \subseteq alive
  BY <1>1, HoldingArrays DEF Which
<1>3. Good(Own!Empty, Things(kind)) /\ Own!Empty.items = <<>>
  BY EmptyIsGood
<1>4. arr \in [Which -> ArrayRecord(Things(kind))] /\ RecordOf(kind) = ArrayRecord(Things(kind))
  BY <1>1 DEF ArraysIInv, TypesOK, RecordOf
<1>5. arr'[j] = arr[i] /\ arr'[i] = Own!Empty /\ arr' \in [Which -> RecordOf(kind')]
  BY <1>1, <1>2, <1>3, <1>4 DEF Good
<1>6. AllFit'
  <2>1. Len(Own!Empty.items) <= MaxLen
    BY <1>3, EmptyIsDistinct, ArraysAssumption
  <2> QED
    BY <1>2, <1>3, <1>5, <2>1 DEF AllFit, Good
<1>7. ItemsOf(j)' = ItemsOf(i) /\ ItemsOf(i)' = {}
  BY <1>3, <1>5, EmptyIsDistinct DEF ItemsOf
<1>8. ruined' = FALSE
  BY <1>1 DEF ArraysIInv, TypesOK
<1>9. CASE kind = "Array"
  <2>1. alive' = alive \ ItemsOf(j)
    BY <1>1, <1>9 DEF Deleted
  <2>2. /\ Distinct(arr[i].items) /\ ItemsOf(i) \cap ItemsOf(j) = {}
        /\ ItemsOf(i) \cap held = {} /\ ItemsOf(j) \cap held = {}
        /\ ItemsOf(i) \subseteq alive
        /\ "shrunk" \notin slips => \A o \in alive : o \in held \cup ItemsOf(i) \cup ItemsOf(j)
    <3>1. /\ Distinct(arr[i].items) /\ ItemsOf(i) \cap ItemsOf(j) = {}
          /\ ItemsOf(i) \cap held = {} /\ ItemsOf(j) \cap held = {}
          /\ ItemsOf(i) \subseteq alive
      BY <1>1, <1>2, <1>9, OwnersMeans
    <3>2. "shrunk" \notin slips => \A o \in alive : o \in held \cup ItemsOf(i) \cup ItemsOf(j)
      BY <1>2, <1>9 DEF Owners
    <3> QED
      BY <3>1, <3>2
  <2>3. Owners'
    <3>1. \A k \in Which : Distinct(arr'[k].items)
      BY <1>2, <1>3, <1>5, <2>2, EmptyIsDistinct
    <3>2. \A k, l \in Which : k # l => ItemsOf(k)' \cap ItemsOf(l)' = {}
      BY <1>2, <1>7
    <3>3. \A k \in Which : ItemsOf(k)' \cap held' = {} /\ ItemsOf(k)' \subseteq alive'
      BY <1>1, <1>2, <1>7, <2>1, <2>2
    <3>4. "shrunk" \notin slips' => \A o \in alive' : o \in held' \/ \E k \in Which : o \in ItemsOf(k)'
      BY <1>1, <1>7, <2>1, <2>2
    <3> QED
      BY <3>1, <3>2, <3>3, <3>4 DEF Owners
  <2>4. held' \subseteq alive' /\ alive' \subseteq Objects
    BY <1>1, <1>2, <2>1, <2>2
  <2> QED
    BY <1>1, <1>5, <1>6, <1>8, <1>9, <2>3, <2>4, ArrayStep
<1>10. CASE kind \in {"RefArray", "PodArray"}
  <2>1. alive' = alive
    BY <1>1, <1>10 DEF Deleted
  <2>2. kind = "RefArray" /\ "popped" \notin slips' => \A k \in Which : ItemsOf(k)' \subseteq alive'
    BY <1>1, <1>2, <1>7, <2>1
  <2> QED
    BY <1>1, <1>2, <1>5, <1>6, <1>8, <1>10, <2>1, <2>2, OtherStep
<1> QED
  BY <1>1, <1>9, <1>10

-----------------------------------------------------------------------------
(* The calls of a RefArray.                                                *)

LEMMA HoldingRefs ==
    ASSUME ArraysIInv, Is({"RefArray"}), NEW i \in Which
    PROVE  /\ kind = "RefArray" /\ kind' = kind /\ Good(arr[i], Objects) /\ arr[i].items \in Seq(Objects)
           /\ Len(arr[i].items) \in Nat /\ ToSet(arr[i].items) = ItemsOf(i) /\ Things(kind) = Objects
           /\ alive \subseteq Objects /\ held \subseteq alive
           /\ "popped" \notin slips => ItemsOf(i) \subseteq alive
<1>1. kind = "RefArray" /\ kind' = kind /\ Things(kind) = Objects
  BY DEF Is, Things
<1> QED
  BY <1>1, HoldingArrays

\* Except pop(): it does not delete what it takes out.
LEMMA RefCallsKeep ==
    ASSUME ArraysIInv, NEW i \in Which,
           \/ \E o \in Objects : AddRef(i, o)
           \/ \E k \in Nat : RemoveRefAt(i, k)
           \/ ClearRef(i)
           \/ \E j \in Which : CopyRef(j, i)
    PROVE  ArraysIInv'
<1> DEFINE s == arr[i].items
           Kept(o) == /\ Good(o.self, Objects) /\ o.ruins = FALSE /\ Becomes(i, o)
                      /\ "popped" \notin slips => ToSet(o.self.items) \subseteq alive
<1>1. Is({"RefArray"}) /\ alive' = alive /\ held' = held /\ slips' = slips
  BY DEF AddRef, RemoveRefAt, ClearRef, CopyRef
<1>2. /\ kind = "RefArray" /\ kind' = kind /\ Good(arr[i], Objects) /\ s \in Seq(Objects)
      /\ Len(s) \in Nat /\ ToSet(s) = ItemsOf(i) /\ Things(kind) = Objects
      /\ alive \subseteq Objects /\ held \subseteq alive
      /\ "popped" \notin slips => ItemsOf(i) \subseteq alive
  BY <1>1, HoldingRefs
<1>3. ASSUME NEW o \in Objects, AddRef(i, o) PROVE \E outcome : Kept(outcome)
  <2> DEFINE b == Ref!Add(arr[i], o)
  <2>1. o \in held /\ Becomes(i, Plain(b))
    BY <1>3 DEF AddRef
  <2>2. Good(b, Objects) /\ b.items = Append(s, o)
    <3>1. Good(arr[i], Objects) /\ o \in Objects
      BY <1>2
    <3> QED
      BY <3>1, Adding
  <2>3. ToSet(Append(s, o)) = ToSet(s) \cup {o}
    BY <1>2, AppendItem
  <2> HIDE DEF b
  <2>4. Plain(b).self = b /\ Plain(b).ruins = FALSE
    BY PlainOutcome
  <2> HIDE DEF s
  <2>5. Kept(Plain(b))
    BY <1>2, <2>1, <2>2, <2>3, <2>4
  <2> HIDE DEF Kept
  <2> QED
    BY <2>5
<1>4. ASSUME NEW k \in Nat, RemoveRefAt(i, k) PROVE \E outcome : Kept(outcome)
  <2> DEFINE o == Ref!RemoveAt(arr[i], k)
  <2>1. Becomes(i, o)
    BY <1>4 DEF RemoveRefAt
  <2>2. Good(o.self, Objects) /\ o.ruins = FALSE
        /\ o.self.items = IF k < Len(s) THEN Without(s, k) ELSE s
    BY <1>2, Removing
  <2>3. ToSet(o.self.items) \subseteq ToSet(s)
    BY <1>2, <2>2, WithoutProperties
  <2> HIDE DEF o, s
  <2>4. Kept(o)
    BY <1>2, <2>1, <2>2, <2>3
  <2> HIDE DEF Kept
  <2> QED
    BY <2>4
<1>5. ASSUME ClearRef(i) PROVE \E outcome : Kept(outcome)
  <2> DEFINE b == Ref!Clear(arr[i])
  <2>1. Becomes(i, Plain(b))
    BY <1>5 DEF ClearRef
  <2>2. Good(b, Objects) /\ b.items = <<>>
    BY <1>2, Clearing
  <2> HIDE DEF b
  <2>3. Plain(b).self = b /\ Plain(b).ruins = FALSE
    BY PlainOutcome
  <2>4. Kept(Plain(b))
    BY <2>1, <2>2, <2>3, EmptyIsDistinct
  <2> HIDE DEF Kept
  <2> QED
    BY <2>4
<1>6. ASSUME NEW j \in Which, CopyRef(j, i) PROVE \E outcome : Kept(outcome)
  <2> DEFINE b == Ref!Copy(arr[j])
             t == arr[j].items
  <2>1. Becomes(i, Plain(b))
    BY <1>6 DEF CopyRef
  <2>2. t \in Seq(Objects) /\ ToSet(t) = ItemsOf(j) /\ ("popped" \notin slips => ItemsOf(j) \subseteq alive)
    BY <1>1, HoldingRefs
  <2>3. Good(b, Objects) /\ b.items = t
    BY <2>2, Copying
  <2> HIDE DEF b, t
  <2>4. Plain(b).self = b /\ Plain(b).ruins = FALSE
    BY PlainOutcome
  <2>5. Kept(Plain(b))
    BY <2>1, <2>2, <2>3, <2>4
  <2> HIDE DEF Kept
  <2> QED
    BY <2>5
<1>7. PICK o : Kept(o)
  <2> HIDE DEF Kept
  <2> QED
    BY <1>3, <1>4, <1>5, <1>6
<1> QED
  BY <1>1, <1>2, <1>7, OtherCall

LEMMA PopRefKeeps ==
    ASSUME ArraysIInv, NEW i \in Which, PopRef(i)
    PROVE  ArraysIInv'
<1> DEFINE s == arr[i].items
           o == Ref!Pop(arr[i])
           gone == IF s = <<>> THEN {} ELSE {Last(s)}
<1>1. /\ Is({"RefArray"}) /\ Becomes(i, o) /\ alive' = alive \ gone /\ held' = held \ gone
      /\ slips' = slips \cup (IF gone = {} THEN {} ELSE {"popped"})
  BY DEF PopRef
<1>2. /\ kind = "RefArray" /\ kind' = kind /\ Good(arr[i], Objects) /\ s \in Seq(Objects)
      /\ Things(kind) = Objects /\ alive \subseteq Objects /\ held \subseteq alive
      /\ ToSet(s) = ItemsOf(i)
  BY <1>1, HoldingRefs
<1>3. /\ Good(o.self, Objects) /\ o.ruins \in BOOLEAN /\ (o.ruins => ~o.self.block)
      /\ o.self.items = IF s = <<>> THEN <<>> ELSE FirstOf(s, Len(s) - 1)
  BY <1>2, Popping
<1>4. TypesOK /\ AllFit
  BY DEF ArraysIInv
<1>5. gone = {} => o.self.items = <<>> /\ alive' = alive /\ held' = held
  BY <1>1, <1>3
<1> HIDE DEF o, gone, s
<1>6. /\ arr' \in [Which -> RecordOf(kind')] /\ AllFit'
      /\ arr'[i] = o.self /\ ItemsOf(i)' = ToSet(o.self.items)
      /\ \A j \in Which : j # i => arr'[j] = arr[j] /\ ItemsOf(j)' = ItemsOf(j)
      /\ ruined' = o.ruins
  <2>1. kind # "CArray" /\ kind' = kind /\ Good(o.self, Things(kind)) /\ Becomes(i, o)
    BY <1>1, <1>2, <1>3
  <2> QED
    BY <1>4, <2>1, Becoming
<1>7. ruined' \in BOOLEAN /\ (ruined' => \E j \in Which : ~arr'[j].block)
  BY <1>3, <1>6
<1>8. ASSUME "popped" \notin slips' PROVE \A j \in Which : ItemsOf(j)' \subseteq alive'
  <2>1. gone = {} /\ "popped" \notin slips
    BY <1>1, <1>8
  <2>2. \A j \in Which : ItemsOf(j) \subseteq alive
    BY <1>2, <2>1 DEF ArraysIInv, Referred
  <2> QED
    BY <1>5, <1>6, <2>1, <2>2, EmptyIsDistinct
<1>9. alive' \subseteq Objects /\ held' \subseteq alive' /\ held' \subseteq held
  BY <1>1, <1>2
<1> QED
  BY <1>2, <1>6, <1>7, <1>8, <1>9, OtherStep

-----------------------------------------------------------------------------
(* The calls of a PodArray.                                                *)

\* A sequence with what was between two positions taken out
Erased(s, from, until) == SubSeq(s, 1, from) \o SubSeq(s, until + 1, Len(s))

LEMMA ErasedMeans ==
    ASSUME NEW S, NEW s \in Seq(S), NEW from \in Nat, NEW until \in Nat, from <= until, until <= Len(s)
    PROVE  /\ Erased(s, from, until) \in Seq(S) /\ Len(Erased(s, from, until)) = Len(s) - (until - from)
           /\ \A i \in 1 .. Len(s) - (until - from) :
                 Erased(s, from, until)[i] = IF i > from THEN s[i + (until - from)] ELSE s[i]
<1> DEFINE front == SubSeq(s, 1, from)
           back == SubSeq(s, until + 1, Len(s))
           t == front \o back
<1>0. Len(s) \in Nat
  OBVIOUS
<1>1. front \in Seq(S) /\ Len(front) = from /\ \A i \in 1 .. from : front[i] = s[i]
  <2>1. \A i \in 1 .. from : s[i] \in S
    BY <1>0, ElementOfSeq
  <2> QED
    BY <1>0, <2>1, SubSeqProperties
<1>2. back \in Seq(S) /\ Len(back) = Len(s) - until /\ \A i \in 1 .. Len(s) - until : back[i] = s[until + i]
  BY <1>0
<1> HIDE DEF front, back
<1>3. t \in Seq(S) /\ Len(t) = from + (Len(s) - until)
  <2>1. t \in Seq(S) /\ Len(t) = Len(front) + Len(back)
    BY <1>1, <1>2, ConcatItems
  <2> HIDE DEF t
  <2> QED
    BY <1>1, <1>2, <2>1
<1>4. from + (Len(s) - until) = Len(s) - (until - from) /\ Len(s) - (until - from) \in Nat
  BY <1>0
<1>5. ASSUME NEW i \in 1 .. Len(s) - (until - from)
      PROVE  t[i] = IF i > from THEN s[i + (until - from)] ELSE s[i]
  <2>1. CASE i > from
    <3>1. i - from \in 1 .. Len(s) - until /\ until + (i - from) = i + (until - from)
      BY <1>0, <2>1
    <3>2. t[i] = back[i - from]
      BY <1>0, <1>1, <1>2, <2>1, <3>1
    <3>3. back[i - from] = s[until + (i - from)]
      BY <1>2, <3>1
    <3> QED
      BY <2>1, <3>1, <3>2, <3>3
  <2>2. CASE ~(i > from)
    <3>1. i \in 1 .. from
      BY <1>0, <2>2
    <3>2. t[i] = front[i]
      BY <1>0, <1>1, <1>2, <3>1
    <3> QED
      BY <1>1, <2>2, <3>1, <3>2
  <2> QED
    BY <2>1, <2>2
<1> HIDE DEF t
<1>6. Erased(s, from, until) = t
  BY DEF Erased, t, front, back
<1> QED
  BY <1>3, <1>4, <1>5, <1>6

\* erase() leaves what is in front of the range and behind it, or throws.
LEMMA Erasing ==
    ASSUME NEW S, NEW a, Good(a, S), NEW from \in Nat, NEW until \in Nat
    PROVE  LET e == Pod!Erase(a, from, until)
               s == a.items
           IN  /\ Good(e.self, S) /\ e.ruins = FALSE
               /\ IF from <= until /\ until <= Len(s)
                  THEN e.raises = FALSE /\ e.self.items = Erased(s, from, until)
                  ELSE e = FailedCall(a)
<1> DEFINE s == a.items
           e == Pod!Erase(a, from, until)
           offset == until - from
<1>1. s \in Seq(S) /\ Len(s) \in Nat /\ a.cap \in Nat /\ Len(s) <= a.cap /\ (~a.block => s = <<>>)
  BY GoodMeans
<1>2. CASE until > Len(s) \/ from > until
  <2>1. e = FailedCall(a)
    BY <1>2 DEF Pod!Erase, Pod!Raised, FailedCall
  <2>2. FailedCall(a).self = a /\ FailedCall(a).ruins = FALSE
    BY DEF FailedCall
  <2>3. ~(from <= until /\ until <= Len(s))
    BY <1>1, <1>2
  <2> HIDE DEF e, s
  <2> QED
    BY <2>1, <2>2, <2>3 DEF e, s
<1>3. CASE ~(until > Len(s) \/ from > until)
  <2>1. from <= until /\ until <= Len(s) /\ offset \in Nat
    BY <1>1, <1>3
  <2>2. ~(Len(s) > Len(s) \/ until > Len(s) \/ offset > until)
    BY <1>1, <2>1
  <2>3. e = IF ~a.block THEN Pod!Done(a)
            ELSE Pod!Done([a EXCEPT !.items =
                [i \in 1 .. IF Len(s) = Len(@) THEN Len(@) - offset ELSE Len(@) |->
                    IF i > until - offset /\ i <= Len(s) - offset THEN @[i + offset] ELSE @[i]]])
    BY <1>3, <2>2 DEF Pod!Erase, Pod!ShiftForward
  <2> DEFINE t == [i \in 1 .. Len(s) - offset |->
                      IF i > until - offset /\ i <= Len(s) - offset THEN s[i + offset] ELSE s[i]]
  <2>4. e = IF ~a.block THEN Plain(a) ELSE Plain([a EXCEPT !.items = t])
    BY <2>3 DEF Pod!Done, Plain
  <2>5. /\ Erased(s, from, until) \in Seq(S) /\ Len(Erased(s, from, until)) = Len(s) - offset
        /\ \A i \in 1 .. Len(s) - offset :
              Erased(s, from, until)[i] = IF i > from THEN s[i + offset] ELSE s[i]
    <3>1. ASSUME NEW x \in Seq(S), until <= Len(x)
          PROVE  /\ Erased(x, from, until) \in Seq(S) /\ Len(Erased(x, from, until)) = Len(x) - offset
                 /\ \A i \in 1 .. Len(x) - offset :
                       Erased(x, from, until)[i] = IF i > from THEN x[i + offset] ELSE x[i]
      BY <2>1, <3>1, ErasedMeans
    <3> HIDE DEF s, offset
    <3> QED
      BY <1>1, <2>1, <3>1
  <2> DEFINE r == Erased(s, from, until)
             n == Len(s) - offset
  <2>6. n \in Nat /\ n <= Len(s)
    BY <1>1, <2>1
  <2>7. t = r
    <3>1. until - offset = from
      BY <1>1
    <3>2. \A i \in 1 .. n : t[i] = r[i] /\ r[i] \in S
      <4>1. \A i \in 1 .. n : i <= Len(s) - offset
        BY <1>1, <2>1
      <4>2. \A i \in 1 .. n : t[i] = r[i]
        BY <2>5, <3>1, <4>1
      <4>3. \A i \in 1 .. n : r[i] \in S
        <5>1. r \in Seq(S) /\ Len(r) = n
          BY <2>5
        <5> HIDE DEF r, n
        <5> QED
          BY <5>1, ElementOfSeq
      <4> QED
        BY <4>2, <4>3
    <3>3. t = [i \in 1 .. n |-> t[i]]
      OBVIOUS
    <3> HIDE DEF t, r, n
    <3>4. r \in Seq(S) /\ Len(r) = n
      BY <2>5 DEF r, n
    <3>5. t \in [1 .. n -> S]
      BY <3>2, <3>3
    <3>6. t \in Seq(S) /\ Len(t) = n
      BY <2>6, <3>5, SeqDef
    <3> QED
      BY <3>2, <3>4, <3>6, SeqEqual
  <2>8. r \in Seq(S) /\ Len(r) <= a.cap
    BY <1>1, <2>5, <2>6
  <2> HIDE DEF t, n
  <2>9. CASE ~a.block
    <3>1. e = Plain(a)
      BY <2>4, <2>9
    <3>2. r = <<>>
      BY <1>1, <2>1, <2>5, <2>8, <2>9, EmptySeq
    <3>3. Plain(a).self = a /\ Plain(a).ruins = FALSE /\ Plain(a).raises = FALSE
      BY DEF Plain
    <3> HIDE DEF e
    <3> QED
      BY <1>1, <2>1, <2>9, <3>1, <3>2, <3>3 DEF e
  <2>10. CASE a.block
    <3> DEFINE b == [a EXCEPT !.items = r]
    <3>1. e = Plain(b)
      BY <2>4, <2>7, <2>10
    <3> HIDE DEF r
    <3>2. Good(b, S) /\ b.items = r
      BY <2>8, <2>10, WithItems
    <3> HIDE DEF b
    <3>3. Plain(b).self = b /\ Plain(b).ruins = FALSE /\ Plain(b).raises = FALSE
      BY DEF Plain
    <3> HIDE DEF e
    <3> QED
      BY <2>1, <3>1, <3>2, <3>3 DEF e, r
  <2> QED
    BY <2>9, <2>10
<1> QED
  BY <1>2, <1>3

\* What moveToFrontAt() makes of the values, the first being x
LastOf(s, pos) == IF Len(s) <= pos + 1 THEN pos + 1 ELSE Len(s)

Fronted(s, pos, x) ==
    [[i \in 1 .. LastOf(s, pos) |->
        IF i > 0 + 1 /\ i <= pos + 1 THEN s[i - 1] ELSE IF i <= Len(s) THEN s[i] ELSE Unknown] EXCEPT ![1] = x]

LEMMA FrontedMeans ==
    ASSUME NEW S, Unknown \in S, NEW s \in Seq(S), NEW pos \in Nat, pos <= Len(s), NEW x \in S
    PROVE  /\ Fronted(s, pos, x) \in Seq(S) /\ Len(Fronted(s, pos, x)) = LastOf(s, pos)
           /\ pos < Len(s) => Fronted(s, pos, x) = <<x>> \o Without(s, pos)
<1> DEFINE v == Fronted(s, pos, x)
           last == LastOf(s, pos)
<1>0. /\ Len(s) \in Nat /\ last \in Nat /\ last >= 1
      /\ (last = IF Len(s) <= pos + 1 THEN pos + 1 ELSE Len(s))
  BY DEF LastOf
<1> HIDE DEF last
<1>1. /\ v = [i \in 1 .. last |-> v[i]] /\ v[1] = x
      /\ \A i \in 1 .. last : i # 1 => v[i] = IF i > 0 + 1 /\ i <= pos + 1 THEN s[i - 1]
                                              ELSE IF i <= Len(s) THEN s[i] ELSE Unknown
  <2> DEFINE w == [i \in 1 .. last |-> IF i > 0 + 1 /\ i <= pos + 1 THEN s[i - 1]
                                       ELSE IF i <= Len(s) THEN s[i] ELSE Unknown]
  <2>1. v = [w EXCEPT ![1] = x]
    BY DEF Fronted, last
  <2>2. \A i \in 1 .. last : w[i] = IF i > 0 + 1 /\ i <= pos + 1 THEN s[i - 1]
                                     ELSE IF i <= Len(s) THEN s[i] ELSE Unknown
    OBVIOUS
  <2>3. w = [i \in 1 .. last |-> w[i]] /\ DOMAIN w = 1 .. last
    OBVIOUS
  <2>4. 1 \in 1 .. last
    BY <1>0
  <2> HIDE DEF w, v
  <2>5. v = [i \in 1 .. last |-> IF i = 1 THEN x ELSE w[i]]
    BY <2>1, <2>3, <2>4
  <2>6. /\ v = [i \in 1 .. last |-> v[i]] /\ v[1] = x
        /\ \A i \in 1 .. last : i # 1 => v[i] = w[i]
    BY <2>4, <2>5
  <2> QED
    BY <2>2, <2>6
<1> HIDE DEF v
<1>2. \A i \in 1 .. last : i # 1 => v[i] = IF i <= pos + 1 THEN s[i - 1]
                                           ELSE IF i <= Len(s) THEN s[i] ELSE Unknown
  <2>1. \A i \in 1 .. last : i # 1 => i > 0 + 1
    BY <1>0
  <2> QED
    BY <1>1, <2>1
<1>3. \A i \in 1 .. last : v[i] \in S
  <2>1. \A i \in 1 .. last : i # 1 /\ i <= pos + 1 => i - 1 \in 1 .. Len(s)
    BY <1>0
  <2>2. \A i \in 1 .. last : i <= Len(s) => i \in 1 .. Len(s)
    BY <1>0
  <2>3. \A i \in 1 .. Len(s) : s[i] \in S
    BY ElementOfSeq
  <2> QED
    BY <1>1, <1>2, <2>1, <2>2, <2>3
<1>4. v \in [1 .. last -> S]
  BY <1>1, <1>3
<1>5. v \in Seq(S) /\ Len(v) = last
  BY <1>0, <1>4, SeqDef
<1>6. ASSUME pos < Len(s) PROVE v = <<x>> \o Without(s, pos)
  <2> DEFINE w == Without(s, pos)
             u == <<x>> \o w
  <2>1. /\ w \in Seq(S) /\ Len(w) = Len(s) - 1
        /\ \A k \in 1 .. Len(s) - 1 : w[k] = IF k <= pos THEN s[k] ELSE s[k + 1]
    BY <1>6, WithoutProperties
  <2> HIDE DEF w
  <2>2. last = Len(s)
    BY <1>0, <1>6
  <2>3. u \in Seq(S) /\ Len(u) = last /\ u[1] = x /\ \A i \in 1 .. last : i # 1 => u[i] = w[i - 1]
    BY <1>0, <1>6, <2>1, <2>2
  <2> HIDE DEF u
  <2>4. ASSUME NEW i \in 1 .. last, i # 1 PROVE v[i] = w[i - 1]
    <3>1. i - 1 \in 1 .. Len(s) - 1 /\ (i - 1) + 1 = i /\ i <= Len(s) /\ (i - 1 <= pos <=> i <= pos + 1)
      BY <1>0, <2>2, <2>4
    <3>2. w[i - 1] = IF i - 1 <= pos THEN s[i - 1] ELSE s[i]
      BY <2>1, <3>1
    <3> QED
      BY <1>2, <2>4, <3>1, <3>2
  <2>5. \A i \in 1 .. Len(v) : v[i] = u[i]
    BY <1>1, <1>5, <2>3, <2>4
  <2>6. v = u
    BY <1>5, <2>3, <2>5, SeqEqual
  <2> QED
    BY <2>6 DEF u, w
<1> QED
  BY <1>5, <1>6 DEF v, last

(* moveToFrontAt() puts the value in front of the others, in their order.  *)
(* Behind the last there is one more than there was.                       *)
LEMMA MovingToFront ==
    ASSUME NEW S, Unknown \in S, NEW a, Good(a, S), NEW pos \in Nat
    PROVE  LET o == Pod!MoveToFrontAt(a, pos)
               s == a.items
           IN  /\ Good(o.self, S) /\ o.ruins \in BOOLEAN /\ (o.ruins => ~o.self.block)
               /\ pos < Len(s) => /\ o = Plain(o.self) /\ o.self.block = a.block
                                  /\ o.self.items = <<s[pos + 1]>> \o Without(s, pos)
               /\ a.block /\ pos = Len(s) => Len(o.self.items) = Len(s) + 1
<1> DEFINE s == a.items
           o == Pod!MoveToFrontAt(a, pos)
<1>1. /\ s \in Seq(S) /\ Len(s) \in Nat /\ a.cap \in Nat /\ a.block \in BOOLEAN /\ Len(s) <= a.cap
      /\ ~a.block => s = <<>> /\ Len(s) = 0
  BY GoodMeans, EmptySeq
<1>2. CASE pos > Len(s)
  <2>1. o = FailedCall(a)
    BY <1>2 DEF Pod!MoveToFrontAt, Pod!Raised, FailedCall
  <2>2. FailedCall(a).self = a /\ FailedCall(a).ruins = FALSE
    BY DEF FailedCall
  <2>3. ~(pos < Len(s)) /\ pos # Len(s)
    BY <1>1, <1>2
  <2> HIDE DEF o, s
  <2> QED
    BY <2>1, <2>2, <2>3 DEF o, s
<1>3. CASE pos <= Len(s) /\ ~a.block
  <2>1. ~(pos > Len(s)) /\ ~(pos < Len(s))
    BY <1>1, <1>3
  <2> DEFINE r == [self |-> a, raises |-> FALSE, ruins |-> TRUE]
  <2>2. o = r
    BY <1>3, <2>1 DEF Pod!MoveToFrontAt, Pod!Ruined
  <2>3. r.self = a /\ r.ruins = TRUE
    OBVIOUS
  <2> HIDE DEF o, s, r
  <2> QED
    BY <1>3, <2>1, <2>2, <2>3 DEF o, s
<1>4. CASE pos <= Len(s) /\ a.block
  <2> DEFINE room == IF a.cap <= pos + 1 THEN Pod!ExtendCapacity(a, Len(a.items) + 1) ELSE a
             last == LastOf(s, pos)
             x == IF pos = Len(s) THEN Unknown ELSE s[pos + 1]
             v == Fronted(s, pos, x)
  <2>1. last \in Nat /\ last <= Len(s) + 1 /\ (pos = Len(s) => last = Len(s) + 1)
        /\ (a.cap > pos + 1 => last <= a.cap)
    BY <1>1, <1>4 DEF LastOf
  <2>2. x \in S
    <3>1. pos # Len(s) => pos + 1 \in 1 .. Len(s)
      BY <1>1, <1>4
    <3> QED
      BY <1>1, <3>1, ElementOfSeq
  <2>3. Good(room, S) /\ room.block = TRUE /\ room.items = s /\ last <= room.cap
    <3>1. CASE a.cap <= pos + 1
      <4>1. Len(s) + 1 \in Nat /\ Len(s) + 1 >= Len(s)
        BY <1>1
      <4> DEFINE b == Pod!ExtendCapacity(a, Len(a.items) + 1)
      <4>2. Good(b, S) /\ b.block = TRUE /\ b.items = s /\ b.cap >= Len(s) + 1
        BY <4>1, CapacityIsExtended
      <4>3. b.cap \in Nat
        BY <4>2, GoodMeans
      <4>4. room = b
        BY <3>1
      <4> HIDE DEF b, room, last, s
      <4>5. last <= b.cap
        BY <1>1, <2>1, <4>2, <4>3
      <4> QED
        BY <4>2, <4>4, <4>5
    <3>2. CASE ~(a.cap <= pos + 1)
      <4>1. room = a /\ last <= a.cap
        BY <1>1, <2>1, <3>2
      <4> HIDE DEF room, last
      <4> QED
        BY <1>1, <1>4, <4>1
    <3> QED
      BY <3>1, <3>2
  <2>4. ~(pos > Len(s)) /\ ~(0 > pos)
    BY <1>1, <1>4
  <2> DEFINE w == [i \in 1 .. last |-> IF i > 0 + 1 /\ i <= pos + 1 THEN s[i - 1]
                                       ELSE IF i <= Len(s) THEN s[i] ELSE Unknown]
  <2>5. Pod!ShiftBackward(a, 0, pos, 1).self = [room EXCEPT !.items = w]
    <3> DEFINE b == [room EXCEPT !.items = [i \in 1 .. last |->
                        IF i > 0 + 1 /\ i <= pos + 1 THEN @[i - 1]
                        ELSE IF i <= Len(@) THEN @[i] ELSE Unknown]]
    <3>1. Pod!ShiftBackward(a, 0, pos, 1) = Plain(b)
      BY <2>4 DEF Pod!ShiftBackward, Pod!Done, Plain, LastOf
    <3>2. b = [room EXCEPT !.items = w]
      <4> HIDE DEF room, last, s
      <4> QED
        BY <2>3
    <3> HIDE DEF b
    <3>3. Plain(b).self = b
      BY PlainOutcome
    <3> QED
      BY <3>1, <3>2, <3>3
  <2>6. o = Plain([[room EXCEPT !.items = w] EXCEPT !.items = [@ EXCEPT ![1] = x]])
    BY <1>4, <2>4, <2>5 DEF Pod!MoveToFrontAt, Pod!Done, Plain
  <2>7. [[room EXCEPT !.items = w] EXCEPT !.items = [@ EXCEPT ![1] = x]] = [room EXCEPT !.items = v]
    <3>1. room \in ArrayRecord(S)
      BY <2>3 DEF Good
    <3>2. v = [w EXCEPT ![1] = x]
      BY DEF Fronted
    <3> HIDE DEF room, w, v, x
    <3> DEFINE b == [room EXCEPT !.items = w]
    <3>3. b.items = w /\ b = [block |-> room.block, cap |-> room.cap, items |-> w]
      BY <3>1 DEF ArrayRecord
    <3>4. [room EXCEPT !.items = v] = [block |-> room.block, cap |-> room.cap, items |-> v]
      BY <3>1 DEF ArrayRecord
    <3> HIDE DEF b
    <3>5. [b EXCEPT !.items = [@ EXCEPT ![1] = x]] = [b EXCEPT !.items = v]
      BY <3>2, <3>3
    <3>6. [b EXCEPT !.items = v] = [block |-> room.block, cap |-> room.cap, items |-> v]
      BY <3>3
    <3> QED
      BY <3>4, <3>5, <3>6 DEF b
  <2>8. /\ v \in Seq(S) /\ Len(v) = last
        /\ pos < Len(s) => v = <<x>> \o Without(s, pos)
    <3>1. s \in Seq(S) /\ pos <= Len(s) /\ x \in S
      BY <1>1, <1>4, <2>2
    <3>2. ASSUME NEW q \in Seq(S), NEW y \in S, pos <= Len(q)
          PROVE  /\ Fronted(q, pos, y) \in Seq(S) /\ Len(Fronted(q, pos, y)) = LastOf(q, pos)
                 /\ pos < Len(q) => Fronted(q, pos, y) = <<y>> \o Without(q, pos)
      BY <3>2, FrontedMeans
    <3> HIDE DEF x, s
    <3> QED
      BY <3>1, <3>2
  <2> HIDE DEF v
  <2>9. Good([room EXCEPT !.items = v], S) /\ [room EXCEPT !.items = v].items = v
        /\ [room EXCEPT !.items = v].block = room.block
    BY <2>3, <2>8, WithItems
  <2> DEFINE b == [room EXCEPT !.items = v]
  <2>10. o = Plain(b)
    BY <2>6, <2>7
  <2> HIDE DEF b, o
  <2>11. Plain(b).self = b /\ Plain(b).ruins = FALSE
    BY DEF Plain
  <2>12. pos < Len(s) => x = s[pos + 1] /\ pos # Len(s)
    BY <1>1, <1>4
  <2> HIDE DEF x, last, room
  <2>13. Good(b, S) /\ b.items = v /\ b.block = a.block
    BY <1>4, <2>3, <2>9 DEF b
  <2>14. o = Plain(o.self) /\ o.self = b /\ o.ruins = FALSE
    BY <2>10, <2>11
  <2>15. pos < Len(s) => o.self.items = <<s[pos + 1]>> \o Without(s, pos)
    BY <2>8, <2>12, <2>13, <2>14
  <2>16. pos = Len(s) => Len(o.self.items) = Len(s) + 1
    BY <2>1, <2>8, <2>13, <2>14
  <2> HIDE DEF s
  <2> QED
    BY <2>13, <2>14, <2>15, <2>16 DEF o, s
<1> QED
  BY <1>1, <1>2, <1>3, <1>4

\* prepend() shifts from in front of the first value, and throws.
LEMMA Prepending ==
    ASSUME NEW S, NEW a, Good(a, S), NEW x
    PROVE  LET o == Pod!Prepend(a, x)
           IN  Good(o.self, S) /\ o.self.items = a.items /\ o.raises = TRUE /\ o.ruins = FALSE
<1> DEFINE room == IF a.cap <= Len(a.items) THEN Pod!ExtendCapacity(a, Len(a.items) + 1) ELSE a
           o == Pod!Prepend(a, x)
<1>1. Good(room, S) /\ room.items = a.items
  <2>1. Len(a.items) + 1 \in Nat /\ Len(a.items) + 1 >= Len(a.items)
    BY GoodMeans
  <2> QED
    BY <2>1, CapacityIsExtended
<1>2. Pod!ShiftForward(room, 0, Len(room.items), 1) = FailedCall(room)
  <2>1. 1 > 0
    OBVIOUS
  <2> HIDE DEF room
  <2> QED
    BY <2>1 DEF Pod!ShiftForward, Pod!Raised, FailedCall
<1>3. FailedCall(room).self = room /\ FailedCall(room).raises = TRUE /\ FailedCall(room).ruins = FALSE
  BY DEF FailedCall
<1>4. o = IF Pod!ShiftForward(room, 0, Len(room.items), 1).raises THEN Pod!Raised(room)
          ELSE Pod!Done([Pod!ShiftForward(room, 0, Len(room.items), 1).self EXCEPT
                            !.items = Append([@ EXCEPT ![1] = x], Unknown)])
  BY DEF Pod!Prepend
<1> HIDE DEF room, o
<1>5. o = FailedCall(room)
  BY <1>2, <1>3, <1>4 DEF Pod!Raised, FailedCall
<1> QED
  BY <1>1, <1>3, <1>5 DEF o

\* A set of numbers has a least one.
Below == {p \in Nat \X Nat : p[1] < p[2]}

LEMMA BelowIsWellFounded == IsWellFoundedOn(Below, Nat)
BY NatLessThanWellFounded DEF OpToRel, Below

LEMMA LeastNumber ==
    ASSUME NEW N, N \subseteq Nat, N # {}
    PROVE  \E i \in N : \A j \in N : i <= j
<1>1. PICK x : x \in N
  OBVIOUS
<1>2. PICK i \in N : \A j \in N : ~(<<j, i>> \in Below)
  BY <1>1, BelowIsWellFounded, WFMin
<1>3. \A j \in N : ~(j < i)
  <2> SUFFICES ASSUME NEW j \in N, j < i PROVE FALSE
    OBVIOUS
  <2>1. <<j, i>> \in Nat \X Nat /\ <<j, i>>[1] = j /\ <<j, i>>[2] = i
    OBVIOUS
  <2>2. <<j, i>> \in Below
    BY <2>1 DEF Below
  <2> QED
    BY <1>2, <2>2
<1>4. \A j \in N : i \in Nat /\ j \in Nat
  OBVIOUS
<1> QED
  BY <1>3, <1>4

\* index() is the first position that holds the value.
LEMMA Indexing ==
    ASSUME NEW S, NEW a, Good(a, S), NEW x
    PROVE  LET index == Pod!Index(a, x)
               s == a.items
           IN  /\ index.raises = (x \notin ToSet(s))
               /\ ~index.raises => /\ index.self + 1 \in 1 .. Len(s) /\ s[index.self + 1] = x
                                   /\ index.self \in Nat
                                   /\ \A i \in 1 .. Len(s) : s[i] = x => index.self + 1 <= i
<1> DEFINE s == a.items
           hits == {i \in DOMAIN s : s[i] = x}
           index == Pod!Index(a, x)
<1>1. s \in Seq(S) /\ DOMAIN s = 1 .. Len(s) /\ Len(s) \in Nat
  BY GoodMeans
<1> HIDE DEF s
<1>2. hits = {} <=> x \notin ToSet(s)
  BY <1>1, ElementsOf
<1>3. CASE hits = {}
  <2>1. index = FailedCall(a) /\ FailedCall(a).raises = TRUE
    BY <1>3 DEF Pod!Index, Pod!Raised, FailedCall, s
  <2> QED
    BY <1>2, <1>3, <2>1 DEF s
<1>4. CASE hits # {}
  <2> DEFINE i == CHOOSE k \in hits : \A j \in hits : k <= j
  <2>1. index = Plain(i - 1)
    BY <1>4 DEF Pod!Index, Pod!Done, Plain, s
  <2>2. Plain(i - 1).self = i - 1 /\ Plain(i - 1).raises = FALSE
    BY DEF Plain
  <2>3. hits \subseteq Nat
    BY <1>1
  <2>4. i \in hits /\ \A j \in hits : i <= j
    <3> HIDE DEF hits
    <3> QED
      BY <1>4, <2>3, LeastNumber
  <2> HIDE DEF i, index
  <2>5. i \in 1 .. Len(s) /\ s[i] = x /\ \A j \in 1 .. Len(s) : s[j] = x => i <= j
    BY <1>1, <2>4
  <2>6. i - 1 \in Nat /\ (i - 1) + 1 = i
    BY <1>1, <2>5
  <2>7. index.raises = FALSE /\ index.self \in Nat /\ index.self + 1 = i
    BY <2>1, <2>2, <2>6
  <2> HIDE DEF hits
  <2> QED
    BY <1>2, <1>4, <2>5, <2>7 DEF index, s
<1> QED
  BY <1>3, <1>4

\* The calls of a PodArray move values, and touch no object.
LEMMA PodCallsKeep ==
    ASSUME ArraysIInv, NEW i \in Which,
           \/ \E x \in Values : AddPod(i, x) \/ PrependPod(i, x)
           \/ \E k \in Nat : MovePodToFrontAt(i, k)
           \/ \E from, until \in Nat : ErasePod(i, from, until)
           \/ PopPod(i) \/ ClearPod(i)
           \/ \E j \in Which : CopyPod(j, i)
    PROVE  ArraysIInv'
<1> DEFINE S == Values \cup {Unknown}
           Kept(o) == /\ Good(o.self, S) /\ o.ruins \in BOOLEAN /\ (o.ruins => ~o.self.block)
                      /\ PodCall(i, o)
<1>1. Is({"PodArray"})
  BY DEF AddPod, PrependPod, MovePodToFrontAt, ErasePod, PopPod, ClearPod, CopyPod, PodCall
<1>2. kind = "PodArray" /\ kind' = kind /\ Things(kind) = S /\ Unknown \in S /\ \A x \in Values : x \in S
  BY <1>1 DEF Is, Things
<1>3. \A j \in Which : Good(arr[j], S)
  BY <1>2, HoldingArrays
<1> HIDE DEF S
<1>4. Good(arr[i], S)
  BY <1>3
<1>5. ASSUME NEW b, Good(b, S), PodCall(i, Plain(b)) PROVE \E o : Kept(o)
  <2>1. Plain(b).self = b /\ Plain(b).ruins = FALSE
    BY PlainOutcome
  <2>2. Kept(Plain(b))
    BY <1>5, <2>1
  <2> HIDE DEF Kept
  <2> QED
    BY <2>2
<1>6. ASSUME NEW x \in Values, AddPod(i, x) PROVE \E o : Kept(o)
  <2>1. x \in S
    BY <1>2
  <2>2. Good(Pod!Add(arr[i], x), S)
    BY <1>4, <2>1, Adding
  <2> HIDE DEF Kept
  <2> QED
    BY <1>5, <1>6, <2>2 DEF AddPod
<1>7. ASSUME NEW x \in Values, PrependPod(i, x) PROVE \E o : Kept(o)
  <2>1. Kept(Pod!Prepend(arr[i], x))
    <3>1. Good(Pod!Prepend(arr[i], x).self, S) /\ Pod!Prepend(arr[i], x).ruins = FALSE
      <4>1. ASSUME NEW a, Good(a, S)
            PROVE  Good(Pod!Prepend(a, x).self, S) /\ Pod!Prepend(a, x).ruins = FALSE
        BY <4>1, Prepending
      <4> QED
        BY <1>4, <4>1
    <3>2. PodCall(i, Pod!Prepend(arr[i], x))
      BY <1>7 DEF PrependPod
    <3> QED
      BY <3>1, <3>2
  <2> HIDE DEF Kept
  <2> QED
    BY <2>1
<1>8. ASSUME NEW k \in Nat, MovePodToFrontAt(i, k) PROVE \E o : Kept(o)
  <2>1. Kept(Pod!MoveToFrontAt(arr[i], k))
    BY <1>2, <1>4, <1>8, MovingToFront DEF MovePodToFrontAt
  <2> HIDE DEF Kept
  <2> QED
    BY <2>1
<1>9. ASSUME NEW from \in Nat, NEW until \in Nat, ErasePod(i, from, until) PROVE \E o : Kept(o)
  <2>1. Kept(Pod!Erase(arr[i], from, until))
    BY <1>4, <1>9, Erasing DEF ErasePod
  <2> HIDE DEF Kept
  <2> QED
    BY <2>1
<1>10. ASSUME PopPod(i) PROVE \E o : Kept(o)
  <2>1. Kept(Pod!Pop(arr[i]))
    BY <1>4, <1>10, Popping DEF PopPod
  <2> HIDE DEF Kept
  <2> QED
    BY <2>1
<1>11. ASSUME ClearPod(i) PROVE \E o : Kept(o)
  <2>1. Good(Pod!Clear(arr[i]), S)
    BY <1>4, Clearing
  <2> HIDE DEF Kept
  <2> QED
    BY <1>5, <1>11, <2>1 DEF ClearPod
<1>12. ASSUME NEW j \in Which, CopyPod(j, i) PROVE \E o : Kept(o)
  <2>1. arr[j].items \in Seq(S)
    BY <1>3, GoodMeans
  <2>2. Good(Pod!Copy(arr[j]), S)
    BY <2>1, Copying
  <2> HIDE DEF Kept
  <2> QED
    BY <1>5, <1>12, <2>2 DEF CopyPod
<1>13. PICK o : Kept(o)
  <2> HIDE DEF Kept
  <2> QED
    BY <1>6, <1>7, <1>8, <1>9, <1>10, <1>11, <1>12
<1>14. Becomes(i, o) /\ alive' = alive /\ held' = held /\ slips' = slips
  BY <1>13 DEF PodCall
<1> QED
  BY <1>2, <1>13, <1>14, OtherCall

-----------------------------------------------------------------------------
(* Programs with a CArray: it owns one block, or none.                     *)

LEMMA OneItem ==
    ASSUME NEW x \in Objects
    PROVE  /\ <<x>> \in Seq(Objects) /\ Len(<<x>>) = 1 /\ Distinct(<<x>>) /\ ToSet(<<x>>) = {x}
<1>1. <<x>> \in Seq(Objects) /\ Len(<<x>>) = 1 /\ <<x>>[1] = x
  OBVIOUS
<1>2. \A i \in 1 .. 1 : i = 1
  OBVIOUS
<1>3. Distinct(<<x>>)
  BY <1>1, <1>2 DEF Distinct
<1>4. ToSet(<<x>>) = {x}
  <2> DEFINE s == <<x>>
  <2>1. s \in Seq(Objects) /\ Len(s) = 1 /\ s[1] = x
    BY <1>1
  <2> HIDE DEF s
  <2>2. \A y : y \in ToSet(s) <=> \E i \in 1 .. 1 : s[i] = y
    BY <2>1, ElementsOf
  <2>3. \A y : y \in ToSet(s) <=> y = x
    BY <1>2, <2>1, <2>2
  <2> QED
    BY <2>3 DEF s
<1> QED
  BY <1>1, <1>3, <1>4

LEMMA BlockStep ==
    ASSUME ArraysIInv, kind = "CArray", kind' = kind, slips \subseteq slips', held' = held,
           arr' \in [Which -> BlockRecord], \A i \in Which : Len(arr'[i].items) <= MaxLen,
           alive' \subseteq Objects, ruined' \in BOOLEAN, ruined' => "zeroed" \in slips',
           "zeroed" \notin slips' => Owners'
    PROVE  ArraysIInv'
<1>1. TypesOK'
  BY DEF TypesOK, Kinds, RecordOf
<1>2. AllFit' /\ NotBegun' /\ Referred' /\ Holes'
  BY DEF AllFit, NotBegun, Referred, Holes
<1>3. HeldExist'
  BY DEF HeldExist, ArraysIInv
<1>4. Owned'
  BY DEF Owned
<1> QED
  BY <1>1, <1>2, <1>3, <1>4 DEF ArraysIInv

LEMMA HoldingBlocks ==
    ASSUME ArraysIInv, Is({"CArray"})
    PROVE  /\ kind = "CArray" /\ kind' = kind /\ held = {} /\ alive \subseteq Objects /\ ~ruined
           /\ arr \in [Which -> BlockRecord]
           /\ \A i \in Which : arr[i].items \in Seq(Objects) /\ Len(arr[i].items) <= MaxLen
                               /\ ItemsOf(i) = ToSet(arr[i].items)
           /\ "zeroed" \notin slips => Owners
<1>1. kind = "CArray" /\ kind' = kind /\ ~ruined
  BY DEF Is
<1>2. held = {} /\ ("zeroed" \notin slips => Owners)
  BY <1>1 DEF ArraysIInv, HeldExist, Owned
<1>3. alive \subseteq Objects /\ arr \in [Which -> BlockRecord]
  BY <1>1 DEF ArraysIInv, TypesOK, RecordOf
<1>4. \A i \in Which : arr[i].items \in Seq(Objects)
  <2> TAKE i \in Which
  <2>1. arr[i] \in BlockRecord
    BY <1>3
  <2> QED
    BY <2>1 DEF BlockRecord
<1> QED
  BY <1>1, <1>2, <1>3, <1>4 DEF ArraysIInv, AllFit, ItemsOf

\* A call on one CArray
LEMMA BlockCall ==
    ASSUME ArraysIInv, Is({"CArray"}), NEW i \in Which, NEW o, o.self \in BlockRecord, Becomes(i, o),
           o.ruins \in BOOLEAN, o.ruins => "zeroed" \in slips', slips \subseteq slips', held' = held,
           alive' \subseteq Objects, "zeroed" \notin slips' => LeavesOwners(i, o.self.items)
    PROVE  ArraysIInv'
<1> DEFINE b == o.self
<1>1. /\ kind = "CArray" /\ kind' = kind /\ arr \in [Which -> BlockRecord]
      /\ \A j \in Which : Len(arr[j].items) <= MaxLen
      /\ "zeroed" \notin slips => Owners
  BY HoldingBlocks
<1>2. b \in BlockRecord /\ arr' = [arr EXCEPT ![i] = b] /\ ruined' = o.ruins /\ Len(b.items) <= MaxLen
  BY DEF Becomes
<1>3. "zeroed" \notin slips' => LeavesOwners(i, b.items)
  OBVIOUS
<1> HIDE DEF b
<1>4. /\ arr' \in [Which -> BlockRecord] /\ arr'[i] = b
      /\ \A j \in Which : j # i => arr'[j] = arr[j] /\ ItemsOf(j)' = ItemsOf(j)
  BY <1>1, <1>2 DEF ItemsOf
<1>5. ItemsOf(i)' = ToSet(b.items)
  BY <1>4 DEF ItemsOf
<1>6. \A j \in Which : Len(arr'[j].items) <= MaxLen
  BY <1>1, <1>2, <1>4
<1>7. "zeroed" \notin slips' => Owners'
  BY <1>1, <1>3, <1>4, <1>5, OwnersAfter
<1> QED
  BY <1>1, <1>2, <1>4, <1>6, <1>7, BlockStep

LEMMA NewBlockKeeps ==
    ASSUME ArraysIInv, NEW i \in Which, NEW count \in 0 .. 1, NEW x \in Objects, NewBlock(i, count, x)
    PROVE  ArraysIInv'
<1> DEFINE b == C!New(count, x)
<1>1. /\ Is({"CArray"}) /\ arr[i] = C!Empty /\ x \notin alive /\ Becomes(i, Plain(b))
      /\ alive' = alive \cup ToSet(b.items) /\ held' = held /\ slips' = slips
  BY DEF NewBlock
<1>2. b \in BlockRecord /\ Distinct(b.items) /\ ToSet(b.items) \subseteq {x}
  <2>1. CASE count = 0
    <3>1. b = C!Empty
      BY <2>1 DEF C!New
    <3> HIDE DEF b
    <3> QED
      BY <3>1, EmptyIsGood, EmptyIsDistinct
  <2>2. CASE count # 0
    <3>1. b = [items |-> <<x>>, cap |-> count]
      BY <2>2 DEF C!New
    <3> DEFINE s == <<x>>
    <3>2. s \in Seq(Objects) /\ Distinct(s) /\ ToSet(s) = {x}
      BY OneItem
    <3> HIDE DEF b, s
    <3>3. b = [items |-> s, cap |-> count]
      BY <3>1 DEF s
    <3>4. b.items = s /\ b \in BlockRecord
      BY <3>2, <3>3 DEF BlockRecord
    <3> QED
      BY <3>2, <3>4
  <2> QED
    BY <2>1, <2>2
<1> HIDE DEF b
<1>3. Plain(b).self = b /\ Plain(b).ruins = FALSE
  BY PlainOutcome
<1>4. alive \subseteq Objects /\ held = {} /\ ("zeroed" \notin slips => Owners)
  BY <1>1, HoldingBlocks
<1>5. ItemsOf(i) = {}
  BY <1>1, EmptyIsGood, EmptyIsDistinct DEF ItemsOf
<1>6. ASSUME Owners PROVE LeavesOwners(i, b.items)
  <2>1. /\ \A j \in Which \ {i} : ItemsOf(j) \cap held = {} /\ ItemsOf(j) \subseteq alive
        /\ "shrunk" \notin slips => \A o \in alive : o \in held \/ \E j \in Which \ {i} : o \in ItemsOf(j)
    BY <1>5, <1>6, OwnersMeans
  <2>2. ToSet(b.items) \cap held' = {} /\ ToSet(b.items) \subseteq alive'
    BY <1>1, <1>4
  <2>3. \A j \in Which \ {i} : /\ ToSet(b.items) \cap ItemsOf(j) = {}
                               /\ ItemsOf(j) \cap held' = {} /\ ItemsOf(j) \subseteq alive'
    BY <1>1, <1>2, <2>1
  <2>4. "shrunk" \notin slips' =>
           \A o \in alive' : o \in held' \cup ToSet(b.items) \/ \E j \in Which \ {i} : o \in ItemsOf(j)
    BY <1>1, <2>1
  <2> QED
    BY <1>2, <2>2, <2>3, <2>4 DEF LeavesOwners
<1>7. alive' \subseteq Objects
  BY <1>1, <1>2, <1>4
<1> QED
  BY <1>1, <1>2, <1>3, <1>4, <1>6, <1>7, BlockCall

LEMMA ResizeBlockKeeps ==
    ASSUME ArraysIInv, NEW i \in Which, NEW count \in 0 .. 1, NEW x \in Objects, ResizeBlock(i, count, x)
    PROVE  ArraysIInv'
<1> DEFINE o == C!Resize(arr[i], count, x)
           frees == C!FreesBlock(arr[i], count)
<1>1. /\ Is({"CArray"}) /\ x \notin alive \ ItemsOf(i) /\ ItemsOf(i) \subseteq alive /\ Becomes(i, o)
      /\ alive' = (alive \ ItemsOf(i)) \cup (IF frees THEN {} ELSE {x})
      /\ slips' = slips \cup (IF frees THEN {"zeroed"} ELSE {})
      /\ held' = held
  BY DEF ResizeBlock
<1>2. /\ alive \subseteq Objects /\ held = {} /\ arr[i] \in BlockRecord
      /\ "zeroed" \notin slips => Owners
  BY <1>1, HoldingBlocks
<1>3. slips \subseteq slips' /\ alive' \subseteq Objects
  BY <1>1, <1>2
<1>4. CASE frees
  <2>1. o = FailedCall(arr[i])
    BY <1>4 DEF C!FreesBlock, C!Resize, C!Raised, FailedCall
  <2>2. FailedCall(arr[i]).self = arr[i] /\ FailedCall(arr[i]).ruins = FALSE
    BY DEF FailedCall
  <2>3. "zeroed" \in slips'
    BY <1>1, <1>4
  <2> HIDE DEF o, frees
  <2>4. o.self \in BlockRecord /\ o.ruins = FALSE
    BY <1>2, <2>1, <2>2
  <2> QED
    BY <1>1, <1>3, <2>3, <2>4, BlockCall
<1>5. CASE ~frees
  <2> DEFINE s == <<x>>
             b == [items |-> s, cap |-> count]
  <2>1. o = Plain(b)
    BY <1>5 DEF C!FreesBlock, C!Resize, C!Done, Plain
  <2>2. s \in Seq(Objects) /\ Distinct(s) /\ ToSet(s) = {x}
    BY OneItem
  <2> HIDE DEF s
  <2>3. b \in BlockRecord /\ b.items = s
    BY <2>2 DEF BlockRecord
  <2> HIDE DEF b, o
  <2>4. Plain(b).self = b /\ Plain(b).ruins = FALSE
    BY PlainOutcome
  <2>5. alive' = (alive \ ItemsOf(i)) \cup {x} /\ slips' = slips
    BY <1>1, <1>5
  <2>6. ASSUME Owners PROVE LeavesOwners(i, s)
    <3>1. /\ \A j \in Which \ {i} : /\ ItemsOf(i) \cap ItemsOf(j) = {}
                                    /\ ItemsOf(j) \subseteq alive
          /\ "shrunk" \notin slips =>
                \A y \in alive : y \in held \cup ItemsOf(i) \/ \E j \in Which \ {i} : y \in ItemsOf(j)
      BY <2>6, OwnersMeans
    <3>2. \A j \in Which \ {i} : /\ ToSet(s) \cap ItemsOf(j) = {}
                                 /\ ItemsOf(j) \cap held' = {} /\ ItemsOf(j) \subseteq alive'
      BY <1>1, <1>2, <2>2, <2>5, <3>1
    <3>3. "shrunk" \notin slips' =>
             \A y \in alive' : y \in held' \cup ToSet(s) \/ \E j \in Which \ {i} : y \in ItemsOf(j)
      BY <1>2, <2>2, <2>5, <3>1
    <3>4. ToSet(s) \cap held' = {} /\ ToSet(s) \subseteq alive'
      BY <1>1, <1>2, <2>2, <2>5
    <3> QED
      BY <2>2, <3>2, <3>3, <3>4 DEF LeavesOwners
  <2>7. o.self = b /\ o.ruins = FALSE
    BY <2>1, <2>4
  <2> QED
    BY <1>1, <1>2, <1>3, <2>3, <2>5, <2>6, <2>7, BlockCall
<1> QED
  BY <1>4, <1>5

LEMMA DestroyBlockKeeps ==
    ASSUME ArraysIInv, NEW i \in Which, DestroyBlock(i)
    PROVE  ArraysIInv'
<1> DEFINE o == [self |-> C!Empty, raises |-> FALSE, ruins |-> ~(ItemsOf(i) \subseteq alive)]
<1>1. Is({"CArray"}) /\ Becomes(i, o) /\ alive' = alive \ ItemsOf(i) /\ held' = held /\ slips' = slips
  BY DEF DestroyBlock
<1>2. o.self = C!Empty /\ (o.ruins <=> ~(ItemsOf(i) \subseteq alive)) /\ o.ruins \in BOOLEAN
  OBVIOUS
<1> HIDE DEF o
<1>3. C!Empty \in BlockRecord /\ C!Empty.items = <<>>
  BY EmptyIsGood
<1>4. alive \subseteq Objects /\ ("zeroed" \notin slips => Owners)
  BY <1>1, HoldingBlocks
<1>5. Distinct(<<>>) /\ ToSet(<<>>) \subseteq ItemsOf(i) /\ ItemsOf(i) = ItemsOf(i) \ ToSet(<<>>)
  BY EmptyIsDistinct
<1>6. "zeroed" \notin slips => LeavesOwners(i, <<>>)
  BY <1>1, <1>4, <1>5, Giving
<1>7. o.ruins => "zeroed" \in slips'
  BY <1>1, <1>2, <1>4, OwnersMeans
<1>8. slips \subseteq slips' /\ alive' \subseteq Objects
  BY <1>1, <1>4
<1>9. o.self \in BlockRecord /\ ("zeroed" \notin slips' => LeavesOwners(i, o.self.items))
  BY <1>1, <1>2, <1>3, <1>6
<1> QED
  BY <1>1, <1>2, <1>7, <1>8, <1>9, BlockCall

LEMMA MoveBlockKeeps ==
    ASSUME ArraysIInv, NEW i \in Which, NEW j \in Which, MoveBlock(i, j)
    PROVE  ArraysIInv'
<1>1. /\ Is({"CArray"}) /\ i # j
      /\ arr' = [arr EXCEPT ![j] = arr[i], ![i] = C!Empty]
      /\ alive' = alive \ ItemsOf(j) /\ ruined' = ~(ItemsOf(j) \subseteq alive)
      /\ held' = held /\ slips' = slips
  BY DEF MoveBlock, C!MovedFrom
<1>2. /\ kind = "CArray" /\ kind' = kind /\ held = {} /\ alive \subseteq Objects
      /\ arr \in [Which -> BlockRecord] /\ Len(arr[i].items) <= MaxLen
      /\ "zeroed" \notin slips => Owners
      /\ \A k \in Which : k = i \/ k = j
  BY <1>1, HoldingBlocks DEF Which
<1>3. C!Empty \in BlockRecord /\ C!Empty.items = <<>>
  BY EmptyIsGood
<1>4. arr'[j] = arr[i] /\ arr'[i] = C!Empty /\ arr' \in [Which -> BlockRecord]
  BY <1>1, <1>2, <1>3
<1>5. \A k \in Which : Len(arr'[k].items) <= MaxLen
  BY <1>2, <1>3, <1>4, EmptyIsDistinct, ArraysAssumption
<1>6. ItemsOf(j)' = ItemsOf(i) /\ ItemsOf(i)' = {}
  BY <1>3, <1>4, EmptyIsDistinct DEF ItemsOf
<1>7. ASSUME Owners PROVE Owners'
  <2>1. /\ Distinct(arr[i].items) /\ ItemsOf(i) \cap ItemsOf(j) = {} /\ ItemsOf(i) \subseteq alive
    BY <1>1, <1>7, OwnersMeans
  <2>2. "shrunk" \notin slips => \A o \in alive : o \in held \cup ItemsOf(i) \cup ItemsOf(j)
    BY <1>2, <1>7 DEF Owners
  <2>3. \A k \in Which : Distinct(arr'[k].items)
    BY <1>2, <1>3, <1>4, <2>1, EmptyIsDistinct
  <2>4. \A k, l \in Which : k # l => ItemsOf(k)' \cap ItemsOf(l)' = {}
    BY <1>2, <1>6
  <2>5. \A k \in Which : ItemsOf(k)' \cap held' = {} /\ ItemsOf(k)' \subseteq alive'
    BY <1>1, <1>2, <1>6, <2>1
  <2>6. "shrunk" \notin slips' => \A o \in alive' : o \in held' \/ \E k \in Which : o \in ItemsOf(k)'
    BY <1>1, <1>6, <2>2
  <2> QED
    BY <2>3, <2>4, <2>5, <2>6 DEF Owners
<1>8. ruined' \in BOOLEAN /\ (ruined' => "zeroed" \in slips')
  BY <1>1, <1>2, OwnersMeans
<1> QED
  BY <1>1, <1>2, <1>4, <1>5, <1>7, <1>8, BlockStep

-----------------------------------------------------------------------------
(* The invariant.                                                          *)

LEMMA BeginKeeps ==
    ASSUME ArraysIInv, NEW k \in Kinds, Begin(k)
    PROVE  ArraysIInv'
<1>1. /\ kind = "none" /\ kind' = k /\ arr' = [i \in Which |-> EmptyOf(k)]
      /\ alive' = alive /\ held' = held /\ slips' = slips /\ ruined' = ruined
  BY DEF Begin
<1>2. alive = {} /\ ~ruined /\ held = {} /\ ruined \in BOOLEAN /\ k # "none"
  BY <1>1 DEF ArraysIInv, NotBegun, HeldExist, TypesOK, Kinds
<1>3. EmptyOf(k) \in RecordOf(k) /\ EmptyOf(k).items = <<>> /\ (k # "CArray" => Fits(EmptyOf(k)))
  BY EmptyIsGood DEF EmptyOf, RecordOf, Good
<1>4. \A i \in Which : arr'[i] = EmptyOf(k)
  BY <1>1
<1>5. \A i \in Which : ItemsOf(i)' = {} /\ Distinct(arr'[i].items) /\ Len(arr'[i].items) <= MaxLen
  BY <1>3, <1>4, EmptyIsDistinct, ArraysAssumption DEF ItemsOf
<1>6. TypesOK'
  BY <1>1, <1>2, <1>3 DEF TypesOK
<1>7. AllFit'
  BY <1>1, <1>3, <1>4, <1>5 DEF AllFit
<1>8. Owners'
  BY <1>1, <1>2, <1>5 DEF Owners
<1>9. NotBegun' /\ HeldExist' /\ Owned' /\ Referred' /\ Holes'
  BY <1>1, <1>2, <1>5, <1>8 DEF NotBegun, HeldExist, Owned, Referred, Holes
<1> QED
  BY <1>6, <1>7, <1>9 DEF ArraysIInv

LEMMA ArraysStart ==
    ASSUME ArraysInit
    PROVE  ArraysIInv
<1>1. /\ kind = "none" /\ arr = [i \in Which |-> Own!Empty]
      /\ alive = {} /\ held = {} /\ slips = {} /\ ruined = FALSE
  BY DEF ArraysInit
<1>2. Own!Empty \in RecordOf("none") /\ Own!Empty.items = <<>> /\ Fits(Own!Empty)
  BY EmptyIsGood DEF RecordOf, Good
<1>3. \A i \in Which : arr[i] = Own!Empty /\ Len(arr[i].items) <= MaxLen
  BY <1>1, <1>2, EmptyIsDistinct, ArraysAssumption
<1>4. TypesOK
  BY <1>1, <1>2 DEF TypesOK
<1>5. AllFit
  BY <1>2, <1>3 DEF AllFit
<1>6. NotBegun /\ HeldExist /\ Owned /\ Referred /\ Holes
  BY <1>1 DEF NotBegun, HeldExist, Owned, Referred, Holes
<1> QED
  BY <1>4, <1>5, <1>6 DEF ArraysIInv

LEMMA ArraysStep ==
    ASSUME ArraysIInv, [ArraysNext]_arrayVars
    PROVE  ArraysIInv'
<1>0. MaxLen \in Nat /\ \A k \in 0 .. MaxLen : k \in Nat
  BY ArraysAssumption
<1>1. ASSUME NEW k \in Kinds, Begin(k) PROVE ArraysIInv'
  BY <1>1, BeginKeeps
<1>2. ASSUME NEW o \in Objects, NewObject(o) \/ DeleteHeld(o) PROVE ArraysIInv'
  BY <1>2, NewObjectKeeps, DeleteHeldKeeps
<1>3. ASSUME NEW i \in Which, NEW o \in Objects, AddHeld(i, o) \/ AddNew(i, o) \/ AddRef(i, o)
      PROVE  ArraysIInv'
  BY <1>3, AddingKeeps, RefCallsKeep
<1>4. ASSUME NEW i \in Which, NEW j \in Which,
             \/ Join(i, j) \/ CopyOwn(i, j) \/ Move(i, j) \/ CopyRef(i, j)
             \/ CopyPod(i, j) \/ MoveBlock(i, j)
      PROVE  ArraysIInv'
  BY <1>4, JoinKeeps, CopyOwnKeeps, MoveKeeps, RefCallsKeep, PodCallsKeep, MoveBlockKeeps
<1>5. ASSUME NEW i \in Which, NEW k \in 0 .. MaxLen,
             RemoveOwnAt(i, k) \/ RemoveRefAt(i, k) \/ MovePodToFrontAt(i, k)
      PROVE  ArraysIInv'
  BY <1>0, <1>5, RemoveOwnAtKeeps, RefCallsKeep, PodCallsKeep
<1>6. ASSUME NEW i \in Which,
             \/ PopOwn(i) \/ PopRef(i) \/ PopPod(i) \/ ClearOwn(i) \/ ClearRef(i)
             \/ ClearPod(i) \/ Destroy(i) \/ DestroyBlock(i)
      PROVE  ArraysIInv'
  BY <1>6, PopOwnKeeps, PopRefKeeps, PodCallsKeep, ClearOwnKeeps, RefCallsKeep, DestroyKeeps,
     DestroyBlockKeeps
<1>7. ASSUME NEW i \in Which, NEW capacity \in Capacities, SetArrayCapacity(i, capacity) PROVE ArraysIInv'
  BY <1>7, SetArrayCapacityKeeps
<1>8. ASSUME NEW i \in Which, NEW x \in Values, AddPod(i, x) \/ PrependPod(i, x) PROVE ArraysIInv'
  BY <1>8, PodCallsKeep
<1>9. ASSUME NEW i \in Which, NEW from \in 0 .. MaxLen, NEW until \in 0 .. MaxLen,
             ErasePod(i, from, until)
      PROVE  ArraysIInv'
  BY <1>0, <1>9, PodCallsKeep
<1>10. ASSUME NEW i \in Which, NEW count \in 0 .. 1, NEW x \in Objects,
              NewBlock(i, count, x) \/ ResizeBlock(i, count, x)
       PROVE  ArraysIInv'
  BY <1>10, NewBlockKeeps, ResizeBlockKeeps
<1>11. ASSUME UNCHANGED arrayVars PROVE ArraysIInv'
  BY <1>11 DEF arrayVars, ArraysIInv, TypesOK, AllFit, NotBegun, HeldExist, Owned, Owners, Referred, Holes, ItemsOf
<1> QED
  BY <1>1, <1>2, <1>3, <1>4, <1>5, <1>6, <1>7, <1>8, <1>9, <1>10, <1>11 DEF ArraysNext

(* The invariant holds of every program with two arrays, whatever their    *)
(* class and however many calls it makes.                                  *)
THEOREM ArraysInvariant == ArraysSpec => []ArraysIInv
<1>1. ArraysInit => ArraysIInv
  BY ArraysStart
<1>2. ArraysIInv /\ [ArraysNext]_arrayVars => ArraysIInv'
  BY ArraysStep
<1> QED
  BY <1>1, <1>2, PTL DEF ArraysSpec

LEMMA ArraysFitIn == ArraysIInv => ArraysFit
BY DEF ArraysIInv, AllFit, Fits, ArraysFit

(* What is counted fits the block, and without a block nothing is counted  *)
(* (the invariants of the class comments).                                 *)
THEOREM WhatIsCountedFits == ArraysSpec => []ArraysFit
<1> QED
  BY ArraysFitIn, ArraysInvariant, PTL

-----------------------------------------------------------------------------
(* Ownership, slot by slot.                                                *)

Slots == {s \in Which \X (1 .. MaxLen) : s[2] \in DOMAIN arr[s[1]].items}

ObjectIn(s) == arr[s[1]].items[s[2]]

LEMMA SlotsMean ==
    ASSUME TypesOK, AllFit
    PROVE  /\ \A s \in Slots : /\ s[1] \in Which /\ s[2] \in 1 .. Len(arr[s[1]].items)
                               /\ s = <<s[1], s[2]>> /\ ObjectIn(s) \in ItemsOf(s[1])
           /\ \A i \in Which : \A x \in ItemsOf(i) : \E s \in Slots : ObjectIn(s) = x
<1>1. \A i \in Which : /\ DOMAIN arr[i].items = 1 .. Len(arr[i].items)
                       /\ Len(arr[i].items) \in Nat /\ Len(arr[i].items) <= MaxLen
  <2> TAKE i \in Which
  <2>1. arr[i].items \in Seq(Things(kind)) /\ Len(arr[i].items) <= MaxLen
    BY ArraysAreGood
  <2> QED
    BY <2>1
<1>2. ASSUME NEW s \in Slots
      PROVE  /\ s[1] \in Which /\ s[2] \in 1 .. Len(arr[s[1]].items)
             /\ s = <<s[1], s[2]>> /\ ObjectIn(s) \in ItemsOf(s[1])
  <2>1. s \in Which \X (1 .. MaxLen) /\ s[2] \in DOMAIN arr[s[1]].items
    BY DEF Slots
  <2>2. s[1] \in Which /\ s = <<s[1], s[2]>>
    BY <2>1
  <2>3. ObjectIn(s) \in ItemsOf(s[1])
    BY <2>1 DEF ObjectIn, ItemsOf, ToSet
  <2> QED
    BY <1>1, <2>1, <2>2, <2>3
<1>3. ASSUME NEW i \in Which, NEW x \in ItemsOf(i) PROVE \E s \in Slots : ObjectIn(s) = x
  <2>1. PICK k \in DOMAIN arr[i].items : arr[i].items[k] = x
    BY DEF ItemsOf, ToSet
  <2>2. k \in 1 .. MaxLen
    BY <1>1, ArraysAssumption
  <2> DEFINE s == <<i, k>>
  <2>3. s \in Which \X (1 .. MaxLen) /\ s[1] = i /\ s[2] = k
    BY <2>2
  <2> HIDE DEF s
  <2>4. s \in Slots /\ ObjectIn(s) = x
    BY <2>1, <2>3 DEF Slots, ObjectIn
  <2> QED
    BY <2>4
<1> QED
  BY <1>2, <1>3

LEMMA OwnersBySlot ==
    ASSUME TypesOK, AllFit, Owners
    PROVE  /\ \A s, t \in Slots : ObjectIn(s) = ObjectIn(t) => s = t
           /\ {ObjectIn(s) : s \in Slots} \cap held = {}
           /\ {ObjectIn(s) : s \in Slots} \subseteq alive
           /\ "shrunk" \notin slips => alive \subseteq {ObjectIn(s) : s \in Slots} \cup held
<1>1. ASSUME NEW s \in Slots, NEW t \in Slots, ObjectIn(s) = ObjectIn(t) PROVE s = t
  <2>1. s[1] = t[1]
    BY <1>1, SlotsMean DEF Owners
  <2>2. s[2] = t[2]
    <3>1. s[1] \in Which /\ s[2] \in 1 .. Len(arr[s[1]].items) /\ t[2] \in 1 .. Len(arr[s[1]].items)
      BY <2>1, SlotsMean
    <3>2. Distinct(arr[s[1]].items)
      BY <3>1 DEF Owners
    <3> QED
      BY <1>1, <2>1, <3>1, <3>2 DEF Distinct, ObjectIn
  <2> QED
    BY <2>1, <2>2, SlotsMean
<1>2. \A s \in Slots : ObjectIn(s) \notin held /\ ObjectIn(s) \in alive
  BY SlotsMean DEF Owners
<1>3. ASSUME "shrunk" \notin slips, NEW o \in alive
      PROVE  o \in held \/ \E s \in Slots : ObjectIn(s) = o
  BY <1>3, SlotsMean DEF Owners
<1> QED
  BY <1>1, <1>2, <1>3

(* Every object has one owner, the program or one slot of one array, until *)
(* an Array is shrunk or a CArray is resized to zero; a RefArray refers to *)
(* objects that exist until pop() is called on it; and a call leaves its   *)
(* array only where the checks of the code have a hole: no slot in use     *)
(* lies outside the block.                                                 *)
THEOREM EveryObjectHasOneOwner == ArraysSpec => []OneOwner
<1>1. ASSUME ArraysIInv PROVE OneOwner
  <2> DEFINE owned == {ObjectIn(s) : s \in Slots}
  <2>1. TypesOK /\ AllFit
    BY <1>1 DEF ArraysIInv
  <2>2. ASSUME kind \in {"Array", "CArray"}, ~ruined, "zeroed" \notin slips
        PROVE  /\ \A s, t \in Slots : ObjectIn(s) = ObjectIn(t) => s = t
               /\ owned \cap held = {}
               /\ owned \cup held \subseteq alive
               /\ "shrunk" \notin slips => owned \cup held = alive
    <3>1. Owners /\ held \subseteq alive
      BY <1>1, <2>2 DEF ArraysIInv, Owned, HeldExist
    <3>2. /\ \A s, t \in Slots : ObjectIn(s) = ObjectIn(t) => s = t
          /\ owned \cap held = {} /\ owned \subseteq alive
          /\ "shrunk" \notin slips => alive \subseteq owned \cup held
      BY <2>1, <3>1, OwnersBySlot
    <3> HIDE DEF owned
    <3> QED
      BY <3>1, <3>2
  <2>3. ASSUME kind = "RefArray", ~ruined, "popped" \notin slips PROVE owned \subseteq alive
    BY <1>1, <2>1, <2>3, SlotsMean DEF ArraysIInv, Referred
  <2>4. ruined => IF kind = "CArray" THEN "zeroed" \in slips ELSE \E i \in Which : ~arr[i].block
    BY <1>1 DEF ArraysIInv, Holes
  <2>5. ArraysFit
    BY <1>1, ArraysFitIn
  <2> QED
    BY <2>2, <2>3, <2>4, <2>5 DEF OneOwner, Slots, ObjectIn
<1> QED
  BY <1>1, ArraysInvariant, PTL

-----------------------------------------------------------------------------
(* The calls of a PodArray.                                                *)

(* A range is erased and the rest keeps its order, a value moved to the    *)
(* front leaves the others in order, a growth and a copy change no value,  *)
(* an index is the first position of its value; moveToFrontAt() of the     *)
(* position behind the last makes the array longer, prepend() throws.      *)
THEOREM PodArraysKeepTheOrder == ArraysSpec => []PodArraysKeepOrder
<1>1. ASSUME ArraysIInv, kind = "PodArray", NEW i \in Which
      PROVE  LET a == arr[i]
                 s == a.items
             IN  /\ \A from, until \in 0 .. Len(s) :
                       LET e == Pod!Erase(a, from, until)
                       IN  IF from <= until
                           THEN ~e.raises /\ e.self.items =
                                    SubSeq(s, 1, from) \o SubSeq(s, until + 1, Len(s))
                           ELSE e = [Plain(a) EXCEPT !.raises = TRUE]
                 /\ \A pos \in 0 .. Len(s) - 1 :
                       Pod!MoveToFrontAt(a, pos) =
                           Plain([a EXCEPT !.cap = Pod!MoveToFrontAt(a, pos).self.cap,
                                           !.items = <<s[pos + 1]>> \o RemoveAt(s, pos + 1)])
                 /\ a.block => Len(Pod!MoveToFrontAt(a, Len(s)).self.items) = Len(s) + 1
                 /\ \A value \in Values :
                       /\ Pod!Prepend(a, value).raises /\ Pod!Prepend(a, value).self.items = s
                       /\ Pod!Add(a, value).items = Append(s, value)
                       /\ LET index == Pod!Index(a, value)
                          IN  index.raises = (value \notin ToSet(s))
                              /\ (~index.raises => s[index.self + 1] = value
                                                   /\ value \notin ToSet(SubSeq(s, 1, index.self)))
  <2> DEFINE S == Values \cup {Unknown}
             a == arr[i]
             s == a.items
  <2>1. Good(a, S) /\ Unknown \in S /\ \A x \in Values : x \in S
    BY <1>1, HoldingArrays DEF Things
  <2> HIDE DEF S, a
  <2>2. s \in Seq(S) /\ Len(s) \in Nat /\ a.block \in BOOLEAN /\ (~a.block => s = <<>>)
    BY <2>1, GoodMeans
  <2>3. ASSUME NEW from \in 0 .. Len(s), NEW until \in 0 .. Len(s)
        PROVE  LET e == Pod!Erase(a, from, until)
               IN  IF from <= until
                   THEN ~e.raises /\ e.self.items = SubSeq(s, 1, from) \o SubSeq(s, until + 1, Len(s))
                   ELSE e = [Plain(a) EXCEPT !.raises = TRUE]
    <3>1. from \in Nat /\ until \in Nat /\ until <= Len(s)
      BY <2>2
    <3> DEFINE e == Pod!Erase(a, from, until)
    <3>2. IF from <= until /\ until <= Len(s)
          THEN e.raises = FALSE /\ e.self.items = Erased(s, from, until)
          ELSE e = FailedCall(a)
      BY <2>1, <3>1, Erasing
    <3>3. FailedCall(a) = [Plain(a) EXCEPT !.raises = TRUE]
      <4>1. ASSUME NEW x
            PROVE  [[self |-> x, raises |-> FALSE, ruins |-> FALSE] EXCEPT !.raises = TRUE]
                       = [self |-> x, raises |-> TRUE, ruins |-> FALSE]
        <5> DEFINE p == [self |-> x, raises |-> FALSE, ruins |-> FALSE]
                   q == [p EXCEPT !.raises = TRUE]
        <5>1. p \in [self : {x}, raises : BOOLEAN, ruins : BOOLEAN] /\ p.self = x /\ p.ruins = FALSE
          OBVIOUS
        <5> HIDE DEF p
        <5>2. /\ q \in [self : {x}, raises : BOOLEAN, ruins : BOOLEAN]
              /\ q.self = x /\ q.ruins = FALSE /\ q.raises = TRUE
          BY <5>1
        <5> HIDE DEF q
        <5>3. q = [self |-> x, raises |-> TRUE, ruins |-> FALSE]
          BY <5>2
        <5> QED
          BY <5>3 DEF q, p
      <4> QED
        BY <4>1 DEF FailedCall, Plain
    <3> HIDE DEF e
    <3>4. IF from <= until THEN ~e.raises /\ e.self.items = Erased(s, from, until)
          ELSE e = [Plain(a) EXCEPT !.raises = TRUE]
      BY <3>1, <3>2, <3>3
    <3> QED
      BY <3>4 DEF e, Erased
  <2>4. ASSUME NEW pos \in 0 .. Len(s) - 1
        PROVE  Pod!MoveToFrontAt(a, pos) =
                   Plain([a EXCEPT !.cap = Pod!MoveToFrontAt(a, pos).self.cap,
                                   !.items = <<s[pos + 1]>> \o RemoveAt(s, pos + 1)])
    <3> DEFINE o == Pod!MoveToFrontAt(a, pos)
               t == <<s[pos + 1]>> \o RemoveAt(s, pos + 1)
    <3>1. pos \in Nat /\ pos < Len(s)
      BY <2>2
    <3>2. /\ Good(o.self, S) /\ o = Plain(o.self) /\ o.self.block = a.block
          /\ o.self.items = <<s[pos + 1]>> \o Without(s, pos)
      BY <2>1, <3>1, MovingToFront
    <3>3. RemoveAt(s, pos + 1) = Without(s, pos)
      <4>1. (pos + 1) - 1 = pos /\ (pos + 1) + 1 = pos + 2
        BY <3>1
      <4> HIDE DEF s
      <4> QED
        BY <3>1, <4>1 DEF RemoveAt, Without, FirstOf
    <3>4. o.self.items = t
      BY <3>2, <3>3
    <3> HIDE DEF t, o
    <3> DEFINE b == [a EXCEPT !.cap = o.self.cap, !.items = t]
    <3>5. b = [block |-> a.block, cap |-> o.self.cap, items |-> t]
      <4> DEFINE c == o.self.cap
                 d == [a EXCEPT !.cap = c]
      <4>1. a \in ArrayRecord(S) /\ c \in Nat
        BY <2>1, <3>2, GoodMeans DEF Good
      <4> HIDE DEF c, s
      <4>2. b = [d EXCEPT !.items = t]
        BY <4>1 DEF ArrayRecord, c
      <4>3. d \in ArrayRecord(S) /\ d.block = a.block /\ d.cap = c
        BY <4>1 DEF ArrayRecord
      <4> HIDE DEF d
      <4>4. [d EXCEPT !.items = t] = [block |-> d.block, cap |-> d.cap, items |-> t]
        BY <4>3 DEF ArrayRecord
      <4> QED
        BY <4>2, <4>3, <4>4 DEF c
    <3>6. o.self = [block |-> a.block, cap |-> o.self.cap, items |-> t]
      BY <3>2, <3>4 DEF Good, ArrayRecord
    <3>7. o = Plain(b)
      BY <3>2, <3>5, <3>6
    <3> QED
      BY <3>7 DEF o, t
  <2>5. a.block => Len(Pod!MoveToFrontAt(a, Len(s)).self.items) = Len(s) + 1
    BY <2>1, <2>2, MovingToFront, ZenonT(40)
  <2>6. ASSUME NEW x \in Values
        PROVE  /\ Pod!Prepend(a, x).raises /\ Pod!Prepend(a, x).self.items = s
               /\ Pod!Add(a, x).items = Append(s, x)
    <3>1. x \in S
      BY <2>1
    <3>2. Pod!Add(a, x).items = Append(s, x)
      BY <2>1, <3>1, Adding
    <3>3. Pod!Prepend(a, x).raises = TRUE /\ Pod!Prepend(a, x).self.items = s
      BY <2>1, Prepending
    <3> QED
      BY <3>2, <3>3
  <2>7. ASSUME NEW x \in Values
        PROVE  LET index == Pod!Index(a, x)
               IN  index.raises = (x \notin ToSet(s))
                   /\ (~index.raises => s[index.self + 1] = x
                                        /\ x \notin ToSet(SubSeq(s, 1, index.self)))
    <3> DEFINE index == Pod!Index(a, x)
    <3>1. /\ index.raises = (x \notin ToSet(s))
          /\ ~index.raises => /\ index.self + 1 \in 1 .. Len(s) /\ s[index.self + 1] = x
                              /\ index.self \in Nat
                              /\ \A k \in 1 .. Len(s) : s[k] = x => index.self + 1 <= k
      BY <2>1, Indexing
    <3> HIDE DEF index, s
    <3>2. ASSUME ~index.raises PROVE x \notin ToSet(SubSeq(s, 1, index.self))
      <4> DEFINE n == index.self
      <4>1. n \in Nat /\ n < Len(s) /\ \A k \in 1 .. Len(s) : s[k] = x => n + 1 <= k
        BY <2>2, <3>1, <3>2
      <4> HIDE DEF n
      <4>2. SubSeq(s, 1, n) = FirstOf(s, n)
        BY <4>1 DEF FirstOf
      <4>3. FirstOf(s, n) \in Seq(S) /\ Len(FirstOf(s, n)) = n
            /\ \A k \in 1 .. n : k \in 1 .. Len(s) /\ FirstOf(s, n)[k] = s[k]
        BY <2>2, <4>1, FirstOfProperties
      <4>4. \A k \in 1 .. n : ~(n + 1 <= k)
        BY <4>1
      <4>5. \A k \in 1 .. n : FirstOf(s, n)[k] # x
        BY <4>1, <4>3, <4>4
      <4>6. x \notin ToSet(FirstOf(s, n))
        BY <4>3, <4>5, ElementsOf
      <4> QED
        BY <4>2, <4>6 DEF n
    <3> QED
      BY <3>1, <3>2 DEF index
  <2> QED
    BY <2>3, <2>4, <2>5, <2>6, <2>7 DEF a
<1>2. ArraysIInv => PodArraysKeepOrder
  BY <1>1 DEF PodArraysKeepOrder
<1> QED
  BY <1>2, ArraysInvariant, PTL

-----------------------------------------------------------------------------
(* Files.  The inductive invariant.                                        *)

Byte == Octets \cup {0}

FileRecord ==
    [exists : BOOLEAN, bytes : Seq(Byte), open : BOOLEAN, writable : BOOLEAN, gone : BOOLEAN,
     size : Nat, pos : Nat, zero : {"own", "free", "other"}]

\* What every call keeps, and needs: only a file that exists has bytes or a
\* descriptor, only an object with a descriptor can have lost it, and
\* descriptor 0 is the object's only while it has one.
Sound(g) ==
    /\ g \in FileRecord
    /\ ~g.exists => g.bytes = <<>> /\ ~g.open
    /\ g.gone => g.open
    /\ g.zero = "own" => Usable(g)

\* Descriptor 0 is free, or this object's, only after a File that was moved
\* from has been destroyed; one that still exists is one more.
ZeroIsGivenAway ==
    /\ leftover \in {"none", "zero"} /\ moves \in Nat
    /\ leftover # "none" => moves > 0
    /\ f.zero # "other" => moves > 0
    /\ f.zero # "other" /\ leftover # "none" => moves > 1
    /\ spoiled = "stolen" => moves > 1

\* fileSize is the size of the file while this object alone has written, and
\* only behind the end.
SizeIsCounted == appending /\ Writing(f) => f.size = Len(f.bytes)

FileIInv ==
    /\ Sound(f)
    /\ ZeroIsGivenAway
    /\ appending \in BOOLEAN /\ SizeIsCounted

-----------------------------------------------------------------------------
(* What write(2) and ftruncate(2) do to the bytes.                         *)

LEMMA MaxOfTwo ==
    ASSUME NEW a \in Nat, NEW b \in Nat
    PROVE  Max({a, b}) = IF a >= b THEN a ELSE b
<1>1. CASE a >= b
  <2>1. \A x \in {a, b} : a >= x
    BY <1>1
  <2>2. \A x \in {a, b} : (\A y \in {a, b} : x >= y) => x = a
    BY <1>1
  <2> QED
    BY <1>1, <2>1, <2>2 DEF Max
<1>2. CASE ~(a >= b)
  <2>1. \A x \in {a, b} : b >= x
    BY <1>2
  <2>2. \A x \in {a, b} : (\A y \in {a, b} : x >= y) => x = b
    BY <1>2
  <2> QED
    BY <1>2, <2>1, <2>2 DEF Max
<1> QED
  BY <1>1, <1>2

\* The bytes after a write, one by one: those written, those that were there,
\* and the zeros of the gap.
LEMMA PutProperties ==
    ASSUME NEW bytes \in Seq(Byte), NEW data \in Seq(Octets), NEW pos \in Nat
    PROVE  /\ Put(bytes, pos, data) \in Seq(Byte)
           /\ Len(Put(bytes, pos, data)) =
                  IF data = <<>> THEN Len(bytes)
                  ELSE IF Len(bytes) >= pos + Len(data) THEN Len(bytes) ELSE pos + Len(data)
           /\ \A i \in 1 .. Len(Put(bytes, pos, data)) :
                  Put(bytes, pos, data)[i] =
                      IF i > pos /\ i <= pos + Len(data) THEN data[i - pos]
                      ELSE IF i <= Len(bytes) THEN bytes[i] ELSE 0
<1>0. Len(bytes) \in Nat /\ Len(data) \in Nat /\ data \in Seq(Byte)
  BY DEF Byte
<1>1. CASE data = <<>>
  BY <1>0, <1>1 DEF Put
<1>2. CASE data # <<>>
  <2> DEFINE m == Max({Len(bytes), pos + Len(data)})
             At(i) == IF i > pos /\ i <= pos + Len(data) THEN data[i - pos]
                      ELSE IF i <= Len(bytes) THEN bytes[i] ELSE 0
  <2>1. m = IF Len(bytes) >= pos + Len(data) THEN Len(bytes) ELSE pos + Len(data)
    BY <1>0, MaxOfTwo
  <2>2. m \in Nat
    BY <1>0, <2>1
  <2>3. Put(bytes, pos, data) = [i \in 1 .. m |-> At(i)]
    BY <1>2 DEF Put
  <2> HIDE DEF m
  <2>4. \A i \in 1 .. m : At(i) \in Byte
    <3> SUFFICES ASSUME NEW i \in 1 .. m PROVE At(i) \in Byte
      OBVIOUS
    <3>1. i \in Nat /\ i >= 1
      BY <2>2
    <3>2. CASE i > pos /\ i <= pos + Len(data)
      <4>1. i - pos \in 1 .. Len(data)
        BY <3>1, <3>2, <1>0
      <4> QED
        BY <3>2, <4>1, <1>0
    <3>3. CASE ~(i > pos /\ i <= pos + Len(data))
      BY <3>1, <3>3, <1>0 DEF Byte
    <3> QED
      BY <3>2, <3>3
  <2> HIDE DEF At
  <2>5. [i \in 1 .. m |-> At(i)] \in Seq(Byte) /\ Len([i \in 1 .. m |-> At(i)]) = m
    BY <2>2, <2>4
  <2>6. \A i \in 1 .. m : [j \in 1 .. m |-> At(j)][i] = At(i)
    OBVIOUS
  <2> QED
    BY <1>2, <2>1, <2>3, <2>5, <2>6 DEF At
<1> QED
  BY <1>1, <1>2

\* A write at the end appends.
LEMMA PutBehind ==
    ASSUME NEW bytes \in Seq(Byte), NEW data \in Seq(Octets)
    PROVE  Put(bytes, Len(bytes), data) = bytes \o data
<1> DEFINE put == Put(bytes, Len(bytes), data)
<1>0. Len(bytes) \in Nat /\ Len(data) \in Nat /\ data \in Seq(Byte) /\ bytes \o data \in Seq(Byte)
  BY DEF Byte
<1>1. put \in Seq(Byte) /\ Len(put) = Len(bytes) + Len(data)
  BY <1>0, PutProperties
<1>2. Len(bytes \o data) = Len(bytes) + Len(data)
  BY <1>0
<1>3. \A i \in 1 .. Len(put) : put[i] = (bytes \o data)[i]
  <2> SUFFICES ASSUME NEW i \in 1 .. Len(put) PROVE put[i] = (bytes \o data)[i]
    OBVIOUS
  <2>1. put[i] = IF i > Len(bytes) /\ i <= Len(bytes) + Len(data) THEN data[i - Len(bytes)]
                 ELSE IF i <= Len(bytes) THEN bytes[i] ELSE 0
    BY <1>0, PutProperties
  <2>2. i \in 1 .. Len(bytes) + Len(data)
    BY <1>1
  <2>3. (bytes \o data)[i] = IF i <= Len(bytes) THEN bytes[i] ELSE data[i - Len(bytes)]
    BY <1>0, <2>2
  <2> HIDE DEF put
  <2> QED
    BY <1>0, <2>1, <2>2, <2>3
<1> HIDE DEF put
<1> QED
  BY <1>0, <1>1, <1>2, <1>3, SeqEqual DEF put

LEMMA TruncatedProperties ==
    ASSUME NEW bytes \in Seq(Byte), NEW n \in Nat
    PROVE  /\ Truncated(bytes, n) \in Seq(Byte) /\ Len(Truncated(bytes, n)) = n
           /\ \A i \in 1 .. n : Truncated(bytes, n)[i] = IF i <= Len(bytes) THEN bytes[i] ELSE 0
<1>1. \A i \in 1 .. n : (IF i <= Len(bytes) THEN bytes[i] ELSE 0) \in Byte
  BY DEF Byte
<1> QED
  BY <1>1 DEF Truncated

\* Cutting off what was appended leaves what was there.
LEMMA TruncatedBack ==
    ASSUME NEW bytes \in Seq(Byte), NEW data \in Seq(Octets)
    PROVE  Truncated(bytes \o data, Len(bytes)) = bytes
<1>0. Len(bytes) \in Nat /\ Len(data) \in Nat /\ data \in Seq(Byte) /\ bytes \o data \in Seq(Byte)
  BY DEF Byte
<1>1. /\ Truncated(bytes \o data, Len(bytes)) \in Seq(Byte)
      /\ Len(Truncated(bytes \o data, Len(bytes))) = Len(bytes)
  BY <1>0, TruncatedProperties
<1>2. \A i \in 1 .. Len(bytes) : Truncated(bytes \o data, Len(bytes))[i] = bytes[i]
  <2> SUFFICES ASSUME NEW i \in 1 .. Len(bytes)
               PROVE  Truncated(bytes \o data, Len(bytes))[i] = bytes[i]
    OBVIOUS
  <2>1. i <= Len(bytes \o data) /\ (bytes \o data)[i] = bytes[i]
    BY <1>0
  <2> QED
    BY <1>0, <2>1, TruncatedProperties
<1> QED
  BY <1>1, <1>2, SeqEqual

-----------------------------------------------------------------------------
(* What the calls leave.                                                   *)

\* Every outcome of a call is sound, and takes or gives back descriptor 0 only
\* if it was given away before.
Harmless(g, o) ==
    /\ Sound(o.self)
    /\ o.self.zero = "other" <=> g.zero = "other"

\* A call that only appends leaves fileSize counted.
KeepsSize(g, o) ==
    Writing(o.self) /\ (Writing(g) => g.size = Len(g.bytes)) => o.self.size = Len(o.self.bytes)

LEMMA Outcomes ==
    ASSUME NEW x
    PROVE  /\ Done(x).self = x /\ ~Done(x).raises /\ ~Done(x).ruins
           /\ Raised(x).self = x /\ Raised(x).raises /\ ~Raised(x).ruins
           /\ Ruined(x).self = x /\ ~Ruined(x).raises /\ Ruined(x).ruins
BY DEF Done, Raised, Ruined

\* After close() the object cannot be used before it is opened again, if it
\* can be opened at all.
LEMMA Closes ==
    ASSUME NEW g, Sound(g), NEW o \in Close(g)
    PROVE  /\ Harmless(g, o) /\ ~o.ruins /\ ~Usable(o.self)
           /\ o.self.exists = g.exists /\ o.self.bytes = g.bytes
           /\ ~o.raises => ~o.self.open
<1>0. g \in FileRecord
  BY DEF Sound
<1>1. CASE o = Done(g) /\ ~g.open
  BY <1>1, Outcomes DEF Harmless, Usable
<1>2. CASE o = Raised(Lost(g)) /\ g.open
  <2> DEFINE h == Lost(g)
  <2>1. /\ h \in FileRecord /\ h.exists = g.exists /\ h.bytes = g.bytes /\ h.open = g.open
        /\ h.gone = TRUE /\ h.zero # "own" /\ (h.zero = "other" <=> g.zero = "other")
    BY <1>0 DEF FileRecord, Lost, Released
  <2>2. o.self = h /\ o.raises /\ ~o.ruins
    BY <1>2, Outcomes
  <2> HIDE DEF h
  <2> QED
    BY <1>2, <2>1, <2>2 DEF Harmless, Sound, Usable
<1>3. CASE o = Done(Closed(g)) /\ g.open /\ ~g.gone
  <2> DEFINE h == Closed(g)
  <2>1. /\ h \in FileRecord /\ h.exists = g.exists /\ h.bytes = g.bytes /\ h.open = FALSE
        /\ h.gone = g.gone /\ h.zero # "own" /\ (h.zero = "other" <=> g.zero = "other")
    BY <1>0 DEF FileRecord, Closed, Released
  <2>2. o.self = h /\ ~o.raises /\ ~o.ruins
    BY <1>3, Outcomes
  <2> HIDE DEF h
  <2> QED
    BY <1>3, <2>1, <2>2 DEF Harmless, Sound, Usable
<1> QED
  BY <1>1, <1>2, <1>3 DEF Close

LEMMA Opens ==
    ASSUME NEW g, Sound(g), g.exists, ~g.open, NEW writable \in BOOLEAN
    PROVE  /\ Sound(Opened(g, writable)) /\ Usable(Opened(g, writable))
           /\ Opened(g, writable).writable = writable /\ Opened(g, writable).pos = 0
           /\ Opened(g, writable).exists = g.exists /\ Opened(g, writable).bytes = g.bytes
           /\ Opened(g, writable).zero = "other" <=> g.zero = "other"
<1> DEFINE k == Opened(g, writable)
<1>1. g \in FileRecord /\ g.gone = FALSE /\ g.zero # "own"
  BY DEF Sound, FileRecord, Usable
<1>2. /\ k \in FileRecord /\ k.open = TRUE /\ k.gone = FALSE /\ k.writable = writable /\ k.pos = 0
      /\ k.exists = g.exists /\ k.bytes = g.bytes /\ (k.zero = "other" <=> g.zero = "other")
  BY <1>1 DEF FileRecord, Opened
<1> HIDE DEF k
<1>3. Sound(k) /\ Usable(k)
  BY <1>2 DEF Sound, Usable
<1> QED
  BY <1>2, <1>3 DEF k

\* Of two calls, the second on what the first has left.
LEMMA HarmlessOn ==
    ASSUME NEW g, NEW p, NEW o, Harmless(g, p), Harmless(p.self, o)
    PROVE  Harmless(g, o)
BY DEF Harmless

LEMMA OpensForRead ==
    ASSUME NEW g, Sound(g), NEW o \in OpenForRead(g)
    PROVE  /\ Harmless(g, o) /\ ~o.ruins /\ o.self.bytes = g.bytes
           /\ Writing(o.self) => o.self = g
<1>1. CASE g.open /\ ~g.writable
  <2>1. o = Done(g)
    BY <1>1 DEF OpenForRead
  <2> QED
    BY <2>1, Outcomes DEF Harmless
<1>2. CASE ~(g.open /\ ~g.writable)
  <2>1. PICK p \in Close(g) : o \in IF p.raises THEN {p} ELSE IfThere(p.self, Opened(p.self, FALSE))
    BY <1>2 DEF OpenForRead, Then
  <2> DEFINE h == p.self
  <2>2. /\ Harmless(g, p) /\ ~p.ruins /\ ~Usable(h) /\ h.bytes = g.bytes
        /\ ~p.raises => ~h.open
    BY Closes
  <2>3. CASE p.raises
    BY <2>1, <2>2, <2>3 DEF Writing
  <2>4. CASE ~p.raises /\ o = Raised(h)
    BY <2>2, <2>4, Outcomes DEF Harmless, Writing
  <2>5. CASE ~p.raises /\ h.exists /\ o = Done(Opened(h, FALSE))
    <3> DEFINE k == Opened(h, FALSE)
    <3>1. /\ Sound(k) /\ k.writable = FALSE /\ k.bytes = h.bytes
          /\ k.zero = "other" <=> h.zero = "other"
      BY <2>2, <2>5, Opens DEF Harmless
    <3>2. o.self = k /\ ~o.ruins
      BY <2>5, Outcomes
    <3> HIDE DEF k
    <3> QED
      BY <2>2, <3>1, <3>2 DEF Harmless, Writing
  <2> QED
    BY <2>1, <2>3, <2>4, <2>5 DEF IfThere
<1> QED
  BY <1>1, <1>2

LEMMA Creates ==
    ASSUME NEW g, Sound(g), NEW o \in CreateFile(g)
    PROVE  /\ Harmless(g, o) /\ ~o.ruins /\ o.self.bytes = g.bytes /\ ~Usable(o.self)
           /\ ~o.raises => ~o.self.open
<1>1. PICK p \in Close(g) :
          o \in IF p.raises THEN {p}
                ELSE {Raised(p.self)} \cup
                     IF p.self.exists THEN {Done(p.self)}
                     ELSE Close(Opened([p.self EXCEPT !.exists = TRUE, !.bytes = <<>>], FALSE))
  BY DEF CreateFile, Then
<1> DEFINE h == p.self
           made == [h EXCEPT !.exists = TRUE, !.bytes = <<>>]
<1>2. /\ Harmless(g, p) /\ ~p.ruins /\ ~Usable(h) /\ h.bytes = g.bytes
      /\ ~p.raises => ~h.open
  BY Closes
<1>3. CASE p.raises
  BY <1>1, <1>2, <1>3
<1>4. CASE ~p.raises /\ (o = Raised(h) \/ o = Done(h))
  BY <1>2, <1>4, Outcomes DEF Harmless
<1>5. CASE ~p.raises /\ ~h.exists /\ o \in Close(Opened(made, FALSE))
  <2>0. h \in FileRecord /\ <<>> \in Seq(Byte) /\ Sound(h) /\ ~h.open /\ h.bytes = <<>>
    BY <1>2, <1>5 DEF Sound, Harmless
  <2>00. (h.zero = "other" <=> g.zero = "other") /\ h.gone = FALSE /\ h.zero # "own"
    BY <1>2, <2>0 DEF Harmless, Sound, Usable, FileRecord
  <2> HIDE DEF h
  <2>1. /\ made \in FileRecord /\ made.exists = TRUE /\ made.bytes = <<>> /\ made.open = h.open
        /\ made.zero = h.zero /\ made.gone = h.gone
    BY <2>0 DEF FileRecord
  <2> HIDE DEF made
  <2>2. Sound(made)
    BY <2>0, <2>00, <2>1 DEF Sound
  <2> DEFINE k == Opened(made, FALSE)
  <2>3. Sound(k) /\ k.bytes = <<>> /\ (k.zero = "other" <=> g.zero = "other")
    BY <2>0, <2>00, <2>1, <2>2, Opens
  <2>4. o \in Close(k)
    BY <1>5
  <2> HIDE DEF k
  <2>5. /\ Harmless(k, o) /\ ~o.ruins /\ ~Usable(o.self) /\ o.self.bytes = k.bytes
        /\ ~o.raises => ~o.self.open
    BY <2>3, <2>4, Closes
  <2>6. g.bytes = <<>>
    BY <1>2, <2>0 DEF h
  <2> QED
    BY <2>3, <2>5, <2>6 DEF Harmless
<1> QED
  BY <1>1, <1>3, <1>4, <1>5

\* openForWrite() changes no byte.  When it has opened the file, it stands at
\* the front and has asked for the size.  An object without its descriptor is
\* taken for open.
LEMMA OpensForWrite ==
    ASSUME NEW g, Sound(g), NEW o \in OpenForWrite(g)
    PROVE  /\ Harmless(g, o) /\ ~o.ruins /\ o.self.bytes = g.bytes
           /\ \/ o = Done(g) /\ g.open /\ g.writable
              \/ o.raises /\ ~Usable(o.self)
              \/ /\ ~Writing(g) /\ ~o.raises
                 /\ Writing(o.self) /\ o.self.pos = 0 /\ o.self.size = Len(g.bytes)
<1>1. CASE g.open /\ g.writable
  <2>1. o = Done(g)
    BY <1>1 DEF OpenForWrite
  <2> QED
    BY <1>1, <2>1, Outcomes DEF Harmless
<1>2. CASE ~(g.open /\ g.writable)
  <2> DEFINE First == IF ~g.open /\ ~g.exists THEN CreateFile(g) ELSE Close(g)
  <2>1. \A p \in First : /\ Harmless(g, p) /\ ~p.ruins /\ p.self.bytes = g.bytes /\ ~Usable(p.self)
                         /\ ~p.raises => ~p.self.open
    BY Creates, Closes
  <2>2. ASSUME NEW p \in ToWrite(g)
        PROVE  /\ Harmless(g, p) /\ ~p.ruins /\ p.self.bytes = g.bytes
               /\ IF p.raises THEN ~Usable(p.self) ELSE Writing(p.self) /\ p.self.pos = 0
    <3>1. PICK q \in First :
              p \in IF q.raises THEN {q} ELSE IfThere(q.self, Opened(q.self, TRUE))
      BY DEF ToWrite, Then
    <3> DEFINE h == q.self
    <3>2. /\ Sound(h) /\ h.bytes = g.bytes /\ ~Usable(h) /\ (h.zero = "other" <=> g.zero = "other")
          /\ ~q.raises => ~h.open
      BY <2>1, <3>1 DEF Harmless
    <3>3. CASE q.raises
      BY <2>1, <3>1, <3>3
    <3>4. CASE ~q.raises
      <4>1. p = Raised(h) \/ (h.exists /\ p = Done(Opened(h, TRUE)))
        BY <3>1, <3>4 DEF IfThere
      <4>0. ~h.open
        BY <3>2, <3>4
      <4> HIDE DEF h
      <4>2. CASE p = Raised(h)
        BY <3>2, <4>2, Outcomes DEF Harmless
      <4>3. CASE h.exists /\ p = Done(Opened(h, TRUE))
        <5> DEFINE k == Opened(h, TRUE)
        <5>1. /\ Sound(k) /\ Usable(k) /\ k.writable = TRUE /\ k.pos = 0 /\ k.bytes = h.bytes
              /\ k.zero = "other" <=> h.zero = "other"
          BY <3>2, <4>0, <4>3, Opens
        <5>2. p.self = k /\ ~p.raises /\ ~p.ruins
          BY <4>3, Outcomes
        <5> HIDE DEF k
        <5> QED
          BY <3>2, <5>1, <5>2 DEF Harmless, Writing
      <4> QED
        BY <4>1, <4>2, <4>3
    <3> QED
      BY <3>3, <3>4
  <2>3. PICK p \in ToWrite(g) :
            o \in IF p.raises THEN {p} ELSE {Done([p.self EXCEPT !.size = Len(p.self.bytes)])}
    BY <1>2 DEF OpenForWrite, Then
  <2>4. CASE p.raises
    BY <2>2, <2>3, <2>4
  <2>5. CASE ~p.raises
    <3> DEFINE h == p.self
               k == [h EXCEPT !.size = Len(h.bytes)]
    <3>1. o.self = k /\ ~o.raises /\ ~o.ruins
      BY <2>3, <2>5, Outcomes
    <3>2. /\ Sound(h) /\ h.bytes = g.bytes /\ (h.zero = "other" <=> g.zero = "other")
          /\ Usable(h) /\ h.writable /\ h.pos = 0
      BY <2>2, <2>3, <2>5 DEF Harmless, Writing
    <3> HIDE DEF h
    <3>0. h \in FileRecord /\ Len(h.bytes) \in Nat
      BY <3>2 DEF Sound, FileRecord
    <3>3. /\ k \in FileRecord /\ k.bytes = h.bytes /\ k.zero = h.zero /\ k.open = h.open
          /\ k.gone = h.gone /\ k.writable = h.writable /\ k.exists = h.exists /\ k.pos = h.pos
          /\ k.size = Len(h.bytes)
      BY <3>0 DEF FileRecord
    <3> HIDE DEF k
    <3>4. ~Writing(g)
      BY <1>2 DEF Writing, Usable
    <3> QED
      BY <3>1, <3>2, <3>3, <3>4 DEF Harmless, Sound, Writing, Usable
  <2> QED
    BY <2>4, <2>5
<1> QED
  BY <1>1, <1>2

-----------------------------------------------------------------------------
(* The calls that write.                                                   *)

LEMMA Resizes ==
    ASSUME NEW g, Sound(g), NEW n \in Nat, NEW o \in Resize(g, n)
    PROVE  /\ Harmless(g, o) /\ ~o.ruins /\ ~Usable(o.self)
           /\ IF o.raises THEN o.self.bytes = g.bytes
              ELSE ~o.self.open /\ o.self.bytes = Truncated(g.bytes, n)
<1>1. PICK p \in Close(g) :
          o \in IF p.raises THEN {p}
                ELSE IfThere(p.self, [p.self EXCEPT !.bytes = Truncated(p.self.bytes, n)])
  BY DEF Resize, Then
<1> DEFINE h == p.self
           cut == [h EXCEPT !.bytes = Truncated(h.bytes, n)]
<1>2. /\ Harmless(g, p) /\ ~p.ruins /\ ~Usable(h) /\ h.bytes = g.bytes
      /\ ~p.raises => ~h.open
  BY Closes
<1>3. CASE p.raises
  BY <1>1, <1>2, <1>3
<1>4. CASE ~p.raises /\ o = Raised(h)
  BY <1>2, <1>4, Outcomes DEF Harmless
<1>5. CASE ~p.raises /\ h.exists /\ o = Done(cut)
  <2>1. h \in FileRecord /\ g.bytes \in Seq(Byte) /\ Sound(h) /\ ~h.open
    BY <1>2, <1>5 DEF Harmless, Sound, FileRecord
  <2>2. Truncated(g.bytes, n) \in Seq(Byte)
    BY <2>1, TruncatedProperties
  <2>3. /\ cut \in FileRecord /\ cut.exists = h.exists /\ cut.bytes = Truncated(g.bytes, n)
        /\ cut.open = h.open /\ cut.zero = h.zero /\ cut.gone = h.gone
    BY <1>2, <2>1, <2>2 DEF FileRecord
  <2>4. o.self = cut /\ ~o.raises /\ ~o.ruins
    BY <1>5, Outcomes
  <2>5. h.zero = "other" <=> g.zero = "other"
    BY <1>2 DEF Harmless
  <2> HIDE DEF cut
  <2> QED
    BY <1>2, <1>5, <2>1, <2>3, <2>4, <2>5 DEF Harmless, Sound, Usable
<1> QED
  BY <1>1, <1>3, <1>4, <1>5 DEF IfThere

LEMMA Advances ==
    ASSUME NEW g, Sound(g), Writing(g), NEW data \in Seq(Octets)
    PROVE  /\ Sound(Advanced(g, data)) /\ Writing(Advanced(g, data))
           /\ Advanced(g, data).bytes = Put(g.bytes, g.pos, data)
           /\ Advanced(g, data).size = g.size
           /\ Advanced(g, data).zero = g.zero
<1>1. g \in FileRecord /\ g.bytes \in Seq(Byte) /\ g.pos \in Nat /\ g.open /\ ~g.gone /\ g.exists
  BY DEF Sound, FileRecord, Writing, Usable
<1>2. Put(g.bytes, g.pos, data) \in Seq(Byte) /\ g.pos + Len(data) \in Nat
  BY <1>1, PutProperties
<1> DEFINE put == Put(g.bytes, g.pos, data)
           pos == g.pos + Len(data)
           h == [g EXCEPT !.bytes = put, !.pos = pos]
<1>3. Advanced(g, data) = h
  BY DEF Advanced
<1> HIDE DEF put, pos
<1>4. /\ h \in FileRecord /\ h.bytes = put /\ h.size = g.size /\ h.zero = g.zero
      /\ h.open = g.open /\ h.gone = g.gone /\ h.writable = g.writable /\ h.exists = g.exists
  BY <1>1, <1>2 DEF FileRecord, put, pos
<1> HIDE DEF h
<1> QED
  BY <1>1, <1>3, <1>4 DEF Sound, Writing, Usable, put

\* write() on the open file: done, or not begun, or with a part written or cut
\* off again, and the object closed or without its descriptor.
LEMMA WritesOpen ==
    ASSUME NEW g, Sound(g), Writing(g), NEW data \in Seq(Octets), NEW o \in WriteOpen(g, data)
    PROVE  /\ Harmless(g, o) /\ ~o.ruins
           /\ ~o.raises => /\ Writing(o.self) /\ o.self.bytes = Put(g.bytes, g.pos, data)
                           /\ o.self.size = g.size + Len(data)
           /\ o.raises => \/ o.self = g
                          \/ /\ ~Usable(o.self)
                             /\ \E n \in 1 .. Len(data) - 1 :
                                   \/ o.self.bytes = Put(g.bytes, g.pos, SubSeq(data, 1, n))
                                   \/ o.self.bytes =
                                          Truncated(Put(g.bytes, g.pos, SubSeq(data, 1, n)), g.size)
<1>0. g \in FileRecord /\ g.size \in Nat /\ Len(data) \in Nat
  BY DEF Sound, FileRecord
<1> DEFINE h == Advanced(g, data)
           k == [h EXCEPT !.size = h.size + Len(data)]
<1>1. CASE o = Done(k)
  <2>1. /\ Sound(h) /\ Writing(h) /\ h.bytes = Put(g.bytes, g.pos, data)
        /\ h.size = g.size /\ h.zero = g.zero
    BY Advances
  <2> HIDE DEF h
  <2>2. h \in FileRecord /\ g.size + Len(data) \in Nat
    BY <1>0, <2>1 DEF Sound
  <2>3. /\ k \in FileRecord /\ k.bytes = h.bytes /\ k.size = g.size + Len(data)
        /\ k.zero = h.zero /\ k.open = h.open /\ k.gone = h.gone /\ k.writable = h.writable /\ k.exists = h.exists
    BY <2>1, <2>2 DEF FileRecord
  <2>4. o.self = k /\ ~o.raises /\ ~o.ruins
    BY <1>1, Outcomes
  <2> HIDE DEF k
  <2> QED
    BY <2>1, <2>3, <2>4 DEF Harmless, Sound, Writing, Usable
<1>2. CASE o \in Failing(g, data)
  <2>1. PICK n \in 0 .. Len(data) - 1 :
            o \in IF n = 0 THEN {Raised(g)}
                  ELSE {Raised(p.self) : p \in Resize(Advanced(g, SubSeq(data, 1, n)), g.size)}
    BY <1>2 DEF Failing
  <2>2. CASE n = 0
    BY <2>1, <2>2, Outcomes DEF Harmless
  <2>3. CASE n # 0
    <3>1. n \in 1 .. Len(data) - 1 /\ n \in 1 .. Len(data)
      BY <1>0, <2>1, <2>3
    <3>2. SubSeq(data, 1, n) \in Seq(Octets)
      BY <3>1, <1>0
    <3> DEFINE part == SubSeq(data, 1, n)
               a == Advanced(g, part)
    <3>3. PICK p \in Resize(a, g.size) : o = Raised(p.self)
      BY <2>1, <2>3
    <3> HIDE DEF part
    <3>4. /\ Sound(a) /\ a.bytes = Put(g.bytes, g.pos, part) /\ a.zero = g.zero
      BY <3>2, Advances DEF part
    <3> HIDE DEF a
    <3>5. /\ Harmless(a, p) /\ ~Usable(p.self)
          /\ p.self.bytes = a.bytes \/ p.self.bytes = Truncated(a.bytes, g.size)
      BY <1>0, <3>3, <3>4, Resizes
    <3>6. o.self = p.self /\ o.raises /\ ~o.ruins
      BY <3>3, Outcomes
    <3> QED
      BY <3>1, <3>4, <3>5, <3>6 DEF Harmless, part
  <2> QED
    BY <2>2, <2>3
<1>3. ~g.gone
  BY DEF Writing, Usable
<1> QED
  BY <1>1, <1>2, <1>3 DEF WriteOpen, WriteOrFail

\* Without its descriptor an object writes nothing.
LEMMA WritesNothing ==
    ASSUME NEW g, Sound(g), g.gone, NEW data \in Seq(Octets), NEW o \in WriteOpen(g, data)
    PROVE  /\ Harmless(g, o) /\ ~o.ruins /\ o.self.bytes = g.bytes /\ ~Usable(o.self)
           /\ ~o.raises => data = <<>>
<1>1. CASE data # <<>>
  <2>1. o = Raised(g)
    BY <1>1 DEF WriteOpen, WriteOrFail
  <2> QED
    BY <2>1, Outcomes DEF Harmless, Usable
<1>2. CASE data = <<>>
  <2> DEFINE h == Advanced(g, data)
             k == [h EXCEPT !.size = h.size + Len(data)]
  <2>1. g \in FileRecord /\ g.pos \in Nat /\ g.size \in Nat /\ Len(data) = 0
    BY <1>2 DEF Sound, FileRecord
  <2>2. Failing(g, data) = {}
    BY <2>1 DEF Failing
  <2>3. o = Done(k)
    BY <1>2, <2>2 DEF WriteOpen, WriteOrFail
  <2>4. h = g
    <3>1. Put(g.bytes, g.pos, data) = g.bytes /\ g.pos + Len(data) = g.pos
      BY <1>2, <2>1 DEF Put
    <3>2. h = [g EXCEPT !.bytes = g.bytes, !.pos = g.pos]
      BY <3>1 DEF Advanced
    <3> QED
      BY <2>1, <3>2 DEF FileRecord
  <2>5. k = g
    <3>1. k = [g EXCEPT !.size = g.size]
      BY <2>1, <2>4
    <3> QED
      BY <2>1, <3>1 DEF FileRecord
  <2>6. o.self = g /\ ~o.ruins
    BY <2>3, <2>5, Outcomes
  <2> QED
    BY <1>2, <2>6 DEF Harmless, Usable
<1> QED
  BY <1>1, <1>2

(* An outcome of a call that opens the file for writing and writes at a    *)
(* position: it has not come to the write, or had no descriptor to write   *)
(* to; or the file is open, and the write begins.                          *)
SizeOf(g) == IF Writing(g) THEN g.size ELSE Len(g.bytes)

Unwritten(g, o) ==
    /\ Harmless(g, o) /\ ~o.ruins /\ o.self.bytes = g.bytes
    /\ Writing(o.self) => o.self.size = SizeOf(g)

Ready(g, h) ==
    /\ Sound(h) /\ Writing(h) /\ h.bytes = g.bytes
    /\ h.zero = "other" <=> g.zero = "other"
    /\ h.size = SizeOf(g)

WritesAt(g, data, pos, o) ==
    \/ Unwritten(g, o) /\ (~o.raises => data = <<>> /\ ~Writing(o.self))
    \/ \E h \in FileRecord : Ready(g, h) /\ h.pos = pos /\ o \in WriteOpen(h, data)

LEMMA OpenedIsReady ==
    ASSUME NEW g, Sound(g), NEW o \in OpenForWrite(g)
    PROVE  \/ o.raises /\ Unwritten(g, o)
           \/ ~o.raises /\ g.gone /\ o.self = g /\ ~Writing(g)
           \/ /\ ~o.raises /\ Ready(g, o.self)
              /\ o.self.pos = IF Writing(g) THEN g.pos ELSE 0
<1>1. /\ Harmless(g, o) /\ ~o.ruins /\ o.self.bytes = g.bytes
      /\ \/ o = Done(g) /\ g.open /\ g.writable
         \/ o.raises /\ ~Usable(o.self)
         \/ /\ ~Writing(g) /\ ~o.raises
            /\ Writing(o.self) /\ o.self.pos = 0 /\ o.self.size = Len(g.bytes)
  BY OpensForWrite
<1>2. CASE o = Done(g) /\ g.open /\ g.writable
  <2>1. o.self = g /\ ~o.raises
    BY <1>2, Outcomes
  <2>2. CASE g.gone
    BY <2>1, <2>2 DEF Writing, Usable
  <2>3. CASE ~g.gone
    <3>1. Writing(g)
      BY <1>2, <2>3 DEF Writing, Usable
    <3> QED
      BY <2>1, <3>1 DEF Ready, SizeOf
  <2> QED
    BY <2>2, <2>3
<1>3. CASE o.raises /\ ~Usable(o.self)
  BY <1>1, <1>3 DEF Unwritten, Writing
<1>4. CASE ~Writing(g) /\ ~o.raises /\ Writing(o.self) /\ o.self.pos = 0 /\ o.self.size = Len(g.bytes)
  BY <1>1, <1>4 DEF Harmless, Ready, SizeOf
<1> QED
  BY <1>1, <1>2, <1>3, <1>4

LEMMA SeekingIsReady ==
    ASSUME NEW g, NEW h, Ready(g, h), NEW pos \in Nat
    PROVE  Ready(g, [h EXCEPT !.pos = pos]) /\ [h EXCEPT !.pos = pos].pos = pos
<1> DEFINE k == [h EXCEPT !.pos = pos]
<1>1. h \in FileRecord
  BY DEF Ready, Sound
<1>2. /\ k \in FileRecord /\ k.pos = pos /\ k.exists = h.exists /\ k.bytes = h.bytes
      /\ k.open = h.open /\ k.gone = h.gone /\ k.writable = h.writable /\ k.size = h.size
      /\ k.zero = h.zero
  BY <1>1 DEF FileRecord
<1> HIDE DEF k
<1> QED
  BY <1>1, <1>2 DEF Ready, Sound, Writing, Usable, k

\* Opened for writing, and at its place; or the call has ended.
LEMMA SeeksAndIsReady ==
    ASSUME NEW g, Sound(g), NEW p \in OpenForWrite(g), NEW pos \in Nat,
           NEW q \in IF p.raises THEN {p} ELSE Seek(p.self, pos)
    PROVE  \/ q.raises /\ Unwritten(g, q)
           \/ ~q.raises /\ Ready(g, q.self) /\ q.self.pos = pos
<1>1. CASE p.raises
  BY <1>1, OpenedIsReady
<1>2. CASE ~p.raises /\ g.gone /\ p.self = g /\ ~Writing(g)
  <2>1. q = Raised(g)
    BY <1>2 DEF Seek
  <2> QED
    BY <1>2, <2>1, Outcomes DEF Unwritten, Harmless
<1>3. CASE ~p.raises /\ Ready(g, p.self)
  <2> DEFINE h == p.self
  <2>1. q = Raised(h) \/ q = Done([h EXCEPT !.pos = pos])
    BY <1>3 DEF Seek
  <2> HIDE DEF h
  <2>2. CASE q = Raised(h)
    BY <1>3, <2>2, Outcomes DEF h, Ready, Unwritten, Harmless
  <2>3. CASE q = Done([h EXCEPT !.pos = pos])
    <3> DEFINE k == [h EXCEPT !.pos = pos]
    <3>1. Ready(g, k) /\ k.pos = pos
      BY <1>3, SeekingIsReady DEF h
    <3>2. q.self = k /\ ~q.raises
      BY <2>3, Outcomes
    <3> QED
      BY <3>1, <3>2
  <2> QED
    BY <2>1, <2>2, <2>3
<1> QED
  BY <1>1, <1>2, <1>3, OpenedIsReady

LEMMA WriteDataWritesAt ==
    ASSUME NEW g, Sound(g), NEW data \in Seq(Octets), NEW o \in WriteData(g, data)
    PROVE  WritesAt(g, data, IF Writing(g) THEN g.pos ELSE 0, o)
<1>1. PICK p \in OpenForWrite(g) : o \in IF p.raises THEN {p} ELSE WriteOpen(p.self, data)
  BY DEF WriteData, Then
<1>2. CASE p.raises
  BY <1>1, <1>2, OpenedIsReady DEF WritesAt
<1>3. CASE ~p.raises /\ g.gone /\ p.self = g
  <2>1. /\ Harmless(g, o) /\ ~o.ruins /\ o.self.bytes = g.bytes /\ ~Usable(o.self)
        /\ ~o.raises => data = <<>>
    BY <1>1, <1>3, WritesNothing
  <2> QED
    BY <2>1 DEF WritesAt, Unwritten, Writing
<1>4. CASE ~p.raises /\ Ready(g, p.self) /\ p.self.pos = IF Writing(g) THEN g.pos ELSE 0
  <2>1. p.self \in FileRecord
    BY <1>4 DEF Ready, Sound
  <2> QED
    BY <1>1, <1>4, <2>1 DEF WritesAt
<1> QED
  BY <1>2, <1>3, <1>4, OpenedIsReady

\* Once the file is open and ready, write() does not open it again.
LEMMA WriteDataOfOpen ==
    ASSUME NEW h, Writing(h), NEW data, NEW o \in WriteData(h, data)
    PROVE  o \in WriteOpen(h, data)
<1>1. PICK p \in OpenForWrite(h) : o \in IF p.raises THEN {p} ELSE WriteOpen(p.self, data)
  BY DEF WriteData, Then
<1>2. p = Done(h)
  BY DEF OpenForWrite, Writing, Usable
<1>3. p.self = h /\ ~p.raises
  BY <1>2, Outcomes
<1> QED
  BY <1>1, <1>3

\* The write that follows the seek.
LEMMA SoughtWritesAt ==
    ASSUME NEW g, Sound(g), NEW p \in OpenForWrite(g), NEW pos \in Nat,
           NEW q \in IF p.raises THEN {p} ELSE Seek(p.self, pos),
           NEW data \in Seq(Octets), NEW o \in IF q.raises THEN {q} ELSE WriteData(q.self, data)
    PROVE  WritesAt(g, data, pos, o)
<1>1. CASE q.raises
  BY <1>1, SeeksAndIsReady DEF WritesAt
<1>2. CASE ~q.raises
  <2>1. Ready(g, q.self) /\ q.self.pos = pos
    BY <1>2, SeeksAndIsReady
  <2>2. o \in WriteOpen(q.self, data) /\ q.self \in FileRecord
    BY <1>2, <2>1, WriteDataOfOpen DEF Ready, Sound
  <2> QED
    BY <2>1, <2>2 DEF WritesAt
<1> QED
  BY <1>1, <1>2

LEMMA WriteAtPosWritesAt ==
    ASSUME NEW g, Sound(g), NEW data \in Seq(Octets), NEW pos \in Nat,
           NEW o \in WriteAtPos(g, data, pos)
    PROVE  WritesAt(g, data, pos, o)
<1>1. PICK q \in Then(OpenForWrite(g), LAMBDA h : Seek(h, pos)) :
          o \in IF q.raises THEN {q} ELSE WriteData(q.self, data)
  BY DEF WriteAtPos, Then
<1>2. PICK p \in OpenForWrite(g) : q \in IF p.raises THEN {p} ELSE Seek(p.self, pos)
  BY <1>1 DEF Then
<1> QED
  BY <1>1, <1>2, SoughtWritesAt

LEMMA AppendDataWritesAt ==
    ASSUME NEW g, Sound(g), NEW data \in Seq(Octets), NEW o \in AppendData(g, data)
    PROVE  WritesAt(g, data, Len(g.bytes), o)
<1>1. PICK q \in Then(OpenForWrite(g), LAMBDA h : Seek(h, Len(h.bytes))) :
          o \in IF q.raises THEN {q} ELSE WriteData(q.self, data)
  BY DEF AppendData, Then
<1>2. PICK p \in OpenForWrite(g) : q \in IF p.raises THEN {p} ELSE Seek(p.self, Len(p.self.bytes))
  BY <1>1 DEF Then
<1>3. p.self.bytes = g.bytes /\ Len(g.bytes) \in Nat
  BY OpensForWrite DEF Sound, FileRecord
<1> DEFINE pos == Len(g.bytes)
<1>4. q \in IF p.raises THEN {p} ELSE Seek(p.self, pos)
  BY <1>2, <1>3
<1> HIDE DEF pos
<1>5. pos \in Nat
  BY <1>3 DEF pos
<1>6. WritesAt(g, data, pos, o)
  BY <1>1, <1>4, <1>5, SoughtWritesAt
<1> QED
  BY <1>6 DEF pos

\* What such a call leaves: the bytes written where they should be; or none of
\* them; or the first of them, or the file cut to the size that was counted, and
\* the object is closed or without its descriptor.
LEMMA WritesLeave ==
    ASSUME NEW g, Sound(g), NEW data \in Seq(Octets), NEW pos \in Nat, NEW o, WritesAt(g, data, pos, o)
    PROVE  /\ Harmless(g, o) /\ ~o.ruins
           /\ ~o.raises => /\ o.self.bytes = Put(g.bytes, pos, data)
                           /\ Writing(o.self) => o.self.size = SizeOf(g) + Len(data)
           /\ o.raises =>
                  \/ /\ o.self.bytes = g.bytes
                     /\ Writing(o.self) => o.self.size = SizeOf(g)
                  \/ /\ ~Usable(o.self)
                     /\ \E n \in 1 .. Len(data) - 1 :
                           \/ o.self.bytes = Put(g.bytes, pos, SubSeq(data, 1, n))
                           \/ o.self.bytes = Truncated(Put(g.bytes, pos, SubSeq(data, 1, n)), SizeOf(g))
<1>1. CASE Unwritten(g, o) /\ (~o.raises => data = <<>> /\ ~Writing(o.self))
  BY <1>1 DEF Unwritten, Put
<1>2. CASE \E h \in FileRecord : Ready(g, h) /\ h.pos = pos /\ o \in WriteOpen(h, data)
  <2>1. PICK h \in FileRecord : Ready(g, h) /\ h.pos = pos /\ o \in WriteOpen(h, data)
    BY <1>2
  <2>2. /\ Harmless(h, o) /\ ~o.ruins
        /\ ~o.raises => /\ Writing(o.self) /\ o.self.bytes = Put(h.bytes, h.pos, data)
                        /\ o.self.size = h.size + Len(data)
        /\ o.raises => \/ o.self = h
                       \/ /\ ~Usable(o.self)
                          /\ \E n \in 1 .. Len(data) - 1 :
                                \/ o.self.bytes = Put(h.bytes, h.pos, SubSeq(data, 1, n))
                                \/ o.self.bytes =
                                       Truncated(Put(h.bytes, h.pos, SubSeq(data, 1, n)), h.size)
    BY <2>1, WritesOpen DEF Ready
  <2>3. /\ h.bytes = g.bytes /\ h.pos = pos /\ (h.zero = "other" <=> g.zero = "other")
        /\ h.size = SizeOf(g)
    BY <2>1 DEF Ready
  <2>4. Harmless(g, o)
    BY <2>2, <2>3 DEF Harmless
  <2> QED
    BY <2>2, <2>3, <2>4
<1> QED
  BY <1>1, <1>2 DEF WritesAt

\* Behind the end: all is appended, or none, or as long as the size is right
\* the first part, with the object closed or without its descriptor.
LEMMA WritesBehind ==
    ASSUME NEW g, Sound(g), NEW data \in Seq(Octets), NEW o, WritesAt(g, data, Len(g.bytes), o)
    PROVE  /\ Harmless(g, o) /\ ~o.ruins /\ KeepsSize(g, o)
           /\ ~o.raises => o.self.bytes = g.bytes \o data
           /\ o.raises /\ (Writing(g) => g.size = Len(g.bytes)) =>
                  \/ o.self.bytes = g.bytes
                  \/ /\ ~Usable(o.self)
                     /\ \E n \in 1 .. Len(data) - 1 : o.self.bytes = g.bytes \o SubSeq(data, 1, n)
<1> DEFINE pos == Len(g.bytes)
<1>0. g.bytes \in Seq(Byte) /\ pos \in Nat /\ Len(data) \in Nat /\ g.size \in Nat
  BY DEF Sound, FileRecord
<1>1. \A n \in 1 .. Len(data) - 1 : SubSeq(data, 1, n) \in Seq(Octets)
  BY <1>0
<1>2. Put(g.bytes, pos, data) = g.bytes \o data
  BY <1>0, PutBehind
<1>3. \A n \in 1 .. Len(data) - 1 :
          /\ Put(g.bytes, pos, SubSeq(data, 1, n)) = g.bytes \o SubSeq(data, 1, n)
          /\ Truncated(g.bytes \o SubSeq(data, 1, n), pos) = g.bytes
  BY <1>0, <1>1, PutBehind, TruncatedBack
<1>4. data \in Seq(Byte) /\ Len(g.bytes \o data) = Len(g.bytes) + Len(data)
  BY <1>0 DEF Byte
<1>7. WritesAt(g, data, pos, o)
  OBVIOUS
<1> HIDE DEF pos
<1>5. /\ Harmless(g, o) /\ ~o.ruins
      /\ ~o.raises => /\ o.self.bytes = Put(g.bytes, pos, data)
                      /\ Writing(o.self) => o.self.size = SizeOf(g) + Len(data)
      /\ o.raises =>
             \/ /\ o.self.bytes = g.bytes
                /\ Writing(o.self) => o.self.size = SizeOf(g)
             \/ /\ ~Usable(o.self)
                /\ \E n \in 1 .. Len(data) - 1 :
                      \/ o.self.bytes = Put(g.bytes, pos, SubSeq(data, 1, n))
                      \/ o.self.bytes = Truncated(Put(g.bytes, pos, SubSeq(data, 1, n)), SizeOf(g))
  BY <1>0, <1>7, WritesLeave, ZenonT(200)
<1>6. KeepsSize(g, o)
  <2>1. CASE ~o.raises
    BY <1>0, <1>2, <1>4, <1>5, <2>1 DEF KeepsSize, SizeOf, pos
  <2>2. CASE o.raises
    BY <1>0, <1>5, <2>2 DEF KeepsSize, SizeOf, Writing
  <2> QED
    BY <2>1, <2>2
<1> QED
  BY <1>2, <1>3, <1>5, <1>6 DEF pos, SizeOf

\* overWrite() leaves the new bytes, or the old ones, or the first of the new.
LEMMA OverWrites ==
    ASSUME NEW g, Sound(g), NEW data \in Seq(Octets), NEW o \in OverWrite(g, data)
    PROVE  /\ Harmless(g, o) /\ ~o.ruins /\ KeepsSize(g, o)
           /\ IF ~o.raises THEN o.self.bytes = data
              ELSE \/ o.self.bytes = g.bytes
                   \/ o.self.bytes = <<>>
                   \/ \E n \in 1 .. Len(data) - 1 : o.self.bytes = SubSeq(data, 1, n)
<1> DEFINE First == {Raised(g)} \cup (IF g.exists THEN Resize(g, 0) ELSE {Done(g)})
<1>1. PICK p \in First : o \in IF p.raises THEN {p} ELSE WriteData(p.self, data)
  BY DEF OverWrite, Then
<1>2. /\ Harmless(g, p) /\ ~p.ruins
      /\ IF p.raises THEN p.self.bytes = g.bytes /\ (Writing(p.self) => p.self = g)
         ELSE p.self.bytes = <<>> /\ ~Writing(p.self)
  <2>0. CASE p = Raised(g)
    BY <2>0, Outcomes DEF Harmless
  <2>1. CASE g.exists /\ p \in Resize(g, 0)
    <3>1. /\ Harmless(g, p) /\ ~p.ruins /\ ~Usable(p.self)
          /\ IF p.raises THEN p.self.bytes = g.bytes ELSE p.self.bytes = Truncated(g.bytes, 0)
      BY <2>1, Resizes
    <3>2. Truncated(g.bytes, 0) = <<>>
      <4>1. g.bytes \in Seq(Byte)
        BY DEF Sound, FileRecord
      <4>2. Truncated(g.bytes, 0) \in Seq(Byte) /\ Len(Truncated(g.bytes, 0)) = 0
        BY <4>1, TruncatedProperties
      <4> QED
        BY <4>2, EmptySeq
    <3> QED
      BY <3>1, <3>2 DEF Writing
  <2>2. CASE ~g.exists /\ p = Done(g)
    <3>1. ~g.open /\ g.bytes = <<>>
      BY <2>2 DEF Sound
    <3>2. p.self = g /\ ~p.raises /\ ~p.ruins
      BY <2>2, Outcomes
    <3> QED
      BY <3>1, <3>2 DEF Harmless, Writing, Usable
  <2> QED
    BY <1>1, <2>0, <2>1, <2>2
<1>3. CASE p.raises
  BY <1>1, <1>2, <1>3 DEF KeepsSize
<1>4. CASE ~p.raises
  <2> DEFINE h == p.self
  <2>0. /\ Sound(h) /\ (h.zero = "other" <=> g.zero = "other") /\ ~Writing(h) /\ h.bytes = <<>>
        /\ o \in WriteData(h, data)
    BY <1>1, <1>2, <1>4 DEF Harmless
  <2> HIDE DEF h
  <2>1. WritesAt(h, data, Len(h.bytes), o)
    <3>1. WritesAt(h, data, IF Writing(h) THEN h.pos ELSE 0, o)
      BY <2>0, WriteDataWritesAt
    <3>2. (IF Writing(h) THEN h.pos ELSE 0) = Len(h.bytes)
      BY <2>0
    <3> QED
      BY <3>1, <3>2
  <2>2. /\ Harmless(h, o) /\ ~o.ruins /\ KeepsSize(h, o)
        /\ ~o.raises => o.self.bytes = h.bytes \o data
        /\ o.raises /\ (Writing(h) => h.size = Len(h.bytes)) =>
                  \/ o.self.bytes = h.bytes
                  \/ /\ ~Usable(o.self)
                     /\ \E n \in 1 .. Len(data) - 1 : o.self.bytes = h.bytes \o SubSeq(data, 1, n)
    BY <2>0, <2>1, WritesBehind
  <2>3. <<>> \o data = data /\ \A n \in 1 .. Len(data) - 1 : <<>> \o SubSeq(data, 1, n) = SubSeq(data, 1, n)
    <3>1. \A n \in 1 .. Len(data) - 1 : SubSeq(data, 1, n) \in Seq(Octets)
      OBVIOUS
    <3> QED
      BY <3>1, ConcatEmptySeq
  <2>4. Harmless(g, o) /\ KeepsSize(g, o)
    BY <2>0, <2>2 DEF Harmless, KeepsSize
  <2> QED
    BY <2>0, <2>2, <2>3, <2>4
<1> QED
  BY <1>3, <1>4

-----------------------------------------------------------------------------
(* The calls that read: at most the place in the file changes.             *)
OnlyReads(g, o) ==
    /\ Harmless(g, o) /\ o.self.bytes = g.bytes
    /\ Writing(o.self) => Writing(g) /\ o.self.size = g.size

LEMMA ReadingKeepsSize ==
    ASSUME NEW g, NEW o, OnlyReads(g, o)
    PROVE  Harmless(g, o) /\ KeepsSize(g, o)
BY DEF OnlyReads, KeepsSize

LEMMA ReadsOn ==
    ASSUME NEW g, NEW p, NEW o, OnlyReads(g, p), OnlyReads(p.self, o)
    PROVE  OnlyReads(g, o)
BY DEF OnlyReads, Harmless

LEMMA Seeks ==
    ASSUME NEW g, Sound(g), NEW pos \in Nat, NEW o, o.self = [g EXCEPT !.pos = pos]
    PROVE  OnlyReads(g, o)
<1> DEFINE k == [g EXCEPT !.pos = pos]
<1>1. g \in FileRecord
  BY DEF Sound
<1>2. /\ k \in FileRecord /\ k.exists = g.exists /\ k.bytes = g.bytes
      /\ k.open = g.open /\ k.gone = g.gone /\ k.writable = g.writable /\ k.size = g.size
      /\ k.zero = g.zero
  BY <1>1 DEF FileRecord
<1>3. o.self = k
  OBVIOUS
<1> HIDE DEF k
<1> QED
  BY <1>1, <1>2, <1>3 DEF OnlyReads, Harmless, Sound, Writing, Usable

LEMMA OpensToRead ==
    ASSUME NEW g, Sound(g), NEW o \in OpenToRead(g)
    PROVE  OnlyReads(g, o)
<1>1. CASE g.open
  BY <1>1, Outcomes DEF OpenToRead, OnlyReads, Harmless
<1>2. CASE ~g.open
  BY <1>2, OpensForRead DEF OpenToRead, OnlyReads
<1> QED
  BY <1>1, <1>2

LEMMA RestIsFinite ==
    ASSUME NEW g, Sound(g)
    PROVE  /\ Len(Rest(g)) \in Nat /\ g.pos \in Nat
           /\ Max({g.pos, Len(g.bytes)}) \in Nat
<1>1. g.bytes \in Seq(Byte) /\ g.pos \in Nat /\ Len(g.bytes) \in Nat
  BY DEF Sound, FileRecord
<1>2. Rest(g) \in Seq(Byte)
  BY <1>1 DEF Rest
<1> QED
  BY <1>1, <1>2, MaxOfTwo

LEMMA ReadsAll ==
    ASSUME NEW g, Sound(g), NEW o \in ReadAll(g)
    PROVE  OnlyReads(g, o)
<1>1. PICK p \in OpenToRead(g) :
          o \in IF p.raises THEN {p}
                ELSE IF p.self.gone THEN {Ruined(p.self)}
                ELSE {Done([p.self EXCEPT !.pos = Max({p.self.pos, Len(p.self.bytes)})])}
                     \cup {IF n = 0 THEN Ruined(p.self)
                           ELSE Raised([p.self EXCEPT !.pos = p.self.pos + n])
                           : n \in 0 .. Len(Rest(p.self))}
  BY DEF ReadAll, Then
<1>2. OnlyReads(g, p)
  BY OpensToRead
<1> DEFINE h == p.self
<1>3. Sound(h) /\ Len(Rest(h)) \in Nat /\ h.pos \in Nat /\ Max({h.pos, Len(h.bytes)}) \in Nat
  BY <1>2, RestIsFinite DEF OnlyReads, Harmless
<1>4. CASE ~p.raises
  <2>1. o.self = h \/ \E pos \in Nat : o.self = [h EXCEPT !.pos = pos]
    <3>0. CASE o = Ruined(h)
      BY <3>0, Outcomes
    <3>1. CASE o = Done([h EXCEPT !.pos = Max({h.pos, Len(h.bytes)})])
      BY <1>3, <3>1, Outcomes
    <3>2. ASSUME NEW n \in 0 .. Len(Rest(h)),
                 o = IF n = 0 THEN Ruined(h) ELSE Raised([h EXCEPT !.pos = h.pos + n])
          PROVE  o.self = h \/ \E pos \in Nat : o.self = [h EXCEPT !.pos = pos]
      <4>1. h.pos + n \in Nat
        BY <1>3
      <4> QED
        BY <3>2, <4>1, Outcomes
    <3> QED
      BY <1>1, <1>4, <3>0, <3>1, <3>2
  <2>2. CASE o.self = h
    BY <1>2, <2>2 DEF OnlyReads, Harmless
  <2>3. ASSUME NEW pos \in Nat, o.self = [h EXCEPT !.pos = pos] PROVE OnlyReads(g, o)
    BY <1>2, <1>3, <2>3, Seeks, ReadsOn
  <2> QED
    BY <2>1, <2>2, <2>3
<1> QED
  BY <1>1, <1>2, <1>4

LEMMA ReadsBytes ==
    ASSUME NEW g, Sound(g), NEW bytes \in Nat, NEW o \in ReadBytes(g, bytes)
    PROVE  OnlyReads(g, o)
<1>1. PICK p \in OpenToRead(g) :
          o \in IF p.raises THEN {p}
                ELSE IF p.self.gone THEN {IF bytes = 0 THEN Done(p.self) ELSE Raised(p.self)}
                ELSE {IF Len(Rest(p.self)) < bytes
                      THEN Raised([p.self EXCEPT !.pos = Max({p.self.pos, Len(p.self.bytes)})])
                      ELSE Done([p.self EXCEPT !.pos = p.self.pos + bytes])}
                     \cup {Raised([p.self EXCEPT !.pos = p.self.pos + n])
                           : n \in {k \in 0 .. Len(Rest(p.self)) : k < bytes}}
  BY DEF ReadBytes, Then
<1>2. OnlyReads(g, p)
  BY OpensToRead
<1> DEFINE h == p.self
<1>3. Sound(h) /\ Len(Rest(h)) \in Nat /\ h.pos \in Nat /\ Max({h.pos, Len(h.bytes)}) \in Nat
  BY <1>2, RestIsFinite DEF OnlyReads, Harmless
<1>4. CASE ~p.raises
  <2>1. o.self = h \/ \E pos \in Nat : o.self = [h EXCEPT !.pos = pos]
    <3>0. CASE o = Done(h) \/ o = Raised(h)
      BY <3>0, Outcomes
    <3>1. CASE o = IF Len(Rest(h)) < bytes
                   THEN Raised([h EXCEPT !.pos = Max({h.pos, Len(h.bytes)})])
                   ELSE Done([h EXCEPT !.pos = h.pos + bytes])
      <4>1. h.pos + bytes \in Nat
        BY <1>3
      <4> QED
        BY <1>3, <3>1, <4>1, Outcomes
    <3>2. ASSUME NEW n \in 0 .. Len(Rest(h)), o = Raised([h EXCEPT !.pos = h.pos + n])
          PROVE  \E pos \in Nat : o.self = [h EXCEPT !.pos = pos]
      <4>1. h.pos + n \in Nat
        BY <1>3
      <4> QED
        BY <3>2, <4>1, Outcomes
    <3> QED
      BY <1>1, <1>4, <3>0, <3>1, <3>2
  <2>3. CASE o.self = h
    BY <1>2, <2>3 DEF OnlyReads, Harmless
  <2>2. ASSUME NEW pos \in Nat, o.self = [h EXCEPT !.pos = pos] PROVE OnlyReads(g, o)
    BY <1>2, <1>3, <2>2, Seeks, ReadsOn
  <2> QED
    BY <2>1, <2>2, <2>3
<1> QED
  BY <1>1, <1>2, <1>4

LEMMA SeeksOnly ==
    ASSUME NEW g, Sound(g), NEW pos \in Nat, NEW o \in Seek(g, pos)
    PROVE  OnlyReads(g, o)
<1>1. CASE o = Raised(g)
  BY <1>1, Outcomes DEF OnlyReads, Harmless
<1>2. CASE o = Done([g EXCEPT !.pos = pos])
  BY <1>2, Outcomes, Seeks
<1> QED
  BY <1>1, <1>2 DEF Seek

LEMMA ReadsFrom ==
    ASSUME NEW g, Sound(g), NEW pos \in Nat, NEW o \in From(g, pos)
    PROVE  OnlyReads(g, o)
<1>1. PICK p \in OpenToRead(g) : o \in IF p.raises THEN {p} ELSE Seek(p.self, pos)
  BY DEF From, Then
<1>2. OnlyReads(g, p) /\ Sound(p.self)
  BY OpensToRead DEF OnlyReads, Harmless
<1>3. CASE ~p.raises
  BY <1>1, <1>2, <1>3, SeeksOnly, ReadsOn
<1> QED
  BY <1>1, <1>2, <1>3

LEMMA AsksForSize ==
    ASSUME NEW g, Sound(g), NEW o \in Size(g)
    PROVE  OnlyReads(g, o)
<1>1. PICK p \in OpenToRead(g) :
          o \in IF p.raises THEN {p}
                ELSE Then(Seek(p.self, Len(p.self.bytes)), LAMBDA k : {Raised(k), Done(p.self)})
  BY DEF Size, Then
<1>2. OnlyReads(g, p) /\ Sound(p.self)
  BY OpensToRead DEF OnlyReads, Harmless
<1>3. CASE ~p.raises
  <2> DEFINE h == p.self
             pos == Len(h.bytes)
  <2>1. PICK q \in Seek(h, pos) : o \in IF q.raises THEN {q} ELSE {Raised(q.self), Done(h)}
    BY <1>1, <1>3 DEF Then
  <2>2. pos \in Nat
    BY <1>2 DEF Sound, FileRecord
  <2> HIDE DEF pos, h
  <2>3. OnlyReads(h, q)
    BY <1>2, <2>1, <2>2, SeeksOnly DEF h
  <2>4. OnlyReads(h, o)
    BY <1>2, <2>1, <2>3, Outcomes DEF OnlyReads, Harmless, h
  <2> QED
    BY <1>2, <2>4, ReadsOn DEF h
<1> QED
  BY <1>1, <1>2, <1>3

-----------------------------------------------------------------------------
(* The invariant is inductive.                                             *)

LEMMA DataAreSequences ==
    Data \subseteq Seq(Octets)
<1>1. \A m \in 0 .. MaxData : [1 .. m -> Octets] \subseteq Seq(Octets)
  <2> SUFFICES ASSUME NEW m \in 0 .. MaxData, NEW s \in [1 .. m -> Octets] PROVE s \in Seq(Octets)
    OBVIOUS
  <2>1. m \in Nat
    BY FileAssumption
  <2> QED
    BY <2>1
<1> QED
  BY <1>1 DEF Data, BoundedSeq, SeqOf

LEMMA NewIsSound ==
    ASSUME NEW exists \in BOOLEAN, NEW bytes \in Seq(Byte), exists \/ bytes = <<>>
    PROVE  /\ Sound(New(exists, bytes)) /\ ~New(exists, bytes).open
           /\ New(exists, bytes).zero = "other"
BY DEF New, Sound, Usable, FileRecord

LEMMA InitIInv ==
    FileInit => FileIInv
<1> SUFFICES ASSUME FileInit PROVE FileIInv
  OBVIOUS
<1>0. /\ appending = f.open /\ leftover = "none" /\ moves = 0 /\ spoiled = "no"
      /\ f \in {New(TRUE, bytes) : bytes \in Data} \cup {New(FALSE, <<>>), Temporary}
  BY DEF FileInit
<1>1. Data \subseteq Seq(Byte) /\ <<>> \in Seq(Byte)
  BY DataAreSequences DEF Byte
<1>2. CASE f \in {New(TRUE, bytes) : bytes \in Data} \cup {New(FALSE, <<>>)}
  <2>1. Sound(f) /\ ~f.open /\ f.zero = "other"
    BY <1>1, <1>2, NewIsSound
  <2>2. appending = FALSE
    BY <1>0, <2>1 DEF Sound, FileRecord
  <2> QED
    BY <1>0, <2>1, <2>2 DEF FileIInv, ZeroIsGivenAway, SizeIsCounted
<1>3. CASE f = Temporary
  <2> DEFINE new == New(TRUE, <<>>)
  <2>1. /\ f \in FileRecord /\ f.exists /\ f.open /\ f.zero = "other"
        /\ f.size = 0 /\ f.bytes = <<>> /\ f.gone = FALSE
    BY <1>1, <1>3 DEF Temporary, New, FileRecord
  <2> QED
    BY <1>0, <2>1 DEF FileIInv, Sound, ZeroIsGivenAway, SizeIsCounted
<1> QED
  BY <1>0, <1>2, <1>3

\* One outcome of a call becomes the state of the file.
Ends(o, behind) ==
    /\ spoiled = "no"
    /\ f' = o.self
    /\ spoiled' = IF o.ruins THEN "wild" ELSE "no"
    /\ appending' = (Writing(o.self) /\ behind /\ (Writing(f) => appending))
    /\ UNCHANGED <<leftover, moves>>

LEMMA EndsKeepIInv ==
    ASSUME FileIInv, NEW o, NEW behind, behind \in BOOLEAN, Ends(o, behind),
           Harmless(f, o), behind => KeepsSize(f, o)
    PROVE  FileIInv'
<1>1. Sound(f)'
  BY DEF Ends, Harmless
<1>2. ZeroIsGivenAway'
  BY DEF Ends, Harmless, FileIInv, ZeroIsGivenAway
<1>3. (appending \in BOOLEAN)'
  BY DEF Ends, Writing, Usable, Harmless, Sound, FileRecord
<1>4. SizeIsCounted'
  <2> SUFFICES ASSUME appending', Writing(f)' PROVE f'.size = Len(f'.bytes)
    BY DEF SizeIsCounted
  <2>1. behind /\ (Writing(f) => appending) /\ Writing(o.self)
    BY DEF Ends
  <2>2. Writing(f) => f.size = Len(f.bytes)
    BY <2>1 DEF FileIInv, SizeIsCounted
  <2> QED
    BY <2>1, <2>2 DEF Ends, KeepsSize
<1> QED
  BY <1>1, <1>2, <1>3, <1>4 DEF FileIInv

LEMMA OpeningKeepsIInv ==
    ASSUME FileIInv, DoOpenForRead \/ DoOpenForWrite \/ DoClose \/ DoCreate
                 \/ DoSize \/ DoRewind \/ DoRename \/ DoUnlink
    PROVE  FileIInv'
<1>0. Sound(f)
  BY DEF FileIInv
<1>1. CASE DoOpenForRead
  <2>1. PICK o \in OpenForRead(f) : Ends(o, TRUE)
    BY <1>1 DEF DoOpenForRead, Call, Ends
  <2>2. Harmless(f, o) /\ KeepsSize(f, o)
    BY <1>0, OpensForRead DEF KeepsSize
  <2> QED
    BY <2>1, <2>2, EndsKeepIInv
<1>2. CASE DoOpenForWrite
  <2>1. PICK o \in OpenForWrite(f) : Ends(o, TRUE)
    BY <1>2 DEF DoOpenForWrite, Call, Ends
  <2>2. Harmless(f, o) /\ KeepsSize(f, o)
    <3>1. /\ Harmless(f, o)
          /\ \/ o = Done(f)
             \/ ~Usable(o.self)
             \/ o.self.bytes = f.bytes /\ o.self.size = Len(f.bytes)
      BY <1>0, OpensForWrite
    <3> QED
      BY <3>1, Outcomes DEF KeepsSize, Writing
  <2> QED
    BY <2>1, <2>2, EndsKeepIInv
<1>3. CASE DoClose
  <2>1. PICK o \in Close(f) : Ends(o, TRUE)
    BY <1>3 DEF DoClose, Call, Ends
  <2>2. Harmless(f, o) /\ KeepsSize(f, o)
    BY <1>0, Closes DEF KeepsSize, Writing
  <2> QED
    BY <2>1, <2>2, EndsKeepIInv
<1>4. CASE DoCreate
  <2>1. PICK o \in CreateFile(f) : Ends(o, TRUE)
    BY <1>4 DEF DoCreate, Call, Ends
  <2>2. Harmless(f, o) /\ KeepsSize(f, o)
    BY <1>0, Creates DEF KeepsSize, Writing
  <2> QED
    BY <2>1, <2>2, EndsKeepIInv
<1>5. CASE DoSize
  <2>1. PICK o \in Size(f) : Ends(o, TRUE)
    BY <1>5 DEF DoSize, Call, Ends
  <2>2. Harmless(f, o) /\ KeepsSize(f, o)
    BY <1>0, AsksForSize, ReadingKeepsSize
  <2> QED
    BY <2>1, <2>2, EndsKeepIInv
<1>6. CASE DoRewind
  <2>1. PICK o \in Rewind(f) : Ends(o, TRUE)
    BY <1>6 DEF DoRewind, Call, Ends
  <2>2. o = Done(f) \/ o \in Seek(f, 0)
    BY <2>1 DEF Rewind
  <2>3. OnlyReads(f, o)
    BY <1>0, <2>2, SeeksOnly, Outcomes DEF OnlyReads, Harmless
  <2> QED
    BY <2>1, <2>3, ReadingKeepsSize, EndsKeepIInv
<1>7. CASE DoRename
  <2>1. PICK o \in Then(Close(f), LAMBDA h : IfThere(h, h)) : Ends(o, TRUE)
    BY <1>7 DEF DoRename, Call, Ends
  <2>2. PICK p \in Close(f) : o \in IF p.raises THEN {p} ELSE IfThere(p.self, p.self)
    BY <2>1 DEF Then
  <2>3. Harmless(f, p) /\ ~Usable(p.self)
    BY <1>0, Closes
  <2>4. o.self = p.self
    BY <2>2, Outcomes DEF IfThere
  <2>5. Harmless(f, o) /\ KeepsSize(f, o)
    BY <2>3, <2>4 DEF Harmless, KeepsSize, Writing
  <2> QED
    BY <2>1, <2>5, EndsKeepIInv
<1>8. CASE DoUnlink
  <2>1. PICK o \in Then(Close(f), LAMBDA h : IfThere(h, [h EXCEPT !.exists = FALSE, !.bytes = <<>>])) :
            Ends(o, TRUE)
    BY <1>8 DEF DoUnlink, Call, Ends
  <2>2. PICK p \in Close(f) :
            o \in IF p.raises THEN {p}
                  ELSE IfThere(p.self, [p.self EXCEPT !.exists = FALSE, !.bytes = <<>>])
    BY <2>1 DEF Then
  <2> DEFINE h == p.self
             without == [h EXCEPT !.exists = FALSE, !.bytes = <<>>]
  <2>3. Harmless(f, p) /\ ~Usable(h) /\ (~p.raises => ~h.open)
    BY <1>0, Closes
  <2>4. o.self = h \/ (~h.open /\ o.self = without)
    BY <2>2, <2>3, Outcomes DEF IfThere
  <2>5. h \in FileRecord /\ <<>> \in Seq(Byte) /\ Sound(h) /\ (h.zero = "other" <=> f.zero = "other")
    BY <2>3 DEF Sound, Harmless
  <2> HIDE DEF h
  <2>6. /\ without \in FileRecord /\ without.bytes = <<>> /\ without.open = h.open
        /\ without.gone = h.gone /\ without.zero = h.zero
    BY <2>5 DEF FileRecord
  <2> HIDE DEF without
  <2>7. Harmless(f, o) /\ KeepsSize(f, o)
    BY <2>3, <2>4, <2>5, <2>6 DEF h, Harmless, Sound, KeepsSize, Writing, Usable
  <2> QED
    BY <2>1, <2>7, EndsKeepIInv
<1> QED
  BY <1>1, <1>2, <1>3, <1>4, <1>5, <1>6, <1>7, <1>8

LEMMA WritingKeepsIInv ==
    ASSUME FileIInv, NEW data \in Data, NEW pos \in 0 .. MaxSize,
           DoWrite(data) \/ DoAppend(data) \/ DoOverWrite(data)
           \/ DoWriteAtPos(data, pos) \/ DoResize(pos)
    PROVE  FileIInv'
<1>0. Sound(f) /\ data \in Seq(Octets) /\ pos \in Nat
  BY DataAreSequences, FileAssumption DEF FileIInv
<1>1. CASE DoWrite(data)
  <2> DEFINE behind == IF Writing(f) THEN f.pos = Len(f.bytes) ELSE f.bytes = <<>>
             at == IF Writing(f) THEN f.pos ELSE 0
  <2>1. PICK o \in WriteData(f, data) : Ends(o, behind)
    BY <1>1 DEF DoWrite, Call, Ends
  <2>2. WritesAt(f, data, at, o)
    BY <1>0, WriteDataWritesAt
  <2>3. at \in Nat /\ behind \in BOOLEAN /\ (behind => at = Len(f.bytes))
    BY <1>0 DEF Sound, FileRecord
  <2> HIDE DEF behind, at
  <2>4. Harmless(f, o)
    BY <1>0, <2>2, <2>3, WritesLeave
  <2>5. behind => KeepsSize(f, o)
    BY <1>0, <2>2, <2>3, WritesBehind
  <2> QED
    BY <2>1, <2>3, <2>4, <2>5, EndsKeepIInv
<1>2. CASE DoAppend(data)
  <2>1. PICK o \in AppendData(f, data) : Ends(o, TRUE)
    BY <1>2 DEF DoAppend, Call, Ends
  <2>2. Harmless(f, o) /\ KeepsSize(f, o)
    BY <1>0, AppendDataWritesAt, WritesBehind
  <2> QED
    BY <2>1, <2>2, EndsKeepIInv
<1>3. CASE DoOverWrite(data)
  <2>1. PICK o \in OverWrite(f, data) : Ends(o, TRUE)
    BY <1>3 DEF DoOverWrite, Call, Ends
  <2>2. Harmless(f, o) /\ KeepsSize(f, o)
    BY <1>0, OverWrites
  <2> QED
    BY <2>1, <2>2, EndsKeepIInv
<1>4. CASE DoWriteAtPos(data, pos)
  <2> DEFINE behind == pos = Len(f.bytes)
  <2>1. PICK o \in WriteAtPos(f, data, pos) : Ends(o, behind)
    BY <1>4 DEF DoWriteAtPos, Call, Ends
  <2>2. WritesAt(f, data, pos, o)
    BY <1>0, WriteAtPosWritesAt
  <2>3. Harmless(f, o)
    BY <1>0, <2>2, WritesLeave
  <2>4. behind => KeepsSize(f, o)
    BY <1>0, <2>2, WritesBehind
  <2>5. behind \in BOOLEAN
    OBVIOUS
  <2> HIDE DEF behind
  <2> QED
    BY <2>1, <2>3, <2>4, <2>5, EndsKeepIInv
<1>5. CASE DoResize(pos)
  <2>1. PICK o \in Resize(f, pos) : Ends(o, TRUE)
    BY <1>5 DEF DoResize, Call, Ends
  <2>2. Harmless(f, o) /\ KeepsSize(f, o)
    BY <1>0, Resizes DEF KeepsSize, Writing
  <2> QED
    BY <2>1, <2>2, EndsKeepIInv
<1> QED
  BY <1>1, <1>2, <1>3, <1>4, <1>5

LEMMA ReadingKeepsIInv ==
    ASSUME FileIInv, NEW pos \in 0 .. MaxSize, NEW n \in Nat,
           DoReadAll \/ DoReadBytes(n) \/ DoReadAllFromPos(pos) \/ DoReadFromPos(pos, n)
    PROVE  FileIInv'
<1>0. Sound(f) /\ pos \in Nat
  BY FileAssumption DEF FileIInv
<1>1. \E o : Ends(o, TRUE) /\ OnlyReads(f, o)
  <2>1. CASE DoReadAll
    <3>1. PICK o \in ReadAll(f) : Ends(o, TRUE)
      BY <2>1 DEF DoReadAll, Call, Ends
    <3> QED
      BY <1>0, <3>1, ReadsAll
  <2>2. CASE DoReadBytes(n)
    <3>1. PICK o \in ReadBytes(f, n) : Ends(o, TRUE)
      BY <2>2 DEF DoReadBytes, Call, Ends
    <3> QED
      BY <1>0, <3>1, ReadsBytes
  <2>3. CASE DoReadAllFromPos(pos)
    <3>1. PICK p \in From(f, pos) :
              \E o \in IF p.raises THEN {p} ELSE ReadAll(p.self) : Ends(o, TRUE)
      BY <2>3 DEF DoReadAllFromPos, Call, Ends, Then
    <3>2. PICK o \in IF p.raises THEN {p} ELSE ReadAll(p.self) : Ends(o, TRUE)
      BY <3>1
    <3>3. OnlyReads(f, p) /\ Sound(p.self)
      BY <1>0, ReadsFrom DEF OnlyReads, Harmless
    <3>4. OnlyReads(f, o)
      BY <3>2, <3>3, ReadsAll, ReadsOn
    <3> QED
      BY <3>2, <3>4
  <2>4. CASE DoReadFromPos(pos, n)
    <3>1. PICK p \in From(f, pos) :
              \E o \in IF p.raises THEN {p} ELSE ReadBytes(p.self, n) : Ends(o, TRUE)
      BY <2>4 DEF DoReadFromPos, Call, Ends, Then
    <3>2. PICK o \in IF p.raises THEN {p} ELSE ReadBytes(p.self, n) : Ends(o, TRUE)
      BY <3>1
    <3>3. OnlyReads(f, p) /\ Sound(p.self)
      BY <1>0, ReadsFrom DEF OnlyReads, Harmless
    <3>4. OnlyReads(f, o)
      BY <3>2, <3>3, ReadsBytes, ReadsOn
    <3> QED
      BY <3>2, <3>4
  <2> QED
    BY <2>1, <2>2, <2>3, <2>4
<1>2. PICK o : Ends(o, TRUE) /\ OnlyReads(f, o)
  BY <1>1
<1> QED
  BY <1>2, ReadingKeepsSize, EndsKeepIInv

\* Files that were moved from, the process that dies, and another that writes.
LEMMA OutsideKeepsIInv ==
    ASSUME FileIInv, MoveOut \/ MoveInto \/ DestroyLeftover \/ Die \/ \E byte \in Octets : OtherAppends(byte)
    PROVE  FileIInv'
<1>0. f \in FileRecord /\ Sound(f) /\ f.bytes \in Seq(Byte) /\ f.pos \in Nat
  BY DEF FileIInv, Sound, FileRecord
<1>1. CASE MoveOut
  BY <1>1 DEF MoveOut, Moving, LeftBehind, FileIInv, ZeroIsGivenAway, SizeIsCounted, Writing, Usable
<1>2. CASE MoveInto
  <2> DEFINE zero == IF f.zero = "own" THEN "other" ELSE f.zero
             g == [f EXCEPT !.open = FALSE, !.writable = FALSE, !.gone = FALSE, !.size = 0, !.pos = 0,
                           !.zero = zero]
  <2>1. f' = g /\ appending' = FALSE /\ Moving
    BY <1>2 DEF MoveInto
  <2>2. zero \in {"free", "other"} /\ (zero # "other" => f.zero # "other")
    BY <1>0 DEF FileRecord
  <2> HIDE DEF zero
  <2>3. /\ g \in FileRecord /\ g.bytes = f.bytes /\ g.exists = f.exists
        /\ g.open = FALSE /\ g.gone = FALSE /\ g.zero = zero
    BY <1>0, <2>2 DEF FileRecord
  <2> HIDE DEF g
  <2>4. Sound(g)
    BY <1>0, <2>2, <2>3 DEF Sound
  <2>5. Sound(f)' /\ (appending \in BOOLEAN)' /\ SizeIsCounted'
    BY <2>1, <2>4 DEF SizeIsCounted
  <2>6. ZeroIsGivenAway'
    BY <2>1, <2>2, <2>3 DEF Moving, LeftBehind, FileIInv, ZeroIsGivenAway
  <2> QED
    BY <2>5, <2>6 DEF FileIInv
<1>3. CASE DestroyLeftover
  <2>0. leftover = "zero" /\ leftover' = "none" /\ UNCHANGED <<appending, moves>> /\ moves > 0
    BY <1>3 DEF DestroyLeftover, FileIInv, ZeroIsGivenAway
  <2>1. CASE Usable(f) /\ f.zero = "own"
    <3>1. spoiled' = "stolen" /\ UNCHANGED f
      BY <1>3, <2>0, <2>1 DEF DestroyLeftover
    <3> QED
      BY <2>0, <2>1, <3>1 DEF FileIInv, ZeroIsGivenAway, SizeIsCounted, Writing
  <2>2. CASE ~(Usable(f) /\ f.zero = "own")
    <3> DEFINE g == [f EXCEPT !.zero = "free"]
    <3>1. f' = g /\ UNCHANGED spoiled /\ spoiled = "no"
      BY <1>3, <2>0, <2>2 DEF DestroyLeftover
    <3>2. /\ g \in FileRecord /\ g.bytes = f.bytes /\ g.exists = f.exists /\ g.open = f.open
          /\ g.gone = f.gone /\ g.writable = f.writable /\ g.size = f.size /\ g.zero = "free"
      BY <1>0 DEF FileRecord
    <3> HIDE DEF g
    <3>3. Sound(g)
      BY <1>0, <3>2 DEF Sound
    <3>4. Sound(f)' /\ (appending \in BOOLEAN)' /\ SizeIsCounted'
      BY <2>0, <3>1, <3>2, <3>3 DEF SizeIsCounted, Writing, Usable, FileIInv
    <3>5. ZeroIsGivenAway'
      BY <2>0, <3>1, <3>2 DEF FileIInv, ZeroIsGivenAway
    <3> QED
      BY <3>4, <3>5 DEF FileIInv
  <2> QED
    BY <2>1, <2>2
<1>4. CASE Die
  <2>1. PICK data \in Data :
            (data # <<>> => Writing(f)) /\ f' = New(f.exists, Put(f.bytes, f.pos, data))
    BY <1>4 DEF Die
  <2> DEFINE put == Put(f.bytes, f.pos, data)
  <2>2. put \in Seq(Byte) /\ f.exists \in BOOLEAN
    BY <1>0, DataAreSequences, PutProperties DEF FileRecord
  <2>3. f.exists \/ put = <<>>
    BY <1>0, <2>1 DEF Sound, Writing, Usable, Put
  <2>4. f' = New(f.exists, put)
    BY <2>1
  <2> HIDE DEF put
  <2>5. Sound(f') /\ f'.zero = "other"
    BY <2>2, <2>3, <2>4, NewIsSound
  <2>6. appending' = FALSE /\ leftover' = "none" /\ moves' = 0 /\ spoiled' = "no"
    BY <1>4 DEF Die
  <2> QED
    BY <2>5, <2>6 DEF FileIInv, ZeroIsGivenAway, SizeIsCounted
<1>5. ASSUME NEW byte \in Octets, OtherAppends(byte)
      PROVE  FileIInv'
  <2> DEFINE bytes == Append(f.bytes, byte)
             g == [f EXCEPT !.bytes = bytes]
  <2>1. f' = g /\ f.exists /\ appending' = FALSE /\ UNCHANGED <<leftover, moves, spoiled>>
    BY <1>5 DEF OtherAppends
  <2>2. bytes \in Seq(Byte)
    BY <1>0 DEF Byte
  <2> HIDE DEF bytes
  <2>3. /\ g \in FileRecord /\ g.exists = f.exists /\ g.open = f.open /\ g.gone = f.gone
        /\ g.zero = f.zero
    BY <1>0, <2>2 DEF FileRecord
  <2> HIDE DEF g
  <2>4. Sound(g)
    BY <1>0, <2>1, <2>3 DEF Sound, Usable
  <2>5. ZeroIsGivenAway'
    BY <2>1, <2>3 DEF FileIInv, ZeroIsGivenAway
  <2> QED
    BY <2>1, <2>4, <2>5 DEF FileIInv, SizeIsCounted
<1> QED
  BY <1>1, <1>2, <1>3, <1>4, <1>5

LEMMA NextIInv ==
    FileIInv /\ [FileNext]_fileVars => FileIInv'
<1> SUFFICES ASSUME FileIInv, [FileNext]_fileVars PROVE FileIInv'
  OBVIOUS
<1>0. MaxSize \in Nat /\ 0 \in 0 .. MaxSize
  BY FileAssumption
<1>1. CASE DoOpenForRead \/ DoOpenForWrite \/ DoClose \/ DoCreate
           \/ DoSize \/ DoRewind \/ DoRename \/ DoUnlink
  BY <1>1, OpeningKeepsIInv
<1>2. ASSUME NEW data \in Data, DoWrite(data) \/ DoAppend(data) \/ DoOverWrite(data)
      PROVE  FileIInv'
  BY <1>0, <1>2, WritingKeepsIInv
<1>3. ASSUME NEW data \in Data, NEW pos \in 0 .. MaxSize, DoWriteAtPos(data, pos)
      PROVE  FileIInv'
  BY <1>3, WritingKeepsIInv
<1>4. ASSUME NEW n \in 0 .. MaxSize, DoResize(n)
      PROVE  FileIInv'
  <2>1. <<>> \in Data
    <3>1. <<>> \in [1 .. 0 -> Octets] /\ 0 \in 0 .. MaxData
      BY FileAssumption
    <3> QED
      BY <3>1 DEF Data, BoundedSeq, SeqOf
  <2> QED
    BY <1>4, <2>1, WritingKeepsIInv
<1>5. CASE DoReadAll
  BY <1>0, <1>5, ReadingKeepsIInv
<1>6. ASSUME NEW n \in 0 .. MaxSize, DoReadBytes(n) \/ DoReadAllFromPos(n)
      PROVE  FileIInv'
  <2>1. n \in Nat
    BY <1>0
  <2> QED
    BY <1>6, <2>1, ReadingKeepsIInv
<1>7. ASSUME NEW pos \in 0 .. MaxSize, NEW n \in 0 .. MaxData, DoReadFromPos(pos, n)
      PROVE  FileIInv'
  <2>1. n \in Nat
    BY FileAssumption
  <2> QED
    BY <1>7, <2>1, ReadingKeepsIInv
<1>8. CASE MoveOut \/ MoveInto \/ DestroyLeftover \/ Die \/ \E byte \in Octets : OtherAppends(byte)
  BY <1>8, OutsideKeepsIInv
<1>9. CASE UNCHANGED fileVars
  BY <1>9 DEF fileVars, FileIInv, ZeroIsGivenAway, SizeIsCounted, Writing, Usable
<1> QED
  BY <1>1, <1>2, <1>3, <1>4, <1>5, <1>6, <1>7, <1>8, <1>9 DEF FileNext

-----------------------------------------------------------------------------
(* What the writing calls promise follows from the invariant.              *)

LEMMA PrefixOfWhole ==
    ASSUME NEW S, NEW s \in Seq(S), NEW t \in Seq(S)
    PROVE  IsPrefix(s, s \o t)
<1>1. Len(s) \in Nat /\ Len(t) \in Nat /\ s \o t \in Seq(S) /\ Len(s \o t) = Len(s) + Len(t)
  OBVIOUS
<1>2. SubSeq(s, 1, Len(s)) \in Seq(S) /\ Len(SubSeq(s, 1, Len(s))) = Len(s)
  BY <1>1
<1>3. SubSeq(s \o t, 1, Len(s)) \in Seq(S) /\ Len(SubSeq(s \o t, 1, Len(s))) = Len(s)
  BY <1>1
<1>4. \A i \in 1 .. Len(s) : SubSeq(s, 1, Len(s))[i] = SubSeq(s \o t, 1, Len(s))[i]
  BY <1>1
<1>5. SubSeq(s, 1, Len(s)) = SubSeq(s \o t, 1, Len(s))
  BY <1>2, <1>3, <1>4, SeqEqual
<1> QED
  BY <1>1, <1>5 DEF IsPrefix

LEMMA PrefixOfItself ==
    ASSUME NEW S, NEW s \in Seq(S)
    PROVE  IsPrefix(s, s) /\ IsPrefix(<<>>, s)
<1>1. <<>> \in Seq(S) /\ s \o <<>> = s /\ <<>> \o s = s
  BY ConcatEmptySeq
<1>2. IsPrefix(s, s \o <<>>) /\ IsPrefix(<<>>, <<>> \o s)
  BY <1>1, PrefixOfWhole
<1> QED
  BY <1>1, <1>2

\* The first of what was to be added is the first of what would be there.
LEMMA PrefixOfPart ==
    ASSUME NEW S, NEW s \in Seq(S), NEW t \in Seq(S), NEW n \in 1 .. Len(t) - 1
    PROVE  IsPrefix(s \o SubSeq(t, 1, n), s \o t)
<1> DEFINE part == SubSeq(t, 1, n)
           rest == SubSeq(t, n + 1, Len(t))
<1>1. Len(t) \in Nat /\ n \in Nat /\ n < Len(t) /\ 1 <= n
  OBVIOUS
<1>2. part \in Seq(S) /\ rest \in Seq(S) /\ Len(part) = n /\ Len(rest) = Len(t) - n
  BY <1>1
<1>3. \A i \in 1 .. Len(t) : t[i] = (part \o rest)[i]
  BY <1>1, <1>2
<1>4. Len(part \o rest) = Len(t) /\ part \o rest \in Seq(S)
  BY <1>1, <1>2
<1>5. t = part \o rest
  BY <1>3, <1>4, SeqEqual
<1> HIDE DEF part, rest
<1>6. s \o part \in Seq(S) /\ s \o t = (s \o part) \o rest
  BY <1>2, <1>5, ConcatAssociative, SMTT(30)
<1>7. IsPrefix(s \o part, (s \o part) \o rest)
  BY <1>2, <1>6, PrefixOfWhole
<1> QED
  BY <1>6, <1>7 DEF part

LEMMA AppendedAsPromised ==
    ASSUME FileIInv, NEW data \in Data, NEW o \in AppendData(f, data)
    PROVE  IF ~o.raises THEN o.self.bytes = f.bytes \o data
           ELSE (Writing(f) => appending) =>
                    /\ IsPrefix(f.bytes, o.self.bytes)
                    /\ IsPrefix(o.self.bytes, f.bytes \o data)
                    /\ Usable(o.self) => o.self.bytes = f.bytes
<1>0. Sound(f) /\ f.bytes \in Seq(Byte) /\ data \in Seq(Octets) /\ data \in Seq(Byte)
  BY DataAreSequences DEF FileIInv, Sound, FileRecord, Byte
<1>1. WritesAt(f, data, Len(f.bytes), o)
  BY <1>0, AppendDataWritesAt
<1>2. CASE ~o.raises
  BY <1>0, <1>1, <1>2, WritesBehind
<1>3. ASSUME o.raises, Writing(f) => appending
      PROVE  /\ IsPrefix(f.bytes, o.self.bytes)
             /\ IsPrefix(o.self.bytes, f.bytes \o data)
             /\ Usable(o.self) => o.self.bytes = f.bytes
  <2>1. Writing(f) => f.size = Len(f.bytes)
    BY <1>3 DEF FileIInv, SizeIsCounted
  <2>2. \/ o.self.bytes = f.bytes
        \/ /\ ~Usable(o.self)
           /\ \E n \in 1 .. Len(data) - 1 : o.self.bytes = f.bytes \o SubSeq(data, 1, n)
    BY <1>0, <1>1, <1>3, <2>1, WritesBehind
  <2>3. CASE o.self.bytes = f.bytes
    BY <1>0, <2>3, PrefixOfItself, PrefixOfWhole
  <2>4. ASSUME ~Usable(o.self), NEW n \in 1 .. Len(data) - 1,
               o.self.bytes = f.bytes \o SubSeq(data, 1, n)
        PROVE  IsPrefix(f.bytes, o.self.bytes) /\ IsPrefix(o.self.bytes, f.bytes \o data)
    <3>1. SubSeq(data, 1, n) \in Seq(Byte)
      BY <1>0
    <3>2. IsPrefix(f.bytes, f.bytes \o SubSeq(data, 1, n))
      BY <1>0, <3>1, PrefixOfWhole
    <3>3. IsPrefix(f.bytes \o SubSeq(data, 1, n), f.bytes \o data)
      BY <1>0, PrefixOfPart
    <3> QED
      BY <2>4, <3>2, <3>3
  <2> QED
    BY <2>2, <2>3, <2>4
<1> QED
  BY <1>2, <1>3

LEMMA OverWrittenAsPromised ==
    ASSUME FileIInv, NEW data \in Data, NEW o \in OverWrite(f, data)
    PROVE  IF ~o.raises THEN o.self.bytes = data
           ELSE o.self.bytes = f.bytes \/ IsPrefix(o.self.bytes, data)
<1>0. Sound(f) /\ data \in Seq(Octets)
  BY DataAreSequences DEF FileIInv
<1>1. IF ~o.raises THEN o.self.bytes = data
      ELSE \/ o.self.bytes = f.bytes
           \/ o.self.bytes = <<>>
           \/ \E n \in 1 .. Len(data) - 1 : o.self.bytes = SubSeq(data, 1, n)
  BY <1>0, OverWrites
<1>2. IsPrefix(<<>>, data)
  BY <1>0, PrefixOfItself
<1>3. ASSUME NEW n \in 1 .. Len(data) - 1
      PROVE  IsPrefix(SubSeq(data, 1, n), data)
  <2>1. <<>> \in Seq(Octets) /\ SubSeq(data, 1, n) \in Seq(Octets)
    BY <1>0
  <2>2. IsPrefix(<<>> \o SubSeq(data, 1, n), <<>> \o data)
    BY <1>0, <2>1, PrefixOfPart
  <2>3. <<>> \o SubSeq(data, 1, n) = SubSeq(data, 1, n) /\ <<>> \o data = data
    BY <1>0, <2>1, ConcatEmptySeq
  <2> QED
    BY <2>2, <2>3
<1> QED
  BY <1>1, <1>2, <1>3

\* A write leaves what is before and behind, and what it has written is read there.
LEMMA PutKeepsTheRest ==
    ASSUME NEW bytes \in Seq(Byte), NEW data \in Seq(Octets), NEW pos \in Nat
    PROVE  /\ \A i \in DOMAIN bytes :
                 i <= pos \/ i > pos + Len(data) => Put(bytes, pos, data)[i] = bytes[i]
           /\ SubSeq(Put(bytes, pos, data), pos + 1, pos + Len(data)) = data
<1> DEFINE put == Put(bytes, pos, data)
<1>0. Len(bytes) \in Nat /\ Len(data) \in Nat /\ DOMAIN bytes = 1 .. Len(bytes) /\ data \in Seq(Byte)
  BY DEF Byte
<1>1. /\ put \in Seq(Byte)
      /\ Len(put) = IF data = <<>> THEN Len(bytes)
                    ELSE IF Len(bytes) >= pos + Len(data) THEN Len(bytes) ELSE pos + Len(data)
      /\ \A i \in 1 .. Len(put) :
             put[i] = IF i > pos /\ i <= pos + Len(data) THEN data[i - pos]
                      ELSE IF i <= Len(bytes) THEN bytes[i] ELSE 0
  BY PutProperties
<1> HIDE DEF put
<1>2. \A i \in 1 .. Len(bytes) : i <= pos \/ i > pos + Len(data) => put[i] = bytes[i]
  BY <1>0, <1>1
<1>3. SubSeq(put, pos + 1, pos + Len(data)) = data
  <2>1. CASE data = <<>>
    <3>1. Len(data) = 0
      BY <2>1
    <3>2. SubSeq(put, pos + 1, pos) = <<>>
      BY <1>1, SubSeqEmpty
    <3> QED
      BY <2>1, <3>1, <3>2
  <2>2. CASE data # <<>>
    <3>1. Len(put) \in Nat /\ pos + Len(data) <= Len(put) /\ Len(data) > 0
      BY <1>0, <1>1, <2>2, EmptySeq
    <3> DEFINE part == SubSeq(put, pos + 1, pos + Len(data))
    <3>2. part \in Seq(Byte) /\ Len(part) = Len(data)
      BY <1>0, <1>1, <3>1
    <3>3. ASSUME NEW i \in 1 .. Len(data) PROVE part[i] = data[i]
      <4>1. i \in Nat /\ pos + i \in 1 .. Len(put) /\ (pos + i) - pos = i
            /\ pos + i > pos /\ pos + i <= pos + Len(data)
        BY <1>0, <3>1
      <4>2. part[i] = put[pos + i]
        BY <1>0, <1>1, <3>1, <4>1
      <4> QED
        BY <1>1, <4>1, <4>2
    <3> HIDE DEF part
    <3>4. part = data
      BY <1>0, <3>2, <3>3, SeqEqual
    <3> QED
      BY <3>4 DEF part
  <2> QED
    BY <2>1, <2>2
<1> QED
  BY <1>0, <1>2, <1>3 DEF put

LEMMA WrittenAtPosAsPromised ==
    ASSUME FileIInv, NEW data \in Data, NEW pos \in 0 .. MaxSize,
           NEW o \in WriteAtPos(f, data, pos), ~o.raises
    PROVE  /\ Len(o.self.bytes) = IF data = <<>> THEN Len(f.bytes)
                                  ELSE Max({Len(f.bytes), pos + Len(data)})
           /\ \A i \in DOMAIN f.bytes :
                 i <= pos \/ i > pos + Len(data) => o.self.bytes[i] = f.bytes[i]
           /\ SubSeq(o.self.bytes, pos + 1, pos + Len(data)) = data
<1>0. Sound(f) /\ f.bytes \in Seq(Byte) /\ data \in Seq(Octets) /\ pos \in Nat
  BY DataAreSequences, FileAssumption DEF FileIInv, Sound, FileRecord
<1>1. o.self.bytes = Put(f.bytes, pos, data)
  BY <1>0, WriteAtPosWritesAt, WritesLeave
<1>2. Len(f.bytes) \in Nat /\ pos + Len(data) \in Nat
  BY <1>0
<1>3. Len(Put(f.bytes, pos, data)) = IF data = <<>> THEN Len(f.bytes)
                                     ELSE Max({Len(f.bytes), pos + Len(data)})
  <2>1. Max({Len(f.bytes), pos + Len(data)}) =
            IF Len(f.bytes) >= pos + Len(data) THEN Len(f.bytes) ELSE pos + Len(data)
    BY <1>2, MaxOfTwo
  <2> QED
    BY <1>0, <2>1, PutProperties
<1> QED
  BY <1>0, <1>1, <1>3, PutKeepsTheRest

LEMMA PutInFront ==
    ASSUME NEW bytes \in Seq(Byte), NEW data \in Seq(Octets)
    PROVE  Put(bytes, 0, data) = data \o SubSeq(bytes, Len(data) + 1, Len(bytes))
<1> DEFINE put == Put(bytes, 0, data)
           rest == SubSeq(bytes, Len(data) + 1, Len(bytes))
           n == Len(bytes)
           d == Len(data)
<1>0. n \in Nat /\ d \in Nat /\ data \in Seq(Byte) /\ rest \in Seq(Byte)
  BY DEF Byte
<1>1. /\ put \in Seq(Byte)
      /\ Len(put) = IF n >= d THEN n ELSE d
      /\ \A i \in 1 .. Len(put) : put[i] = IF i <= d THEN data[i] ELSE IF i <= n THEN bytes[i] ELSE 0
  <2>1. /\ put \in Seq(Byte)
        /\ Len(put) = IF data = <<>> THEN n ELSE IF n >= 0 + d THEN n ELSE 0 + d
        /\ \A i \in 1 .. Len(put) :
              put[i] = IF i > 0 /\ i <= 0 + d THEN data[i - 0] ELSE IF i <= n THEN bytes[i] ELSE 0
    BY PutProperties
  <2>2. data = <<>> => d = 0
    OBVIOUS
  <2> HIDE DEF put, n, d
  <2> QED
    BY <1>0, <2>1, <2>2
<1>2. Len(rest) = IF d <= n THEN n - d ELSE 0
  BY <1>0
<1>3. \A i \in 1 .. Len(rest) : rest[i] = bytes[d + i]
  BY <1>0, <1>2
<1>4. data \o rest \in Seq(Byte) /\ Len(data \o rest) = d + Len(rest)
  BY <1>0
<1>5. \A i \in 1 .. d + Len(rest) : (data \o rest)[i] = IF i <= d THEN data[i] ELSE rest[i - d]
  BY <1>0
<1> HIDE DEF put, rest, n, d
<1>6. Len(put) = Len(data \o rest)
  BY <1>0, <1>1, <1>2, <1>4
<1>7. ASSUME NEW i \in 1 .. Len(put) PROVE put[i] = (data \o rest)[i]
  <2>1. CASE i <= d
    BY <1>0, <1>1, <1>4, <1>5, <1>6, <1>7, <2>1
  <2>2. CASE i > d
    <3>1. i \in Nat /\ ~(i <= d) /\ i <= n /\ i - d \in 1 .. Len(rest) /\ d + (i - d) = i /\ i \in 1 .. d + Len(rest)
      BY <1>0, <1>1, <1>2, <2>2
    <3>2. rest[i - d] = bytes[i]
      BY <1>3, <3>1
    <3>3. (data \o rest)[i] = bytes[i]
      BY <1>5, <3>1, <3>2
    <3> QED
      BY <1>0, <1>1, <2>2, <3>1, <3>3
  <2>3. i <= d \/ i > d
    BY <1>0, <1>1
  <2> QED
    BY <2>1, <2>2, <2>3
<1>8. put = data \o rest
  BY <1>1, <1>4, <1>6, <1>7, SeqEqual
<1> QED
  BY <1>8 DEF put, rest, n, d

LEMMA WrittenInFrontAsPromised ==
    ASSUME FileIInv, NEW data \in Data, ~f.open, NEW o \in WriteData(f, data), ~o.raises
    PROVE  o.self.bytes = data \o SubSeq(f.bytes, Len(data) + 1, Len(f.bytes))
<1>0. Sound(f) /\ f.bytes \in Seq(Byte) /\ data \in Seq(Octets) /\ ~Writing(f)
  BY DataAreSequences DEF FileIInv, Sound, FileRecord, Writing, Usable
<1>1. WritesAt(f, data, 0, o)
  <2>1. WritesAt(f, data, IF Writing(f) THEN f.pos ELSE 0, o)
    BY <1>0, WriteDataWritesAt
  <2> QED
    BY <1>0, <2>1
<1>2. o.self.bytes = Put(f.bytes, 0, data)
  BY <1>0, <1>1, WritesLeave
<1> QED
  BY <1>0, <1>2, PutInFront

LEMMA InvariantImpliesPromises ==
    FileIInv => WrittenAsPromised
<1> SUFFICES ASSUME FileIInv PROVE WrittenAsPromised
  OBVIOUS
<1> QED
  BY AppendedAsPromised, OverWrittenAsPromised, WrittenAtPosAsPromised, WrittenInFrontAsPromised
     DEF WrittenAsPromised

-----------------------------------------------------------------------------
FileSpec == FileInit /\ [][FileNext]_fileVars

(* The inductive invariant holds in every state of every File.             *)
THEOREM FilesInvariant == FileSpec => []FileIInv
<1>1. FileInit => FileIInv
  BY InitIInv
<1>2. FileIInv /\ [FileNext]_fileVars => FileIInv'
  BY NextIInv
<1> QED
  BY <1>1, <1>2, PTL DEF FileSpec

(* It takes a second File that was moved from to close the descriptor of   *)
(* one that is in use: whatever is written, read, moved and destroyed, the *)
(* first takes descriptor 0, which was stdin, and no more                  *)
(* (csjp_file.h:64).                                                       *)
THEOREM FilesKeepTheirDescriptors == FileSpec => []DescriptorsKept
<1>1. FileIInv => DescriptorsKept
  BY DEF FileIInv, Sound, Usable, ZeroIsGivenAway, DescriptorsKept
<1> QED
  BY <1>1, FilesInvariant, PTL

(* csjp_file.h, "On Writting", for every content, data and place, and      *)
(* whichever call of the operating system fails, close() and lseek() as    *)
(* well: append() adds all of its data, or none, or some of it, with the   *)
(* object closed or of no further use; overWrite() leaves the new bytes,   *)
(* the old ones or the first of the new; writeAtPos() keeps what is before *)
(* and behind; write() starts in front.                                    *)
THEOREM WritesKeepTheirPromise == FileSpec => []WrittenAsPromised
<1>1. FileIInv => WrittenAsPromised
  BY InvariantImpliesPromises
<1> QED
  BY <1>1, FilesInvariant, PTL
==============================================================================

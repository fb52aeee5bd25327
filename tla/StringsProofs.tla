---------------------------- MODULE StringsProofs ----------------------------
(***************************************************************************)
(* Proofs about programs with a string, for any characters, any growth of  *)
(* the capacity and any length: a string ends with a zero inside its       *)
(* block, whatever replace() does to it, and its methods give what the     *)
(* sequence of its characters makes one expect.                            *)
(*                                                                         *)
(* Every method that moves characters splices: it keeps the characters up  *)
(* to one position, puts a text, and keeps the characters from another     *)
(* position on.  So each method is shown to be such a splice first, and a  *)
(* step of the program is a matter of what splices are.  What a search has *)
(* matched so far, and a string between two rounds of replace(), are       *)
(* recursive functions; that such a function is what its definition says,  *)
(* and stays in a set, RecursionComputes shows once.                       *)
(***************************************************************************)
EXTENDS Strings, SequenceTheorems, WellFoundedInduction, TLAPS

-----------------------------------------------------------------------------
(* Recursive functions.                                                    *)

\* A set of numbers has a least one.
Below == {p \in Nat \X Nat : p[1] < p[2]}

LEMMA BelowIsWellFounded == IsWellFoundedOn(Below, Nat)
BY NatLessThanWellFounded DEF OpToRel, Below

LEMMA LeastNumber ==
    ASSUME NEW N, N \subseteq Nat, N # {}
    PROVE  \E i \in N : \A j \in N : i <= j
<1>1. PICK x : x \in N
  OBVIOUS
<1>2. PICK i \in N : \A j \in N : ~(<<j, i>> \in Below)
  BY <1>1, BelowIsWellFounded, WFMin
<1>3. \A j \in N : ~(j < i)
  <2> SUFFICES ASSUME NEW j \in N, j < i PROVE FALSE
    OBVIOUS
  <2>1. <<j, i>> \in Nat \X Nat /\ <<j, i>>[1] = j /\ <<j, i>>[2] = i
    OBVIOUS
  <2>2. <<j, i>> \in Below
    BY <2>1 DEF Below
  <2> QED
    BY <1>2, <2>2
<1>4. \A j \in N : i \in Nat /\ j \in Nat
  OBVIOUS
<1> QED
  BY <1>3, <1>4

\* Numbers that each have a smaller one beside them are none.
LEMMA NoLeast ==
    ASSUME NEW Bad \in SUBSET Nat, \A i \in Bad : \E j \in Bad : j < i
    PROVE  Bad = {}
<1> SUFFICES ASSUME Bad # {} PROVE FALSE
    OBVIOUS
<1>1. PICK i \in Bad : \A j \in Bad : ~(<<j, i>> \in Below)
    <2>1. IsWellFoundedOn(Below, Bad)
        BY BelowIsWellFounded, IsWellFoundedOnSubset
    <2>2. PICK i : i \in Bad
        OBVIOUS
    <2> QED
        BY <2>1, <2>2, WFMin
<1>2. PICK j \in Bad : j < i
    OBVIOUS
<1>3. <<j, i>> \in Nat \X Nat /\ <<j, i>>[1] = j /\ <<j, i>>[2] = i
    OBVIOUS
<1> QED
    BY <1>1, <1>2, <1>3 DEF Below

(* A function that is computed at x from what it is at next[x], while x is  *)
(* in D, exists when next leads to the end of D.                            *)
Recurs(X, Y, D, next, rank, bound, base, step) ==
    /\ D \in SUBSET X /\ next \in [D -> X] /\ base \in [X -> Y] /\ step \in [D -> [Y -> Y]]
    /\ rank \in [X -> Nat] /\ bound \in Nat /\ \A x \in X : rank[x] < bound
    /\ \A x \in D : rank[next[x]] < rank[x]

\* The function exists, and is what the recursive definition says.
LEMMA RecursionComputes ==
    ASSUME NEW X, NEW Y, NEW D, NEW next, NEW rank, NEW bound, NEW base, NEW step,
           Recurs(X, Y, D, next, rank, bound, base, step)
    PROVE  \E f \in [X -> Y] :
              \A x \in X : f[x] = IF x \in D THEN step[x][f[next[x]]] ELSE base[x]
<1> USE DEF Recurs
<1> DEFINE Value(f, x) == IF x \in D THEN step[x][f[next[x]]] ELSE base[x]
           Upto(k, f) == \A x \in X : rank[x] < k => f[x] = Value(f, x)
           Bad == {k \in Nat : ~ \E f \in [X -> Y] : Upto(k, f)}
<1>1. ASSUME NEW k \in Nat, NEW f \in [X -> Y], Upto(k, f)
      PROVE  \E g \in [X -> Y] : Upto(k + 1, g)
    <2> DEFINE g == [x \in X |-> IF rank[x] = k THEN Value(f, x) ELSE f[x]]
    <2>1. g \in [X -> Y]
        <3> SUFFICES ASSUME NEW x \in X PROVE Value(f, x) \in Y
            OBVIOUS
        <3>1. CASE x \in D
            <4>1. next[x] \in X
                BY <3>1
            <4>2. f[next[x]] \in Y
                BY <4>1
            <4>3. step[x] \in [Y -> Y]
                BY <3>1
            <4> QED
                BY <3>1, <4>2, <4>3
        <3> QED
            BY <3>1
    <2>2. ASSUME NEW x \in X, rank[x] < k + 1
          PROVE  g[x] = Value(g, x)
        <3>1. rank[x] \in Nat
            OBVIOUS
        <3>2. ASSUME x \in D PROVE g[next[x]] = f[next[x]]
            <4>1. next[x] \in X /\ rank[next[x]] \in Nat /\ rank[next[x]] < rank[x]
                BY <3>2
            <4>2. rank[next[x]] # k
                BY <4>1, <3>1, <2>2
            <4> QED
                BY <4>1, <4>2
        <3>3. Value(g, x) = Value(f, x)
            BY <3>2
        <3>4. CASE rank[x] = k
            BY <3>3, <3>4
        <3>5. CASE rank[x] # k
            <4>1. rank[x] < k
                BY <3>1, <3>5, <2>2
            <4>2. f[x] = Value(f, x)
                BY <1>1, <4>1
            <4> QED
                BY <3>3, <3>5, <4>2
        <3> QED
            BY <3>4, <3>5
    <2> QED
        BY <2>1, <2>2
<1>2. \E f \in [X -> Y] : Upto(0, f)
    <2>1. \A x \in X : ~(rank[x] < 0)
        OBVIOUS
    <2> QED
        BY <2>1
<1> HIDE DEF Upto
<1>3. Bad \in SUBSET Nat
    OBVIOUS
<1>4. \A k \in Bad : \E j \in Bad : j < k
    <2> SUFFICES ASSUME NEW k \in Bad PROVE k - 1 \in Bad /\ k - 1 < k
        OBVIOUS
    <2>1. k # 0
        BY <1>2
    <2>2. k - 1 \in Nat /\ k - 1 < k /\ (k - 1) + 1 = k
        BY <2>1
    <2> QED
        BY <1>1, <2>2
<1> HIDE DEF Bad
<1>5. Bad = {}
    BY <1>3, <1>4, NoLeast
<1>6. PICK f \in [X -> Y] : Upto(bound, f)
    BY <1>5 DEF Bad
<1> QED
    BY <1>6 DEF Upto

(* Rounds 1 to n of a loop on states of Y, which keep them in Y: there is a *)
(* function that gives the state after each.                               *)
Rounds(Y, n, start, step) == n \in Nat /\ start \in Y /\ step \in [1 .. n -> [Y -> Y]]

LEMMA RoundsCompute ==
    ASSUME NEW Y, NEW n, NEW start, NEW step, Rounds(Y, n, start, step)
    PROVE  \E f \in [0 .. n -> Y] :
              \A k \in 0 .. n : f[k] = IF k = 0 THEN start ELSE step[k][f[k - 1]]
<1> DEFINE X == 0 .. n
           D == 1 .. n
           next == [k \in D |-> k - 1]
           rank == [k \in X |-> k]
           base == [k \in X |-> start]
<1>0. n \in Nat /\ start \in Y /\ step \in [1 .. n -> [Y -> Y]]
    BY DEF Rounds
<1>1. Recurs(X, Y, D, next, rank, n + 1, base, step)
    BY <1>0 DEF Recurs
<1>2. PICK f \in [X -> Y] : \A x \in X : f[x] = IF x \in D THEN step[x][f[next[x]]] ELSE base[x]
    <2> HIDE DEF X, D, next, rank, base
    <2> QED
        BY <1>1, RecursionComputes
<1>3. \A k \in X : f[k] = IF k = 0 THEN start ELSE step[k][f[k - 1]]
    BY <1>2
<1> QED
    BY <1>3

-----------------------------------------------------------------------------
(* The strings there are.                                                  *)

\* What a character may be: a char of the program, the end, or nobody's.
Chars == 0 .. 255
StringRecord == [block : BOOLEAN, cap : Nat, items : Seq(Chars), end : Chars]

\* len < size with a block, nothing without.
Held(b) == IF b.block THEN Len(b.items) <= b.cap ELSE b.items = <<>> /\ b.cap = 0

\* data[len] == 0
Tidy(b) == b.block => b.end = S!Nul

Sane(b) == b \in StringRecord /\ Held(b)

\* A string that is in order and stays so.
Keeps(b, c) == Sane(c) /\ (Tidy(b) => Tidy(c))

\* What the class comment asks of a string, in two parts.
LEMMA EndedIs == ASSUME NEW b PROVE Ended(b) <=> Held(b) /\ Tidy(b)
BY DEF Ended, Held, Tidy

\* The fields of a string.
LEMMA StringFields ==
    ASSUME NEW b, Sane(b)
    PROVE  /\ b.block \in BOOLEAN /\ b.cap \in Nat /\ b.items \in Seq(Chars) /\ b.end \in Chars
           /\ Len(b.items) \in Nat /\ Len(b.items) <= b.cap
           /\ b.block = FALSE => b.items = <<>> /\ Len(b.items) = 0
           /\ b = [block |-> b.block, cap |-> b.cap, items |-> b.items, end |-> b.end]
<1>1. /\ b.block \in BOOLEAN /\ b.cap \in Nat /\ b.items \in Seq(Chars) /\ b.end \in Chars
      /\ b = [block |-> b.block, cap |-> b.cap, items |-> b.items, end |-> b.end]
    BY DEF Sane, StringRecord
<1>2. Len(b.items) \in Nat /\ Len(b.items) <= b.cap /\ (b.block = FALSE => b.items = <<>> /\ Len(b.items) = 0)
    BY <1>1 DEF Sane, Held
<1> QED
    BY <1>1, <1>2

\* The smaller and the larger of two numbers.
LEMMA LesserOfTwo ==
    ASSUME NEW m \in Int, NEW n \in Int
    PROVE  S!Min({m, n}) = IF m <= n THEN m ELSE n
<1>1. S!Min({m, n}) = CHOOSE x \in {m, n} : \A y \in {m, n} : x <= y
    BY DEF S!Min
<1>2. CASE m <= n
    <2>1. m \in {m, n} /\ \A y \in {m, n} : m <= y
        BY <1>2
    <2>2. \A x \in {m, n} : (\A y \in {m, n} : x <= y) => x = m
        BY <1>2
    <2> QED
        BY <1>1, <1>2, <2>1, <2>2
<1>3. CASE n < m
    <2>1. n \in {m, n} /\ \A y \in {m, n} : n <= y
        BY <1>3
    <2>2. \A x \in {m, n} : (\A y \in {m, n} : x <= y) => x = n
        BY <1>3
    <2>3. ~(m <= n)
        BY <1>3
    <2> QED
        BY <1>1, <2>1, <2>2, <2>3
<1> QED
    BY <1>2, <1>3

LEMMA GreaterOfTwo ==
    ASSUME NEW m \in Int, NEW n \in Int
    PROVE  S!Max({m, n}) = IF m <= n THEN n ELSE m
<1>1. S!Max({m, n}) = CHOOSE x \in {m, n} : \A y \in {m, n} : x >= y
    BY DEF S!Max
<1>2. CASE m <= n
    <2>1. n \in {m, n} /\ \A y \in {m, n} : n >= y
        BY <1>2
    <2>2. \A x \in {m, n} : (\A y \in {m, n} : x >= y) => x = n
        BY <1>2
    <2> QED
        BY <1>1, <1>2, <2>1, <2>2
<1>3. CASE n < m
    <2>1. m \in {m, n} /\ \A y \in {m, n} : m >= y
        BY <1>3
    <2>2. \A x \in {m, n} : (\A y \in {m, n} : x >= y) => x = m
        BY <1>3
    <2>3. ~(m <= n)
        BY <1>3
    <2> QED
        BY <1>1, <2>1, <2>2, <2>3
<1> QED
    BY <1>2, <1>3

\* A sequence of characters given place by place.
LEMMA CharsPlaced ==
    ASSUME NEW n \in Nat, NEW w, w = [i \in 1 .. n |-> w[i]], \A i \in 1 .. n : w[i] \in Chars
    PROVE  w \in Seq(Chars) /\ Len(w) = n
<1>1. w \in [1 .. n -> Chars]
    OBVIOUS
<1> QED
    BY <1>1, SeqDef, LenProperties

\* The part of a sequence up to a place.
LEMMA Fronts ==
    ASSUME NEW X, NEW s \in Seq(X), NEW n \in 0 .. Len(s)
    PROVE  /\ SubSeq(s, 1, n) \in Seq(X) /\ Len(SubSeq(s, 1, n)) = n
           /\ \A i \in 1 .. n : SubSeq(s, 1, n)[i] = s[i]
           /\ n = Len(s) => SubSeq(s, 1, n) = s
<1>1. SubSeq(s, 1, n) \in Seq(X) /\ Len(SubSeq(s, 1, n)) = n /\ \A i \in 1 .. n : SubSeq(s, 1, n)[i] = s[i]
    OBVIOUS
<1>2. ASSUME n = Len(s) PROVE SubSeq(s, 1, n) = s
    BY <1>1, <1>2, SeqEqual
<1> QED
    BY <1>1, <1>2

-----------------------------------------------------------------------------
(* The steps all methods are made of.                                      *)

\* A string in a block, with these characters and the end behind them.
Whole(c, w) == c.block = TRUE /\ c.items = w /\ Sane(c) /\ Tidy(c)

\* Other characters in the same block, with the zero behind them
LEMMA WithItemsIs ==
    ASSUME NEW b, Sane(b), b.block, NEW w \in Seq(Chars), Len(w) <= b.cap
    PROVE  Whole(S!WithItems(b, w), w) /\ S!WithItems(b, w).cap = b.cap
<1> DEFINE c == S!WithItems(b, w)
           c1 == [b EXCEPT !.items = w]
           c2 == [c1 EXCEPT !.end = S!Nul]
<1>1. b \in StringRecord /\ S!Nul \in Chars
    BY DEF Sane, S!Nul, Chars
<1>2. c1 \in StringRecord /\ c1.block = b.block /\ c1.cap = b.cap /\ c1.items = w
    BY <1>1 DEF StringRecord
<1> HIDE DEF c1
<1>3. c2 \in StringRecord /\ c2.block = b.block /\ c2.cap = b.cap /\ c2.items = w /\ c2.end = S!Nul
    BY <1>1, <1>2 DEF StringRecord
<1> HIDE DEF c2
<1>4. c = c2
    BY DEF S!WithItems, c2, c1
<1> HIDE DEF c
<1>5. Held(c) /\ Tidy(c)
    BY <1>3, <1>4 DEF Held, Tidy
<1>6. Whole(c, w) /\ c.cap = b.cap
    BY <1>3, <1>4, <1>5 DEF Sane, Whole
<1> QED
    BY <1>6 DEF c

\* setCapacity() cuts what does not fit.
CapacityIs(b, n, c) ==
    /\ Whole(c, SubSeq(b.items, 1, IF n <= Len(b.items) THEN n ELSE Len(b.items)))
    /\ c.cap = n /\ (Len(b.items) <= n => c.items = b.items)

\* setCapacity() keeps as many characters as fit.
LEMMA SetCapacityIs ==
    ASSUME NEW b, Sane(b), NEW n \in Nat
    PROVE  CapacityIs(b, n, S!SetCapacity(b, n))
<1> DEFINE c == S!SetCapacity(b, n)
           m == IF n <= Len(b.items) THEN n ELSE Len(b.items)
           w == SubSeq(b.items, 1, m)
<1>1. b.items \in Seq(Chars) /\ Len(b.items) \in Nat
    BY StringFields
<1>2. S!Min({n, Len(b.items)}) = m
    BY <1>1, LesserOfTwo
<1>3. m \in 0 .. Len(b.items) /\ m <= n /\ (Len(b.items) <= n => m = Len(b.items))
    BY <1>1
<1>4. c = [block |-> TRUE, cap |-> n, items |-> w, end |-> S!Nul]
    BY <1>2 DEF S!SetCapacity
<1> HIDE DEF m, c
<1>5. w \in Seq(Chars) /\ Len(w) = m /\ (Len(b.items) <= n => w = b.items)
    BY <1>1, <1>3, Fronts
<1> HIDE DEF w
<1>6. c \in StringRecord /\ c.block = TRUE /\ c.cap = n /\ c.items = w /\ c.end = S!Nul
    BY <1>4, <1>5 DEF StringRecord, S!Nul, Chars
<1>7. Held(c) /\ Tidy(c)
    BY <1>3, <1>5, <1>6 DEF Held, Tidy
<1>8. Whole(c, w)
    BY <1>6, <1>7 DEF Sane, Whole
<1>9. CapacityIs(b, n, c)
    BY <1>5, <1>6, <1>8 DEF CapacityIs, w, m
<1> QED
    BY <1>9 DEF c

\* What grows has room for what was asked.
LEMMA GrownIsEnough ==
    ASSUME NEW n \in Nat
    PROVE  S!Grown(n) \in Nat /\ n <= S!Grown(n)
<1>1. n \div 10 \in Nat
    OBVIOUS
<1> QED
    BY <1>1, StringsAssumption DEF S!Grown

\* The promise of RoomFor, for all cases.
RoomIs(b, last, c) ==
    /\ Sane(c) /\ (Tidy(b) => Tidy(c)) /\ c.block = TRUE /\ c.items = b.items
    /\ last <= c.cap /\ b.cap <= c.cap

\* A method gets the room it asks for, and keeps the characters.
LEMMA RoomForIs ==
    ASSUME NEW b, Sane(b), NEW last \in Nat, NEW needed \in Nat, last <= needed
    PROVE  RoomIs(b, last, S!RoomFor(b, last, needed))
<1> DEFINE g == S!Grown(needed)
           c == S!RoomFor(b, last, needed)
<1>1. b.block \in BOOLEAN /\ b.cap \in Nat /\ Len(b.items) \in Nat /\ Len(b.items) <= b.cap
      /\ (b.block = FALSE => b.cap = 0)
    BY StringFields DEF Sane, Held
<1>2. g \in Nat /\ needed <= g
    BY GrownIsEnough
<1>3. CASE b.block = FALSE \/ b.cap + 1 <= last
    <2>1. c = S!SetCapacity(b, g)
        BY <1>1, <1>3 DEF S!RoomFor, S!ExtendCapacity
    <2> HIDE DEF g, c
    <2>2. Len(b.items) <= g /\ last <= g /\ b.cap <= g
        BY <1>1, <1>2, <1>3
    <2>3. CapacityIs(b, g, c)
        BY <1>2, <2>1, SetCapacityIs
    <2>4. RoomIs(b, last, c)
        BY <2>2, <2>3 DEF RoomIs, CapacityIs, Whole
    <2> QED
        BY <2>4 DEF c
<1>4. CASE b.block = TRUE /\ last <= b.cap
    <2>1. ~(b.cap + 1 <= last)
        BY <1>1, <1>4
    <2>2. c = b
        BY <1>4, <2>1 DEF S!RoomFor
    <2>3. b.cap <= b.cap
        BY <1>1
    <2> QED
        BY <1>4, <2>2, <2>3 DEF RoomIs
<1>5. last <= b.cap \/ b.cap + 1 <= last
    BY <1>1
<1>6. b.block = TRUE \/ b.block = FALSE
    BY <1>1
<1> HIDE DEF g, c
<1>7. RoomIs(b, last, c)
    BY <1>3, <1>4, <1>5, <1>6, Zenon DEF c
<1> QED
    BY <1>7 DEF c

\* What takes the place of the characters from p to q of s.
Spliced(s, p, t, q) == V!CutAt(s, p) \o t \o V!ChopFront(s, q)

LEMMA SplicedIs ==
    ASSUME NEW s \in Seq(Chars), NEW t \in Seq(Chars), NEW q \in 0 .. Len(s), NEW p \in 0 .. q
    PROVE  /\ Spliced(s, p, t, q) \in Seq(Chars)
           /\ Len(Spliced(s, p, t, q)) = p + Len(t) + Len(s) - q
           /\ \A i \in 1 .. p + Len(t) + Len(s) - q :
                Spliced(s, p, t, q)[i] = IF i <= p THEN s[i]
                                         ELSE IF i <= p + Len(t) THEN t[i - p]
                                         ELSE s[i - p - Len(t) + q]
<1> DEFINE a == V!CutAt(s, p)
           z == V!ChopFront(s, q)
           at == a \o t
           w == at \o z
<1>0. Len(s) \in Nat /\ Len(t) \in Nat /\ p \in Nat /\ q \in Nat /\ p <= q /\ q <= Len(s)
    OBVIOUS
<1>1. a \in Seq(Chars) /\ Len(a) = p /\ \A i \in 1 .. p : a[i] = s[i]
    BY Fronts DEF V!CutAt
<1>2. z \in Seq(Chars) /\ Len(z) = Len(s) - q /\ \A i \in 1 .. Len(s) - q : z[i] = s[q + i]
    <2>1. \A i \in q + 1 .. Len(s) : s[i] \in Chars
        BY <1>0, ElementOfSeq
    <2> QED
        BY <1>0, <2>1, SubSeqProperties DEF V!ChopFront
<1> HIDE DEF a, z
<1>3. at \in Seq(Chars) /\ Len(at) = p + Len(t)
      /\ \A i \in 1 .. p + Len(t) : at[i] = IF i <= p THEN s[i] ELSE t[i - p]
    <2>1. at \in Seq(Chars) /\ Len(at) = p + Len(t)
          /\ \A i \in 1 .. p + Len(t) : at[i] = IF i <= p THEN a[i] ELSE t[i - p]
        <3>1. /\ a \o t \in Seq(Chars) /\ Len(a \o t) = Len(a) + Len(t)
              /\ \A i \in 1 .. Len(a) + Len(t) : (a \o t)[i] = IF i <= Len(a) THEN a[i] ELSE t[i - Len(a)]
            BY <1>1, ConcatProperties
        <3> QED
            BY <1>1, <3>1
    <2> QED
        BY <1>0, <1>1, <2>1
<1> HIDE DEF at
<1>4. /\ w \in Seq(Chars) /\ Len(w) = p + Len(t) + (Len(s) - q)
      /\ \A i \in 1 .. p + Len(t) + (Len(s) - q) :
            w[i] = IF i <= p + Len(t) THEN at[i] ELSE z[i - (p + Len(t))]
    <2>1. /\ at \o z \in Seq(Chars) /\ Len(at \o z) = Len(at) + Len(z)
          /\ \A i \in 1 .. Len(at) + Len(z) :
                (at \o z)[i] = IF i <= Len(at) THEN at[i] ELSE z[i - Len(at)]
        BY <1>2, <1>3, ConcatProperties
    <2> QED
        BY <1>2, <1>3, <2>1
<1> HIDE DEF w
<1>5. \A i \in 1 .. p + Len(t) + Len(s) - q :
        w[i] = IF i <= p THEN s[i] ELSE IF i <= p + Len(t) THEN t[i - p]
               ELSE s[i - p - Len(t) + q]
    <2> SUFFICES ASSUME NEW i \in 1 .. p + Len(t) + Len(s) - q
        PROVE w[i] = IF i <= p THEN s[i] ELSE IF i <= p + Len(t) THEN t[i - p]
               ELSE s[i - p - Len(t) + q]
        OBVIOUS
    <2>1. i \in 1 .. p + Len(t) + (Len(s) - q)
        BY <1>0
    <2>2. CASE i <= p + Len(t)
        <3>1. i \in 1 .. p + Len(t)
            BY <1>0, <2>2
        <3> QED
            BY <1>3, <1>4, <2>1, <2>2, <3>1
    <2>3. CASE ~(i <= p + Len(t))
        <3>1. i - (p + Len(t)) \in 1 .. Len(s) - q /\ q + (i - (p + Len(t))) = i - p - Len(t) + q
              /\ ~(i <= p)
            BY <1>0, <2>1, <2>3
        <3>2. w[i] = z[i - (p + Len(t))]
            BY <1>4, <2>1, <2>3
        <3>3. z[i - (p + Len(t))] = s[q + (i - (p + Len(t)))]
            BY <1>2, <3>1
        <3> QED
            BY <2>3, <3>1, <3>2, <3>3
    <2> QED
        BY <2>2, <2>3
<1>6. Len(w) = p + Len(t) + Len(s) - q /\ w \in Seq(Chars)
    BY <1>0, <1>4
<1> QED
    BY <1>5, <1>6 DEF Spliced, w, at, a, z

\* A sequence that has these characters at its places is the splice.
LEMMA IsSpliced ==
    ASSUME NEW s \in Seq(Chars), NEW t \in Seq(Chars), NEW q \in 0 .. Len(s), NEW p \in 0 .. q,
           NEW w \in Seq(Chars), Len(w) = p + Len(t) + Len(s) - q,
           \A i \in 1 .. Len(w) :
                w[i] = IF i <= p THEN s[i] ELSE IF i <= p + Len(t) THEN t[i - p]
                       ELSE s[i - p - Len(t) + q]
    PROVE  w = Spliced(s, p, t, q)
<1> DEFINE v == Spliced(s, p, t, q)
<1>1. v \in Seq(Chars) /\ Len(v) = Len(w)
    BY SplicedIs
<1>2. \A i \in 1 .. Len(w) : w[i] = v[i]
    BY SplicedIs
<1> HIDE DEF v
<1>3. w = v
    BY <1>1, <1>2, SeqEqual
<1> QED
    BY <1>3 DEF v

-----------------------------------------------------------------------------
\* shiftForward()
Forward(s, from, until, offset) ==
    [i \in 1 .. IF until = Len(s) THEN Len(s) - offset ELSE Len(s) |->
        IF i > from - offset /\ i <= until - offset THEN s[i + offset] ELSE s[i]]

LEMMA ForwardIs ==
    ASSUME NEW s \in Seq(Chars), NEW until \in 0 .. Len(s), NEW from \in 0 .. until, NEW offset \in 0 .. from
    PROVE  /\ Forward(s, from, until, offset) \in Seq(Chars)
           /\ Len(Forward(s, from, until, offset)) = IF until = Len(s) THEN Len(s) - offset ELSE Len(s)
           /\ until = Len(s) => Forward(s, from, until, offset) = Spliced(s, from - offset, <<>>, from)
<1> DEFINE n == IF until = Len(s) THEN Len(s) - offset ELSE Len(s)
           w == Forward(s, from, until, offset)
<1>0. Len(s) \in Nat /\ until \in Nat /\ from \in Nat /\ offset \in Nat
      /\ until <= Len(s) /\ from <= until /\ offset <= from
    OBVIOUS
<1>1. n \in Nat /\ n <= Len(s)
    BY <1>0
<1>2. w = [i \in 1 .. n |-> w[i]]
      /\ \A i \in 1 .. n : w[i] = IF i > from - offset /\ i <= until - offset THEN s[i + offset] ELSE s[i]
    BY DEF Forward
<1>9. until = Len(s) => n = Len(s) - offset
    OBVIOUS
<1> HIDE DEF w, n
<1>3. \A i \in 1 .. n : w[i] \in Chars
    <2> SUFFICES ASSUME NEW i \in 1 .. n PROVE w[i] \in Chars
        OBVIOUS
    <2>1. CASE i > from - offset /\ i <= until - offset
        <3>1. i + offset \in 1 .. Len(s)
            BY <1>0, <1>1, <2>1
        <3> QED
            BY <1>2, <2>1, <3>1, ElementOfSeq
    <2>2. CASE ~(i > from - offset /\ i <= until - offset)
        <3>1. i \in 1 .. Len(s)
            BY <1>0, <1>1
        <3> QED
            BY <1>2, <2>2, <3>1, ElementOfSeq
    <2> QED
        BY <2>1, <2>2
<1>4. w \in Seq(Chars) /\ Len(w) = n
    BY <1>1, <1>2, <1>3, CharsPlaced
<1>5. ASSUME until = Len(s) PROVE w = Spliced(s, from - offset, <<>>, from)
    <2>1. from - offset \in 0 .. from /\ from \in 0 .. Len(s) /\ <<>> \in Seq(Chars) /\ Len(<<>>) = 0
        BY <1>0
    <2>2. Len(w) = (from - offset) + Len(<<>>) + Len(s) - from
        BY <1>0, <1>4, <1>9, <1>5, <2>1
    <2>3. ASSUME NEW i \in 1 .. Len(w)
          PROVE  w[i] = IF i <= from - offset THEN s[i]
                        ELSE IF i <= (from - offset) + Len(<<>>) THEN <<>>[i - (from - offset)]
                        ELSE s[i - (from - offset) - Len(<<>>) + from]
        <3>1. i \in 1 .. n /\ i <= Len(s) - offset
            BY <1>4, <1>9, <1>5
        <3>2. CASE i <= from - offset
            <4>1. ~(i > from - offset)
                BY <1>0, <3>1, <3>2
            <4> QED
                BY <1>2, <3>1, <3>2, <4>1
        <3>3. CASE ~(i <= from - offset)
            <4>1. i > from - offset /\ i <= until - offset
                  /\ i - (from - offset) - Len(<<>>) + from = i + offset
                  /\ ~(i <= (from - offset) + Len(<<>>))
                BY <1>0, <2>1, <3>1, <3>3, <1>5
            <4> QED
                BY <1>2, <3>1, <3>3, <4>1
        <3> QED
            BY <3>2, <3>3
    <2> DEFINE p == from - offset
               t == <<>>
    <2>4. /\ p \in 0 .. from /\ from \in 0 .. Len(s) /\ t \in Seq(Chars)
          /\ Len(w) = p + Len(t) + Len(s) - from
        BY <2>1, <2>2
    <2>5. \A i \in 1 .. Len(w) : w[i] = IF i <= p THEN s[i] ELSE IF i <= p + Len(t) THEN t[i - p]
                                       ELSE s[i - p - Len(t) + from]
        BY <2>3
    <2> HIDE DEF p, t
    <2>6. w = Spliced(s, p, t, from)
        BY <1>4, <2>4, <2>5, IsSpliced
    <2> QED
        BY <2>6 DEF p, t
<1> QED
    BY <1>4, <1>5 DEF w, n

\* shiftForward() does that to the characters, if there is a block.
LEMMA ShiftForwardIs ==
    ASSUME NEW b, Sane(b), NEW until \in 0 .. Len(b.items), NEW from \in 0 .. until, NEW offset \in 0 .. from
    PROVE  /\ b.block = FALSE => S!ShiftForward(b, from, until, offset) = b
           /\ b.block = TRUE =>
                Whole(S!ShiftForward(b, from, until, offset), Forward(b.items, from, until, offset))
<1>1. b.items \in Seq(Chars) /\ Len(b.items) \in Nat /\ Len(b.items) <= b.cap /\ b.cap \in Nat
    BY StringFields
<1>2. ASSUME b.block = FALSE PROVE S!ShiftForward(b, from, until, offset) = b
    BY <1>2 DEF S!ShiftForward
<1>3. ASSUME b.block = TRUE
      PROVE  Whole(S!ShiftForward(b, from, until, offset), Forward(b.items, from, until, offset))
    <2> DEFINE w == Forward(b.items, from, until, offset)
    <2>1. S!ShiftForward(b, from, until, offset) = S!WithItems(b, w)
        BY <1>3 DEF S!ShiftForward, Forward
    <2>2. w \in Seq(Chars) /\ Len(w) = IF until = Len(b.items) THEN Len(b.items) - offset ELSE Len(b.items)
        BY <1>1, ForwardIs
    <2> HIDE DEF w
    <2>3. offset \in Nat
        OBVIOUS
    <2>4. Len(w) <= b.cap
        BY <1>1, <2>2, <2>3
    <2>5. Whole(S!WithItems(b, w), w)
        BY <1>3, <2>2, <2>4, WithItemsIs
    <2> QED
        BY <2>1, <2>5 DEF w
<1> QED
    BY <1>2, <1>3

-----------------------------------------------------------------------------
\* shiftBackward()
Backward(s, from, until, offset) ==
    [i \in 1 .. IF Len(s) <= until + offset THEN until + offset ELSE Len(s) |->
        IF i > from + offset /\ i <= until + offset THEN s[i - offset]
        ELSE IF i <= Len(s) THEN s[i] ELSE S!Garbage]

LEMMA BackwardIs ==
    ASSUME NEW s \in Seq(Chars), NEW until \in 0 .. Len(s), NEW from \in 0 .. until, NEW offset \in Nat
    PROVE  /\ Backward(s, from, until, offset) \in Seq(Chars)
           /\ Len(Backward(s, from, until, offset)) =
                IF Len(s) <= until + offset THEN until + offset ELSE Len(s)
<1> DEFINE n == IF Len(s) <= until + offset THEN until + offset ELSE Len(s)
           w == Backward(s, from, until, offset)
<1>0. Len(s) \in Nat /\ until \in Nat /\ from \in Nat /\ until <= Len(s) /\ from <= until
    OBVIOUS
<1>1. n \in Nat
    BY <1>0
<1>2. w = [i \in 1 .. n |-> w[i]]
      /\ \A i \in 1 .. n : w[i] = IF i > from + offset /\ i <= until + offset THEN s[i - offset]
                                  ELSE IF i <= Len(s) THEN s[i] ELSE S!Garbage
    BY DEF Backward
<1> HIDE DEF w, n
<1>3. \A i \in 1 .. n : w[i] \in Chars
    <2> SUFFICES ASSUME NEW i \in 1 .. n PROVE w[i] \in Chars
        OBVIOUS
    <2>1. CASE i > from + offset /\ i <= until + offset
        <3>1. i - offset \in 1 .. Len(s)
            BY <1>0, <1>1, <2>1
        <3> QED
            BY <1>2, <2>1, <3>1, ElementOfSeq
    <2>2. CASE ~(i > from + offset /\ i <= until + offset) /\ i <= Len(s)
        <3>1. i \in 1 .. Len(s)
            BY <1>0, <1>1, <2>2
        <3> QED
            BY <1>2, <2>2, <3>1, ElementOfSeq
    <2>3. CASE ~(i > from + offset /\ i <= until + offset) /\ ~(i <= Len(s))
        BY <1>2, <2>3 DEF S!Garbage, Chars
    <2> QED
        BY <2>1, <2>2, <2>3
<1>4. w \in Seq(Chars) /\ Len(w) = n
    BY <1>1, <1>2, <1>3, CharsPlaced
<1> QED
    BY <1>4 DEF w, n

\* shiftBackward() does that to the characters, and gets a block for it.
LEMMA ShiftBackwardIs ==
    ASSUME NEW b, Sane(b), NEW until \in 0 .. Len(b.items), NEW from \in 0 .. until, NEW offset \in Nat
    PROVE  Whole(S!ShiftBackward(b, from, until, offset), Backward(b.items, from, until, offset))
<1> DEFINE room == S!RoomFor(b, until + offset, Len(b.items) + offset)
           w == Backward(b.items, from, until, offset)
<1>1. b.items \in Seq(Chars) /\ Len(b.items) \in Nat /\ Len(b.items) <= b.cap /\ b.cap \in Nat
    BY StringFields
<1>2. until + offset \in Nat /\ Len(b.items) + offset \in Nat /\ until + offset <= Len(b.items) + offset
    BY <1>1
<1>3. RoomIs(b, until + offset, room)
    BY <1>2, RoomForIs
<1>4. Sane(room) /\ room.block = TRUE /\ room.items = b.items /\ until + offset <= room.cap
      /\ b.cap <= room.cap
    BY <1>3 DEF RoomIs
<1>5. S!Max({Len(b.items), until + offset}) =
        IF Len(b.items) <= until + offset THEN until + offset ELSE Len(b.items)
    BY <1>1, <1>2, GreaterOfTwo
<1> HIDE DEF room
<1>6. S!ShiftBackward(b, from, until, offset) = S!WithItems(room, w)
    BY <1>4, <1>5 DEF S!ShiftBackward, Backward, room
<1>7. w \in Seq(Chars)
      /\ Len(w) = IF Len(b.items) <= until + offset THEN until + offset ELSE Len(b.items)
    BY <1>1, BackwardIs
<1> HIDE DEF w
<1>8. Len(w) <= room.cap
    <2>1. room.cap \in Nat
        BY <1>4, StringFields
    <2> QED
        BY <1>1, <1>2, <1>4, <1>7, <2>1
<1>9. Whole(S!WithItems(room, w), w)
    BY <1>4, <1>7, <1>8, WithItemsIs
<1> QED
    BY <1>6, <1>9 DEF w

-----------------------------------------------------------------------------
\* memcpy() into the characters there are
Over(s, pos, str) ==
    [i \in DOMAIN s |-> IF i > pos /\ i <= pos + Len(str) THEN str[i - pos] ELSE s[i]]

LEMMA OverIs ==
    ASSUME NEW s \in Seq(Chars), NEW pos \in Int, NEW str \in Seq(Chars)
    PROVE  /\ Over(s, pos, str) \in Seq(Chars) /\ Len(Over(s, pos, str)) = Len(s)
           /\ \A i \in 1 .. Len(s) :
                Over(s, pos, str)[i] =
                    IF i > pos /\ i <= pos + Len(str) THEN str[i - pos] ELSE s[i]
           /\ 0 <= pos /\ pos + Len(str) <= Len(s) =>
                Over(s, pos, str) = Spliced(s, pos, str, pos + Len(str))
<1> DEFINE w == Over(s, pos, str)
<1>0. Len(s) \in Nat /\ DOMAIN s = 1 .. Len(s) /\ Len(str) \in Nat
    BY LenProperties
<1>1. w = [i \in 1 .. Len(s) |-> w[i]]
      /\ \A i \in 1 .. Len(s) : w[i] = IF i > pos /\ i <= pos + Len(str) THEN str[i - pos] ELSE s[i]
    BY <1>0 DEF Over
<1> HIDE DEF w
<1>2. \A i \in 1 .. Len(s) : w[i] \in Chars
    <2> SUFFICES ASSUME NEW i \in 1 .. Len(s) PROVE w[i] \in Chars
        OBVIOUS
    <2>1. CASE i > pos /\ i <= pos + Len(str)
        <3>1. i - pos \in 1 .. Len(str)
            BY <1>0, <2>1
        <3> QED
            BY <1>1, <2>1, <3>1, ElementOfSeq
    <2>2. CASE ~(i > pos /\ i <= pos + Len(str))
        BY <1>1, <2>2, ElementOfSeq
    <2> QED
        BY <2>1, <2>2
<1>3. w \in Seq(Chars) /\ Len(w) = Len(s)
    BY <1>0, <1>1, <1>2, CharsPlaced
<1>4. ASSUME 0 <= pos, pos + Len(str) <= Len(s)
      PROVE  w = Spliced(s, pos, str, pos + Len(str))
    <2>1. pos + Len(str) \in 0 .. Len(s) /\ pos \in 0 .. pos + Len(str)
          /\ Len(w) = pos + Len(str) + Len(s) - (pos + Len(str))
        BY <1>0, <1>3, <1>4
    <2>2. ASSUME NEW i \in 1 .. Len(w)
          PROVE  w[i] = IF i <= pos THEN s[i] ELSE IF i <= pos + Len(str) THEN str[i - pos]
                        ELSE s[i - pos - Len(str) + (pos + Len(str))]
        <3>1. i \in 1 .. Len(s) /\ i - pos - Len(str) + (pos + Len(str)) = i
              /\ (i > pos <=> ~(i <= pos))
            BY <1>0, <1>3
        <3> QED
            BY <1>1, <3>1
    <2> QED
        BY <1>3, <2>1, <2>2, IsSpliced
<1> QED
    BY <1>1, <1>3, <1>4 DEF w

\* The string with other characters, as many, and the end it had.
Rewritten(b, w, c) ==
    /\ Sane(c) /\ (Tidy(b) => Tidy(c)) /\ c.items = w
    /\ c.block = b.block /\ c.cap = b.cap /\ c.end = b.end

\* Other characters, as many as before: the end is not touched.
LEMMA RewrittenIs ==
    ASSUME NEW b, Sane(b), NEW w \in Seq(Chars), Len(w) = Len(b.items)
    PROVE  Rewritten(b, w, [b EXCEPT !.items = w])
<1> DEFINE c == [b EXCEPT !.items = w]
<1>1. c \in StringRecord /\ c.block = b.block /\ c.cap = b.cap /\ c.items = w /\ c.end = b.end
    BY DEF Sane, StringRecord
<1>2. Len(b.items) \in Nat /\ (b.block = TRUE => Len(b.items) <= b.cap)
      /\ (b.block = FALSE => b.items = <<>> /\ b.cap = 0) /\ b.block \in BOOLEAN
    BY StringFields DEF Sane, Held
<1> HIDE DEF c
<1>3. Held(c)
    <2>1. CASE b.block = TRUE
        BY <1>1, <1>2, <2>1 DEF Held
    <2>2. CASE b.block = FALSE
        <3>1. w = <<>>
            BY <1>2, <2>2, EmptySeq
        <3> QED
            BY <1>1, <1>2, <2>2, <3>1 DEF Held
    <2> QED
        BY <1>2, <2>1, <2>2
<1>4. Tidy(b) => Tidy(c)
    BY <1>1 DEF Tidy
<1> QED
    BY <1>1, <1>3, <1>4 DEF Rewritten, Sane, c

\* memcpy into the characters there are
LEMMA WrittenIs ==
    ASSUME NEW b, Sane(b), NEW pos \in Int, NEW str \in Seq(Chars)
    PROVE  Rewritten(b, Over(b.items, pos, str), S!Written(b, pos, str))
<1>1. b.items \in Seq(Chars)
    BY StringFields
<1>2. Over(b.items, pos, str) \in Seq(Chars) /\ Len(Over(b.items, pos, str)) = Len(b.items)
    BY <1>1, OverIs
<1>3. S!Written(b, pos, str) = [b EXCEPT !.items = Over(b.items, pos, str)]
    <2>1. S!Written(b, pos, str) =
            [b EXCEPT !.items = [i \in DOMAIN b.items |->
                IF i > pos /\ i <= pos + Len(str) THEN str[i - pos] ELSE b.items[i]]]
        BY DEF S!Written, Sane, StringRecord
    <2> QED
        BY <2>1 DEF Over
<1> QED
    BY <1>2, <1>3, RewrittenIs

\* What an operation is to give: a string in order with these characters, and
\* the end where there was one.
Gives(b, w, c) == Sane(c) /\ (Tidy(b) => Tidy(c)) /\ c.items = w
Ends(b, w, outcome) == outcome.raises = FALSE /\ outcome.ruins = FALSE /\ Gives(b, w, outcome.self)

\* The three ways to say what a method gives.
LEMMA WholeGives == ASSUME NEW b, NEW c, NEW w, Whole(c, w) PROVE Gives(b, w, c)
BY DEF Whole, Gives

LEMMA RewrittenGives == ASSUME NEW b, NEW c, NEW w, Rewritten(b, w, c) PROVE Gives(b, w, c)
BY DEF Rewritten, Gives

LEMMA SameGives == ASSUME NEW b, Sane(b) PROVE Gives(b, b.items, b)
BY DEF Gives

LEMMA DoneEnds == ASSUME NEW b, NEW c, NEW w, Gives(b, w, c) PROVE Ends(b, w, S!Done(c))
BY DEF Ends, S!Done

LEMMA EmptyIsSane == Sane(S!Empty) /\ Tidy(S!Empty) /\ S!Empty.items = <<>> /\ S!Empty.block = FALSE
<1>1. S!Empty \in StringRecord
    BY EmptySeq DEF S!Empty, StringRecord, S!Nul, Chars
<1>2. Held(S!Empty) /\ Tidy(S!Empty)
    BY DEF S!Empty, Held, Tidy
<1> QED
    BY <1>1, <1>2 DEF Sane, S!Empty

\* Characters of a string.
LEMMA Parts ==
    ASSUME NEW s \in Seq(Chars), NEW n \in 0 .. Len(s)
    PROVE  /\ V!CutAt(s, n) \in Seq(Chars) /\ Len(V!CutAt(s, n)) = n
           /\ \A i \in 1 .. n : V!CutAt(s, n)[i] = s[i]
           /\ V!ChopFront(s, n) \in Seq(Chars) /\ Len(V!ChopFront(s, n)) = Len(s) - n
           /\ \A i \in 1 .. Len(s) - n : V!ChopFront(s, n)[i] = s[n + i]
           /\ n = 0 => V!CutAt(s, n) = <<>> /\ V!ChopFront(s, n) = s
           /\ n = Len(s) => V!CutAt(s, n) = s /\ V!ChopFront(s, n) = <<>>
<1>0. Len(s) \in Nat /\ n \in Nat /\ n <= Len(s)
    OBVIOUS
<1>1. V!CutAt(s, n) \in Seq(Chars) /\ Len(V!CutAt(s, n)) = n /\ (\A i \in 1 .. n : V!CutAt(s, n)[i] = s[i])
      /\ (n = Len(s) => V!CutAt(s, n) = s)
    BY Fronts DEF V!CutAt
<1>2. /\ V!ChopFront(s, n) \in Seq(Chars) /\ Len(V!ChopFront(s, n)) = Len(s) - n
      /\ \A i \in 1 .. Len(s) - n : V!ChopFront(s, n)[i] = s[n + i]
    <2>1. \A i \in n + 1 .. Len(s) : s[i] \in Chars
        BY <1>0, ElementOfSeq
    <2> QED
        BY <1>0, <2>1, SubSeqProperties DEF V!ChopFront
<1>3. n = 0 => V!CutAt(s, n) = <<>>
    BY <1>1, EmptySeq
<1>4. ASSUME n = 0 PROVE V!ChopFront(s, n) = s
    BY <1>4, SubSeqFull DEF V!ChopFront
<1>5. n = Len(s) => V!ChopFront(s, n) = <<>>
    BY <1>0, <1>2, EmptySeq
<1> QED
    BY <1>1, <1>2, <1>3, <1>4, <1>5

\* A splice that puts nothing, and one that takes nothing away
LEMMA SplicedCases ==
    ASSUME NEW s \in Seq(Chars), NEW t \in Seq(Chars), NEW q \in 0 .. Len(s), NEW p \in 0 .. q
    PROVE  /\ Spliced(s, p, <<>>, q) = V!CutAt(s, p) \o V!ChopFront(s, q)
           /\ Spliced(s, 0, <<>>, q) = V!ChopFront(s, q)
           /\ Spliced(s, 0, t, 0) = t \o s
<1>0. Len(s) \in Nat /\ p \in 0 .. Len(s) /\ 0 \in 0 .. Len(s) /\ <<>> \in Seq(Chars)
    OBVIOUS
<1>1. Spliced(s, p, <<>>, q) = V!CutAt(s, p) \o V!ChopFront(s, q)
    BY <1>0, Parts, ConcatEmptySeq DEF Spliced
<1>2. V!CutAt(s, 0) = <<>> /\ V!ChopFront(s, 0) = s /\ V!ChopFront(s, q) \in Seq(Chars)
    BY <1>0, Parts
<1>3. Spliced(s, 0, <<>>, q) = V!ChopFront(s, q)
    BY <1>0, <1>2, ConcatEmptySeq DEF Spliced
<1>4. Spliced(s, 0, t, 0) = t \o s
    BY <1>0, <1>2, ConcatEmptySeq DEF Spliced
<1> QED
    BY <1>1, <1>3, <1>4

-----------------------------------------------------------------------------
(* Cutting and chopping.                                                   *)
LEMMA ForwardEnds ==
    ASSUME NEW b, Sane(b), NEW from \in 0 .. Len(b.items), NEW offset \in 0 .. from
    PROVE  Gives(b, Spliced(b.items, from - offset, <<>>, from),
                 S!ShiftForward(b, from, Len(b.items), offset))
<1> DEFINE s == b.items
           c == S!ShiftForward(b, from, Len(b.items), offset)
<1>1. s \in Seq(Chars) /\ Len(s) \in Nat /\ b.block \in BOOLEAN /\ (b.block = FALSE => s = <<>> /\ Len(s) = 0)
    BY StringFields
<1>2. Len(s) \in 0 .. Len(s) /\ from \in 0 .. Len(s) /\ from \in Nat /\ offset \in Nat /\ offset <= from /\ from <= Len(s)
    BY <1>1
<1>3. Forward(s, from, Len(s), offset) = Spliced(s, from - offset, <<>>, from)
    BY <1>1, <1>2, ForwardIs
<1>4. CASE b.block = TRUE
    <2>1. Whole(c, Forward(s, from, Len(s), offset))
        BY <1>2, <1>4, ShiftForwardIs
    <2> QED
        BY <1>3, <2>1, WholeGives
<1>5. CASE b.block = FALSE
    <2>1. c = b
        BY <1>2, <1>5, ShiftForwardIs
    <2>2. from = 0 /\ offset = 0 /\ from - offset = 0
        BY <1>1, <1>2, <1>5
    <2>3. <<>> \in Seq(Chars) /\ 0 \in 0 .. Len(s) /\ 0 \in 0 .. 0
        BY <1>1
    <2>4. Spliced(s, 0, <<>>, 0) = V!ChopFront(s, 0)
        BY <1>1, <2>3, SplicedCases
    <2>5. V!ChopFront(s, 0) = s
        BY <1>1, <2>3, Parts
    <2> QED
        BY <2>1, <2>2, <2>4, <2>5, SameGives
<1> HIDE DEF c, s
<1> QED
    BY <1>1, <1>4, <1>5 DEF c, s

\* chopFront() drops so many characters in front, or throws.
LEMMA ChopFrontIs ==
    ASSUME NEW b, Sane(b), NEW n \in Nat
    PROVE  /\ n <= Len(b.items) => Ends(b, V!ChopFront(b.items, n), S!ChopFront(b, n))
           /\ ~(n <= Len(b.items)) => S!ChopFront(b, n) = S!Raised(b)
<1>1. b.items \in Seq(Chars) /\ Len(b.items) \in Nat
    BY StringFields
<1>2. ASSUME n <= Len(b.items) PROVE Ends(b, V!ChopFront(b.items, n), S!ChopFront(b, n))
    <2>1. n \in 0 .. Len(b.items) /\ n \in 0 .. n /\ n - n = 0 /\ 0 \in 0 .. n /\ ~(n > Len(b.items))
        BY <1>1, <1>2
    <2>2. Gives(b, Spliced(b.items, n - n, <<>>, n), S!ShiftForward(b, n, Len(b.items), n))
        BY <2>1, ForwardEnds
    <2>3. <<>> \in Seq(Chars)
        OBVIOUS
    <2>4. Spliced(b.items, 0, <<>>, n) = V!ChopFront(b.items, n)
        BY <1>1, <2>1, <2>3, SplicedCases
    <2>5. Gives(b, V!ChopFront(b.items, n), S!ShiftForward(b, n, Len(b.items), n))
        BY <2>1, <2>2, <2>4
    <2>6. S!ChopFront(b, n) = S!Done(S!ShiftForward(b, n, Len(b.items), n))
        BY <2>1 DEF S!ChopFront
    <2> QED
        BY <2>5, <2>6, DoneEnds
<1>3. ASSUME ~(n <= Len(b.items)) PROVE S!ChopFront(b, n) = S!Raised(b)
    <2>1. n > Len(b.items)
        BY <1>1, <1>3
    <2> QED
        BY <2>1 DEF S!ChopFront
<1> QED
    BY <1>2, <1>3

\* erase() leaves what is in front of the range and behind it, or throws.
LEMMA EraseIs ==
    ASSUME NEW b, Sane(b), NEW from \in Nat, NEW until \in Nat, from <= until
    PROVE  /\ until <= Len(b.items) =>
                Ends(b, V!CutAt(b.items, from) \o V!ChopFront(b.items, until), S!Erase(b, from, until))
           /\ ~(until <= Len(b.items)) => S!Erase(b, from, until) = S!Raised(b)
<1>1. b.items \in Seq(Chars) /\ Len(b.items) \in Nat
    BY StringFields
<1>2. ASSUME until <= Len(b.items)
      PROVE  Ends(b, V!CutAt(b.items, from) \o V!ChopFront(b.items, until), S!Erase(b, from, until))
    <2>1. until \in 0 .. Len(b.items) /\ until - from \in 0 .. until /\ until - (until - from) = from
          /\ from \in 0 .. until /\ ~(until > Len(b.items) \/ from > until)
        BY <1>1, <1>2
    <2>2. Gives(b, Spliced(b.items, until - (until - from), <<>>, until),
                S!ShiftForward(b, until, Len(b.items), until - from))
        BY <2>1, ForwardEnds
    <2>3. <<>> \in Seq(Chars)
        OBVIOUS
    <2>4. Spliced(b.items, from, <<>>, until) = V!CutAt(b.items, from) \o V!ChopFront(b.items, until)
        BY <1>1, <2>1, <2>3, SplicedCases
    <2>5. Gives(b, V!CutAt(b.items, from) \o V!ChopFront(b.items, until),
                S!ShiftForward(b, until, Len(b.items), until - from))
        BY <2>1, <2>2, <2>4
    <2>6. S!Erase(b, from, until) = S!Done(S!ShiftForward(b, until, Len(b.items), until - from))
        BY <2>1 DEF S!Erase
    <2> QED
        BY <2>5, <2>6, DoneEnds
<1>3. ASSUME ~(until <= Len(b.items)) PROVE S!Erase(b, from, until) = S!Raised(b)
    <2>1. until > Len(b.items)
        BY <1>1, <1>3
    <2> QED
        BY <2>1 DEF S!Erase
<1> QED
    BY <1>2, <1>3

\* The same cut, written as a part from the front.
LEMMA FrontGives ==
    ASSUME NEW b, Sane(b), b.block = TRUE, NEW n \in 0 .. Len(b.items)
    PROVE  Gives(b, V!CutAt(b.items, n), S!WithItems(b, SubSeq(b.items, 1, n)))
<1>1. b.items \in Seq(Chars) /\ Len(b.items) \in Nat /\ Len(b.items) <= b.cap /\ b.cap \in Nat
    BY StringFields
<1>2. V!CutAt(b.items, n) \in Seq(Chars) /\ Len(V!CutAt(b.items, n)) = n
    BY <1>1, Parts
<1>3. n \in Nat /\ n <= b.cap
    BY <1>1
<1>4. Whole(S!WithItems(b, V!CutAt(b.items, n)), V!CutAt(b.items, n))
    BY <1>2, <1>3, WithItemsIs
<1>5. SubSeq(b.items, 1, n) = V!CutAt(b.items, n)
    BY DEF V!CutAt
<1> QED
    BY <1>4, <1>5, WholeGives

\* cutAt() leaves so many characters, or throws.
LEMMA CutAtIs ==
    ASSUME NEW b, Sane(b), NEW n \in Nat
    PROVE  /\ n <= Len(b.items) => Ends(b, V!CutAt(b.items, n), S!CutAt(b, n))
           /\ ~(n <= Len(b.items)) => S!CutAt(b, n) = S!Raised(b)
<1>1. b.items \in Seq(Chars) /\ Len(b.items) \in Nat /\ b.block \in BOOLEAN
      /\ (b.block = FALSE => b.items = <<>> /\ Len(b.items) = 0)
    BY StringFields
<1>2. ASSUME n <= Len(b.items) PROVE Ends(b, V!CutAt(b.items, n), S!CutAt(b, n))
    <2>1. n \in 0 .. Len(b.items) /\ ~(n > Len(b.items))
        BY <1>1, <1>2
    <2>2. CASE b.block = TRUE
        <3>1. S!CutAt(b, n) = S!Done(S!WithItems(b, SubSeq(b.items, 1, n)))
            BY <2>1, <2>2 DEF S!CutAt
        <3>2. Gives(b, V!CutAt(b.items, n), S!WithItems(b, SubSeq(b.items, 1, n)))
            BY <2>1, <2>2, FrontGives
        <3> QED
            BY <3>1, <3>2, DoneEnds
    <2>3. CASE b.block = FALSE
        <3>1. S!CutAt(b, n) = S!Done(b)
            BY <2>1, <2>3 DEF S!CutAt
        <3>2. n = Len(b.items)
            BY <1>1, <2>1, <2>3
        <3>3. V!CutAt(b.items, n) = b.items
            BY <1>1, <2>1, <3>2, Parts
        <3> QED
            BY <3>1, <3>3, SameGives, DoneEnds
    <2> QED
        BY <1>1, <2>2, <2>3
<1>3. ASSUME ~(n <= Len(b.items)) PROVE S!CutAt(b, n) = S!Raised(b)
    <2>1. n > Len(b.items)
        BY <1>1, <1>3
    <2> QED
        BY <2>1 DEF S!CutAt
<1> QED
    BY <1>2, <1>3

\* chopBack() drops so many at the end, throws, or writes an end without a block.
LEMMA ChopBackIs ==
    ASSUME NEW b, Sane(b), NEW n \in Nat
    PROVE  /\ n <= Len(b.items) /\ b.block = TRUE => Ends(b, V!ChopBack(b.items, n), S!ChopBack(b, n))
           /\ n <= Len(b.items) /\ b.block = FALSE => S!ChopBack(b, n) = S!Ruined(b)
           /\ ~(n <= Len(b.items)) => S!ChopBack(b, n) = S!Raised(b)
<1>1. b.items \in Seq(Chars) /\ Len(b.items) \in Nat
    BY StringFields
<1>2. ASSUME n <= Len(b.items), b.block = TRUE PROVE Ends(b, V!ChopBack(b.items, n), S!ChopBack(b, n))
    <2>1. Len(b.items) - n \in 0 .. Len(b.items) /\ ~(n > Len(b.items))
        BY <1>1, <1>2
    <2>2. S!ChopBack(b, n) = S!Done(S!WithItems(b, SubSeq(b.items, 1, Len(b.items) - n)))
        BY <2>1, <1>2 DEF S!ChopBack
    <2>3. Gives(b, V!CutAt(b.items, Len(b.items) - n), S!WithItems(b, SubSeq(b.items, 1, Len(b.items) - n)))
        BY <2>1, <1>2, FrontGives
    <2>4. V!CutAt(b.items, Len(b.items) - n) = V!ChopBack(b.items, n)
        BY DEF V!CutAt, V!ChopBack
    <2> QED
        BY <2>2, <2>3, <2>4, DoneEnds
<1>3. ASSUME n <= Len(b.items), b.block = FALSE PROVE S!ChopBack(b, n) = S!Ruined(b)
    <2>1. ~(n > Len(b.items))
        BY <1>1, <1>3
    <2> QED
        BY <2>1, <1>3 DEF S!ChopBack
<1>4. ASSUME ~(n <= Len(b.items)) PROVE S!ChopBack(b, n) = S!Raised(b)
    <2>1. n > Len(b.items)
        BY <1>1, <1>4
    <2> QED
        BY <2>1 DEF S!ChopBack
<1> QED
    BY <1>2, <1>3, <1>4

\* chop() leaves nothing.
LEMMA ChopIs == ASSUME NEW b, Sane(b) PROVE Gives(b, <<>>, S!Chop(b))
<1>1. b.items \in Seq(Chars) /\ b.cap \in Nat /\ b.block \in BOOLEAN /\ (b.block = FALSE => b.items = <<>>)
    BY StringFields
<1>2. CASE b.block = TRUE
    <2>1. <<>> \in Seq(Chars) /\ Len(<<>>) <= b.cap
        BY <1>1
    <2>2. Whole(S!WithItems(b, <<>>), <<>>)
        BY <1>2, <2>1, WithItemsIs
    <2>3. S!Chop(b) = S!WithItems(b, <<>>)
        BY <1>2 DEF S!Chop
    <2> QED
        BY <2>2, <2>3, WholeGives
<1>3. CASE b.block = FALSE
    <2>1. S!Chop(b) = b /\ b.items = <<>>
        BY <1>1, <1>3 DEF S!Chop
    <2> QED
        BY <2>1, SameGives
<1> QED
    BY <1>1, <1>2, <1>3

-----------------------------------------------------------------------------
(* Writing.                                                                *)

\* A block with room for n, then n characters or less in it.
LEMMA RoomThenItems ==
    ASSUME NEW b, Sane(b), NEW n \in Nat, NEW w \in Seq(Chars), Len(w) = n
    PROVE  Whole(S!WithItems(S!RoomFor(b, n, n), w), w)
<1> DEFINE room == S!RoomFor(b, n, n)
<1>1. RoomIs(b, n, room)
    BY RoomForIs
<1>2. Sane(room) /\ room.block = TRUE /\ n <= room.cap
    BY <1>1 DEF RoomIs
<1> HIDE DEF room
<1>3. Whole(S!WithItems(room, w), w)
    BY <1>2, WithItemsIs
<1> QED
    BY <1>3 DEF room

\* assign() gives the text it is given.
LEMMA AssignIs == ASSUME NEW b, Sane(b), NEW str \in Seq(Chars) PROVE Whole(S!Assign(b, str), str)
<1>1. Len(str) \in Nat
    OBVIOUS
<1> QED
    BY <1>1, RoomThenItems DEF S!Assign

\* fill() gives as many characters as it is told.
LEMMA FillIs ==
    ASSUME NEW b, Sane(b), NEW n \in Nat, NEW c \in Chars
    PROVE  Whole(S!Fill(b, c, n), [i \in 1 .. n |-> c])
<1> DEFINE w == [i \in 1 .. n |-> c]
<1>1. w = [i \in 1 .. n |-> w[i]] /\ \A i \in 1 .. n : w[i] \in Chars
    OBVIOUS
<1>2. S!Fill(b, c, n) = S!WithItems(S!RoomFor(b, n, n), w)
    BY DEF S!Fill
<1> HIDE DEF w
<1>3. w \in Seq(Chars) /\ Len(w) = n
    BY <1>1, CharsPlaced
<1>4. Whole(S!WithItems(S!RoomFor(b, n, n), w), w)
    BY <1>3, RoomThenItems
<1> QED
    BY <1>2, <1>4 DEF w

\* append() puts the text behind.
LEMMA AppendTextIs ==
    ASSUME NEW b, Sane(b), NEW str \in Seq(Chars)
    PROVE  Gives(b, b.items \o str, S!AppendText(b, str))
<1>0. b.items \in Seq(Chars)
    BY StringFields
<1>1. b.items \in Seq(Chars) /\ Len(b.items) \in Nat /\ Len(str) \in Nat
    BY <1>0
<1>2. CASE str = <<>>
    <2>1. S!AppendText(b, str) = b
        BY <1>2 DEF S!AppendText
    <2>2. b.items \o str = b.items
        BY <1>1, <1>2, ConcatEmptySeq
    <2> QED
        BY <2>1, <2>2, SameGives
<1>3. CASE str # <<>>
    <2> DEFINE n == Len(b.items) + Len(str)
               w == b.items \o str
    <2>1. S!AppendText(b, str) = S!WithItems(S!RoomFor(b, n, n), w)
        BY <1>3 DEF S!AppendText
    <2>2. w \in Seq(Chars) /\ Len(w) = n /\ n \in Nat
        BY <1>1, ConcatProperties
    <2> HIDE DEF n, w
    <2>3. Whole(S!WithItems(S!RoomFor(b, n, n), w), w)
        BY <2>2, RoomThenItems
    <2>4. Gives(b, w, S!AppendText(b, str))
        BY <2>1, <2>3, WholeGives
    <2> QED
        BY <2>4 DEF w
<1> QED
    BY <1>2, <1>3

\* and one character
LEMMA AppendCharIs ==
    ASSUME NEW b, Sane(b), NEW c \in Chars
    PROVE  Whole(S!AppendChar(b, c), Append(b.items, c))
<1> DEFINE n == Len(b.items) + 1
           w == Append(b.items, c)
<1>1. b.items \in Seq(Chars) /\ Len(b.items) \in Nat
    BY StringFields
<1>2. S!AppendChar(b, c) = S!WithItems(S!RoomFor(b, n, n), w)
    BY DEF S!AppendChar
<1>3. w \in Seq(Chars) /\ Len(w) = n /\ n \in Nat
    BY <1>1, AppendProperties
<1> HIDE DEF n, w
<1>4. Whole(S!WithItems(S!RoomFor(b, n, n), w), w)
    BY <1>3, RoomThenItems
<1> QED
    BY <1>2, <1>4 DEF w

\* A text goes into the gap that shiftBackward() leaves for it.
LEMMA GapFilled ==
    ASSUME NEW b, Sane(b), NEW pos \in 0 .. Len(b.items), NEW str \in Seq(Chars)
    PROVE  Gives(b, Spliced(b.items, pos, str, pos),
                 S!Written(S!ShiftBackward(b, pos, Len(b.items), Len(str)), pos, str))
<1> DEFINE s == b.items
           gap == Backward(s, pos, Len(s), Len(str))
           moved == S!ShiftBackward(b, pos, Len(s), Len(str))
           w == Over(gap, pos, str)
<1>0. s \in Seq(Chars)
    BY StringFields
<1>1. s \in Seq(Chars) /\ Len(s) \in Nat /\ Len(str) \in Nat /\ pos \in Nat /\ pos <= Len(s) /\ pos \in Int
      /\ Len(s) \in 0 .. Len(s)
    BY <1>0
<1>2. Whole(moved, gap)
    BY <1>1, ShiftBackwardIs
<1>3. gap \in Seq(Chars) /\ Len(gap) = IF Len(s) <= Len(s) + Len(str) THEN Len(s) + Len(str) ELSE Len(s)
    BY <1>1, BackwardIs
<1>4. Len(gap) = Len(s) + Len(str)
    BY <1>1, <1>3
<1>5. \A i \in 1 .. Len(s) + Len(str) :
        gap[i] = IF i > pos + Len(str) /\ i <= Len(s) + Len(str) THEN s[i - Len(str)]
                 ELSE IF i <= Len(s) THEN s[i] ELSE S!Garbage
    <2>1. (IF Len(s) <= Len(s) + Len(str) THEN Len(s) + Len(str) ELSE Len(s)) = Len(s) + Len(str)
        BY <1>1
    <2> QED
        BY <2>1 DEF Backward
<1> HIDE DEF gap, moved, s
<1>6. w \in Seq(Chars) /\ Len(w) = Len(gap)
      /\ \A i \in 1 .. Len(gap) : w[i] = IF i > pos /\ i <= pos + Len(str) THEN str[i - pos] ELSE gap[i]
    BY <1>1, <1>3, OverIs
<1> HIDE DEF w
<1>7. w = Spliced(s, pos, str, pos)
    <2>1. pos \in 0 .. Len(s) /\ pos \in 0 .. pos /\ Len(w) = pos + Len(str) + Len(s) - pos
        BY <1>1, <1>4, <1>6
    <2>2. ASSUME NEW i \in 1 .. Len(w)
          PROVE  w[i] = IF i <= pos THEN s[i] ELSE IF i <= pos + Len(str) THEN str[i - pos]
                        ELSE s[i - pos - Len(str) + pos]
        <3>1. i \in 1 .. Len(gap) /\ i \in 1 .. Len(s) + Len(str) /\ i \in Nat
            BY <1>4, <1>6
        <3>2. CASE i <= pos
            <4>1. i <= Len(s) /\ ~(i > pos) /\ ~(i > pos + Len(str))
                BY <1>1, <3>1, <3>2
            <4> QED
                BY <1>5, <1>6, <3>1, <3>2, <4>1
        <3>3. CASE ~(i <= pos) /\ i <= pos + Len(str)
            <4>1. i > pos
                BY <1>1, <3>1, <3>3
            <4> QED
                BY <1>6, <3>1, <3>3, <4>1
        <3>4. CASE ~(i <= pos) /\ ~(i <= pos + Len(str))
            <4>1. i > pos + Len(str) /\ i <= Len(s) + Len(str) /\ i - pos - Len(str) + pos = i - Len(str)
                BY <1>1, <3>1, <3>4
            <4> QED
                BY <1>5, <1>6, <3>1, <3>4, <4>1
        <3> QED
            BY <3>2, <3>3, <3>4
    <2> QED
        BY <1>1, <1>6, <2>1, <2>2, IsSpliced
<1>8. Rewritten(moved, Over(moved.items, pos, str), S!Written(moved, pos, str))
    BY <1>1, <1>2, WrittenIs DEF Whole
<1>9. moved.items = gap /\ Tidy(moved)
    BY <1>2 DEF Whole
<1>10. Gives(b, w, S!Written(moved, pos, str))
    BY <1>8, <1>9 DEF Gives, Rewritten, w
<1> QED
    BY <1>7, <1>10 DEF s, moved

\* insert() splices the text in, or throws.
LEMMA InsertIs ==
    ASSUME NEW b, Sane(b), NEW pos \in Nat, NEW str \in Seq(Chars)
    PROVE  /\ pos <= Len(b.items) => Ends(b, Spliced(b.items, pos, str, pos), S!Insert(b, pos, str))
           /\ ~(pos <= Len(b.items)) => S!Insert(b, pos, str) = S!Raised(b)
<1>1. b.items \in Seq(Chars) /\ Len(b.items) \in Nat
    BY StringFields
<1>2. ASSUME pos <= Len(b.items) PROVE Ends(b, Spliced(b.items, pos, str, pos), S!Insert(b, pos, str))
    <2>1. pos \in 0 .. Len(b.items) /\ ~(pos > Len(b.items)) /\ pos \in 0 .. pos
        BY <1>1, <1>2
    <2>2. CASE str = <<>>
        <3>1. S!Insert(b, pos, str) = S!Done(b)
            BY <2>1, <2>2 DEF S!Insert
        <3>2. Spliced(b.items, pos, <<>>, pos) = V!CutAt(b.items, pos) \o V!ChopFront(b.items, pos)
            BY <1>1, <2>1, SplicedCases, Zenon
        <3>3. V!CutAt(b.items, pos) \o V!ChopFront(b.items, pos) = b.items
            <4>1. 1 \in 1 .. Len(b.items) + 1 /\ pos \in 1 - 1 .. Len(b.items) /\ Len(b.items) \in pos .. Len(b.items)
                BY <1>1, <2>1
            <4>2. SubSeq(b.items, 1, pos) \o SubSeq(b.items, pos + 1, Len(b.items)) = SubSeq(b.items, 1, Len(b.items))
                BY <1>1, <4>1, ConcatAdjacentSubSeq
            <4> QED
                BY <1>1, <4>2, SubSeqFull DEF V!CutAt, V!ChopFront
        <3> QED
            BY <2>2, <3>1, <3>2, <3>3, SameGives, DoneEnds
    <2>3. CASE str # <<>>
        <3>1. S!Insert(b, pos, str) =
                S!Done(S!Written(S!ShiftBackward(b, pos, Len(b.items), Len(str)), pos, str))
            BY <2>1, <2>3 DEF S!Insert
        <3>2. Gives(b, Spliced(b.items, pos, str, pos),
                 S!Written(S!ShiftBackward(b, pos, Len(b.items), Len(str)), pos, str))
            BY <2>1, GapFilled
        <3> QED
            BY <3>1, <3>2, DoneEnds
    <2> QED
        BY <2>2, <2>3
<1>3. ASSUME ~(pos <= Len(b.items)) PROVE S!Insert(b, pos, str) = S!Raised(b)
    <2>1. pos > Len(b.items)
        BY <1>1, <1>3
    <2> QED
        BY <2>1 DEF S!Insert
<1> QED
    BY <1>2, <1>3

\* prepend() puts the text in front.
LEMMA PrependIs ==
    ASSUME NEW b, Sane(b), NEW str \in Seq(Chars)
    PROVE  Gives(b, str \o b.items, S!Prepend(b, str))
<1>0. b.items \in Seq(Chars)
    BY StringFields
<1>1. b.items \in Seq(Chars) /\ 0 \in 0 .. Len(b.items) /\ 0 \in 0 .. 0
    BY <1>0
<1>2. Gives(b, Spliced(b.items, 0, str, 0), S!Prepend(b, str))
    BY <1>1, GapFilled DEF S!Prepend
<1>3. Spliced(b.items, 0, str, 0) = str \o b.items
    BY <1>1, SplicedCases
<1> QED
    BY <1>2, <1>3

\* write() splices the text over as many characters, or throws.
LEMMA WriteIs ==
    ASSUME NEW b, Sane(b), NEW pos \in Nat, NEW str \in Seq(Chars)
    PROVE  /\ pos + Len(str) <= Len(b.items) =>
                Ends(b, Spliced(b.items, pos, str, pos + Len(str)), S!Write(b, pos, str))
           /\ ~(pos + Len(str) <= Len(b.items)) => S!Write(b, pos, str) = S!Raised(b)
<1>0. b.items \in Seq(Chars)
    BY StringFields
<1>1. b.items \in Seq(Chars) /\ Len(b.items) \in Nat /\ Len(str) \in Nat /\ pos \in Int /\ 0 <= pos
    BY <1>0
<1>2. ASSUME pos + Len(str) <= Len(b.items)
      PROVE  Ends(b, Spliced(b.items, pos, str, pos + Len(str)), S!Write(b, pos, str))
    <2>1. Over(b.items, pos, str) = Spliced(b.items, pos, str, pos + Len(str))
        BY <1>1, <1>2, OverIs
    <2>2. Rewritten(b, Over(b.items, pos, str), S!Written(b, pos, str))
        BY <1>1, WrittenIs
    <2>3. ~(pos + Len(str) > Len(b.items))
        BY <1>1, <1>2
    <2>4. S!Write(b, pos, str) = S!Done(S!Written(b, pos, str))
        BY <2>3 DEF S!Write
    <2> QED
        BY <2>1, <2>2, <2>4, RewrittenGives, DoneEnds
<1>3. ASSUME ~(pos + Len(str) <= Len(b.items)) PROVE S!Write(b, pos, str) = S!Raised(b)
    <2>1. pos + Len(str) > Len(b.items)
        BY <1>1, <1>3
    <2> QED
        BY <2>1 DEF S!Write
<1> QED
    BY <1>2, <1>3

\* read() gives the characters between two positions.
LEMMA ReadIs ==
    ASSUME NEW b, Sane(b), NEW from \in Nat, NEW until \in Nat, from <= until, until <= Len(b.items)
    PROVE  Gives(S!Empty, V!View(b.items, from, until), S!Read(b, from, until)) /\ Tidy(S!Read(b, from, until))
<1>1. b.items \in Seq(Chars) /\ Len(b.items) \in Nat
    BY StringFields
<1>2. CASE from = until
    <2>1. S!Read(b, from, until) = S!Empty
        BY <1>2 DEF S!Read
    <2>2. V!View(b.items, from, until) = <<>>
        <3>1. until < from + 1 /\ from + 1 \in Int /\ until \in Int
            BY <1>2
        <3> QED
            BY <3>1, SubSeqEmpty DEF V!View
    <2> QED
        BY <2>1, <2>2, EmptyIsSane DEF Gives
<1>3. CASE from # until
    <2> DEFINE w == SubSeq(b.items, from + 1, until)
    <2>1. w \in Seq(Chars)
        <3>1. \A i \in from + 1 .. until : b.items[i] \in Chars
            BY <1>1, ElementOfSeq
        <3> QED
            BY <3>1, SubSeqProperties
    <2>2. S!Read(b, from, until) = S!Assign(S!Empty, w) /\ V!View(b.items, from, until) = w
        BY <1>3 DEF S!Read, V!View
    <2> HIDE DEF w
    <2>3. Whole(S!Assign(S!Empty, w), w)
        BY <2>1, EmptyIsSane, AssignIs
    <2> QED
        BY <2>2, <2>3 DEF Gives, Whole
<1> QED
    BY <1>2, <1>3

-----------------------------------------------------------------------------
(* Trimming.                                                               *)

\* The places of s with a character that the set does not have.
Kept(s, set) == {i \in DOMAIN s : ~Contains(set, s[i])}
Least(m, N) == m \in N /\ \A i \in N : m <= i
Greatest(m, N) == m \in N /\ \A i \in N : i <= m

\* The least number of a set is its Min, whichever module it comes from;
LEMMA LeastIsMin ==
    ASSUME NEW N \in SUBSET Int, NEW m, Least(m, N)
    PROVE  S!Min(N) = m /\ V!Min(N) = m /\ Min(N) = m
<1>1. m \in N /\ \A y \in N : m <= y
    BY DEF Least
<1>2. ASSUME NEW x \in N, \A y \in N : x <= y PROVE x = m
    <2>1. x <= m /\ m <= x /\ x \in Int /\ m \in Int
        BY <1>1, <1>2
    <2> QED
        BY <2>1
<1>3. (CHOOSE x \in N : \A y \in N : x <= y) = m
    BY <1>1, <1>2
<1> QED
    BY <1>3 DEF S!Min, V!Min, Min

\* and the greatest its Max.
LEMMA GreatestIsMax ==
    ASSUME NEW N \in SUBSET Int, NEW m, Greatest(m, N)
    PROVE  S!Max(N) = m /\ V!Max(N) = m /\ Max(N) = m
<1>1. m \in N /\ \A y \in N : m >= y
    BY DEF Greatest
<1>2. ASSUME NEW x \in N, \A y \in N : x >= y PROVE x = m
    <2>1. x >= m /\ m >= x /\ x \in Int /\ m \in Int
        BY <1>1, <1>2
    <2> QED
        BY <2>1
<1>3. (CHOOSE x \in N : \A y \in N : x >= y) = m
    BY <1>1, <1>2
<1> QED
    BY <1>3 DEF S!Max, V!Max, Max

\* Numbers up to a bound have a greatest one,
LEMMA GreatestNumber ==
    ASSUME NEW n \in Nat, NEW N \in SUBSET (0 .. n), N # {}
    PROVE  \E m : Greatest(m, N)
<1> DEFINE M == {n - i : i \in N}
<1>1. M \subseteq Nat /\ M # {}
    <2>1. \A i \in N : n - i \in Nat
        OBVIOUS
    <2>2. PICK i \in N : TRUE
        OBVIOUS
    <2>3. n - i \in M
        OBVIOUS
    <2> QED
        BY <2>1, <2>3
<1>2. PICK k \in M : \A j \in M : k <= j
    <2> HIDE DEF M
    <2> QED
        BY <1>1, LeastNumber
<1>3. PICK m \in N : k = n - m
    BY <1>2
<1>4. \A i \in N : i <= m
    <2> SUFFICES ASSUME NEW i \in N PROVE i <= m
        OBVIOUS
    <2>1. n - i \in M
        OBVIOUS
    <2>2. n - m <= n - i
        BY <1>2, <1>3, <2>1
    <2> QED
        BY <2>2
<1> QED
    BY <1>4 DEF Greatest

\* and numbers a least one.
LEMMA LeastNumberIs == ASSUME NEW N \in SUBSET Nat, N # {} PROVE \E m : Least(m, N)
BY LeastNumber DEF Least

\* The characters that are kept are some of the string, with a first and a last.
LEMMA KeptIs ==
    ASSUME NEW s \in Seq(Chars), NEW set
    PROVE  /\ Kept(s, set) \in SUBSET (1 .. Len(s))
           /\ Kept(s, set) # {} => \E lo, hi : Least(lo, Kept(s, set)) /\ Greatest(hi, Kept(s, set))
<1>1. DOMAIN s = 1 .. Len(s) /\ Len(s) \in Nat
    OBVIOUS
<1>2. Kept(s, set) \in SUBSET (1 .. Len(s)) /\ Kept(s, set) \in SUBSET (0 .. Len(s)) /\ Kept(s, set) \in SUBSET Nat
    BY <1>1 DEF Kept
<1> QED
    BY <1>1, <1>2, LeastNumberIs, GreatestNumber

\* Positions count from zero.
LEMMA FirstKept ==
    ASSUME NEW s \in Seq(Chars), NEW set
    PROVE  /\ Kept(s, set) = {} =>
                S!FindFirstNotOf(s, set, 0, Len(s)) = -1 /\ V!FindFirstNotOf(s, set, 0, Len(s)) = -1
           /\ \A m : Least(m, Kept(s, set)) =>
                S!FindFirstNotOf(s, set, 0, Len(s)) = m - 1 /\ V!FindFirstNotOf(s, set, 0, Len(s)) = m - 1
<1> DEFINE N == {i \in 0 .. Len(s) - 1 : ~Contains(set, s[i + 1])}
<1>1. DOMAIN s = 1 .. Len(s) /\ Len(s) \in Nat
    OBVIOUS
<1>2. N = {i \in 0 .. Len(s) - 1 : ~S!Contains(set, s[i + 1])}
      /\ N = {i \in 0 .. Len(s) - 1 : ~V!Contains(set, s[i + 1])}
    BY DEF Contains, S!Contains, V!Contains
<1>3. S!FindFirstNotOf(s, set, 0, Len(s)) = S!FirstOf(N) /\ V!FindFirstNotOf(s, set, 0, Len(s)) = V!FirstOf(N)
    BY <1>2 DEF S!FindFirstNotOf, V!FindFirstNotOf
<1>4. \A i \in Kept(s, set) : i \in Nat /\ i - 1 \in N
    <2> SUFFICES ASSUME NEW i \in Kept(s, set) PROVE i \in Nat /\ i - 1 \in N
        OBVIOUS
    <2>1. i \in 1 .. Len(s) /\ ~Contains(set, s[i])
        BY <1>1 DEF Kept
    <2>2. i - 1 \in 0 .. Len(s) - 1 /\ (i - 1) + 1 = i
        BY <1>1, <2>1
    <2> QED
        BY <2>1, <2>2
<1>5. \A i \in N : i \in Nat /\ i + 1 \in Kept(s, set)
    <2> SUFFICES ASSUME NEW i \in N PROVE i \in Nat /\ i + 1 \in Kept(s, set)
        OBVIOUS
    <2>1. i \in 0 .. Len(s) - 1 /\ ~Contains(set, s[i + 1])
        OBVIOUS
    <2>2. i + 1 \in 1 .. Len(s) /\ i \in Nat
        BY <1>1, <2>1
    <2> QED
        BY <1>1, <2>1, <2>2 DEF Kept
<1> HIDE DEF N
<1>6. ASSUME Kept(s, set) = {} PROVE S!FirstOf(N) = -1 /\ V!FirstOf(N) = -1
    <2>1. N = {}
        BY <1>5, <1>6
    <2> QED
        BY <2>1 DEF S!FirstOf, V!FirstOf, S!NotFound, V!NotFound
<1>7. ASSUME NEW m, Least(m, Kept(s, set)) PROVE S!FirstOf(N) = m - 1 /\ V!FirstOf(N) = m - 1
    <2>1. m \in Nat /\ m - 1 \in N
        BY <1>4, <1>7 DEF Least
    <2>2. ASSUME NEW i \in N PROVE m - 1 <= i
        <3>1. i \in Nat /\ i + 1 \in Kept(s, set)
            BY <1>5, <2>2
        <3>2. m <= i + 1
            BY <1>7, <3>1 DEF Least
        <3> QED
            BY <2>1, <3>1, <3>2
    <2>3. Least(m - 1, N) /\ N \in SUBSET Int /\ N # {}
        BY <1>5, <2>1, <2>2 DEF Least
    <2>4. S!Min(N) = m - 1 /\ V!Min(N) = m - 1
        BY <2>3, LeastIsMin
    <2> QED
        BY <2>3, <2>4 DEF S!FirstOf, V!FirstOf
<1> QED
    BY <1>3, <1>6, <1>7

LEMMA LastKept ==
    ASSUME NEW s \in Seq(Chars), NEW set
    PROVE  /\ Kept(s, set) = {} =>
                S!FindLastNotOf(s, set, Len(s)) = -1 /\ V!FindLastNotOf(s, set, Len(s)) = -1
           /\ \A m : Greatest(m, Kept(s, set)) =>
                S!FindLastNotOf(s, set, Len(s)) = m - 1 /\ V!FindLastNotOf(s, set, Len(s)) = m - 1
<1> DEFINE N == {i \in 0 .. Len(s) - 1 : ~Contains(set, s[i + 1])}
<1>1. DOMAIN s = 1 .. Len(s) /\ Len(s) \in Nat
    OBVIOUS
<1>2. N = {i \in 0 .. Len(s) - 1 : ~S!Contains(set, s[i + 1])}
      /\ N = {i \in 0 .. Len(s) - 1 : ~V!Contains(set, s[i + 1])}
    BY DEF Contains, S!Contains, V!Contains
<1>3. S!FindLastNotOf(s, set, Len(s)) = S!LastOf(N) /\ V!FindLastNotOf(s, set, Len(s)) = V!LastOf(N)
    BY <1>2 DEF S!FindLastNotOf, V!FindLastNotOf
<1>4. \A i \in Kept(s, set) : i \in Nat /\ i - 1 \in N
    <2> SUFFICES ASSUME NEW i \in Kept(s, set) PROVE i \in Nat /\ i - 1 \in N
        OBVIOUS
    <2>1. i \in 1 .. Len(s) /\ ~Contains(set, s[i])
        BY <1>1 DEF Kept
    <2>2. i - 1 \in 0 .. Len(s) - 1 /\ (i - 1) + 1 = i
        BY <1>1, <2>1
    <2> QED
        BY <2>1, <2>2
<1>5. \A i \in N : i \in Nat /\ i + 1 \in Kept(s, set)
    <2> SUFFICES ASSUME NEW i \in N PROVE i \in Nat /\ i + 1 \in Kept(s, set)
        OBVIOUS
    <2>1. i \in 0 .. Len(s) - 1 /\ ~Contains(set, s[i + 1])
        OBVIOUS
    <2>2. i + 1 \in 1 .. Len(s) /\ i \in Nat
        BY <1>1, <2>1
    <2> QED
        BY <1>1, <2>1, <2>2 DEF Kept
<1> HIDE DEF N
<1>6. ASSUME Kept(s, set) = {} PROVE S!LastOf(N) = -1 /\ V!LastOf(N) = -1
    <2>1. N = {}
        BY <1>5, <1>6
    <2> QED
        BY <2>1 DEF S!LastOf, V!LastOf, S!NotFound, V!NotFound
<1>7. ASSUME NEW m, Greatest(m, Kept(s, set)) PROVE S!LastOf(N) = m - 1 /\ V!LastOf(N) = m - 1
    <2>1. m \in Nat /\ m - 1 \in N
        BY <1>4, <1>7 DEF Greatest
    <2>2. ASSUME NEW i \in N PROVE i <= m - 1
        <3>1. i \in Nat /\ i + 1 \in Kept(s, set)
            BY <1>5, <2>2
        <3>2. i + 1 <= m
            BY <1>7, <3>1 DEF Greatest
        <3> QED
            BY <2>1, <3>1, <3>2
    <2>3. Greatest(m - 1, N) /\ N \in SUBSET Int /\ N # {}
        BY <1>5, <2>1, <2>2 DEF Greatest
    <2>4. S!Max(N) = m - 1 /\ V!Max(N) = m - 1
        BY <2>3, GreatestIsMax
    <2> QED
        BY <2>3, <2>4 DEF S!LastOf, V!LastOf
<1> QED
    BY <1>3, <1>6, <1>7

\* What trimFront() and trimBack() leave of a text.
FrontTrimmed(s, set, w) ==
    /\ set = <<>> => w = s
    /\ set # <<>> /\ Kept(s, set) = {} => w = <<>>
    /\ \A m : set # <<>> /\ Least(m, Kept(s, set)) => w = V!ChopFront(s, m - 1)

BackTrimmed(s, set, w) ==
    /\ Kept(s, set) = {} => w = s
    /\ \A m : Greatest(m, Kept(s, set)) => w = V!CutAt(s, m)

\* Str trims like that.
LEMMA TrimmedText ==
    ASSUME NEW s \in Seq(Chars), NEW set
    PROVE  FrontTrimmed(s, set, V!TrimFront(s, set)) /\ BackTrimmed(s, set, V!TrimBack(s, set))
<1>1. Len(s) \in Nat /\ Kept(s, set) \in SUBSET (1 .. Len(s))
    BY KeptIs
<1>2. V!FirstNotIn(s, set, 0) = V!FindFirstNotOf(s, set, 0, Len(s))
      /\ V!LastNotIn(s, set) = V!FindLastNotOf(s, set, Len(s))
    BY DEF V!FirstNotIn, V!LastNotIn
<1>3. ASSUME set = <<>> PROVE V!TrimFront(s, set) = s
    BY <1>3 DEF V!TrimFront
<1>4. ASSUME set # <<>>, Kept(s, set) = {} PROVE V!TrimFront(s, set) = <<>>
    <2>1. V!FirstNotIn(s, set, 0) = V!NotFound
        BY <1>2, <1>4, FirstKept DEF V!NotFound
    <2>2. V!TrimFront(s, set) = V!CutAt(s, 0)
        BY <1>4, <2>1 DEF V!TrimFront
    <2>3. 0 \in 0 .. Len(s)
        BY <1>1
    <2> QED
        BY <2>2, <2>3, Parts
<1>5. ASSUME NEW m, set # <<>>, Least(m, Kept(s, set)) PROVE V!TrimFront(s, set) = V!ChopFront(s, m - 1)
    <2>1. m \in 1 .. Len(s)
        BY <1>1, <1>5 DEF Least
    <2>2. V!FirstNotIn(s, set, 0) = m - 1
        BY <1>2, <1>5, FirstKept
    <2>3. m - 1 # V!NotFound
        BY <2>1 DEF V!NotFound
    <2> QED
        BY <1>5, <2>2, <2>3 DEF V!TrimFront
<1>6. ASSUME Kept(s, set) = {} PROVE V!TrimBack(s, set) = s
    <2>1. V!LastNotIn(s, set) = V!NotFound
        BY <1>2, <1>6, LastKept DEF V!NotFound
    <2> QED
        BY <2>1 DEF V!TrimBack
<1>7. ASSUME NEW m, Greatest(m, Kept(s, set)) PROVE V!TrimBack(s, set) = V!CutAt(s, m)
    <2>1. m \in 1 .. Len(s)
        BY <1>1, <1>7 DEF Greatest
    <2>2. V!LastNotIn(s, set) = m - 1
        BY <1>2, <1>7, LastKept
    <2>3. m - 1 # V!NotFound /\ (m - 1) + 1 = m
        BY <2>1 DEF V!NotFound
    <2> QED
        BY <2>2, <2>3 DEF V!TrimBack
<1> QED
    BY <1>3, <1>4, <1>5, <1>6, <1>7 DEF FrontTrimmed, BackTrimmed

\* String trims in front like that,
LEMMA TrimFrontIs ==
    ASSUME NEW b, Sane(b), NEW set
    PROVE  /\ \E w : FrontTrimmed(b.items, set, w) /\ Gives(b, w, S!TrimFront(b, set))
           /\ Gives(b, V!TrimFront(b.items, set), S!TrimFront(b, set))
<1> DEFINE s == b.items
           first == S!FindFirstNotOf(s, set, 0, Len(s))
<1>1. s \in Seq(Chars)
    BY StringFields
<1>2. Len(s) \in Nat /\ Kept(s, set) \in SUBSET (1 .. Len(s)) /\ 0 \in 0 .. Len(s)
    BY <1>1, KeptIs
<1>3. FrontTrimmed(s, set, V!TrimFront(s, set))
    BY <1>1, TrimmedText
<1>4. CASE set = <<>>
    <2>1. S!TrimFront(b, set) = b
        BY <1>4 DEF S!TrimFront
    <2>2. V!TrimFront(s, set) = s
        BY <1>3, <1>4 DEF FrontTrimmed
    <2> QED
        BY <1>3, <2>1, <2>2, SameGives
<1>5. CASE set # <<>> /\ Kept(s, set) = {}
    <2>1. first = S!NotFound
        BY <1>1, <1>5, FirstKept DEF S!NotFound
    <2>2. S!TrimFront(b, set) = S!CutAt(b, 0).self
        BY <1>5, <2>1 DEF S!TrimFront
    <2>3. Gives(b, V!CutAt(s, 0), S!CutAt(b, 0).self)
        <3>1. 0 \in Nat /\ 0 <= Len(b.items)
            BY <1>2
        <3> QED
            BY <3>1, CutAtIs DEF Ends
    <2>4. V!CutAt(s, 0) = <<>> /\ V!TrimFront(s, set) = <<>>
        BY <1>1, <1>2, <1>3, <1>5, Parts DEF FrontTrimmed
    <2> QED
        BY <1>3, <2>2, <2>3, <2>4
<1>6. CASE set # <<>> /\ Kept(s, set) # {}
    <2>1. PICK m : Least(m, Kept(s, set))
        BY <1>1, <1>6, KeptIs
    <2>2. m \in 1 .. Len(s) /\ m - 1 \in Nat /\ m - 1 <= Len(s)
        BY <1>2, <2>1 DEF Least
    <2>3. first = m - 1
        BY <1>1, <2>1, FirstKept
    <2>4. first # S!NotFound
        BY <2>2, <2>3 DEF S!NotFound
    <2>5. S!TrimFront(b, set) = S!ChopFront(b, first).self
        BY <1>6, <2>4 DEF S!TrimFront
    <2> HIDE DEF first
    <2>6. Ends(b, V!ChopFront(s, m - 1), S!ChopFront(b, m - 1))
        BY <2>2, ChopFrontIs
    <2>7. V!TrimFront(s, set) = V!ChopFront(s, m - 1)
        BY <1>3, <1>6, <2>1 DEF FrontTrimmed
    <2> QED
        BY <1>3, <2>3, <2>5, <2>6, <2>7 DEF Ends
<1> QED
    BY <1>4, <1>5, <1>6

\* and at the back.
LEMMA TrimBackIs ==
    ASSUME NEW b, Sane(b), NEW set
    PROVE  Gives(b, V!TrimBack(b.items, set), S!TrimBack(b, set))
<1> DEFINE s == b.items
           last == S!FindLastNotOf(s, set, Len(s))
<1>1. s \in Seq(Chars)
    BY StringFields
<1>2. Len(s) \in Nat /\ Kept(s, set) \in SUBSET (1 .. Len(s))
    BY <1>1, KeptIs
<1>3. BackTrimmed(s, set, V!TrimBack(s, set))
    BY <1>1, TrimmedText
<1>4. CASE Kept(s, set) = {}
    <2>1. last = S!NotFound
        BY <1>1, <1>4, LastKept DEF S!NotFound
    <2>2. S!TrimBack(b, set) = b
        BY <2>1 DEF S!TrimBack
    <2>3. V!TrimBack(s, set) = s
        BY <1>3, <1>4 DEF BackTrimmed
    <2> QED
        BY <2>2, <2>3, SameGives
<1>5. CASE Kept(s, set) # {}
    <2>1. PICK m : Greatest(m, Kept(s, set))
        BY <1>1, <1>5, KeptIs
    <2>2. m \in 1 .. Len(s) /\ m \in Nat /\ m <= Len(s) /\ (m - 1) + 1 = m
        BY <1>2, <2>1 DEF Greatest
    <2>3. last = m - 1
        BY <1>1, <2>1, LastKept
    <2>4. last # S!NotFound /\ last + 1 = m
        BY <2>2, <2>3 DEF S!NotFound
    <2>5. V!TrimBack(s, set) = V!CutAt(s, m)
        BY <1>3, <2>1 DEF BackTrimmed
    <2>6. CASE set = <<>>
        <3>1. S!TrimBack(b, set) = b
            BY <2>6 DEF S!TrimBack
        <3>2. Len(s) \in Kept(s, set)
            <4>1. ~Contains(set, s[Len(s)])
                BY <2>6 DEF Contains
            <4>2. Len(s) \in DOMAIN s
                BY <1>1, <1>2, <2>2
            <4> QED
                BY <4>1, <4>2 DEF Kept
        <3>3. m = Len(s)
            <4>1. Len(s) <= m
                BY <2>1, <3>2 DEF Greatest
            <4> QED
                BY <1>2, <2>2, <4>1
        <3>4. V!CutAt(s, m) = s
            <4>1. m \in 0 .. Len(s)
                BY <2>2
            <4> QED
                BY <1>1, <3>3, <4>1, Parts
        <3> QED
            BY <2>5, <3>1, <3>4, SameGives
    <2>7. CASE set # <<>>
        <3>1. S!TrimBack(b, set) = S!CutAt(b, last + 1).self
            BY <2>4, <2>7 DEF S!TrimBack
        <3> HIDE DEF last
        <3>2. Ends(b, V!CutAt(s, m), S!CutAt(b, m))
            BY <2>2, CutAtIs
        <3> QED
            BY <2>4, <2>5, <3>1, <3>2 DEF Ends
    <2> QED
        BY <2>6, <2>7
<1> QED
    BY <1>4, <1>5

\* What is between the first and the last character that stays.
Between(s, set) ==
    IF set = <<>> THEN s ELSE IF Kept(s, set) = {} THEN <<>>
    ELSE SubSeq(s, Min(Kept(s, set)), Max(Kept(s, set)))

\* Trimming the back and then the front leaves what is in between.
LEMMA BackThenFront ==
    ASSUME NEW s \in Seq(Chars), NEW set, NEW t, BackTrimmed(s, set, t), NEW w, FrontTrimmed(t, set, w)
    PROVE  w = Between(s, set)
<1>1. Len(s) \in Nat /\ Kept(s, set) \in SUBSET (1 .. Len(s)) /\ DOMAIN s = 1 .. Len(s)
    BY KeptIs
<1>2. CASE Kept(s, set) = {}
    <2>1. t = s
        BY <1>2 DEF BackTrimmed
    <2>2. CASE set = <<>>
        BY <2>1, <2>2 DEF FrontTrimmed, Between
    <2>3. CASE set # <<>>
        BY <1>2, <2>1, <2>3 DEF FrontTrimmed, Between
    <2> QED
        BY <2>2, <2>3
<1>3. CASE Kept(s, set) # {}
    <2>1. PICK lo, hi : Least(lo, Kept(s, set)) /\ Greatest(hi, Kept(s, set))
        BY <1>3, KeptIs
    <2>2. lo \in Kept(s, set) /\ hi \in Kept(s, set) /\ lo <= hi
        BY <2>1 DEF Least, Greatest
    <2>3. lo \in 1 .. Len(s) /\ hi \in lo .. Len(s) /\ hi \in 0 .. Len(s)
        BY <1>1, <2>2
    <2>4. t = V!CutAt(s, hi)
        BY <2>1 DEF BackTrimmed
    <2>5. t \in Seq(Chars) /\ Len(t) = hi /\ \A i \in 1 .. hi : t[i] = s[i]
        BY <2>3, <2>4, Parts
    <2>6. CASE set = <<>>
        <3>1. Len(s) \in Kept(s, set)
            <4>1. ~Contains(set, s[Len(s)])
                BY <2>6 DEF Contains
            <4>2. Len(s) \in DOMAIN s
                BY <1>1, <2>3
            <4> QED
                BY <4>1, <4>2 DEF Kept
        <3>2. hi = Len(s)
            <4>1. Len(s) <= hi
                BY <2>1, <3>1 DEF Greatest
            <4>2. hi \in Int /\ hi <= Len(s) /\ Len(s) \in Int
                BY <2>3
            <4> QED
                BY <4>1, <4>2
        <3>3. t = s
            BY <2>3, <2>4, <3>2, Parts
        <3> QED
            BY <2>6, <3>3 DEF FrontTrimmed, Between
    <2>7. CASE set # <<>>
        <3>1. Kept(t, set) = Kept(s, set)
            <4>1. DOMAIN t = 1 .. hi
                BY <2>5
            <4>2. ASSUME NEW i \in Kept(s, set) PROVE i \in Kept(t, set)
                <5>1. i \in 1 .. Len(s) /\ i <= hi /\ ~Contains(set, s[i])
                    BY <1>1, <2>1, <4>2 DEF Greatest, Kept
                <5>2. i \in 1 .. hi
                    BY <2>3, <5>1
                <5> QED
                    BY <2>5, <4>1, <5>1, <5>2 DEF Kept
            <4>3. ASSUME NEW i \in Kept(t, set) PROVE i \in Kept(s, set)
                <5>1. i \in 1 .. hi /\ ~Contains(set, t[i])
                    BY <4>1, <4>3 DEF Kept
                <5>2. i \in 1 .. Len(s)
                    BY <2>3, <5>1
                <5> QED
                    BY <1>1, <2>5, <5>1, <5>2 DEF Kept
            <4> QED
                BY <4>2, <4>3
        <3>2. w = V!ChopFront(t, lo - 1)
            BY <2>1, <2>7, <3>1 DEF FrontTrimmed
        <3>3. w = SubSeq(t, lo, hi)
            <4>1. (lo - 1) + 1 = lo
                BY <2>3
            <4> QED
                BY <2>5, <3>2, <4>1 DEF V!ChopFront
        <3>4. SubSeq(t, lo, hi) = SubSeq(s, lo, hi)
            <4>1. t = SubSeq(s, 1, hi)
                BY <2>4 DEF V!CutAt
            <4>2. 1 \in 1 .. Len(s) /\ hi \in 1 .. Len(s) /\ lo \in 1 .. hi - 1 + 1 /\ hi \in 1 .. hi - 1 + 1
                  /\ 1 + lo - 1 = lo /\ 1 + hi - 1 = hi
                BY <2>3
            <4>3. SubSeq(SubSeq(s, 1, hi), lo, hi) = SubSeq(s, 1 + lo - 1, 1 + hi - 1)
                <5>1. s \in Seq(Chars)
                    OBVIOUS
                <5> QED
                    BY <4>2, <5>1, SubSeqOfSubSeq
            <4> QED
                BY <4>1, <4>2, <4>3
        <3>5. Min(Kept(s, set)) = lo /\ Max(Kept(s, set)) = hi
            <4>1. Kept(s, set) \in SUBSET Int
                BY <1>1
            <4> QED
                BY <2>1, <4>1, LeastIsMin, GreatestIsMax
        <3> QED
            BY <1>3, <2>7, <3>3, <3>4, <3>5 DEF Between
    <2> QED
        BY <2>6, <2>7
<1> QED
    BY <1>2, <1>3

\* Str trims the front first, String the back; both leave the same.
LEMMA FrontThenBack ==
    ASSUME NEW s \in Seq(Chars), NEW set
    PROVE  V!Trim(s, set) = Between(s, set)
<1> DEFINE t == V!TrimFront(s, set)
           w == V!TrimBack(t, set)
<1>1. Len(s) \in Nat /\ Kept(s, set) \in SUBSET (1 .. Len(s)) /\ DOMAIN s = 1 .. Len(s)
    BY KeptIs
<1>2. FrontTrimmed(s, set, t)
    BY TrimmedText
<1>3. V!Trim(s, set) = w
    BY DEF V!Trim
<1>4. ASSUME t \in Seq(Chars) PROVE BackTrimmed(t, set, w)
    BY <1>4, TrimmedText
<1> HIDE DEF t, w
<1>5. CASE set # <<>> /\ Kept(s, set) = {}
    <2>1. t = <<>> /\ t \in Seq(Chars)
        BY <1>2, <1>5 DEF FrontTrimmed
    <2>2. Kept(t, set) = {}
        BY <2>1 DEF Kept
    <2> QED
        BY <1>3, <1>4, <1>5, <2>1, <2>2 DEF BackTrimmed, Between
<1>6. CASE set = <<>>
    <2>1. t = s
        BY <1>2, <1>6 DEF FrontTrimmed
    <2>2. CASE s = <<>>
        <3>1. Kept(t, set) = {}
            BY <2>1, <2>2 DEF Kept
        <3> QED
            BY <1>3, <1>4, <1>6, <2>1, <3>1 DEF BackTrimmed, Between
    <2>3. CASE s # <<>>
        <3>1. Len(s) \in 1 .. Len(s) /\ Len(s) \in 0 .. Len(s)
            BY <1>1, <2>3, EmptySeq
        <3>2. ~Contains(set, s[Len(s)])
            BY <1>6 DEF Contains
        <3>3. Greatest(Len(s), Kept(s, set))
            BY <1>1, <3>1, <3>2 DEF Kept, Greatest
        <3>4. w = V!CutAt(s, Len(s))
            BY <1>4, <2>1, <3>3 DEF BackTrimmed
        <3>5. w = s
            BY <3>1, <3>4, Parts
        <3> QED
            BY <1>3, <1>6, <3>5 DEF Between
    <2> QED
        BY <2>2, <2>3
<1>7. CASE set # <<>> /\ Kept(s, set) # {}
    <2>1. PICK lo, hi : Least(lo, Kept(s, set)) /\ Greatest(hi, Kept(s, set))
        BY <1>7, KeptIs
    <2>2. lo \in Kept(s, set) /\ hi \in Kept(s, set) /\ lo <= hi
        BY <2>1 DEF Least, Greatest
    <2>3. lo \in 1 .. Len(s) /\ hi \in lo .. Len(s) /\ lo - 1 \in 0 .. Len(s)
          /\ lo - 1 \in Nat /\ lo \in Nat /\ hi \in Nat
        BY <1>1, <2>2
    <2>4. t = V!ChopFront(s, lo - 1)
        BY <1>2, <1>7, <2>1 DEF FrontTrimmed
    <2>5. t \in Seq(Chars) /\ Len(t) = Len(s) - (lo - 1)
          /\ \A i \in 1 .. Len(s) - (lo - 1) : t[i] = s[(lo - 1) + i]
        BY <2>3, <2>4, Parts
    <2>6. Greatest(hi - (lo - 1), Kept(t, set))
        <3>1. DOMAIN t = 1 .. Len(s) - (lo - 1)
            BY <2>5
        <3>2. hi - (lo - 1) \in 1 .. Len(s) - (lo - 1) /\ (lo - 1) + (hi - (lo - 1)) = hi
            BY <1>1, <2>3
        <3>3. hi - (lo - 1) \in Kept(t, set)
            <4>1. t[hi - (lo - 1)] = s[hi]
                BY <2>5, <3>2
            <4>2. ~Contains(set, s[hi])
                BY <2>2 DEF Kept
            <4> QED
                BY <3>1, <3>2, <4>1, <4>2 DEF Kept
        <3>4. ASSUME NEW i \in Kept(t, set) PROVE i <= hi - (lo - 1)
            <4>1. i \in 1 .. Len(s) - (lo - 1) /\ ~Contains(set, t[i])
                BY <3>1, <3>4 DEF Kept
            <4>2. (lo - 1) + i \in 1 .. Len(s) /\ i \in Nat
                BY <1>1, <2>3, <4>1
            <4>3. (lo - 1) + i \in Kept(s, set)
                BY <1>1, <2>5, <4>1, <4>2 DEF Kept
            <4>4. (lo - 1) + i <= hi
                BY <2>1, <4>3 DEF Greatest
            <4> QED
                BY <2>3, <4>2, <4>4
        <3> QED
            BY <3>3, <3>4 DEF Greatest
    <2>7. w = V!CutAt(t, hi - (lo - 1))
        BY <1>4, <2>5, <2>6 DEF BackTrimmed
    <2>8. w = SubSeq(s, lo, hi)
        <3>1. t = SubSeq(s, lo, Len(s)) /\ w = SubSeq(t, 1, hi - (lo - 1))
            <4>1. (lo - 1) + 1 = lo
                BY <2>3
            <4> QED
                BY <2>4, <2>7, <4>1 DEF V!ChopFront, V!CutAt
        <3>2. lo \in 1 .. Len(s) /\ Len(s) \in 1 .. Len(s) /\ 1 \in 1 .. Len(s) - lo + 1
              /\ hi - (lo - 1) \in 1 .. Len(s) - lo + 1 /\ lo + 1 - 1 = lo /\ lo + (hi - (lo - 1)) - 1 = hi
            BY <1>1, <2>3
        <3>3. SubSeq(SubSeq(s, lo, Len(s)), 1, hi - (lo - 1)) = SubSeq(s, lo + 1 - 1, lo + (hi - (lo - 1)) - 1)
            <4>1. s \in Seq(Chars)
                OBVIOUS
            <4> QED
                BY <3>2, <4>1, SubSeqOfSubSeq
        <3> QED
            BY <3>1, <3>2, <3>3
    <2>9. Min(Kept(s, set)) = lo /\ Max(Kept(s, set)) = hi
        <3>1. Kept(s, set) \in SUBSET Int
            BY <1>1
        <3> QED
            BY <2>1, <3>1, LeastIsMin, GreatestIsMax
    <2> QED
        BY <1>3, <1>7, <2>8, <2>9 DEF Between
<1> QED
    BY <1>5, <1>6, <1>7

\* trim() gives what it gives for a Str, although it starts at the other end.
LEMMA TrimIs ==
    ASSUME NEW b, Sane(b), NEW set
    PROVE  Gives(b, V!Trim(b.items, set), S!Trim(b, set))
<1> DEFINE c == S!TrimBack(b, set)
           d == S!TrimFront(c, set)
<1>1. b.items \in Seq(Chars)
    BY StringFields
<1>2. Gives(b, V!TrimBack(b.items, set), c) /\ BackTrimmed(b.items, set, V!TrimBack(b.items, set))
    BY <1>1, TrimBackIs, TrimmedText
<1>3. S!Trim(b, set) = d
    BY DEF S!Trim
<1>4. ASSUME Sane(c) PROVE \E w : FrontTrimmed(c.items, set, w) /\ Gives(c, w, d)
    BY <1>4, TrimFrontIs
<1> HIDE DEF c, d
<1>5. Sane(c) /\ (Tidy(b) => Tidy(c)) /\ BackTrimmed(b.items, set, c.items)
    BY <1>2 DEF Gives
<1>6. PICK w : FrontTrimmed(c.items, set, w) /\ Gives(c, w, d)
    BY <1>4, <1>5
<1>7. w = Between(b.items, set)
    BY <1>1, <1>5, <1>6, BackThenFront
<1>8. w = V!Trim(b.items, set)
    BY <1>1, <1>7, FrontThenBack
<1> QED
    BY <1>3, <1>5, <1>6, <1>8 DEF Gives

-----------------------------------------------------------------------------
(* The other methods.                                                      *)
LEMMA SetCapacityKeeps ==
    ASSUME NEW b, Sane(b), NEW n \in Nat PROVE Keeps(b, S!SetCapacity(b, n))
BY SetCapacityIs DEF CapacityIs, Whole, Keeps

\* A string that is what it should be is in order.
LEMMA GivesKeeps == ASSUME NEW b, NEW c, NEW w, Gives(b, w, c) PROVE Keeps(b, c)
BY DEF Gives, Keeps

\* adopt() takes a block that somebody else has allocated.
LEMMA AdoptKeeps ==
    ASSUME NEW b, NEW str \in Seq(Chars), NEW size \in Nat, Len(str) <= size
    PROVE  Keeps(b, S!Adopt(str, size))
<1>0. Len(str) \in Nat
    OBVIOUS
<1>1. CASE str = <<>>
    BY <1>1, EmptyIsSane DEF S!Adopt, Keeps
<1>2. CASE str # <<>>
    <2> DEFINE cap == S!Max({size - 1, Len(str)})
               c == [block |-> TRUE, cap |-> cap, items |-> str, end |-> S!Nul]
    <2>1. cap = IF size - 1 <= Len(str) THEN Len(str) ELSE size - 1
        BY <1>0, GreaterOfTwo
    <2>2. S!Adopt(str, size) = c
        BY <1>2 DEF S!Adopt
    <2> HIDE DEF cap
    <2>3. cap \in Nat /\ Len(str) <= cap
        BY <1>0, <2>1
    <2>4. c \in StringRecord
        BY <2>3 DEF StringRecord, S!Nul, Chars
    <2>5. Held(c) /\ Tidy(c)
        BY <2>3 DEF Held, Tidy
    <2> QED
        BY <2>2, <2>4, <2>5 DEF Keeps, Sane
<1> QED
    BY <1>1, <1>2

\* setLength() stays inside the block; the end is whatever is there.
LEMMA SetLengthKeeps ==
    ASSUME NEW b, Sane(b), NEW n \in Nat
    PROVE  /\ S!SetLength(b, n).raises \in BOOLEAN
           /\ S!SetLength(b, n).raises => S!SetLength(b, n).self = b
           /\ Sane(S!SetLength(b, n).self)
<1> DEFINE all == Append(b.items, b.end)
           At(i) == IF i <= Len(all) THEN all[i] ELSE S!Garbage
           w == [i \in 1 .. n |-> At(i)]
           c1 == [b EXCEPT !.items = w]
           c == [c1 EXCEPT !.end = At(n + 1)]
<1>1. b.items \in Seq(Chars) /\ b.end \in Chars /\ b.block \in BOOLEAN /\ b.cap \in Nat
    BY StringFields
<1>2. all \in Seq(Chars) /\ Len(all) \in Nat
    BY <1>1
<1> HIDE DEF all
<1>3. ASSUME NEW i \in Nat, i >= 1 PROVE At(i) \in Chars
    <2>1. CASE i <= Len(all)
        <3>1. i \in 1 .. Len(all)
            BY <1>2, <1>3, <2>1
        <3> QED
            BY <1>2, <2>1, <3>1, ElementOfSeq
    <2>2. CASE ~(i <= Len(all))
        BY <2>2 DEF S!Garbage, Chars
    <2> QED
        BY <2>1, <2>2
<1>4. CASE b.block = FALSE \/ b.cap < n
    <2>1. S!SetLength(b, n) = S!Raised(b)
        BY <1>4 DEF S!SetLength
    <2> QED
        BY <2>1 DEF S!Raised
<1>5. CASE b.block = TRUE /\ ~(b.cap < n)
    <2>1. w = [i \in 1 .. n |-> w[i]] /\ \A i \in 1 .. n : w[i] = At(i)
        OBVIOUS
    <2>2. At(n + 1) \in Chars /\ \A i \in 1 .. n : At(i) \in Chars
        <3>1. \A i \in 1 .. n : i \in Nat /\ i >= 1
            OBVIOUS
        <3>2. n + 1 \in Nat /\ n + 1 >= 1
            OBVIOUS
        <3> HIDE DEF At
        <3> QED
            BY <1>3, <3>1, <3>2
    <2>3. S!SetLength(b, n) = S!Done([b EXCEPT !.items = w, !.end = At(n + 1)])
        BY <1>5 DEF S!SetLength, all
    <2>4. [b EXCEPT !.items = w, !.end = At(n + 1)] = c
        BY DEF c, c1
    <2> HIDE DEF w, At
    <2>5. w \in Seq(Chars) /\ Len(w) = n
        BY <2>1, <2>2, CharsPlaced
    <2>6. c1 \in StringRecord /\ c1.block = b.block /\ c1.cap = b.cap /\ c1.items = w
        BY <2>5 DEF Sane, StringRecord
    <2> HIDE DEF c1
    <2>7. c \in StringRecord /\ c.block = b.block /\ c.cap = b.cap /\ c.items = w
        BY <2>2, <2>6 DEF StringRecord
    <2> HIDE DEF c
    <2>8. Len(w) <= b.cap
        BY <1>1, <1>5, <2>5
    <2>9. Sane(c)
        BY <1>5, <2>7, <2>8 DEF Sane, Held
    <2>10. S!SetLength(b, n) = S!Done(c)
        BY <2>3, <2>4
    <2> QED
        BY <2>9, <2>10 DEF S!Done
<1> HIDE DEF all, At, w, c, c1
<1> QED
    BY <1>1, <1>4, <1>5

\* A string that is appended to itself while it has room for that stays where it is.
LEMMA AppendSelfIs ==
    ASSUME NEW b, Sane(b), NEW outcome \in S!AppendSelf(b)
    PROVE  /\ outcome.ruins \in BOOLEAN
           /\ Gives(b, b.items \o b.items, outcome.self)
           /\ outcome.ruins => b.cap < 2 * Len(b.items)
<1> DEFINE c == S!AppendText(b, b.items)
           n == Len(b.items) + Len(b.items)
<1>1. b.items \in Seq(Chars) /\ Len(b.items) \in Nat /\ b.cap \in Nat /\ b.block \in BOOLEAN
      /\ (b.block = FALSE => b.items = <<>> /\ Len(b.items) = 0)
    BY StringFields
<1>2. Gives(b, b.items \o b.items, c)
    BY <1>1, AppendTextIs
<1>3. ASSUME ~(b.cap < 2 * Len(b.items)) PROVE c.cap = b.cap
    <2>1. CASE b.items = <<>>
        BY <2>1 DEF S!AppendText
    <2>2. CASE b.items # <<>>
        <3>1. b.block = TRUE
            BY <1>1, <2>2
        <3>2. ~(b.cap + 1 <= n) /\ n <= b.cap
            BY <1>1, <1>3
        <3>3. b.items \o b.items \in Seq(Chars) /\ Len(b.items \o b.items) = n
            BY <1>1, ConcatProperties
        <3>4. c = S!WithItems(S!RoomFor(b, n, n), b.items \o b.items)
            BY <2>2 DEF S!AppendText
        <3>5. S!RoomFor(b, n, n) = b
            BY <3>1, <3>2 DEF S!RoomFor
        <3>6. c = S!WithItems(b, b.items \o b.items)
            BY <3>4, <3>5
        <3> HIDE DEF c
        <3>7. S!WithItems(b, b.items \o b.items).cap = b.cap
            BY <3>1, <3>2, <3>3, WithItemsIs
        <3> QED
            BY <3>6, <3>7
    <2> QED
        BY <2>1, <2>2
<1>4. outcome = S!Done(c) \/ (c.cap # b.cap /\ outcome = S!Ruined(c))
    BY DEF S!AppendSelf
<1> HIDE DEF c
<1>5. outcome.self = c /\ outcome.ruins \in BOOLEAN /\ (outcome.ruins => c.cap # b.cap)
    <2>1. CASE outcome = S!Done(c)
        BY <2>1 DEF S!Done
    <2>2. CASE c.cap # b.cap /\ outcome = S!Ruined(c)
        BY <2>2 DEF S!Ruined
    <2> QED
        BY <1>4, <2>1, <2>2
<1>6. outcome.ruins => b.cap < 2 * Len(b.items)
    BY <1>3, <1>5
<1> QED
    BY <1>2, <1>5, <1>6

-----------------------------------------------------------------------------
(* lower() and upper().                                                    *)
Lowered(s) == [i \in DOMAIN s |-> IF s[i] \in 65 .. 90 THEN s[i] + 32 ELSE s[i]]
Uppered(s) == [i \in DOMAIN s |-> IF s[i] \in 97 .. 122 THEN s[i] - 32 ELSE s[i]]

\* One character: small letters and capitals are 32 apart.
Small(x) == IF x \in 65 .. 90 THEN x + 32 ELSE x
Capital(x) == IF x \in 97 .. 122 THEN x - 32 ELSE x

LEMMA CaseOfOne ==
    ASSUME NEW x \in 0 .. 255
    PROVE  /\ Small(x) \in 0 .. 255 /\ Capital(x) \in 0 .. 255
           /\ Capital(Small(x)) = Capital(x) /\ Small(Capital(x)) = Small(x)
<1>1. CASE x \in 65 .. 90
    <2>1. x + 32 \in 97 .. 122 /\ x \notin 97 .. 122 /\ (x + 32) - 32 = x
        BY <1>1
    <2> QED
        BY <1>1, <2>1 DEF Small, Capital
<1>2. CASE x \in 97 .. 122
    <2>1. x - 32 \in 65 .. 90 /\ x \notin 65 .. 90 /\ (x - 32) + 32 = x
        BY <1>2
    <2> QED
        BY <1>2, <2>1 DEF Small, Capital
<1>3. CASE x \notin 65 .. 90 /\ x \notin 97 .. 122
    BY <1>3 DEF Small, Capital
<1> QED
    BY <1>1, <1>2, <1>3

\* lower() undoes upper(), and upper() undoes lower().
LEMMA CaseIs ==
    ASSUME NEW s \in Seq(Chars)
    PROVE  /\ Lowered(s) \in Seq(Chars) /\ Len(Lowered(s)) = Len(s)
           /\ Uppered(s) \in Seq(Chars) /\ Len(Uppered(s)) = Len(s)
           /\ Uppered(Lowered(s)) = Uppered(s) /\ Lowered(Uppered(s)) = Lowered(s)
<1>1. DOMAIN s = 1 .. Len(s) /\ Len(s) \in Nat /\ \A i \in 1 .. Len(s) : s[i] \in 0 .. 255
    BY ElementOfSeq DEF Chars
<1> DEFINE l == Lowered(s)
           u == Uppered(s)
<1>2. l = [i \in 1 .. Len(s) |-> l[i]] /\ u = [i \in 1 .. Len(s) |-> u[i]]
      /\ \A i \in 1 .. Len(s) : /\ l[i] = Small(s[i])
                                /\ u[i] = Capital(s[i])
    BY <1>1 DEF Lowered, Uppered, Small, Capital
<1> HIDE DEF l, u
<1>3. \A i \in 1 .. Len(s) : l[i] \in Chars /\ u[i] \in Chars
    <2> SUFFICES ASSUME NEW i \in 1 .. Len(s) PROVE l[i] \in Chars /\ u[i] \in Chars
        OBVIOUS
    <2>1. s[i] \in 0 .. 255
        BY <1>1
    <2>2. Small(s[i]) \in 0 .. 255
        BY <2>1, CaseOfOne
    <2>3. Capital(s[i]) \in 0 .. 255
        BY <2>1, CaseOfOne
    <2> QED
        BY <1>2, <2>2, <2>3 DEF Chars
<1>4. l \in Seq(Chars) /\ Len(l) = Len(s) /\ u \in Seq(Chars) /\ Len(u) = Len(s)
    BY <1>1, <1>2, <1>3, CharsPlaced
<1>5. DOMAIN l = 1 .. Len(s) /\ DOMAIN u = 1 .. Len(s)
    BY <1>4
<1>6. ASSUME NEW i \in 1 .. Len(s)
      PROVE  /\ Capital(l[i]) = u[i]
             /\ Small(u[i]) = l[i]
    <2>1. s[i] \in 0 .. 255 /\ l[i] = Small(s[i])
          /\ u[i] = Capital(s[i])
        BY <1>1, <1>2
    <2> QED
        BY <2>1, CaseOfOne, Zenon
<1>7. Uppered(l) = [i \in 1 .. Len(s) |-> Capital(l[i])]
      /\ Lowered(u) = [i \in 1 .. Len(s) |-> Small(u[i])]
    BY <1>5 DEF Uppered, Lowered, Small, Capital
<1>8. Uppered(l) = u /\ Lowered(u) = l
    BY <1>2, <1>6, <1>7
<1> QED
    BY <1>4, <1>8 DEF l, u

\* The two change each character for itself.
LEMMA CaseOf ==
    ASSUME NEW b, Sane(b)
    PROVE  /\ Gives(b, Lowered(b.items), S!Lower(b)) /\ Gives(b, Uppered(b.items), S!Upper(b))
           /\ S!Upper(S!Lower(b)) = S!Upper(b) /\ S!Lower(S!Upper(b)) = S!Lower(b)
<1> DEFINE l == Lowered(b.items)
           u == Uppered(b.items)
           bl == [b EXCEPT !.items = l]
           bu == [b EXCEPT !.items = u]
<1>0. b.items \in Seq(Chars)
    BY StringFields
<1>1. l \in Seq(Chars) /\ Len(l) = Len(b.items) /\ u \in Seq(Chars) /\ Len(u) = Len(b.items)
      /\ Uppered(l) = u /\ Lowered(u) = l
    BY <1>0, CaseIs
<1>2. b \in StringRecord
    BY DEF Sane
<1>3. ASSUME NEW c \in StringRecord
      PROVE  S!Lower(c) = [c EXCEPT !.items = Lowered(c.items)]
             /\ S!Upper(c) = [c EXCEPT !.items = Uppered(c.items)]
    BY DEF S!Lower, S!Upper, Lowered, Uppered, StringRecord
<1> HIDE DEF l, u
<1>4. bl \in StringRecord /\ bu \in StringRecord /\ bl.items = l /\ bu.items = u
      /\ [bl EXCEPT !.items = u] = bu /\ [bu EXCEPT !.items = l] = bl
    BY <1>1, <1>2 DEF StringRecord
<1>5. S!Lower(b) = bl /\ S!Upper(b) = bu
    BY <1>2, <1>3 DEF l, u
<1>6. Rewritten(b, l, bl) /\ Rewritten(b, u, bu)
    BY <1>1, RewrittenIs
<1> HIDE DEF bl, bu
<1>7. S!Upper(bl) = [bl EXCEPT !.items = Uppered(bl.items)] /\ S!Lower(bu) = [bu EXCEPT !.items = Lowered(bu.items)]
    BY <1>3, <1>4
<1>8. S!Upper(bl) = bu /\ S!Lower(bu) = bl
    BY <1>1, <1>4, <1>7
<1> QED
    BY <1>5, <1>6, <1>8, RewrittenGives DEF l, u

-----------------------------------------------------------------------------
(* Searching for a text.                                                   *)

\* One more character matched at most.
LEMMA AdvanceIs ==
    ASSUME NEW m \in Nat, NEW c, NEW pattern
    PROVE  S!Advance(m, c, pattern) \in Nat /\ S!Advance(m, c, pattern) <= m + 1
<1>1. S!Advance(m, c, pattern) = m + 1 \/ S!Advance(m, c, pattern) = 1 \/ S!Advance(m, c, pattern) = 0
    BY DEF S!Advance
<1> QED
    BY <1>1

\* What findFirst() reports is inside the range it searches.
LEMMA FindFirstIs ==
    ASSUME NEW s, NEW str, Len(str) \in Nat, NEW from \in Nat, NEW until \in Nat
    PROVE  \/ S!FindFirst(s, str, from, until) = S!NotFound
           \/ /\ S!FindFirst(s, str, from, until) \in Nat
              /\ from <= S!FindFirst(s, str, from, until)
              /\ S!FindFirst(s, str, from, until) + Len(str) <= until
<1> DEFINE matched[i \in from .. until] ==
                IF i = from THEN 0 ELSE S!Advance(matched[i - 1], s[i], str)
           ends == {i \in from + 1 .. until : matched[i] = Len(str)}
           X == from .. until
           D == from + 1 .. until
           next == [i \in D |-> i - 1]
           rank == [i \in X |-> i - from]
           base == [i \in X |-> 0]
           step == [i \in D |-> [m \in Nat |-> S!Advance(m, s[i], str)]]
<1>1. S!FindFirst(s, str, from, until) =
        IF str = <<>> \/ ends = {} THEN S!NotFound ELSE S!Min(ends) - Len(str)
    BY DEF S!FindFirst
<1>2. Recurs(X, Nat, D, next, rank, until + 1, base, step)
    <2>1. \A i \in D : step[i] \in [Nat -> Nat]
        BY AdvanceIs
    <2>2. step \in [D -> [Nat -> Nat]]
        BY <2>1
    <2>3. D \in SUBSET X /\ next \in [D -> X] /\ base \in [X -> Nat] /\ rank \in [X -> Nat] /\ until + 1 \in Nat
        OBVIOUS
    <2>4. (\A i \in X : rank[i] < until + 1) /\ \A i \in D : rank[next[i]] < rank[i]
        OBVIOUS
    <2> HIDE DEF X, D, next, rank, base, step
    <2> QED
        BY <2>2, <2>3, <2>4 DEF Recurs
<1>3. PICK f \in [X -> Nat] : \A i \in X : f[i] = IF i \in D THEN step[i][f[next[i]]] ELSE base[i]
    <2> HIDE DEF X, D, next, rank, base, step
    <2> QED
        BY <1>2, RecursionComputes
<1>4. f = [i \in from .. until |-> IF i = from THEN 0 ELSE S!Advance(f[i - 1], s[i], str)]
    <2>1. ASSUME NEW i \in X PROVE f[i] = IF i = from THEN 0 ELSE S!Advance(f[i - 1], s[i], str)
        <3>1. CASE i = from
            <4>1. i \notin D
                BY <3>1
            <4> QED
                BY <1>3, <3>1, <4>1
        <3>2. CASE i # from
            <4>1. i \in D /\ next[i] = i - 1 /\ i - 1 \in X
                BY <3>2
            <4>2. f[i - 1] \in Nat
                BY <4>1
            <4>3. step[i][f[i - 1]] = S!Advance(f[i - 1], s[i], str)
                BY <4>1, <4>2
            <4> HIDE DEF step, next, D, base
            <4> QED
                BY <1>3, <3>2, <4>1, <4>3
        <3> QED
            BY <3>1, <3>2
    <2> QED
        BY <2>1
<1>5. matched = [i \in from .. until |-> IF i = from THEN 0 ELSE S!Advance(matched[i - 1], s[i], str)]
    <2>1. matched = CHOOSE g : g = [i \in from .. until |-> IF i = from THEN 0 ELSE S!Advance(g[i - 1], s[i], str)]
        BY DEF matched
    <2> HIDE DEF matched
    <2> QED
        BY <1>4, <2>1
<1> HIDE DEF matched, X, D, next, rank, base, step
<1>6. \A i \in from .. until : matched[i] \in Nat /\ matched[i] <= i - from
    <2> DEFINE Bad == {k \in Nat : k + from <= until
                            /\ ~(matched[k + from] \in Nat /\ matched[k + from] <= k)}
    <2>1. ASSUME NEW k \in Bad PROVE \E j \in Bad : j < k
        <3>1. k \in Nat /\ k + from \in from .. until
            OBVIOUS
        <3>2. k # 0
            <4>1. ASSUME k = 0 PROVE k + from = from
                BY <4>1
            <4>2. ASSUME k = 0 PROVE matched[k + from] = 0
                BY <1>5, <3>1, <4>1, <4>2
            <4>3. ASSUME k = 0 PROVE FALSE
                BY <4>2, <4>3
            <4> QED
                BY <4>3
        <3>3. k - 1 \in Nat /\ (k - 1) + from \in from .. until /\ (k + from) - 1 = (k - 1) + from
              /\ k + from # from /\ k - 1 < k
            BY <3>1, <3>2
        <3>4. matched[k + from] = S!Advance(matched[(k - 1) + from], s[k + from], str)
            BY <1>5, <3>1, <3>3
        <3>5. ASSUME matched[(k - 1) + from] \in Nat, matched[(k - 1) + from] <= k - 1 PROVE FALSE
            <4>1. matched[k + from] \in Nat /\ matched[k + from] <= matched[(k - 1) + from] + 1
                BY <3>4, <3>5, AdvanceIs
            <4>2. matched[k + from] <= k
                BY <3>1, <3>5, <4>1
            <4> QED
                BY <4>1, <4>2
        <3>6. k - 1 \in Bad
            BY <3>3, <3>5
        <3> QED
            BY <3>3, <3>6
    <2>2. Bad \in SUBSET Nat
        OBVIOUS
    <2> HIDE DEF Bad
    <2>3. Bad = {}
        BY <2>1, <2>2, NoLeast
    <2> SUFFICES ASSUME NEW i \in from .. until PROVE matched[i] \in Nat /\ matched[i] <= i - from
        OBVIOUS
    <2>4. i - from \in Nat /\ (i - from) + from = i /\ i <= until
        OBVIOUS
    <2>5. i - from \notin Bad
        BY <2>3
    <2> QED
        BY <2>4, <2>5 DEF Bad
<1>7. CASE str = <<>> \/ ends = {}
    BY <1>1, <1>7
<1>8. CASE ~(str = <<>> \/ ends = {})
    <2>1. ends \in SUBSET Int /\ ends \in SUBSET Nat
        OBVIOUS
    <2>2. PICK m : Least(m, ends)
        <3> HIDE DEF ends
        <3> QED
            BY <1>8, <2>1, LeastNumberIs
    <2>3. S!Min(ends) = m
        <3> HIDE DEF ends
        <3> QED
            BY <2>1, <2>2, LeastIsMin
    <2>4. m \in from + 1 .. until /\ matched[m] = Len(str)
        BY <2>2 DEF Least
    <2>5. S!FindFirst(s, str, from, until) = m - Len(str)
        BY <1>1, <1>8, <2>3
    <2>6. matched[m] <= m - from /\ m \in Nat /\ m <= until
        BY <1>6, <2>4
    <2>7. m - Len(str) \in Nat /\ from <= m - Len(str) /\ (m - Len(str)) + Len(str) <= until
        BY <2>4, <2>6
    <2> QED
        BY <2>5, <2>7
<1> QED
    BY <1>7, <1>8

\* So is what findLast() reports.
LEMMA FindLastIs ==
    ASSUME NEW s, NEW str, NEW until \in Nat
    PROVE  \/ S!FindLast(s, str, until) = S!NotFound
           \/ S!FindLast(s, str, until) \in 0 .. until - 1
<1> DEFINE matched[i \in 0 .. until] ==
                IF i = until THEN 0 ELSE S!Advance(matched[i + 1], s[i + 1], S!Reverse(str))
           N == {i \in 0 .. until - 1 : matched[i] = Len(str)}
<1>1. S!FindLast(s, str, until) = S!LastOf(N)
    BY DEF S!FindLast
<1>2. N \in SUBSET (0 .. until - 1) /\ N \in SUBSET Int /\ N \in SUBSET (0 .. until)
    OBVIOUS
<1> HIDE DEF N
<1>3. CASE N = {}
    BY <1>1, <1>3 DEF S!LastOf
<1>4. CASE N # {}
    <2>1. PICK m : Greatest(m, N)
        BY <1>2, <1>4, GreatestNumber
    <2>2. S!Max(N) = m /\ m \in N
        BY <1>2, <2>1, GreatestIsMax DEF Greatest
    <2> QED
        BY <1>1, <1>2, <1>4, <2>2 DEF S!LastOf
<1> QED
    BY <1>3, <1>4

\* Where matches end: behind a whole text, inside the range.
LEMMA MatchEndsIs ==
    ASSUME NEW s, NEW str, Len(str) \in Nat \ {0}, NEW from \in Nat, NEW until \in Nat, from <= until,
           NEW most \in Nat
    PROVE  S!MatchEnds(s, str, from, until, most) \in Seq(Len(str) .. until)
<1> DEFINE Ready(p) == S!FindFirst(s, str, p, until) # S!NotFound
           End(p) == S!FindFirst(s, str, p, until) + Len(str)
           ends[p \in from .. until] ==
                LET end == S!FindFirst(s, str, p, until) + Len(str)
                IN  IF S!FindFirst(s, str, p, until) = S!NotFound THEN <<>> ELSE <<end>> \o ends[end]
           Y == Seq(Len(str) .. until)
           X == from .. until
           D == {p \in X : Ready(p)}
           next == [p \in D |-> End(p)]
           rank == [p \in X |-> until - p]
           base == [p \in X |-> <<>>]
           step == [p \in D |-> [e \in Y |-> <<End(p)>> \o e]]
<1>1. S!MatchEnds(s, str, from, until, most) =
        IF most = 0 THEN ends[from] ELSE SubSeq(ends[from], 1, S!Min({most, Len(ends[from])}))
    BY DEF S!MatchEnds
<1>2. ASSUME NEW p \in X, Ready(p)
      PROVE  End(p) \in X /\ p < End(p) /\ End(p) \in Len(str) .. until
    <2>1. p \in Nat /\ p \in Int /\ from <= p /\ p <= until
        OBVIOUS
    <2>2. S!FindFirst(s, str, p, until) \in Nat /\ p <= S!FindFirst(s, str, p, until)
          /\ S!FindFirst(s, str, p, until) + Len(str) <= until
        BY <1>2, <2>1, FindFirstIs
    <2> QED
        BY <2>1, <2>2
<1> HIDE DEF Ready, End
<1>3. Recurs(X, Y, D, next, rank, until + 1, base, step)
    <2>1. ASSUME NEW p \in D PROVE step[p] \in [Y -> Y]
        <3>1. <<End(p)>> \in Y
            <4>1. End(p) \in Len(str) .. until
                BY <1>2
            <4> QED
                BY <4>1
        <3>2. \A e \in Y : <<End(p)>> \o e \in Y
            BY <3>1, ConcatProperties
        <3> HIDE DEF Y
        <3> QED
            BY <3>2
    <2>2. step \in [D -> [Y -> Y]]
        BY <2>1
    <2>3. D \in SUBSET X /\ next \in [D -> X]
        BY <1>2
    <2>4. base \in [X -> Y] /\ until + 1 \in Nat
        OBVIOUS
    <2>5. rank \in [X -> Nat] /\ \A p \in X : rank[p] < until + 1
        OBVIOUS
    <2>6. ASSUME NEW p \in D PROVE rank[next[p]] < rank[p]
        <3>1. p \in X /\ next[p] = End(p) /\ End(p) \in X /\ p < End(p)
            BY <1>2
        <3> HIDE DEF D, next
        <3> QED
            BY <3>1
    <2> HIDE DEF X, Y, D, next, rank, base, step
    <2> QED
        BY <2>2, <2>3, <2>4, <2>5, <2>6 DEF Recurs
<1>4. PICK f \in [X -> Y] : \A p \in X : f[p] = IF p \in D THEN step[p][f[next[p]]] ELSE base[p]
    <2> HIDE DEF X, Y, D, next, rank, base, step
    <2> QED
        BY <1>3, RecursionComputes
<1>5. f = [p \in from .. until |->
                LET end == S!FindFirst(s, str, p, until) + Len(str)
                IN  IF S!FindFirst(s, str, p, until) = S!NotFound THEN <<>> ELSE <<end>> \o f[end]]
    <2>1. ASSUME NEW p \in X
          PROVE  f[p] = IF S!FindFirst(s, str, p, until) = S!NotFound THEN <<>> ELSE <<End(p)>> \o f[End(p)]
        <3>1. CASE ~Ready(p)
            <4>1. p \notin D /\ f[p] = <<>>
                BY <1>4, <3>1
            <4> QED
                BY <3>1, <4>1 DEF Ready
        <3>2. CASE Ready(p)
            <4>1. p \in D /\ next[p] = End(p) /\ End(p) \in X
                BY <1>2, <3>2
            <4>2. f[End(p)] \in Y
                <5> HIDE DEF X, Y
                <5> QED
                    BY <4>1
            <4>3. step[p][f[End(p)]] = <<End(p)>> \o f[End(p)]
                <5> HIDE DEF Y, D
                <5> QED
                    BY <4>1, <4>2
            <4>4. f[p] = <<End(p)>> \o f[End(p)]
                <5> HIDE DEF Y, D, step, next, base
                <5> QED
                    BY <1>4, <4>1, <4>3
            <4> QED
                BY <3>2, <4>4 DEF Ready
        <3> QED
            BY <3>1, <3>2
    <2>2. f = [p \in X |-> f[p]]
        <3> HIDE DEF X, Y
        <3> QED
            OBVIOUS
    <2> HIDE DEF Y
    <2> QED
        BY <2>1, <2>2 DEF End
<1>6. ends = [p \in from .. until |->
                LET end == S!FindFirst(s, str, p, until) + Len(str)
                IN  IF S!FindFirst(s, str, p, until) = S!NotFound THEN <<>> ELSE <<end>> \o ends[end]]
    <2>1. ends = CHOOSE g : g = [p \in from .. until |->
                LET end == S!FindFirst(s, str, p, until) + Len(str)
                IN  IF S!FindFirst(s, str, p, until) = S!NotFound THEN <<>> ELSE <<end>> \o g[end]]
        BY DEF ends
    <2> HIDE DEF ends
    <2> QED
        BY <1>5, <2>1
<1> HIDE DEF ends, D, next, rank, base, step
<1>7. \A p \in X : ends[p] \in Y
    <2> DEFINE Bad == {k \in Nat : k <= until - from /\ ends[until - k] \notin Y}
    <2>1. ASSUME NEW k \in Bad PROVE \E j \in Bad : j < k
        <3> DEFINE p == until - k
        <3>1. k \in Nat /\ p \in X /\ ends[p] \notin Y
            OBVIOUS
        <3> HIDE DEF p
        <3>2. ends[p] = IF S!FindFirst(s, str, p, until) = S!NotFound THEN <<>>
                        ELSE <<End(p)>> \o ends[End(p)]
            BY <1>6, <3>1 DEF End
        <3>3. Ready(p)
            <4> SUFFICES ASSUME ~Ready(p) PROVE ends[p] \in Y
                BY <3>1
            <4>1. ends[p] = <<>>
                BY <3>2 DEF Ready
            <4> QED
                BY <4>1
        <3>4. ends[p] = <<End(p)>> \o ends[End(p)]
            BY <3>2, <3>3 DEF Ready
        <3>5. End(p) \in X /\ p < End(p) /\ End(p) \in Len(str) .. until
            BY <1>2, <3>1, <3>3
        <3>6. ends[End(p)] \notin Y
            <4> SUFFICES ASSUME ends[End(p)] \in Y PROVE FALSE
                OBVIOUS
            <4>1. <<End(p)>> \in Y
                BY <3>5
            <4>2. <<End(p)>> \o ends[End(p)] \in Y
                BY <4>1, ConcatProperties
            <4> QED
                BY <3>1, <3>4, <4>2
        <3>7. until - End(p) \in Nat /\ until - End(p) <= until - from /\ until - (until - End(p)) = End(p)
              /\ until - End(p) < k
            BY <3>1, <3>5 DEF p
        <3>8. until - End(p) \in Bad
            <4> HIDE DEF X, Y
            <4> QED
                BY <3>6, <3>7
        <3> QED
            BY <3>7, <3>8
    <2>2. Bad \in SUBSET Nat
        OBVIOUS
    <2> HIDE DEF Bad
    <2>3. Bad = {}
        BY <2>1, <2>2, NoLeast
    <2> SUFFICES ASSUME NEW p \in X PROVE ends[p] \in Y
        OBVIOUS
    <2>4. until - p \in Nat /\ until - p <= until - from /\ until - (until - p) = p
        OBVIOUS
    <2>5. until - p \notin Bad
        BY <2>3
    <2> HIDE DEF Y
    <2> QED
        BY <2>4, <2>5 DEF Bad
<1>8. ends[from] \in Y
    BY <1>7
<1> DEFINE e == ends[from]
<1> HIDE DEF X, e
<1>9. e \in Seq(Len(str) .. until) /\ Len(e) \in Nat
    BY <1>8 DEF e
<1>10. CASE most = 0
    BY <1>1, <1>9, <1>10 DEF e
<1>11. CASE most # 0
    <2>0. most \in Int /\ Len(e) \in Int
        BY <1>9
    <2>1. S!Min({most, Len(e)}) = IF most <= Len(e) THEN most ELSE Len(e)
        BY <2>0, LesserOfTwo
    <2> DEFINE n == S!Min({most, Len(e)})
    <2>2. n \in 0 .. Len(e)
        BY <1>9, <2>1
    <2> HIDE DEF n
    <2>3. SubSeq(e, 1, n) \in Seq(Len(str) .. until)
        <3>1. \A Z : \A q \in Seq(Z) : \A m \in 0 .. Len(q) : SubSeq(q, 1, m) \in Seq(Z)
            BY Fronts
        <3> QED
            BY <1>9, <2>2, <3>1
    <2>4. S!MatchEnds(s, str, from, until, most) = SubSeq(e, 1, n)
        BY <1>1, <1>11 DEF e, n
    <2> QED
        BY <2>3, <2>4
<1> QED
    BY <1>10, <1>11

-----------------------------------------------------------------------------
(* Replacing leaves a string in order, whatever it makes of it.            *)
LEMMA KeepsItself == ASSUME NEW b, Sane(b) PROVE Keeps(b, b)
BY DEF Keeps

\* Writing over characters leaves a string in order.
LEMMA WrittenKeeps ==
    ASSUME NEW b, NEW c, Keeps(b, c), NEW pos \in Int, NEW str \in Seq(Chars)
    PROVE  Keeps(b, S!Written(c, pos, str)) /\ Len(S!Written(c, pos, str).items) = Len(c.items)
<1>1. Sane(c) /\ (Tidy(b) => Tidy(c))
    BY DEF Keeps
<1>2. Rewritten(c, Over(c.items, pos, str), S!Written(c, pos, str))
    BY <1>1, WrittenIs
<1>3. c.items \in Seq(Chars)
    BY <1>1, StringFields
<1>4. Len(Over(c.items, pos, str)) = Len(c.items)
    BY <1>3, OverIs
<1> QED
    BY <1>1, <1>2, <1>4 DEF Keeps, Rewritten

\* How replace() ends: with a string in order, returning or not.
Settles(b, outcome) == outcome.raises \in BOOLEAN /\ outcome.ruins = FALSE /\ Keeps(b, outcome.self)

\* A method that returns such a string settles, and one that throws.
LEMMA DoneSettles == ASSUME NEW b, NEW c, Keeps(b, c) PROVE Settles(b, S!Done(c)) /\ Settles(b, S!Raised(c))
BY DEF Settles, S!Done, S!Raised

\* A new text that is as long is written over each match.
LEMMA ReplaceSameSettles ==
    ASSUME NEW b, Sane(b), NEW to \in Seq(Chars), NEW ends \in Seq(Int)
    PROVE  Settles(b, S!ReplaceSame(b, to, ends))
<1> DEFINE written[n \in 0 .. Len(ends)] ==
                IF n = 0 THEN b ELSE S!Written(written[n - 1], ends[n] - Len(to), to)
           Y == {c \in StringRecord : Keeps(b, c)}
           step == [k \in 1 .. Len(ends) |-> [c \in Y |-> S!Written(c, ends[k] - Len(to), to)]]
<1>1. S!ReplaceSame(b, to, ends) = S!Done(written[Len(ends)])
    BY DEF S!ReplaceSame
<1>2. Len(ends) \in Nat /\ Len(to) \in Nat /\ \A k \in 1 .. Len(ends) : ends[k] - Len(to) \in Int
    <2>1. \A k \in 1 .. Len(ends) : ends[k] \in Int
        BY ElementOfSeq
    <2> QED
        BY <2>1
<1>3. ASSUME NEW k \in 1 .. Len(ends), NEW c \in Y PROVE S!Written(c, ends[k] - Len(to), to) \in Y
    <2>1. Keeps(b, S!Written(c, ends[k] - Len(to), to))
        BY <1>2, WrittenKeeps
    <2> QED
        BY <2>1 DEF Keeps, Sane
<1>4. b \in Y
    BY KeepsItself DEF Sane
<1> HIDE DEF Y
<1>5. step \in [1 .. Len(ends) -> [Y -> Y]]
    BY <1>3
<1>6. PICK f \in [0 .. Len(ends) -> Y] : \A k \in 0 .. Len(ends) : f[k] = IF k = 0 THEN b ELSE step[k][f[k - 1]]
    <2> HIDE DEF step
    <2>1. Rounds(Y, Len(ends), b, step)
        BY <1>2, <1>4, <1>5 DEF Rounds
    <2> QED
        BY <2>1, RoundsCompute
<1>7. f = [n \in 0 .. Len(ends) |-> IF n = 0 THEN b ELSE S!Written(f[n - 1], ends[n] - Len(to), to)]
    <2>1. ASSUME NEW n \in 0 .. Len(ends)
          PROVE  f[n] = IF n = 0 THEN b ELSE S!Written(f[n - 1], ends[n] - Len(to), to)
        <3>1. CASE n = 0
            BY <1>6, <3>1
        <3>2. CASE n # 0
            <4>1. n \in 1 .. Len(ends) /\ n - 1 \in 0 .. Len(ends)
                BY <1>2, <3>2
            <4>2. f[n - 1] \in Y
                BY <4>1
            <4>3. step[n][f[n - 1]] = S!Written(f[n - 1], ends[n] - Len(to), to)
                BY <4>1, <4>2
            <4> HIDE DEF step
            <4> QED
                BY <1>6, <3>2, <4>3
        <3> QED
            BY <3>1, <3>2
    <2> QED
        BY <2>1
<1>8. written = [n \in 0 .. Len(ends) |-> IF n = 0 THEN b ELSE S!Written(written[n - 1], ends[n] - Len(to), to)]
    <2>1. written = CHOOSE g : g = [n \in 0 .. Len(ends) |->
                        IF n = 0 THEN b ELSE S!Written(g[n - 1], ends[n] - Len(to), to)]
        BY DEF written
    <2> HIDE DEF written
    <2> QED
        BY <1>7, <2>1
<1> HIDE DEF written, step
<1>9. written[Len(ends)] \in Y
    <2> DEFINE Bad == {k \in 0 .. Len(ends) : written[k] \notin Y}
    <2>1. ASSUME NEW k \in Bad PROVE \E j \in Bad : j < k
        <3>1. k \in 0 .. Len(ends) /\ written[k] \notin Y
            OBVIOUS
        <3>2. k # 0
            BY <1>4, <1>8, <3>1
        <3>3. k - 1 \in 0 .. Len(ends) /\ k \in 1 .. Len(ends) /\ k - 1 < k
            BY <1>2, <3>1, <3>2
        <3>4. written[k] = S!Written(written[k - 1], ends[k] - Len(to), to)
            BY <1>8, <3>1, <3>2
        <3>5. written[k - 1] \notin Y
            BY <1>3, <3>1, <3>3, <3>4
        <3>6. k - 1 \in Bad
            BY <3>3, <3>5
        <3> QED
            BY <3>3, <3>6
    <2>2. Bad \in SUBSET Nat
        BY <1>2
    <2> HIDE DEF Bad
    <2>3. Bad = {}
        BY <2>1, <2>2, NoLeast
    <2>4. Len(ends) \in 0 .. Len(ends)
        BY <1>2
    <2> QED
        BY <2>3, <2>4 DEF Bad
<1> QED
    BY <1>1, <1>9, DoneSettles DEF Y

LEMMA NatProduct == ASSUME NEW m \in Nat, NEW n \in Nat PROVE m * n \in Nat
OBVIOUS

LEMMA ProductNotZero == ASSUME NEW m \in Nat \ {0}, NEW n \in Nat \ {0} PROVE m * n # 0
OBVIOUS

-----------------------------------------------------------------------------
\* Growing: the rounds go from the last match to the first.
GrowingRound(what, to, sofar, n) ==
    LET more == Len(to) - Len(what)
        Found(self, pos) ==
            LET at == S!FindLast(self.items, what, pos) IN IF at = S!NotFound THEN pos ELSE at
        offset == n * more
        self == S!Written(S!ShiftBackward(sofar.self, sofar.pos, sofar.chunkEnd, offset),
                          sofar.pos + offset - Len(to), to)
        start == sofar.pos - Len(what)
    IN  IF sofar.raises \/ sofar.pos > sofar.chunkEnd THEN [sofar EXCEPT !.raises = TRUE]
        ELSE IF n = 1 \/ start = 0 THEN [sofar EXCEPT !.self = self, !.raises = n # 1]
        ELSE [self |-> self, raises |-> FALSE, chunkEnd |-> start,
              pos |-> Found(self, start - 1) + Len(what)]

\* The states between two rounds.
GrowingStates(b, what) ==
    {r \in [self : StringRecord, raises : BOOLEAN, chunkEnd : Nat, pos : Nat] :
        Keeps(b, r.self) /\ r.chunkEnd <= Len(r.self.items) /\ Len(what) <= r.pos}

\* A round of the growing loop leaves a string in order, and where it goes on inside.
LEMMA GrowingRoundStays ==
    ASSUME NEW b, NEW what \in Seq(Chars), NEW to \in Seq(Chars), Len(what) < Len(to),
           NEW n \in Nat, NEW r \in GrowingStates(b, what)
    PROVE  GrowingRound(what, to, r, n) \in GrowingStates(b, what)
<1> DEFINE more == Len(to) - Len(what)
           offset == n * more
           moved == S!ShiftBackward(r.self, r.pos, r.chunkEnd, offset)
           self == S!Written(moved, r.pos + offset - Len(to), to)
           start == r.pos - Len(what)
           at == S!FindLast(self.items, what, start - 1)
           found == IF at = S!NotFound THEN start - 1 ELSE at
           next == GrowingRound(what, to, r, n)
<1>1. /\ r \in [self : StringRecord, raises : BOOLEAN, chunkEnd : Nat, pos : Nat]
      /\ Keeps(b, r.self) /\ r.chunkEnd <= Len(r.self.items) /\ Len(what) <= r.pos
    BY DEF GrowingStates
<1>2. r.chunkEnd \in Nat /\ r.pos \in Nat /\ r.raises \in BOOLEAN /\ Len(what) \in Nat /\ Len(to) \in Nat
    BY <1>1
<1>3. more \in Nat
    BY <1>2
<1> HIDE DEF more
<1>4. offset \in Nat
    BY <1>3, NatProduct
<1> HIDE DEF offset
<1>5. CASE r.raises \/ r.pos > r.chunkEnd
    <2>1. next = [r EXCEPT !.raises = TRUE]
        BY <1>5 DEF GrowingRound
    <2>2. [r EXCEPT !.raises = TRUE] \in GrowingStates(b, what)
        BY <1>1 DEF GrowingStates
    <2> QED
        BY <2>1, <2>2
<1>6. CASE ~(r.raises \/ r.pos > r.chunkEnd)
    <2>1. r.pos <= r.chunkEnd
        BY <1>2, <1>6
    <2>2. Sane(r.self) /\ (Tidy(b) => Tidy(r.self))
        BY <1>1 DEF Keeps
    <2>3. r.self.items \in Seq(Chars) /\ Len(r.self.items) \in Nat
        BY <2>2, StringFields
    <2>4. r.chunkEnd \in 0 .. Len(r.self.items) /\ r.pos \in 0 .. r.chunkEnd
        BY <1>1, <1>2, <2>1, <2>3
    <2>5. Whole(moved, Backward(r.self.items, r.pos, r.chunkEnd, offset))
        BY <1>4, <2>2, <2>4, ShiftBackwardIs
    <2>6. Len(Backward(r.self.items, r.pos, r.chunkEnd, offset)) =
            IF Len(r.self.items) <= r.chunkEnd + offset THEN r.chunkEnd + offset ELSE Len(r.self.items)
        BY <1>4, <2>3, <2>4, BackwardIs
    <2>7. Keeps(b, moved) /\ r.chunkEnd <= Len(moved.items)
        <3>1. r.chunkEnd <= Len(Backward(r.self.items, r.pos, r.chunkEnd, offset))
            BY <1>1, <1>2, <1>4, <2>3, <2>6
        <3> QED
            BY <2>5, <3>1 DEF Keeps, Whole
    <2> HIDE DEF moved
    <2>8. r.pos + offset - Len(to) \in Int
        BY <1>2, <1>4
    <2>9. Keeps(b, self) /\ Len(self.items) = Len(moved.items)
        BY <2>7, <2>8, WrittenKeeps
    <2> HIDE DEF self
    <2>10. self \in StringRecord
        BY <2>9 DEF Keeps, Sane
    <2>11. CASE n = 1 \/ start = 0
        <3> DEFINE r1 == [r EXCEPT !.self = self]
        <3>1. next = [r1 EXCEPT !.raises = n # 1]
            BY <1>6, <2>11 DEF GrowingRound, self, moved, offset, more
        <3>2. r1 \in [self : StringRecord, raises : BOOLEAN, chunkEnd : Nat, pos : Nat]
              /\ r1.self = self /\ r1.chunkEnd = r.chunkEnd /\ r1.pos = r.pos
            BY <1>1, <2>10
        <3> HIDE DEF r1, next
        <3>3. (n # 1) \in BOOLEAN
            OBVIOUS
        <3>4. next \in [self : StringRecord, raises : BOOLEAN, chunkEnd : Nat, pos : Nat]
              /\ next.self = self /\ next.chunkEnd = r.chunkEnd /\ next.pos = r.pos
            BY <3>1, <3>2, <3>3
        <3>5. next \in GrowingStates(b, what)
            BY <1>1, <2>7, <2>9, <3>4 DEF GrowingStates
        <3> QED
            BY <3>5 DEF next
    <2>12. CASE ~(n = 1 \/ start = 0)
        <3>1. next = [self |-> self, raises |-> FALSE, chunkEnd |-> start, pos |-> found + Len(what)]
            BY <1>6, <2>12 DEF GrowingRound, self, moved, offset, more
        <3>2. start \in Nat /\ start <= Len(self.items) /\ start - 1 \in Nat
            <4>1. start \in Nat /\ start # 0 /\ start <= r.chunkEnd
                BY <1>1, <1>2, <2>1, <2>12
            <4> HIDE DEF start
            <4>2. Len(self.items) \in Nat
                BY <2>9, StringFields DEF Keeps
            <4> QED
                BY <1>2, <2>7, <2>9, <4>1, <4>2
        <3> HIDE DEF start
        <3>3. at = S!NotFound \/ at \in 0 .. start - 1 - 1
            BY <3>2, FindLastIs
        <3> HIDE DEF at
        <3>4. found \in Nat
            BY <3>2, <3>3
        <3> HIDE DEF found, next
        <3>5. found + Len(what) \in Nat /\ Len(what) <= found + Len(what)
            BY <1>2, <3>4
        <3>6. next \in [self : StringRecord, raises : BOOLEAN, chunkEnd : Nat, pos : Nat]
              /\ next.self = self /\ next.chunkEnd = start /\ next.pos = found + Len(what)
            BY <2>10, <3>1, <3>2, <3>5
        <3>7. next \in GrowingStates(b, what)
            BY <2>9, <3>2, <3>5, <3>6 DEF GrowingStates
        <3> QED
            BY <3>7 DEF next
    <2> QED
        BY <2>11, <2>12
<1> QED
    BY <1>5, <1>6

\* So do all of them, for the room was made before the first.
LEMMA ReplaceGrowingSettles ==
    ASSUME NEW b, Sane(b), NEW what \in Seq(Chars), NEW to \in Seq(Chars), Len(what) < Len(to),
           NEW until \in Nat, NEW ends \in Seq(Len(what) .. until)
    PROVE  Settles(b, S!ReplaceGrowing(b, what, to, ends))
<1> DEFINE matches == Len(ends)
           more == Len(to) - Len(what)
           total == Len(b.items) + matches * more
           room == S!RoomFor(b, total, total)
           first == [self |-> room, raises |-> FALSE, chunkEnd |-> Len(b.items), pos |-> ends[matches]]
           rounds[k \in 0 .. matches] ==
                IF k = 0 THEN first ELSE GrowingRound(what, to, rounds[k - 1], matches + 1 - k)
           Y == GrowingStates(b, what)
           step == [k \in 1 .. matches |-> [r \in Y |-> GrowingRound(what, to, r, matches + 1 - k)]]
<1>1. b.items \in Seq(Chars) /\ Len(b.items) \in Nat
    BY StringFields
<1>2. matches \in Nat /\ Len(to) \in Nat /\ Len(what) \in Nat
    OBVIOUS
<1>3. total \in Nat
    <2>1. more \in Nat
        BY <1>2
    <2> HIDE DEF more
    <2>2. matches * more \in Nat
        BY <1>2, <2>1, NatProduct
    <2> QED
        BY <1>1, <2>2
<1>4. Keeps(b, room) /\ room.items = b.items
    <2>1. total <= total
        BY <1>3
    <2> HIDE DEF total
    <2>2. RoomIs(b, total, room)
        BY <1>3, <2>1, RoomForIs
    <2> QED
        BY <2>2 DEF RoomIs, Keeps
<1>5. CASE matches = 0
    <2>1. S!ReplaceGrowing(b, what, to, ends) = S!Done(room)
        BY <1>5 DEF S!ReplaceGrowing
    <2> HIDE DEF room
    <2> QED
        BY <1>4, <2>1, DoneSettles
<1>6. CASE matches # 0
    <2>1. S!ReplaceGrowing(b, what, to, ends) =
            [self |-> rounds[matches].self, raises |-> rounds[matches].raises, ruins |-> FALSE]
        BY <1>6 DEF S!ReplaceGrowing, GrowingRound
    <2>2. first \in Y
        <3>1. ends[matches] \in Nat /\ Len(what) <= ends[matches]
            <4>1. matches \in 1 .. Len(ends)
                BY <1>2, <1>6
            <4>2. ends[matches] \in Len(what) .. until
                BY <4>1, ElementOfSeq
            <4> QED
                BY <1>2, <4>2
        <3>2. room \in StringRecord
            BY <1>4 DEF Keeps, Sane
        <3> HIDE DEF room, matches
        <3>3. first \in [self : StringRecord, raises : BOOLEAN, chunkEnd : Nat, pos : Nat]
              /\ first.self = room /\ first.chunkEnd = Len(b.items) /\ first.pos = ends[matches]
            BY <1>1, <3>1, <3>2
        <3>4. Len(b.items) <= Len(room.items)
            BY <1>1, <1>4
        <3> HIDE DEF first
        <3> QED
            BY <1>4, <3>1, <3>3, <3>4 DEF GrowingStates
    <2>3. ASSUME NEW k \in 1 .. matches, NEW r \in Y PROVE GrowingRound(what, to, r, matches + 1 - k) \in Y
        <3>1. matches + 1 - k \in Nat
            BY <1>2
        <3> QED
            BY <3>1, GrowingRoundStays
    <2> HIDE DEF first, Y, matches
    <2>4. step \in [1 .. matches -> [Y -> Y]]
        BY <2>3
    <2>5. PICK f \in [0 .. matches -> Y] : \A k \in 0 .. matches : f[k] = IF k = 0 THEN first ELSE step[k][f[k - 1]]
        <3> HIDE DEF step
        <3>1. Rounds(Y, matches, first, step)
            BY <1>2, <2>2, <2>4 DEF Rounds
        <3> QED
            BY <3>1, RoundsCompute
    <2>6. f = [k \in 0 .. matches |-> IF k = 0 THEN first ELSE GrowingRound(what, to, f[k - 1], matches + 1 - k)]
        <3>1. ASSUME NEW k \in 0 .. matches
              PROVE  f[k] = IF k = 0 THEN first ELSE GrowingRound(what, to, f[k - 1], matches + 1 - k)
            <4>1. CASE k = 0
                BY <2>5, <4>1
            <4>2. CASE k # 0
                <5>1. k \in 1 .. matches /\ k - 1 \in 0 .. matches
                    BY <1>2, <4>2
                <5>2. f[k - 1] \in Y
                    BY <5>1
                <5>3. step[k][f[k - 1]] = GrowingRound(what, to, f[k - 1], matches + 1 - k)
                    BY <5>1, <5>2
                <5> HIDE DEF step
                <5> QED
                    BY <2>5, <4>2, <5>3
            <4> QED
                BY <4>1, <4>2
        <3> QED
            BY <3>1
    <2>7. rounds = [k \in 0 .. matches |->
                        IF k = 0 THEN first ELSE GrowingRound(what, to, rounds[k - 1], matches + 1 - k)]
        <3>1. rounds = CHOOSE g : g = [k \in 0 .. matches |->
                        IF k = 0 THEN first ELSE GrowingRound(what, to, g[k - 1], matches + 1 - k)]
            BY DEF rounds
        <3> HIDE DEF rounds
        <3> QED
            BY <2>6, <3>1
    <2> HIDE DEF rounds, step
    <2>8. rounds[matches] \in Y
        <3> DEFINE Bad == {k \in 0 .. matches : rounds[k] \notin Y}
        <3>1. ASSUME NEW k \in Bad PROVE \E j \in Bad : j < k
            <4>1. k \in 0 .. matches /\ rounds[k] \notin Y
                OBVIOUS
            <4>2. k # 0
                BY <2>2, <2>7, <4>1
            <4>3. k - 1 \in 0 .. matches /\ k \in 1 .. matches /\ k - 1 < k
                BY <1>2, <4>1, <4>2
            <4>4. rounds[k] = GrowingRound(what, to, rounds[k - 1], matches + 1 - k)
                BY <2>7, <4>1, <4>2
            <4>5. rounds[k - 1] \notin Y
                BY <2>3, <4>1, <4>3, <4>4
            <4>6. k - 1 \in Bad
                BY <4>3, <4>5
            <4> QED
                BY <4>3, <4>6
        <3>2. Bad \in SUBSET Nat
            BY <1>2
        <3> HIDE DEF Bad
        <3>3. Bad = {}
            BY <3>1, <3>2, NoLeast
        <3>4. matches \in 0 .. matches
            BY <1>2
        <3> QED
            BY <3>3, <3>4 DEF Bad
    <2>9. Keeps(b, rounds[matches].self) /\ rounds[matches].raises \in BOOLEAN
        BY <2>8 DEF Y, GrowingStates
    <2> QED
        BY <2>1, <2>9 DEF Settles
<1> HIDE DEF matches
<1> QED
    BY <1>5, <1>6

-----------------------------------------------------------------------------
\* Shrinking: the rounds go from the first match to the last.
SearchFrom(what, until, self, from, pos) ==
    LET at == S!FindFirst(self.items, what, from, until) IN IF at = S!NotFound THEN pos ELSE at

ShrinkingRound(what, to, until, matches, sofar, n) ==
    LET less == Len(what) - Len(to)
        offset == n * less
        self == S!Write(sofar.self, sofar.pos, to).self
        last == sofar.pos + Len(to)
        pos == IF n = matches THEN Len(self.items) ELSE SearchFrom(what, until, self, last + offset, sofar.pos)
    IN  IF sofar.raises \/ last > Len(sofar.self.items) THEN [sofar EXCEPT !.raises = TRUE]
        ELSE IF last + offset > until \/ last + offset > pos
        THEN [sofar EXCEPT !.self = self, !.raises = TRUE]
        ELSE [self |-> S!ShiftForward(self, last + offset, pos, offset), raises |-> FALSE,
              pos |-> pos - offset]

\* The states after k rounds; while there are more to come, the range is inside.
ShrinkingStates(b, until, matches, k) ==
    {r \in [self : StringRecord, raises : BOOLEAN, pos : Nat] :
        Keeps(b, r.self) /\ (k < matches => until <= Len(r.self.items))}

\* A search that goes on ends inside the range, or stays where it was.
LEMMA SearchIsInside ==
    ASSUME NEW what \in Seq(Chars), what # <<>>, NEW until \in Nat, NEW self, NEW from \in Nat, NEW pos \in Nat
    PROVE  /\ SearchFrom(what, until, self, from, pos) \in Nat
           /\ SearchFrom(what, until, self, from, pos) = pos \/ SearchFrom(what, until, self, from, pos) < until
<1> DEFINE at == S!FindFirst(self.items, what, from, until)
<1>1. SearchFrom(what, until, self, from, pos) = IF at = S!NotFound THEN pos ELSE at
    BY DEF SearchFrom
<1>2. Len(what) \in Nat /\ Len(what) # 0
    BY EmptySeq
<1>3. at = S!NotFound \/ (at \in Nat /\ from <= at /\ at + Len(what) <= until)
    BY <1>2, FindFirstIs
<1> HIDE DEF at
<1>4. CASE at = S!NotFound
    BY <1>1, <1>4
<1>5. CASE at # S!NotFound
    <2>1. at \in Nat /\ at < until
        BY <1>2, <1>3, <1>5
    <2> QED
        BY <1>1, <1>5, <2>1
<1> QED
    BY <1>4, <1>5

\* A round of the shrinking loop leaves a string in order.
LEMMA ShrinkingRoundStays ==
    ASSUME NEW b, NEW what \in Seq(Chars), NEW to \in Seq(Chars), Len(to) < Len(what),
           NEW until \in Nat, NEW matches \in Nat, NEW n \in 1 .. matches,
           NEW r \in ShrinkingStates(b, until, matches, n - 1)
    PROVE  ShrinkingRound(what, to, until, matches, r, n) \in ShrinkingStates(b, until, matches, n)
<1> DEFINE less == Len(what) - Len(to)
           offset == n * less
           self == S!Write(r.self, r.pos, to).self
           last == r.pos + Len(to)
           pos == IF n = matches THEN Len(self.items) ELSE SearchFrom(what, until, self, last + offset, r.pos)
           next == ShrinkingRound(what, to, until, matches, r, n)
<1>0. n \in Nat /\ 1 <= n /\ n <= matches /\ n - 1 < matches /\ (n < matches <=> n # matches)
    OBVIOUS
<1>1. /\ r \in [self : StringRecord, raises : BOOLEAN, pos : Nat]
      /\ Keeps(b, r.self) /\ until <= Len(r.self.items)
    BY <1>0 DEF ShrinkingStates
<1>2. r.pos \in Nat /\ r.raises \in BOOLEAN
    BY <1>1
<1>3. Len(what) \in Nat /\ Len(to) \in Nat /\ what # <<>>
    BY EmptySeq
<1>4. less \in Nat /\ less >= 1 /\ last \in Nat /\ Len(to) <= last
    BY <1>2, <1>3
<1> HIDE DEF less
<1>5. offset \in Nat /\ offset >= 1
    <2>1. offset \in Nat
        BY <1>0, <1>4, NatProduct
    <2>2. offset # 0
        BY <1>0, <1>4, <2>1, ProductNotZero
    <2> HIDE DEF offset
    <2> QED
        BY <2>1, <2>2
<1> HIDE DEF offset
<1>6. Sane(r.self) /\ (Tidy(b) => Tidy(r.self))
    BY <1>1 DEF Keeps
<1>7. r.self.items \in Seq(Chars) /\ Len(r.self.items) \in Nat
    BY <1>6, StringFields
<1>8. CASE r.raises \/ last > Len(r.self.items)
    <2>1. next = [r EXCEPT !.raises = TRUE]
        BY <1>8 DEF ShrinkingRound
    <2>2. [r EXCEPT !.raises = TRUE] \in ShrinkingStates(b, until, matches, n)
        BY <1>1 DEF ShrinkingStates
    <2> QED
        BY <2>1, <2>2
<1>9. CASE ~(r.raises \/ last > Len(r.self.items))
    <2>1. last <= Len(r.self.items)
        BY <1>4, <1>7, <1>9
    <2>2. Keeps(b, self) /\ Len(self.items) = Len(r.self.items)
        <3>1. ~(r.pos + Len(to) > Len(r.self.items))
            BY <1>9
        <3>2. self = S!Written(r.self, r.pos, to)
            BY <3>1 DEF S!Write, S!Done
        <3>3. r.pos \in Int
            BY <1>2
        <3> HIDE DEF self
        <3> QED
            BY <1>1, <3>2, <3>3, WrittenKeeps
    <2> HIDE DEF self
    <2>3. self \in StringRecord /\ Sane(self) /\ (Tidy(b) => Tidy(self))
        BY <2>2 DEF Keeps, Sane
    <2>4. last + offset \in Nat
        BY <1>4, <1>5
    <2>5. pos \in Nat /\ (n = matches => pos = Len(self.items))
          /\ (n # matches => pos = r.pos \/ pos < until)
        BY <1>2, <1>3, <1>7, <2>2, <2>4, SearchIsInside
    <2> HIDE DEF pos, last
    <2>6. CASE last + offset > until \/ last + offset > pos
        <3> DEFINE r1 == [r EXCEPT !.self = self]
        <3>1. next = [r1 EXCEPT !.raises = TRUE]
            BY <1>9, <2>6 DEF ShrinkingRound, self, offset, less, pos, last
        <3>2. r1 \in [self : StringRecord, raises : BOOLEAN, pos : Nat] /\ r1.self = self
            BY <1>1, <2>3
        <3> HIDE DEF r1, next
        <3>3. next \in [self : StringRecord, raises : BOOLEAN, pos : Nat] /\ next.self = self
            BY <3>1, <3>2
        <3>4. next \in ShrinkingStates(b, until, matches, n)
            BY <1>1, <2>2, <3>3 DEF ShrinkingStates
        <3> QED
            BY <3>4 DEF next
    <2>7. CASE ~(last + offset > until \/ last + offset > pos)
        <3> DEFINE shifted == S!ShiftForward(self, last + offset, pos, offset)
        <3>1. next = [self |-> shifted, raises |-> FALSE, pos |-> pos - offset]
            BY <1>9, <2>7 DEF ShrinkingRound, self, offset, less, pos, last
        <3>2. last + offset <= pos /\ last + offset <= until /\ pos - offset \in Nat
            BY <1>4, <1>5, <2>4, <2>5, <2>7 DEF last
        <3>3. pos <= Len(self.items) /\ (n # matches => pos < Len(self.items))
            <4>1. CASE n = matches
                BY <1>7, <2>2, <2>5, <4>1
            <4>2. CASE n # matches
                <5>1. pos # r.pos
                    BY <1>2, <1>3, <1>5, <2>5, <3>2 DEF last
                <5>2. pos < until
                    BY <2>5, <4>2, <5>1
                <5> QED
                    BY <1>1, <1>7, <2>2, <2>5, <4>2, <5>2
            <4> QED
                BY <4>1, <4>2
        <3>4. self.items \in Seq(Chars) /\ Len(self.items) \in Nat
            BY <2>3, StringFields
        <3>5. pos \in 0 .. Len(self.items) /\ last + offset \in 0 .. pos /\ offset \in 0 .. last + offset
            <4>1. last \in Nat
                BY <2>1, <1>4 DEF last
            <4> QED
                BY <1>5, <2>4, <2>5, <3>2, <3>3, <3>4, <4>1
        <3> DEFINE w == Forward(self.items, last + offset, pos, offset)
        <3>6. Len(w) = IF pos = Len(self.items) THEN Len(self.items) - offset ELSE Len(self.items)
            BY <3>4, <3>5, ForwardIs, Zenon
        <3>7. Keeps(b, shifted) /\ (n # matches => Len(shifted.items) = Len(self.items))
            <4>1. CASE self.block = TRUE
                <5>1. Whole(shifted, w)
                    BY <2>3, <3>5, <4>1, ShiftForwardIs
                <5>2. n # matches => Len(w) = Len(self.items)
                    BY <2>5, <3>3, <3>4, <3>6
                <5> HIDE DEF shifted, w
                <5> QED
                    BY <5>1, <5>2 DEF Whole, Keeps
            <4>2. CASE self.block = FALSE
                <5>1. shifted = self
                    BY <2>3, <3>5, <4>2, ShiftForwardIs
                <5> QED
                    BY <2>2, <5>1
            <4>3. self.block \in BOOLEAN
                BY <2>3, StringFields
            <4> QED
                BY <4>1, <4>2, <4>3
        <3> HIDE DEF shifted
        <3>8. shifted \in StringRecord
            BY <3>7 DEF Keeps, Sane
        <3> HIDE DEF next
        <3>9. next \in [self : StringRecord, raises : BOOLEAN, pos : Nat] /\ next.self = shifted
            BY <3>1, <3>2, <3>8
        <3>10. n < matches => until <= Len(shifted.items)
            BY <1>0, <1>1, <2>2, <3>7
        <3>11. next \in ShrinkingStates(b, until, matches, n)
            BY <3>7, <3>9, <3>10 DEF ShrinkingStates
        <3> QED
            BY <3>11 DEF next
    <2> QED
        BY <2>6, <2>7
<1> QED
    BY <1>8, <1>9

\* So do all of them.
LEMMA ReplaceShrinkingSettles ==
    ASSUME NEW b, Sane(b), NEW what \in Seq(Chars), NEW to \in Seq(Chars), Len(to) < Len(what),
           NEW until \in Nat, until <= Len(b.items), NEW matches \in Nat
    PROVE  Settles(b, S!ReplaceShrinking(b, what, to, until, matches))
<1> DEFINE first == [self |-> b, raises |-> FALSE, pos |-> SearchFrom(what, until, b, 0, 0)]
           rounds[n \in 0 .. matches] ==
                IF n = 0 THEN first ELSE ShrinkingRound(what, to, until, matches, rounds[n - 1], n)
           Y(k) == ShrinkingStates(b, until, matches, k)
           All == {p \in (0 .. matches) \X [self : StringRecord, raises : BOOLEAN, pos : Nat] : p[2] \in Y(p[1])}
           Round(p, k) == IF k = p[1] + 1
                          THEN <<k, ShrinkingRound(what, to, until, matches, p[2], k)>> ELSE p
           step == [k \in 1 .. matches |-> [p \in All |-> Round(p, k)]]
<1>1. S!ReplaceShrinking(b, what, to, until, matches) =
        [self |-> rounds[matches].self, raises |-> rounds[matches].raises, ruins |-> FALSE]
    BY DEF S!ReplaceShrinking, ShrinkingRound, SearchFrom
<1>2. first \in Y(0)
    <2>1. Len(what) \in Nat /\ what # <<>> /\ Len(b.items) \in Nat
        <3>1. Len(what) \in Nat /\ Len(to) \in Nat /\ Len(<<>>) = 0
            OBVIOUS
        <3>2. what # <<>>
            BY <3>1
        <3>3. Len(b.items) \in Nat
            BY StringFields
        <3> QED
            BY <3>1, <3>2, <3>3
    <2>2. 0 \in Nat
        OBVIOUS
    <2>3. SearchFrom(what, until, b, 0, 0) \in Nat
        BY <2>1, <2>2, SearchIsInside
    <2>4. b \in StringRecord
        BY DEF Sane
    <2>5. first \in [self : StringRecord, raises : BOOLEAN, pos : Nat] /\ first.self = b
        BY <2>3, <2>4
    <2> HIDE DEF first
    <2> QED
        BY <2>5, KeepsItself DEF ShrinkingStates
<1>3. ASSUME NEW k \in 1 .. matches, NEW r \in Y(k - 1)
      PROVE  ShrinkingRound(what, to, until, matches, r, k) \in Y(k)
    BY ShrinkingRoundStays
<1>4. \A k : \A r \in Y(k) : r \in [self : StringRecord, raises : BOOLEAN, pos : Nat]
    BY DEF ShrinkingStates
<1> HIDE DEF first, Y
<1>5. step \in [1 .. matches -> [All -> All]]
    <2> SUFFICES ASSUME NEW k \in 1 .. matches, NEW p \in All PROVE Round(p, k) \in All
        OBVIOUS
    <2>1. p[1] \in 0 .. matches /\ p[2] \in Y(p[1])
        OBVIOUS
    <2>2. CASE k = p[1] + 1
        <3>1. p[1] = k - 1
            BY <2>1, <2>2
        <3>2. ShrinkingRound(what, to, until, matches, p[2], k) \in Y(k)
            BY <1>3, <2>1, <3>1
        <3>3. k \in 0 .. matches
            OBVIOUS
        <3> DEFINE q == <<k, ShrinkingRound(what, to, until, matches, p[2], k)>>
        <3>4. q[1] = k /\ q[2] = ShrinkingRound(what, to, until, matches, p[2], k)
            OBVIOUS
        <3>5. q \in (0 .. matches) \X [self : StringRecord, raises : BOOLEAN, pos : Nat]
            BY <1>4, <3>2, <3>3
        <3>6. q \in All
            BY <3>2, <3>4, <3>5
        <3> QED
            BY <2>2, <3>6
    <2>3. CASE k # p[1] + 1
        BY <2>3
    <2> QED
        BY <2>2, <2>3
<1>6. <<0, first>> \in All
    <2>1. 0 \in 0 .. matches /\ first \in [self : StringRecord, raises : BOOLEAN, pos : Nat]
        BY <1>2, <1>4
    <2>2. <<0, first>>[1] = 0 /\ <<0, first>>[2] = first
        OBVIOUS
    <2> QED
        BY <1>2, <2>1, <2>2
<1>7. PICK f \in [0 .. matches -> All] :
        \A k \in 0 .. matches : f[k] = IF k = 0 THEN <<0, first>> ELSE step[k][f[k - 1]]
    <2> DEFINE begin == <<0, first>>
               m == matches
    <2>1. begin \in All
        BY <1>6
    <2> HIDE DEF step, All, begin, rounds, Round
    <2>2. Rounds(All, m, begin, step)
        BY <1>5, <2>1 DEF Rounds
    <2> HIDE DEF m
    <2>3. \E f \in [0 .. m -> All] :
             \A k \in 0 .. m : f[k] = IF k = 0 THEN begin ELSE step[k][f[k - 1]]
        BY <2>2, RoundsCompute
    <2> QED
        BY <2>3 DEF begin, m
<1>8. \A k \in 1 .. matches : k - 1 \in 0 .. matches /\ k \in 0 .. matches /\ k # 0
        /\ f[k] = Round(f[k - 1], k)
    <2> SUFFICES ASSUME NEW k \in 1 .. matches
                 PROVE k - 1 \in 0 .. matches /\ k \in 0 .. matches /\ k # 0 /\ f[k] = Round(f[k - 1], k)
        OBVIOUS
    <2>1. k - 1 \in 0 .. matches /\ k \in 0 .. matches /\ k # 0
        OBVIOUS
    <2>2. f[k - 1] \in All
        <3> HIDE DEF All
        <3> QED
            BY <2>1
    <2>3. step[k][f[k - 1]] = Round(f[k - 1], k)
        <3> HIDE DEF All, Round
        <3> QED
            BY <2>2
    <2> HIDE DEF step, All, Round
    <2> QED
        BY <1>7, <2>1, <2>3
<1> HIDE DEF step
<1>9. f[0][1] = 0 /\ f[0][2] = first
    <2>1. f[0] = <<0, first>>
        BY <1>7
    <2> HIDE DEF first
    <2> QED
        BY <2>1
<1>10. \A k \in 0 .. matches : f[k][1] = k
    <2> DEFINE Bad == {k \in 0 .. matches : f[k][1] # k}
    <2>1. ASSUME NEW k \in Bad PROVE \E j \in Bad : j < k
        <3>1. k \in 0 .. matches /\ f[k][1] # k
            OBVIOUS
        <3>2. k # 0
            BY <1>9, <3>1
        <3>3. k \in 1 .. matches /\ k - 1 < k /\ k - 1 \in 0 .. matches /\ (k - 1) + 1 = k
            BY <3>1, <3>2
        <3>4. f[k] = Round(f[k - 1], k)
            BY <1>8, <3>3
        <3>5. ASSUME f[k - 1][1] = k - 1 PROVE FALSE
            BY <3>1, <3>3, <3>4, <3>5
        <3> QED
            BY <3>3, <3>5
    <2>2. Bad \in SUBSET Nat
        OBVIOUS
    <2> HIDE DEF Bad
    <2>3. Bad = {}
        BY <2>1, <2>2, NoLeast
    <2> QED
        BY <2>3 DEF Bad
<1> DEFINE g == [k \in 0 .. matches |-> f[k][2]]
<1>11. g = [n \in 0 .. matches |->
                IF n = 0 THEN first ELSE ShrinkingRound(what, to, until, matches, g[n - 1], n)]
    <2>1. ASSUME NEW n \in 0 .. matches
          PROVE  f[n][2] = IF n = 0 THEN first ELSE ShrinkingRound(what, to, until, matches, g[n - 1], n)
        <3>1. CASE n = 0
            BY <1>9, <3>1
        <3>2. CASE n # 0
            <4>1. n \in 1 .. matches /\ n - 1 \in 0 .. matches
                BY <3>2
            <4>2. f[n] = Round(f[n - 1], n) /\ f[n - 1][1] = n - 1 /\ g[n - 1] = f[n - 1][2]
                BY <1>8, <1>10, <4>1
            <4>3. n = f[n - 1][1] + 1
                BY <4>1, <4>2
            <4>4. f[n] = <<n, ShrinkingRound(what, to, until, matches, f[n - 1][2], n)>>
                BY <4>2, <4>3
            <4> QED
                BY <3>2, <4>2, <4>4
        <3> QED
            BY <3>1, <3>2
    <2> QED
        BY <2>1
<1> HIDE DEF g
<1>12. rounds = [n \in 0 .. matches |->
                IF n = 0 THEN first ELSE ShrinkingRound(what, to, until, matches, rounds[n - 1], n)]
    <2>1. rounds = CHOOSE h : h = [n \in 0 .. matches |->
                IF n = 0 THEN first ELSE ShrinkingRound(what, to, until, matches, h[n - 1], n)]
        BY DEF rounds
    <2> HIDE DEF rounds
    <2> QED
        BY <1>11, <2>1
<1> HIDE DEF rounds
<1>13. rounds[matches] \in Y(matches)
    <2> DEFINE Bad == {k \in 0 .. matches : rounds[k] \notin Y(k)}
    <2>1. ASSUME NEW k \in Bad PROVE \E j \in Bad : j < k
        <3>1. k \in 0 .. matches /\ rounds[k] \notin Y(k)
            OBVIOUS
        <3>2. k # 0
            BY <1>2, <1>12, <3>1
        <3>3. k - 1 \in 0 .. matches /\ k \in 1 .. matches /\ k - 1 < k
            BY <3>1, <3>2
        <3>4. rounds[k] = ShrinkingRound(what, to, until, matches, rounds[k - 1], k)
            BY <1>12, <3>1, <3>2
        <3>5. rounds[k - 1] \notin Y(k - 1)
            BY <1>3, <3>1, <3>3, <3>4
        <3>6. k - 1 \in Bad
            BY <3>3, <3>5
        <3> QED
            BY <3>3, <3>6
    <2>2. Bad \in SUBSET Nat
        OBVIOUS
    <2> HIDE DEF Bad
    <2>3. Bad = {}
        BY <2>1, <2>2, NoLeast
    <2>4. matches \in 0 .. matches
        OBVIOUS
    <2> QED
        BY <2>3, <2>4 DEF Bad
<1>14. Keeps(b, rounds[matches].self) /\ rounds[matches].raises \in BOOLEAN
    BY <1>13 DEF Y, ShrinkingStates
<1> QED
    BY <1>1, <1>14 DEF Settles

\* replace() leaves a string in order, also when it throws half way.
LEMMA ReplaceSettles ==
    ASSUME NEW b, Sane(b), NEW what \in Seq(Chars), what # <<>>, NEW to \in Seq(Chars),
           NEW from \in Nat, NEW until \in Nat, NEW most \in Nat
    PROVE  /\ Settles(b, S!Replace(b, what, to, from, until, most))
           /\ ~(until <= Len(b.items)) => S!Replace(b, what, to, from, until, most) = S!Raised(b)
<1> DEFINE ends == S!MatchEnds(b.items, what, from, until, most)
<1>1. b.items \in Seq(Chars) /\ Len(b.items) \in Nat
    BY StringFields
<1>2. Len(what) \in Nat \ {0} /\ Len(to) \in Nat
    BY EmptySeq
<1>3. CASE from > until \/ until > Len(b.items)
    <2>1. S!Replace(b, what, to, from, until, most) = S!Raised(b)
        BY <1>3 DEF S!Replace
    <2> QED
        BY <2>1, KeepsItself, DoneSettles
<1>4. CASE ~(from > until \/ until > Len(b.items))
    <2>0. from <= until /\ until <= Len(b.items)
        BY <1>1, <1>4
    <2>1. ends \in Seq(Len(what) .. until)
        BY <1>2, <2>0, MatchEndsIs
    <2>2. CASE from = until \/ until - from < Len(what)
        <3>1. S!Replace(b, what, to, from, until, most) = S!Done(b)
            BY <1>4, <2>2 DEF S!Replace
        <3> QED
            BY <2>0, <3>1, KeepsItself, DoneSettles
    <2>3. CASE ~(from = until \/ until - from < Len(what)) /\ Len(what) = Len(to)
        <3>1. S!Replace(b, what, to, from, until, most) = S!ReplaceSame(b, to, ends)
            BY <1>4, <2>3 DEF S!Replace
        <3> HIDE DEF ends
        <3>2. ends \in Seq(Int)
            <4>1. Len(what) .. until \subseteq Int
                BY <1>2
            <4> QED
                BY <2>1, <4>1, SeqMonotonic
        <3> QED
            BY <2>0, <3>1, <3>2, ReplaceSameSettles
    <2>4. CASE ~(from = until \/ until - from < Len(what)) /\ Len(what) < Len(to)
        <3>1. S!Replace(b, what, to, from, until, most) = S!ReplaceGrowing(b, what, to, ends)
            <4>1. Len(what) # Len(to)
                BY <1>2, <2>4
            <4> QED
                BY <1>4, <2>4, <4>1 DEF S!Replace
        <3> HIDE DEF ends
        <3> QED
            BY <2>0, <2>1, <2>4, <3>1, ReplaceGrowingSettles
    <2>5. CASE ~(from = until \/ until - from < Len(what)) /\ Len(to) < Len(what)
        <3>1. S!Replace(b, what, to, from, until, most) = S!ReplaceShrinking(b, what, to, until, Len(ends))
            <4>1. Len(what) # Len(to) /\ ~(Len(what) < Len(to))
                BY <1>2, <2>5
            <4> QED
                BY <1>4, <2>5, <4>1 DEF S!Replace
        <3> HIDE DEF ends
        <3>2. Len(ends) \in Nat
            BY <2>1
        <3> QED
            BY <2>0, <2>5, <3>1, <3>2, ReplaceShrinkingSettles
    <2>6. Len(what) = Len(to) \/ Len(what) < Len(to) \/ Len(to) < Len(what)
        BY <1>2
    <2> QED
        BY <2>2, <2>3, <2>4, <2>5, <2>6
<1>5. ~(until <= Len(b.items)) => until > Len(b.items)
    BY <1>1
<1> QED
    BY <1>3, <1>4, <1>5, Zenon

-----------------------------------------------------------------------------
StringsSpec == StringsInit /\ [][StringsNext]_stringVars

(* The inductive invariant of a program with a string: it is in order      *)
(* until a call has touched memory that is not its own, and ends until     *)
(* setLength() has been called.                                            *)
TextOK ==
    /\ state \in {"none", "sound", "trusted", "undefined"}
    /\ state = "none" => text = S!Empty
    /\ state \in {"sound", "trusted"} =>
          /\ text \in StringRecord
          /\ IF text.block THEN Len(text.items) <= text.cap ELSE text.items = <<>> /\ text.cap = 0
    /\ state = "sound" => (text.block => text.end = S!Nul)

LEMMA SoundIsEnded ==
    ASSUME TextOK
    PROVE  /\ state \in {"sound", "trusted"} => Sane(text)
           /\ state = "sound" => Tidy(text)
BY DEF TextOK, Sane, Held, Tidy

\* A call that keeps the string in order keeps the invariant.
LEMMA ReturnsKeeps ==
    ASSUME TextOK, NEW o, Returns(o), o.ruins \in BOOLEAN,
           state \in {"sound", "trusted"} => Keeps(text, o.self)
    PROVE  TextOK'
<1>1. state \in {"sound", "trusted"} /\ text' = o.self
      /\ state' = IF o.ruins THEN "undefined" ELSE state
    BY DEF Returns
<1>2. Sane(o.self) /\ (Tidy(text) => Tidy(o.self))
    BY <1>1 DEF Keeps
<1>3. CASE o.ruins
    BY <1>1, <1>3 DEF TextOK
<1>4. CASE ~o.ruins
    <2>1. state' = state
        BY <1>1, <1>4
    <2>2. state = "sound" => Tidy(o.self)
        BY <1>2, SoundIsEnded
    <2> QED
        BY <1>1, <1>2, <2>1, <2>2 DEF TextOK, Sane, Held, Tidy
<1> QED
    BY <1>3, <1>4

LEMMA LeavesKeeps ==
    ASSUME TextOK, NEW self, Leaves(self), state \in {"sound", "trusted"} => Keeps(text, self)
    PROVE  TextOK'
<1> DEFINE o == [self |-> self, raises |-> FALSE, ruins |-> FALSE]
<1>1. Returns(o) /\ o.ruins \in BOOLEAN /\ o.self = self
    BY DEF Leaves
<1> HIDE DEF o
<1> QED
    BY <1>1, ReturnsKeeps

LEMMA ReturnsSettled ==
    ASSUME TextOK, NEW o, Returns(o), state \in {"sound", "trusted"} => Settles(text, o)
    PROVE  TextOK'
<1>1. state \in {"sound", "trusted"}
    BY DEF Returns
<1> QED
    BY <1>1, ReturnsKeeps DEF Settles

\* A call that gives what it should, or throws, settles.
LEMMA EndsOrRaises ==
    ASSUME NEW b, Sane(b), NEW w, NEW o, Ends(b, w, o) \/ o = S!Raised(b)
    PROVE  Settles(b, o)
<1>1. CASE Ends(b, w, o)
    BY <1>1, GivesKeeps DEF Ends, Settles
<1>2. CASE o = S!Raised(b)
    BY <1>2, KeepsItself, DoneSettles
<1> QED
    BY <1>1, <1>2

\* The bounds of the program are numbers, and what it writes are characters.
LEMMA Bounds ==
    /\ MaxText \in Nat /\ MaxTextCap \in Nat /\ MaxArgument \in Nat
    /\ \A c \in Alphabet : c \in Chars
BY StringsAssumption DEF Chars

\* What it passes are texts.
LEMMA TextsAreTexts == \A str \in Texts : str \in Seq(Chars)
<1> SUFFICES ASSUME NEW str \in Texts PROVE str \in Seq(Chars)
    OBVIOUS
<1>1. PICK m \in 0 .. MaxArgument : str \in [1 .. m -> Alphabet]
    BY DEF Texts, BoundedSeq, SeqOf
<1>2. m \in Nat /\ str = [i \in 1 .. m |-> str[i]] /\ \A i \in 1 .. m : str[i] \in Chars
    BY <1>1, Bounds
<1> QED
    BY <1>2, CharsPlaced

\* The program starts without a string.
LEMMA StringsStart == StringsInit => TextOK
BY DEF StringsInit, TextOK

LEMMA CreateStep == ASSUME TextOK, Create PROVE TextOK'
<1>1. text = S!Empty /\ state' = "sound" /\ text' = text
    BY DEF Create, TextOK
<1>2. Sane(text') /\ Tidy(text')
    BY <1>1, EmptyIsSane
<1> QED
    BY <1>1, <1>2 DEF TextOK, Sane, Held, Tidy

\* setLength() may only be trusted with the end.
LEMMA SetLengthStep == ASSUME TextOK, NEW n \in Nat, SetLength(n) PROVE TextOK'
<1> DEFINE o == S!SetLength(text, n)
<1>1. state \in {"sound", "trusted"} /\ text' = o.self /\ state' = IF o.raises THEN state ELSE "trusted"
    BY DEF SetLength
<1>2. Sane(text)
    BY <1>1, SoundIsEnded
<1>3. o.raises \in BOOLEAN /\ (o.raises => o.self = text) /\ Sane(o.self)
    BY <1>2, SetLengthKeeps
<1> HIDE DEF o
<1>4. CASE o.raises
    BY <1>1, <1>3, <1>4 DEF TextOK
<1>5. CASE ~o.raises
    BY <1>1, <1>3, <1>5 DEF TextOK, Sane, Held
<1> QED
    BY <1>4, <1>5

-----------------------------------------------------------------------------
(* A step of the program, method by method.                                *)
LEMMA PlainStep ==
    ASSUME TextOK, Clear \/ AppendSelf \/ Chop \/ Lower \/ Upper
    PROVE  TextOK'
<1>0. state \in {"sound", "trusted"} => Sane(text)
    BY SoundIsEnded
<1>1. CASE Clear
    <2>1. Leaves(S!Empty)
        BY <1>1 DEF Clear, S!Clear
    <2>2. Keeps(text, S!Empty)
        BY EmptyIsSane DEF Keeps
    <2> QED
        BY <2>1, <2>2, LeavesKeeps
<1>2. CASE AppendSelf
    <2>1. PICK o \in S!AppendSelf(text) : Returns(o)
        BY <1>2 DEF AppendSelf
    <2>2. state \in {"sound", "trusted"}
        BY <2>1 DEF Returns
    <2>3. o.ruins \in BOOLEAN /\ Gives(text, text.items \o text.items, o.self)
        BY <1>0, <2>2, AppendSelfIs
    <2>4. Keeps(text, o.self)
        BY <2>3, GivesKeeps
    <2> QED
        BY <2>1, <2>3, <2>4, ReturnsKeeps
<1>3. CASE Chop
    <2>1. Leaves(S!Chop(text))
        BY <1>3 DEF Chop
    <2>2. state \in {"sound", "trusted"} => Keeps(text, S!Chop(text))
        BY <1>0, ChopIs, GivesKeeps
    <2> QED
        BY <2>1, <2>2, LeavesKeeps
<1>4. CASE Lower
    <2>1. Leaves(S!Lower(text))
        BY <1>4 DEF Lower
    <2>2. state \in {"sound", "trusted"} => Keeps(text, S!Lower(text))
        BY <1>0, CaseOf, GivesKeeps
    <2> QED
        BY <2>1, <2>2, LeavesKeeps
<1>5. CASE Upper
    <2>1. Leaves(S!Upper(text))
        BY <1>5 DEF Upper
    <2>2. state \in {"sound", "trusted"} => Keeps(text, S!Upper(text))
        BY <1>0, CaseOf, GivesKeeps
    <2> QED
        BY <2>1, <2>2, LeavesKeeps
<1> QED
    BY <1>1, <1>2, <1>3, <1>4, <1>5

\* The methods that take a text
LEMMA TextStep ==
    ASSUME TextOK, NEW str \in Texts,
           Assign(str) \/ Prepend(str) \/ AppendText(str) \/ Trim(str) \/ TrimFront(str) \/ TrimBack(str)
    PROVE  TextOK'
<1>0. (state \in {"sound", "trusted"} => Sane(text)) /\ str \in Seq(Chars)
    BY SoundIsEnded, TextsAreTexts
<1>1. CASE Assign(str)
    <2>1. Leaves(S!Assign(text, str))
        BY <1>1 DEF Assign
    <2>2. state \in {"sound", "trusted"} => Keeps(text, S!Assign(text, str))
        BY <1>0, AssignIs, WholeGives, GivesKeeps
    <2> QED
        BY <2>1, <2>2, LeavesKeeps
<1>2. CASE Prepend(str)
    <2>1. Leaves(S!Prepend(text, str))
        BY <1>2 DEF Prepend
    <2>2. state \in {"sound", "trusted"} => Keeps(text, S!Prepend(text, str))
        BY <1>0, PrependIs, GivesKeeps
    <2> QED
        BY <2>1, <2>2, LeavesKeeps
<1>3. CASE AppendText(str)
    <2>1. Leaves(S!AppendText(text, str))
        BY <1>3 DEF AppendText
    <2>2. state \in {"sound", "trusted"} => Keeps(text, S!AppendText(text, str))
        BY <1>0, AppendTextIs, GivesKeeps
    <2> QED
        BY <2>1, <2>2, LeavesKeeps
<1>4. CASE Trim(str)
    <2>1. Leaves(S!Trim(text, str))
        BY <1>4 DEF Trim
    <2>2. state \in {"sound", "trusted"} => Keeps(text, S!Trim(text, str))
        BY <1>0, TrimIs, GivesKeeps
    <2> QED
        BY <2>1, <2>2, LeavesKeeps
<1>5. CASE TrimFront(str)
    <2>1. Leaves(S!TrimFront(text, str))
        BY <1>5 DEF TrimFront
    <2>2. state \in {"sound", "trusted"} => Keeps(text, S!TrimFront(text, str))
        BY <1>0, TrimFrontIs, GivesKeeps
    <2> QED
        BY <2>1, <2>2, LeavesKeeps
<1>6. CASE TrimBack(str)
    <2>1. Leaves(S!TrimBack(text, str))
        BY <1>6 DEF TrimBack
    <2>2. state \in {"sound", "trusted"} => Keeps(text, S!TrimBack(text, str))
        BY <1>0, TrimBackIs, GivesKeeps
    <2> QED
        BY <2>1, <2>2, LeavesKeeps
<1> QED
    BY <1>1, <1>2, <1>3, <1>4, <1>5, <1>6

\* The methods that take a character
LEMMA CharStep ==
    ASSUME TextOK, NEW c \in Alphabet, NEW n \in Nat, AppendChar(c) \/ Fill(c, n)
    PROVE  TextOK'
<1>0. (state \in {"sound", "trusted"} => Sane(text)) /\ c \in Chars
    BY SoundIsEnded, Bounds
<1>1. CASE AppendChar(c)
    <2>1. Leaves(S!AppendChar(text, c))
        BY <1>1 DEF AppendChar
    <2>2. state \in {"sound", "trusted"} => Keeps(text, S!AppendChar(text, c))
        BY <1>0, AppendCharIs, WholeGives, GivesKeeps
    <2> QED
        BY <2>1, <2>2, LeavesKeeps
<1>2. CASE Fill(c, n)
    <2>1. Leaves(S!Fill(text, c, n))
        BY <1>2 DEF Fill
    <2>2. state \in {"sound", "trusted"} => Keeps(text, S!Fill(text, c, n))
        BY <1>0, FillIs, WholeGives, GivesKeeps
    <2> QED
        BY <2>1, <2>2, LeavesKeeps
<1> QED
    BY <1>1, <1>2

\* The methods that take a length
LEMMA CutStep ==
    ASSUME TextOK, NEW n \in Nat, ChopFront(n) \/ ChopBack(n) \/ CutAt(n) \/ SetLength(n)
    PROVE  TextOK'
<1>0. state \in {"sound", "trusted"} => Sane(text)
    BY SoundIsEnded
<1>1. CASE ChopFront(n)
    <2>1. Returns(S!ChopFront(text, n))
        BY <1>1 DEF ChopFront
    <2>2. state \in {"sound", "trusted"} => Settles(text, S!ChopFront(text, n))
        BY <1>0, ChopFrontIs, EndsOrRaises
    <2> QED
        BY <2>1, <2>2, ReturnsSettled
<1>2. CASE ChopBack(n)
    <2> DEFINE o == S!ChopBack(text, n)
    <2>1. Returns(o)
        BY <1>2 DEF ChopBack
    <2>2. state \in {"sound", "trusted"}
        BY <2>1 DEF Returns
    <2>3. Ends(text, V!ChopBack(text.items, n), o) \/ o = S!Raised(text) \/ o = S!Ruined(text)
        <3>1. text.block \in BOOLEAN
            BY <1>0, <2>2, StringFields
        <3> QED
            BY <1>0, <2>2, <3>1, ChopBackIs
    <2> HIDE DEF o
    <2>4. CASE o = S!Ruined(text)
        <3>1. o.ruins = TRUE /\ o.self = text
            BY <2>4 DEF S!Ruined
        <3> QED
            BY <1>0, <2>1, <2>2, <3>1, KeepsItself, ReturnsKeeps
    <2>5. CASE Ends(text, V!ChopBack(text.items, n), o) \/ o = S!Raised(text)
        <3>1. Settles(text, o)
            BY <1>0, <2>2, <2>5, EndsOrRaises
        <3> QED
            BY <2>1, <3>1, ReturnsSettled
    <2> QED
        BY <2>3, <2>4, <2>5
<1>3. CASE CutAt(n)
    <2>1. Returns(S!CutAt(text, n))
        BY <1>3 DEF CutAt
    <2>2. state \in {"sound", "trusted"} => Settles(text, S!CutAt(text, n))
        BY <1>0, CutAtIs, EndsOrRaises
    <2> QED
        BY <2>1, <2>2, ReturnsSettled
<1> QED
    BY <1>1, <1>2, <1>3, SetLengthStep

\* The methods that put a text at a position
LEMMA PutStep ==
    ASSUME TextOK, NEW n \in Nat, NEW str \in Texts, Insert(n, str) \/ Write(n, str)
    PROVE  TextOK'
<1>0. (state \in {"sound", "trusted"} => Sane(text)) /\ str \in Seq(Chars)
    BY SoundIsEnded, TextsAreTexts
<1>1. CASE Insert(n, str)
    <2>1. Returns(S!Insert(text, n, str))
        BY <1>1 DEF Insert
    <2>2. state \in {"sound", "trusted"} => Settles(text, S!Insert(text, n, str))
        BY <1>0, InsertIs, EndsOrRaises
    <2> QED
        BY <2>1, <2>2, ReturnsSettled
<1>2. CASE Write(n, str)
    <2>1. Returns(S!Write(text, n, str))
        BY <1>2 DEF Write
    <2>2. state \in {"sound", "trusted"} => Settles(text, S!Write(text, n, str))
        BY <1>0, WriteIs, EndsOrRaises
    <2> QED
        BY <2>1, <2>2, ReturnsSettled
<1> QED
    BY <1>1, <1>2

\* The methods that get a block
LEMMA BlockStep ==
    ASSUME TextOK, NEW n \in Nat, SetCapacity(n) \/ \E str \in Texts : Adopt(str, n)
    PROVE  TextOK'
<1>0. state \in {"sound", "trusted"} => Sane(text)
    BY SoundIsEnded
<1>1. CASE SetCapacity(n)
    <2>1. Leaves(S!SetCapacity(text, n))
        BY <1>1 DEF SetCapacity
    <2>2. state \in {"sound", "trusted"} => Keeps(text, S!SetCapacity(text, n))
        BY <1>0, SetCapacityKeeps
    <2> QED
        BY <2>1, <2>2, LeavesKeeps
<1>2. CASE \E str \in Texts : Adopt(str, n)
    <2>1. PICK str \in Texts : Len(str) <= n /\ Leaves(S!Adopt(str, n))
        BY <1>2 DEF Adopt
    <2>2. str \in Seq(Chars)
        BY TextsAreTexts
    <2>3. Keeps(text, S!Adopt(str, n))
        BY <2>1, <2>2, AdoptKeeps
    <2> QED
        BY <2>1, <2>3, LeavesKeeps
<1> QED
    BY <1>1, <1>2

\* The methods that take a range
LEMMA RangeStep ==
    ASSUME TextOK, NEW from \in Nat, NEW until \in Nat, from <= until, Erase(from, until) \/ Read(from, until)
    PROVE  TextOK'
<1>0. state \in {"sound", "trusted"} => Sane(text)
    BY SoundIsEnded
<1>1. CASE Erase(from, until)
    <2>1. Returns(S!Erase(text, from, until))
        BY <1>1 DEF Erase
    <2>2. state \in {"sound", "trusted"} => Settles(text, S!Erase(text, from, until))
        BY <1>0, EraseIs, EndsOrRaises
    <2> QED
        BY <2>1, <2>2, ReturnsSettled
<1>2. CASE Read(from, until)
    <2>1. until <= Len(text.items) /\ Leaves(S!Read(text, from, until))
        BY <1>2 DEF Read
    <2>2. state \in {"sound", "trusted"} => Keeps(text, S!Read(text, from, until))
        BY <1>0, <2>1, ReadIs DEF Gives, Keeps
    <2> QED
        BY <2>1, <2>2, LeavesKeeps
<1> QED
    BY <1>1, <1>2

\* replace(), of which nothing is asked but that the string is in order
LEMMA ReplaceStep ==
    ASSUME TextOK, NEW from \in {0, 1}, NEW what \in Texts, NEW to \in Texts,
           Replace(what, to, from, Len(text.items))
    PROVE  TextOK'
<1> DEFINE o == S!Replace(text, what, to, from, Len(text.items), Len(text.items))
<1>1. what # <<>> /\ Returns(o)
    BY DEF Replace
<1>2. state \in {"sound", "trusted"}
    BY <1>1 DEF Returns
<1>3. Sane(text) /\ what \in Seq(Chars) /\ to \in Seq(Chars)
    BY <1>2, SoundIsEnded, TextsAreTexts
<1>4. Len(text.items) \in Nat /\ from \in Nat
    BY <1>3, StringFields
<1>5. Settles(text, o)
    BY <1>1, <1>3, <1>4, ReplaceSettles
<1> HIDE DEF o
<1> QED
    BY <1>1, <1>5, ReturnsSettled

\* Whichever it is, the string stays in order.
LEMMA StringsStep == TextOK /\ [StringsNext]_stringVars => TextOK'
<1> SUFFICES ASSUME TextOK, [StringsNext]_stringVars PROVE TextOK'
    OBVIOUS
<1>1. CASE UNCHANGED stringVars
    BY <1>1 DEF stringVars, TextOK
<1>2. CASE Create
    BY <1>2, CreateStep
<1>3. CASE Clear \/ AppendSelf \/ Chop \/ Lower \/ Upper
    BY <1>3, PlainStep
<1>4. CASE \E str \in Texts : Assign(str) \/ Prepend(str) \/ AppendText(str)
                              \/ Trim(str) \/ TrimFront(str) \/ TrimBack(str)
    BY <1>4, TextStep
<1>5. CASE \E c \in Alphabet : AppendChar(c) \/ \E length \in 0 .. MaxText : Fill(c, length)
    <2>1. PICK c \in Alphabet : AppendChar(c) \/ \E length \in 0 .. MaxText : Fill(c, length)
        BY <1>5
    <2>2. PICK n \in Nat : AppendChar(c) \/ Fill(c, n)
        BY <2>1, Bounds
    <2> QED
        BY <2>2, CharStep
<1>6. CASE \E n \in 0 .. MaxText + 1 : ChopFront(n) \/ ChopBack(n) \/ CutAt(n) \/ SetLength(n)
    <2>1. PICK n \in Nat : ChopFront(n) \/ ChopBack(n) \/ CutAt(n) \/ SetLength(n)
        BY <1>6, Bounds
    <2> QED
        BY <2>1, CutStep
<1>7. CASE \E n \in 0 .. MaxText + 1, str \in Texts : Insert(n, str) \/ Write(n, str)
    <2>1. PICK n \in Nat, str \in Texts : Insert(n, str) \/ Write(n, str)
        BY <1>7, Bounds
    <2> QED
        BY <2>1, PutStep
<1>8. CASE \E n \in 0 .. MaxTextCap : SetCapacity(n) \/ \E str \in Texts : Adopt(str, n)
    <2>1. PICK n \in Nat : SetCapacity(n) \/ \E str \in Texts : Adopt(str, n)
        BY <1>8, Bounds
    <2> QED
        BY <2>1, BlockStep
<1>9. CASE \E r \in Ranges : Erase(r[1], r[2]) \/ Read(r[1], r[2])
    <2>1. PICK r \in Ranges : Erase(r[1], r[2]) \/ Read(r[1], r[2])
        BY <1>9
    <2>2. r[1] \in Nat /\ r[2] \in Nat /\ r[1] <= r[2]
        BY Bounds DEF Ranges
    <2> QED
        BY <2>1, <2>2, RangeStep
<1>10. CASE \E from \in {0, 1}, what, to \in Texts : Replace(what, to, from, Len(text.items))
    BY <1>10, ReplaceStep
<1> QED
    BY <1>1, <1>2, <1>3, <1>4, <1>5, <1>6, <1>7, <1>8, <1>9, <1>10 DEF StringsNext

-----------------------------------------------------------------------------
(* In every state of every program with a string the string is in order,   *)
(* unless a call has touched memory that is not the string's.              *)
THEOREM StringsInvariant == StringsSpec => []TextOK
<1>1. StringsInit => TextOK
    BY StringsStart
<1>2. TextOK /\ [StringsNext]_stringVars => TextOK'
    BY StringsStep
<1> QED
    BY <1>1, <1>2, PTL DEF StringsSpec

(* The invariants of the class comment (csjp_string.h:36) hold: a string   *)
(* with a block has room for its characters and a zero behind them, one    *)
(* without has none.  That includes what replace() leaves when it throws   *)
(* half way; only setLength() may take the zero away.                      *)
THEOREM StringsEnd == StringsSpec => []StringEnded
<1>1. TextOK => StringEnded
    BY SoundIsEnded, EndedIs DEF StringEnded, Sane, Held
<1> QED
    BY <1>1, StringsInvariant, PTL

-----------------------------------------------------------------------------
(* A string is the sequence of its characters.                             *)
LEMMA GivesReturned ==
    ASSUME NEW b, Tidy(b), NEW w, NEW c, Gives(b, w, c)
    PROVE  Returned(Fine(c), w)
<1>1. Held(c) /\ Tidy(c) /\ c.items = w
    BY DEF Gives, Sane
<1>2. Ended(c)
    BY <1>1, EndedIs
<1> QED
    BY <1>1, <1>2 DEF Returned, Fine

LEMMA EndsReturned ==
    ASSUME NEW b, Tidy(b), NEW w, NEW o, Ends(b, w, o)
    PROVE  Returned(o, w)
<1>1. Held(o.self) /\ Tidy(o.self) /\ o.self.items = w /\ o.raises = FALSE /\ o.ruins = FALSE
    BY DEF Ends, Gives, Sane
<1>2. Ended(o.self)
    BY <1>1, EndedIs
<1> QED
    BY <1>1, <1>2 DEF Returned

\* A call that throws changes nothing.
LEMMA RaisedUnchanged == Unchanged(S!Raised(text))
BY DEF Unchanged, S!Raised

\* Chops, cuts and fills.
LEMMA CutsAreRight ==
    ASSUME Sane(text), Tidy(text), NEW n \in Nat
    PROVE  /\ IF n <= Len(text.items)
              THEN /\ Returned(S!ChopFront(text, n), V!ChopFront(text.items, n))
                   /\ Returned(S!CutAt(text, n), V!CutAt(text.items, n))
                   /\ text.block => Returned(S!ChopBack(text, n), V!ChopBack(text.items, n))
              ELSE /\ Unchanged(S!ChopFront(text, n)) /\ Unchanged(S!CutAt(text, n))
                   /\ Unchanged(S!ChopBack(text, n))
           /\ \A c \in Alphabet : Returned(Fine(S!Fill(text, c, n)), [i \in 1 .. n |-> c])
<1>0. text.block \in BOOLEAN
    BY StringFields
<1>3. \A c \in Alphabet : Returned(Fine(S!Fill(text, c, n)), [i \in 1 .. n |-> c])
    <2>1. ASSUME NEW c \in Alphabet
          PROVE  Returned(Fine(S!Fill(text, c, n)), [i \in 1 .. n |-> c])
        <3>1. c \in Chars
            BY Bounds
        <3>2. Gives(text, [i \in 1 .. n |-> c], S!Fill(text, c, n))
            BY <3>1, FillIs, WholeGives
        <3> QED
            BY <3>2, GivesReturned
    <2> QED
        BY <2>1
<1>1. CASE n <= Len(text.items)
    <2>1. Returned(S!ChopFront(text, n), V!ChopFront(text.items, n))
        BY <1>1, ChopFrontIs, EndsReturned
    <2>2. Returned(S!CutAt(text, n), V!CutAt(text.items, n))
        BY <1>1, CutAtIs, EndsReturned
    <2>3. text.block => Returned(S!ChopBack(text, n), V!ChopBack(text.items, n))
        BY <1>0, <1>1, ChopBackIs, EndsReturned
    <2> QED
        BY <1>1, <2>1, <2>2, <2>3, <1>3
<1>2. CASE ~(n <= Len(text.items))
    <2>1. Unchanged(S!ChopFront(text, n))
        BY <1>2, ChopFrontIs, RaisedUnchanged
    <2>2. Unchanged(S!CutAt(text, n))
        BY <1>2, CutAtIs, RaisedUnchanged
    <2>3. Unchanged(S!ChopBack(text, n))
        BY <1>2, ChopBackIs, RaisedUnchanged
    <2> QED
        BY <1>2, <2>1, <2>2, <2>3, <1>3
<1> QED
    BY <1>1, <1>2

\* Erasing a range and reading one.
LEMMA RangesAreRight ==
    ASSUME Sane(text), Tidy(text), NEW from \in Nat, NEW until \in Nat, from <= until
    PROVE  IF until <= Len(text.items)
           THEN /\ Returned(S!Erase(text, from, until),
                            V!CutAt(text.items, from) \o V!ChopFront(text.items, until))
                /\ Returned(Fine(S!Read(text, from, until)), V!View(text.items, from, until))
           ELSE Unchanged(S!Erase(text, from, until))
<1>1. CASE until <= Len(text.items)
    <2>1. Returned(S!Erase(text, from, until),
                   V!CutAt(text.items, from) \o V!ChopFront(text.items, until))
        BY <1>1, EraseIs, EndsReturned
    <2>2. Gives(S!Empty, V!View(text.items, from, until), S!Read(text, from, until)) /\ Tidy(S!Empty)
        BY <1>1, ReadIs, EmptyIsSane
    <2>3. Returned(Fine(S!Read(text, from, until)), V!View(text.items, from, until))
        BY <2>2, GivesReturned
    <2> QED
        BY <1>1, <2>1, <2>3
<1>2. CASE ~(until <= Len(text.items))
    <2>1. Unchanged(S!Erase(text, from, until))
        BY <1>2, EraseIs, RaisedUnchanged
    <2> QED
        BY <1>2, <2>1
<1> QED
    BY <1>1, <1>2

\* Inserting and writing a text at a position.
LEMMA PutsAreRight ==
    ASSUME Sane(text), Tidy(text), NEW n \in Nat, NEW str \in Seq(Chars)
    PROVE  /\ IF n <= Len(text.items)
              THEN Returned(S!Insert(text, n, str),
                            V!CutAt(text.items, n) \o str \o V!ChopFront(text.items, n))
              ELSE Unchanged(S!Insert(text, n, str))
           /\ IF n + Len(str) <= Len(text.items)
              THEN Returned(S!Write(text, n, str),
                            V!CutAt(text.items, n) \o str \o V!ChopFront(text.items, n + Len(str)))
              ELSE Unchanged(S!Write(text, n, str))
<1>1. ASSUME n <= Len(text.items)
      PROVE  Returned(S!Insert(text, n, str),
                      V!CutAt(text.items, n) \o str \o V!ChopFront(text.items, n))
    <2>1. Returned(S!Insert(text, n, str), Spliced(text.items, n, str, n))
        BY <1>1, InsertIs, EndsReturned
    <2> QED
        BY <2>1 DEF Spliced
<1>2. ASSUME ~(n <= Len(text.items)) PROVE Unchanged(S!Insert(text, n, str))
    BY <1>2, InsertIs, RaisedUnchanged
<1>3. ASSUME n + Len(str) <= Len(text.items)
      PROVE  Returned(S!Write(text, n, str),
                      V!CutAt(text.items, n) \o str \o V!ChopFront(text.items, n + Len(str)))
    <2>1. Returned(S!Write(text, n, str), Spliced(text.items, n, str, n + Len(str)))
        BY <1>3, WriteIs, EndsReturned
    <2> QED
        BY <2>1 DEF Spliced
<1>4. ASSUME ~(n + Len(str) <= Len(text.items)) PROVE Unchanged(S!Write(text, n, str))
    BY <1>4, WriteIs, RaisedUnchanged
<1> QED
    BY <1>1, <1>2, <1>3, <1>4

\* Assigning a text, adding it at either end, and trimming its characters.
LEMMA TextsAreRight ==
    ASSUME Sane(text), Tidy(text), NEW str \in Seq(Chars)
    PROVE  /\ Returned(Fine(S!Assign(text, str)), str)
           /\ Returned(Fine(S!AppendText(text, str)), text.items \o str)
           /\ Returned(Fine(S!Prepend(text, str)), str \o text.items)
           /\ Returned(Fine(S!Trim(text, str)), V!Trim(text.items, str))
           /\ Returned(Fine(S!TrimFront(text, str)), V!TrimFront(text.items, str))
           /\ Returned(Fine(S!TrimBack(text, str)), V!TrimBack(text.items, str))
           /\ LET kept == {i \in DOMAIN text.items : ~Contains(str, text.items[i])}
              IN  V!Trim(text.items, str) = IF str = <<>> THEN text.items ELSE IF kept = {} THEN <<>>
                                            ELSE SubSeq(text.items, Min(kept), Max(kept))
<1>1. Returned(Fine(S!Assign(text, str)), str)
    BY AssignIs, WholeGives, GivesReturned
<1>2. Returned(Fine(S!AppendText(text, str)), text.items \o str)
    BY AppendTextIs, GivesReturned
<1>3. Returned(Fine(S!Prepend(text, str)), str \o text.items)
    BY PrependIs, GivesReturned
<1>4. Returned(Fine(S!Trim(text, str)), V!Trim(text.items, str))
    BY TrimIs, GivesReturned
<1>5. Returned(Fine(S!TrimFront(text, str)), V!TrimFront(text.items, str))
    BY TrimFrontIs, GivesReturned
<1>6. Returned(Fine(S!TrimBack(text, str)), V!TrimBack(text.items, str))
    BY TrimBackIs, GivesReturned
<1>7. V!Trim(text.items, str) = Between(text.items, str)
    BY StringFields, FrontThenBack
<1> QED
    BY <1>1, <1>2, <1>3, <1>4, <1>5, <1>6, <1>7 DEF Between, Kept

\* All methods together: a string in order is a sequence.
LEMMA SoundIsASequence == ASSUME TextOK PROVE StringIsASequence
<1> SUFFICES ASSUME state = "sound" PROVE StringIsASequence
    BY DEF StringIsASequence
<1>1. Sane(text) /\ Tidy(text)
    BY SoundIsEnded
<1>2. text.block \in BOOLEAN /\ Len(text.items) \in Nat /\ (text.block = FALSE => Len(text.items) = 0)
    BY <1>1, StringFields
<1>3. ~text.block => S!ChopBack(text, 0).ruins
    <2>1. ASSUME text.block = FALSE PROVE S!ChopBack(text, 0) = S!Ruined(text)
        <3>1. 0 <= Len(text.items) /\ 0 \in Nat
            BY <1>2
        <3> QED
            BY <1>1, <2>1, <3>1, ChopBackIs
    <2>2. S!Ruined(text).ruins = TRUE
        BY DEF S!Ruined
    <2>3. ASSUME ~text.block PROVE S!ChopBack(text, 0).ruins = TRUE
        <3>1. text.block = FALSE
            BY <1>2, <2>3
        <3> QED
            BY <2>1, <2>2, <3>1
    <2> QED
        BY <2>3, Zenon
<1>4. /\ \A outcome \in S!AppendSelf(text) :
            /\ outcome.self.items = text.items \o text.items
            /\ outcome.ruins => text.cap < 2 * Len(text.items)
      /\ S!Upper(S!Lower(text)) = S!Upper(text) /\ S!Lower(S!Upper(text)) = S!Lower(text)
    <2>1. ASSUME NEW outcome \in S!AppendSelf(text)
          PROVE  /\ outcome.self.items = text.items \o text.items
                 /\ outcome.ruins => text.cap < 2 * Len(text.items)
        BY <1>1, AppendSelfIs DEF Gives
    <2> QED
        BY <1>1, <2>1, CaseOf
<1>5. \A n \in 0 .. MaxText + 1 :
         /\ IF n <= Len(text.items)
            THEN /\ Returned(S!ChopFront(text, n), V!ChopFront(text.items, n))
                 /\ Returned(S!CutAt(text, n), V!CutAt(text.items, n))
                 /\ text.block => Returned(S!ChopBack(text, n), V!ChopBack(text.items, n))
            ELSE /\ Unchanged(S!ChopFront(text, n)) /\ Unchanged(S!CutAt(text, n))
                 /\ Unchanged(S!ChopBack(text, n))
         /\ \A c \in Alphabet : Returned(Fine(S!Fill(text, c, n)), [i \in 1 .. n |-> c])
    <2>1. \A n \in 0 .. MaxText + 1 : n \in Nat
        BY Bounds
    <2> QED
        BY <1>1, <2>1, CutsAreRight
<1>6. \A r \in Ranges :
         IF r[2] <= Len(text.items)
         THEN /\ Returned(S!Erase(text, r[1], r[2]),
                          V!CutAt(text.items, r[1]) \o V!ChopFront(text.items, r[2]))
              /\ Returned(Fine(S!Read(text, r[1], r[2])), V!View(text.items, r[1], r[2]))
         ELSE Unchanged(S!Erase(text, r[1], r[2]))
    <2>1. \A r \in Ranges : r[1] \in Nat /\ r[2] \in Nat /\ r[1] <= r[2]
        BY Bounds DEF Ranges
    <2> QED
        BY <1>1, <2>1, RangesAreRight
<1>7. \A str \in Texts, n \in 0 .. MaxText + 1 :
         /\ IF n <= Len(text.items)
            THEN Returned(S!Insert(text, n, str),
                          V!CutAt(text.items, n) \o str \o V!ChopFront(text.items, n))
            ELSE Unchanged(S!Insert(text, n, str))
         /\ IF n + Len(str) <= Len(text.items)
            THEN Returned(S!Write(text, n, str),
                          V!CutAt(text.items, n) \o str \o V!ChopFront(text.items, n + Len(str)))
            ELSE Unchanged(S!Write(text, n, str))
    <2>1. \A n \in 0 .. MaxText + 1 : n \in Nat
        BY Bounds
    <2> QED
        BY <1>1, <2>1, TextsAreTexts, PutsAreRight
<1>8. \A str \in Texts :
         /\ Returned(Fine(S!Assign(text, str)), str)
         /\ Returned(Fine(S!AppendText(text, str)), text.items \o str)
         /\ Returned(Fine(S!Prepend(text, str)), str \o text.items)
         /\ Returned(Fine(S!Trim(text, str)), V!Trim(text.items, str))
         /\ Returned(Fine(S!TrimFront(text, str)), V!TrimFront(text.items, str))
         /\ Returned(Fine(S!TrimBack(text, str)), V!TrimBack(text.items, str))
         /\ LET kept == {i \in DOMAIN text.items : ~Contains(str, text.items[i])}
            IN  V!Trim(text.items, str) = IF str = <<>> THEN text.items ELSE IF kept = {} THEN <<>>
                                          ELSE SubSeq(text.items, Min(kept), Max(kept))
    BY <1>1, TextsAreTexts, TextsAreRight
<1> QED
    BY <1>3, <1>4, <1>5, <1>6, <1>7, <1>8, Zenon DEF StringIsASequence

(* Whatever has been done to a string before and whatever its capacity,    *)
(* each edit gives the sequence of characters one would expect, with its   *)
(* end; trims and chops agree with those of Str; a call with arguments     *)
(* outside throws and changes nothing.                                     *)
THEOREM StringsAreSequences == StringsSpec => []StringIsASequence
<1>1. TextOK => StringIsASequence
    BY SoundIsASequence
<1> QED
    BY <1>1, StringsInvariant, PTL
=============================================================================

-------------------------------- MODULE Arrays --------------------------------
(***************************************************************************)
(* A program that works with two arrays of one kind: objects move between  *)
(* the program and the arrays, the arrays are copied, moved, joined and    *)
(* destroyed.                                                              *)
(*   Array      owns its objects (src/container/csjp_array.h)              *)
(*   RefArray   refers to the program's (src/container/csjp_ref_array.h)   *)
(*   PodArray   holds plain values (src/container/csjp_pod_array.h)        *)
(*   CArray     owns one block, which is its object here                   *)
(*              (src/devel/csjp_carray.h)                                  *)
(* An object stands for its address: once deleted, it may be created anew. *)
(***************************************************************************)
EXTENDS Naturals, Sequences, FiniteSets, SequencesExt

CONSTANTS
    Few, Many,       \* the capacities of Array grow in these steps: 32 and 256
    Limit, Step,     \* and those of the other two: 512 and 64
    Objects,         \* the addresses of objects
    Values, Unknown, \* plain values, and one that was never written
    Capacities,      \* the capacities the program asks for
    MaxLen, MaxCap   \* bounds on the length and the capacity

ASSUME ArraysAssumption ==
    /\ {Few, Many, Limit, Step, MaxLen, MaxCap} \subseteq Nat /\ Step > 0 /\ Few > 0
    /\ Unknown \notin Values /\ Capacities \subseteq Nat

VARIABLES
    kind,    \* the class of the arrays, "none" before there are any
    arr,     \* the two arrays; a destroyed one is as a new one
    alive,   \* the objects that exist
    held,    \* the objects that are the program's to delete
    slips,   \* the misuses so far that nothing in the code stops
    ruined   \* a call has left its array behind: all is undefined

arrayVars == <<kind, arr, alive, held, slips, ruined>>

Own == INSTANCE Array
Ref == INSTANCE RefArray
Pod == INSTANCE PodArray
C == INSTANCE CArray

Kinds == {"Array", "RefArray", "PodArray", "CArray"}
Which == {1, 2}
ItemsOf(i) == ToSet(arr[i].items)
EmptyOf(k) == IF k = "CArray" THEN C!Empty ELSE Own!Empty

ArraysInit ==
    /\ kind = "none"
    /\ arr = [i \in Which |-> Own!Empty]
    /\ alive = {} /\ held = {} /\ slips = {} /\ ruined = FALSE

Begin(k) ==
    /\ kind = "none"
    /\ kind' = k
    /\ arr' = [i \in Which |-> EmptyOf(k)]
    /\ UNCHANGED <<alive, held, slips, ruined>>

Is(kinds) == kind \in kinds /\ ~ruined /\ UNCHANGED kind

Becomes(i, outcome) ==
    /\ Len(outcome.self.items) <= MaxLen /\ outcome.self.cap <= MaxCap
    /\ arr' = [arr EXCEPT ![i] = outcome.self]
    /\ ruined' = outcome.ruins

Plain(self) == [self |-> self, raises |-> FALSE, ruins |-> FALSE]

-----------------------------------------------------------------------------
(* The program's own objects, held by an Object<> (src/devel/csjp_object.h) *)
(* or by a variable.                                                       *)
NewObject(o) ==
    /\ Is({"Array", "RefArray"}) /\ o \notin alive
    /\ alive' = alive \cup {o} /\ held' = held \cup {o}
    /\ UNCHANGED <<arr, slips, ruined>>

\* A program keeps what an array refers to.
DeleteHeld(o) ==
    /\ Is({"Array", "RefArray"}) /\ o \in held
    /\ \A i \in Which : o \notin ItemsOf(i)
    /\ alive' = alive \ {o} /\ held' = held \ {o}
    /\ UNCHANGED <<arr, slips, ruined>>

-----------------------------------------------------------------------------
(* Array                                                                   *)

\* add(Object<> &) and add(DataType * &&)
AddHeld(i, o) ==
    /\ Is({"Array"}) /\ o \in held
    /\ Becomes(i, Plain(Own!Add(arr[i], o)))
    /\ held' = held \ {o}
    /\ UNCHANGED <<alive, slips>>

\* add(args...)
AddNew(i, o) ==
    /\ Is({"Array"}) /\ o \notin alive
    /\ Becomes(i, Plain(Own!Add(arr[i], o)))
    /\ alive' = alive \cup {o}
    /\ UNCHANGED <<held, slips>>

Join(i, j) ==
    /\ Is({"Array"}) /\ i # j
    /\ Len(arr[i].items) + Len(arr[j].items) <= MaxLen
    /\ Own!Join(arr[i], arr[j]).cap <= MaxCap
    /\ arr' = [arr EXCEPT ![i] = Own!Join(@, arr[j]), ![j] = Own!Joined(@)]
    /\ UNCHANGED <<alive, held, slips, ruined>>

\* removeAt() deletes the object it removes.
RemoveOwnAt(i, k) ==
    /\ Is({"Array"})
    /\ Becomes(i, Own!RemoveAt(arr[i], k))
    /\ alive' = alive \ (IF k < Len(arr[i].items) THEN {arr[i].items[k + 1]} ELSE {})
    /\ UNCHANGED <<held, slips>>

\* pop() hands the object over.
PopOwn(i) ==
    /\ Is({"Array"})
    /\ Becomes(i, Own!Pop(arr[i]))
    /\ held' = held \cup (IF arr[i].items = <<>> THEN {} ELSE {Last(arr[i].items)})
    /\ UNCHANGED <<alive, slips>>

ClearOwn(i) ==
    /\ Is({"Array"})
    /\ Becomes(i, Plain(Own!Clear(arr[i])))
    /\ alive' = alive \ ItemsOf(i)
    /\ UNCHANGED <<held, slips>>

\* The copy constructor creates a copy of every object.
CopyOwn(i, j) ==
    /\ Is({"Array"}) /\ i # j /\ arr[j] = Own!Empty
    /\ \E copies \in [DOMAIN arr[i].items -> Objects \ alive] :
          /\ IsInjective(copies)
          /\ Becomes(j, Plain(Own!Copy(copies)))
          /\ alive' = alive \cup Range(copies)
    /\ UNCHANGED <<held, slips>>

-----------------------------------------------------------------------------
(* What the three classes with a capacity have in common; only an Array    *)
(* deletes its objects.                                                    *)
Deleted(i) == IF kind = "Array" THEN ItemsOf(i) ELSE {}

\* The move assignment empties its destination; the constructor has a new one.
Move(i, j) ==
    /\ Is({"Array", "RefArray", "PodArray"}) /\ i # j
    /\ arr' = [arr EXCEPT ![j] = arr[i], ![i] = Own!Empty]
    /\ alive' = alive \ Deleted(j)
    /\ UNCHANGED <<held, slips, ruined>>

Destroy(i) ==
    /\ Is({"Array", "RefArray", "PodArray"})
    /\ arr' = [arr EXCEPT ![i] = Own!Empty]
    /\ alive' = alive \ Deleted(i)
    /\ UNCHANGED <<held, slips, ruined>>

\* setCapacity() below the length forgets objects: nobody deletes them.
SetArrayCapacity(i, capacity) ==
    /\ Is({"Array", "RefArray", "PodArray"})
    /\ Becomes(i, Plain(Own!SetCapacity(arr[i], capacity)))
    /\ slips' = slips \cup (IF kind = "Array" /\ capacity < Len(arr[i].items) THEN {"shrunk"} ELSE {})
    /\ UNCHANGED <<alive, held>>

-----------------------------------------------------------------------------
(* RefArray                                                                *)
AddRef(i, o) ==
    /\ Is({"RefArray"}) /\ o \in held
    /\ Becomes(i, Plain(Ref!Add(arr[i], o)))
    /\ UNCHANGED <<alive, held, slips>>

RemoveRefAt(i, k) ==
    /\ Is({"RefArray"})
    /\ Becomes(i, Ref!RemoveAt(arr[i], k))
    /\ UNCHANGED <<alive, held, slips>>

\* pop() gives an Object<>, which deletes what was only referred to.
PopRef(i) ==
    /\ Is({"RefArray"})
    /\ Becomes(i, Ref!Pop(arr[i]))
    /\ LET gone == IF arr[i].items = <<>> THEN {} ELSE {Last(arr[i].items)}
       IN  /\ alive' = alive \ gone /\ held' = held \ gone
           /\ slips' = slips \cup (IF gone = {} THEN {} ELSE {"popped"})

ClearRef(i) ==
    /\ Is({"RefArray"})
    /\ Becomes(i, Plain(Ref!Clear(arr[i])))
    /\ UNCHANGED <<alive, held, slips>>

CopyRef(i, j) ==
    /\ Is({"RefArray"}) /\ i # j /\ arr[j] = Own!Empty
    /\ Becomes(j, Plain(Ref!Copy(arr[i])))
    /\ UNCHANGED <<alive, held, slips>>

-----------------------------------------------------------------------------
(* PodArray                                                                *)
PodCall(i, outcome) ==
    /\ Is({"PodArray"})
    /\ Becomes(i, outcome)
    /\ UNCHANGED <<alive, held, slips>>

AddPod(i, value) == PodCall(i, Plain(Pod!Add(arr[i], value)))
PrependPod(i, value) == PodCall(i, Pod!Prepend(arr[i], value))
MovePodToFrontAt(i, pos) == PodCall(i, Pod!MoveToFrontAt(arr[i], pos))
ErasePod(i, from, until) == PodCall(i, Pod!Erase(arr[i], from, until))
PopPod(i) == PodCall(i, Pod!Pop(arr[i]))
ClearPod(i) == PodCall(i, Plain(Pod!Clear(arr[i])))
CopyPod(i, j) == i # j /\ arr[j] = Own!Empty /\ PodCall(j, Plain(Pod!Copy(arr[i])))

-----------------------------------------------------------------------------
(* CArray                                                                  *)
NewBlock(i, count, block) ==
    /\ Is({"CArray"}) /\ arr[i] = C!Empty /\ block \notin alive
    /\ Becomes(i, Plain(C!New(count, block)))
    /\ alive' = alive \cup ToSet(C!New(count, block).items)
    /\ UNCHANGED <<held, slips>>

\* realloc may move the block.
ResizeBlock(i, count, block) ==
    /\ Is({"CArray"}) /\ block \notin alive \ ItemsOf(i)
    /\ ItemsOf(i) \subseteq alive
    /\ Becomes(i, C!Resize(arr[i], count, block))
    /\ alive' = (alive \ ItemsOf(i)) \cup (IF C!FreesBlock(arr[i], count) THEN {} ELSE {block})
    /\ slips' = slips \cup (IF C!FreesBlock(arr[i], count) THEN {"zeroed"} ELSE {})
    /\ UNCHANGED held

\* free(); of what has been given back before, it is undefined
DestroyBlock(i) ==
    /\ Is({"CArray"})
    /\ Becomes(i, [self |-> C!Empty, raises |-> FALSE, ruins |-> ~(ItemsOf(i) \subseteq alive)])
    /\ alive' = alive \ ItemsOf(i)
    /\ UNCHANGED <<held, slips>>

MoveBlock(i, j) ==
    /\ Is({"CArray"}) /\ i # j
    /\ arr' = [arr EXCEPT ![j] = arr[i], ![i] = C!MovedFrom(@)]
    /\ alive' = alive \ ItemsOf(j)
    /\ ruined' = ~(ItemsOf(j) \subseteq alive)
    /\ UNCHANGED <<held, slips>>

-----------------------------------------------------------------------------
ArraysNext ==
    \/ \E k \in Kinds : Begin(k)
    \/ \E o \in Objects : NewObject(o) \/ DeleteHeld(o)
    \/ \E i \in Which, o \in Objects : AddHeld(i, o) \/ AddNew(i, o) \/ AddRef(i, o)
    \/ \E i, j \in Which : Join(i, j) \/ CopyOwn(i, j) \/ Move(i, j) \/ CopyRef(i, j)
                           \/ CopyPod(i, j) \/ MoveBlock(i, j)
    \/ \E i \in Which, k \in 0 .. MaxLen : RemoveOwnAt(i, k) \/ RemoveRefAt(i, k)
                                           \/ MovePodToFrontAt(i, k)
    \/ \E i \in Which : PopOwn(i) \/ PopRef(i) \/ PopPod(i) \/ ClearOwn(i) \/ ClearRef(i)
                        \/ ClearPod(i) \/ Destroy(i) \/ DestroyBlock(i)
    \/ \E i \in Which, capacity \in Capacities : SetArrayCapacity(i, capacity)
    \/ \E i \in Which, value \in Values : AddPod(i, value) \/ PrependPod(i, value)
    \/ \E i \in Which, from, until \in 0 .. MaxLen : ErasePod(i, from, until)
    \/ \E i \in Which, count \in 0 .. 1, block \in Objects :
          NewBlock(i, count, block) \/ ResizeBlock(i, count, block)

-----------------------------------------------------------------------------
(* The invariants the class comments give (csjp_array.h:104,               *)
(* csjp_ref_array.h:99, csjp_pod_array.h:96): what is counted fits the     *)
(* block, and without a block nothing is counted.                          *)
ArraysFit ==
    kind \in {"Array", "RefArray", "PodArray"} /\ ~ruined =>
        \A i \in Which : IF arr[i].block THEN Len(arr[i].items) <= arr[i].cap
                         ELSE arr[i].items = <<>> /\ arr[i].cap = 0

(* Every object that exists has exactly one owner, the program or one slot *)
(* of one array, so it is deleted once, and a RefArray refers to objects   *)
(* that exist, until the program makes one of four calls, and no other     *)
(* call and no order of them does harm:                                    *)
(*  - an Array that is shrunk forgets objects;                             *)
(*  - pop() of a RefArray deletes what it removes, and a CArray resized to *)
(*    zero keeps the block it has given back, both against the comments of *)
(*    the classes (csjp_ref_array.h:17, csjp_carray.h:25);                 *)
(*  - pop() and moveToFrontAt() of an array that has never had a block go  *)
(*    outside it, against its invariants (csjp_array.h:104), and so does   *)
(*    freeing the CArray that was resized to zero.                         *)
(* Until then what is counted fits the block, so no slot lies outside      *)
(* (ArraysFit).                                                            *)
OneOwner ==
    LET slots == {s \in Which \X (1 .. MaxLen) : s[2] \in DOMAIN arr[s[1]].items}
        Object(s) == arr[s[1]].items[s[2]]
        owned == {Object(s) : s \in slots}
    IN  /\ ArraysFit
        /\ kind \in {"Array", "CArray"} /\ ~ruined /\ "zeroed" \notin slips =>
              /\ \A s, t \in slots : Object(s) = Object(t) => s = t
              /\ owned \cap held = {}
              /\ owned \cup held \subseteq alive
              /\ "shrunk" \notin slips => owned \cup held = alive
        /\ kind = "RefArray" /\ ~ruined /\ "popped" \notin slips => owned \subseteq alive
        /\ ruined => IF kind = "CArray" THEN "zeroed" \in slips
                     ELSE \E i \in Which : ~arr[i].block

(* What the calls of a PodArray promise, for every array the program can   *)
(* have and every argument: a range is erased and the rest keeps its       *)
(* order, a value moved to the front leaves the others in order, a copy    *)
(* and a growth change no value.  moveToFrontAt() of the position behind   *)
(* the last makes the array longer, prepend() never works.                 *)
PodArraysKeepOrder ==
    kind = "PodArray" /\ ~ruined =>
        \A i \in Which :
            LET a == arr[i]
                s == a.items
            IN  /\ \A from, until \in 0 .. Len(s) :
                      LET e == Pod!Erase(a, from, until)
                      IN  IF from <= until
                          THEN ~e.raises /\ e.self.items =
                                   SubSeq(s, 1, from) \o SubSeq(s, until + 1, Len(s))
                          ELSE e = [Plain(a) EXCEPT !.raises = TRUE]
                /\ \A pos \in 0 .. Len(s) - 1 :
                      Pod!MoveToFrontAt(a, pos) =
                          Plain([a EXCEPT !.cap = Pod!MoveToFrontAt(a, pos).self.cap,
                                          !.items = <<s[pos + 1]>> \o RemoveAt(s, pos + 1)])
                /\ a.block => Len(Pod!MoveToFrontAt(a, Len(s)).self.items) = Len(s) + 1
                /\ \A value \in Values :
                      /\ Pod!Prepend(a, value).raises /\ Pod!Prepend(a, value).self.items = s
                      /\ Pod!Add(a, value).items = Append(s, value)
                      /\ LET index == Pod!Index(a, value)
                         IN  index.raises = (value \notin ToSet(s))
                             /\ (~index.raises => s[index.self + 1] = value
                                                  /\ value \notin ToSet(SubSeq(s, 1, index.self)))
==============================================================================

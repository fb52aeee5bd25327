-------------------------------- MODULE Sorter --------------------------------
(***************************************************************************)
(* csjp::SorterContainer with the add() of SorterOwnerContainer and of     *)
(* SorterReferenceContainer (src/container): one program's container.      *)
(* Every object has a node in a primary tree, in the order of the keys,    *)
(* and one in a custom tree, in the order of compare(), which the class of *)
(* the container may override and may change its mind about; each of the   *)
(* two nodes points to the other.  The loops of the trees are the steps of *)
(* module Container; here a call is one step.                              *)
(***************************************************************************)
EXTENDS BinTree

LOCAL INSTANCE Integers
LOCAL S == INSTANCE SequencesExt

CONSTANTS
    Keys,      \* what operator< of the objects compares
    Dangling   \* a pointer to a node that has been deleted

ASSUME SorterAssumption ==
    /\ Keys \subseteq Nat
    /\ NULL \notin Keys
    /\ Dangling \notin Pointers

VARIABLES
    root,      \* the nodes and the root of the primary tree
    custom,    \* the nodes and the root of the custom tree
    key,       \* the key of the object of each primary node, NULL for no node
    customOf,  \* PrimaryBox::custom
    primaryOf, \* CustomBox::primary, NULL for no node
    keyOf,     \* the key of the object of each custom node
    mode,      \* what compare() does: "none" gives 0 always, "reverse"
    sorted,    \* the custom tree is in the order of the compare() of today
    tied,      \* sort() has met equal keys
    ruined     \* a deleted node or no node at all has been used

vars == <<root, custom, key, customOf, primaryOf, keyOf, mode, sorted, tied, ruined>>

-----------------------------------------------------------------------------
(* BinTree::insert() and remove(), each to its end.                        *)
BalanceUp(t, n) ==
    LET up[u \in Trees, m \in Pointers] ==
            IF m = NULL THEN u ELSE up[BalanceAt(u, m), BalanceAt(u, m).parent[m]]
    IN  up[t, n]

Insert(t, n, Less(_, _)) ==
    LET below[m \in Pointers] ==
            IF m = NULL THEN <<>>
            ELSE <<m>> \o below[IF Less(n, m) THEN t.left[m] ELSE t.right[m]]
        path == below[t.root]
        passed == S!FoldLeft(LAMBDA u, m : Descend(u, n, m), t, path)
    IN  IF path = <<>> THEN [t EXCEPT !.root = n]
        ELSE BalanceUp(Attach(passed, n, Less(n, path[Len(path)])), n)

Remove(t, x) ==
    LET counted[u \in Trees, m \in Pointers] ==
            IF m = NULL THEN u ELSE counted[[u EXCEPT !.size[m] = @ - 1], u.parent[m]]
        removed[u \in Trees, y \in Nodes] ==
            IF u.left[y] = NULL /\ u.right[y] = NULL
            THEN counted[Replace(u, y, NULL), u.parent[y]]
            ELSE LET repl == IF u.left[y] # NULL THEN PrevOf(u, y) ELSE NextOf(u, y)
                 IN  BalanceUp(Replace(removed[u, repl], y, repl), repl)
    IN  removed[t, x]

-----------------------------------------------------------------------------
\* compare() of the base class, and the one of the test (csjp test/sorter_container.cpp:109)
Compare(how, a, b) == IF how = "none" THEN 0 ELSE IF b < a THEN -1 ELSE 1

\* mutant: the custom boxes are compared the other way round
LessSwapped(how, a, b) == Compare(how, b, a) < 0

(* operator< of the custom boxes.  Where compare() gives 0 the order values *)
(* decide, but all are 1: nothing ever counts lastOrder up.                *)
Less(how, a, b) == Compare(how, a, b) < 0

Init ==
    /\ root = EmptyTree /\ custom = EmptyTree
    /\ key = [n \in Nodes |-> NULL] /\ keyOf = key
    /\ customOf = [n \in Nodes |-> NULL] /\ primaryOf = customOf
    /\ mode = "none" /\ sorted = TRUE /\ tied = FALSE /\ ruined = FALSE

Used == {n \in Nodes : key[n] # NULL}
Entries == Iterated(custom)

\* add(): a node in each tree; the two have one name where that is free.
Add(k, n, c) ==
    /\ ~ruined /\ n \notin Used /\ primaryOf[c] = NULL
    /\ c = n \/ primaryOf[n] # NULL
    /\ key' = [key EXCEPT ![n] = k]
    /\ keyOf' = [keyOf EXCEPT ![c] = k]
    /\ customOf' = [customOf EXCEPT ![n] = c]
    /\ primaryOf' = [primaryOf EXCEPT ![c] = n]
    /\ root' = Insert(root, n, LAMBDA a, b : key'[a] < key'[b])
    /\ custom' = Insert(custom, c, LAMBDA a, b : Less(mode, keyOf'[a], keyOf'[b]))
    /\ UNCHANGED <<mode, sorted, tied, ruined>>

\* Two nodes go; what pointed to them dangles.
Delete(n, c) ==
    /\ root' = Remove(root, n)
    /\ custom' = Remove(custom, c)
    /\ key' = [key EXCEPT ![n] = NULL]
    /\ keyOf' = [keyOf EXCEPT ![c] = NULL]
    /\ customOf' = [m \in Nodes |-> IF m = n THEN NULL
                                    ELSE IF customOf[m] = c THEN Dangling ELSE customOf[m]]
    /\ primaryOf' = [m \in Nodes |-> IF m = c THEN NULL
                                     ELSE IF primaryOf[m] = n THEN Dangling ELSE primaryOf[m]]

\* removeAt(): the position is one of the custom order.
RemoveAt(i) ==
    /\ ~ruined /\ i < SizeOf(custom, custom.root)
    /\ LET c == QueryAt(custom, i)
       IN  IF primaryOf[c] = Dangling
           THEN ruined' = TRUE /\ UNCHANGED <<root, custom, key, customOf, primaryOf, keyOf>>
           ELSE Delete(primaryOf[c], c) /\ UNCHANGED ruined
    /\ UNCHANGED <<mode, sorted, tied>>

\* remove() of the node the primary tree finds first
RemoveKey(k) ==
    /\ ~ruined /\ Query(root, key, k) # NULL
    /\ LET n == Query(root, key, k)
       IN  IF customOf[n] = Dangling
           THEN ruined' = TRUE /\ UNCHANGED <<root, custom, key, customOf, primaryOf, keyOf>>
           ELSE Delete(n, customOf[n]) /\ UNCHANGED ruined
    /\ UNCHANGED <<mode, sorted, tied>>

(* A custom tree built from nothing, from the objects in the order of the  *)
(* keys; a new node has the name of its primary node here.                 *)
Rebuilt(how) ==
    S!FoldLeft(LAMBDA t, n : Insert(t, n, LAMBDA a, b : Less(how, key[a], key[b])),
               EmptyTree, Iterated(root))

\* mutant: the primary nodes keep their pointers
RepointedNever(t) == [n \in Nodes |-> IF n \in Used THEN Dangling ELSE NULL]

(* The primary nodes get their new custom nodes by a search for the key,   *)
(* which finds one of several that are equal; the others keep a pointer to *)
(* the node that goes.                                                     *)
Repointed(t) ==
    S!FoldLeft(LAMBDA pointers, c : [pointers EXCEPT ![Query(root, key, key[c])] = c],
               [n \in Nodes |-> IF n \in Used THEN Dangling ELSE NULL], Iterated(t))

\* Every primary node points to a custom node that is there.
NoneDangles == \A n \in Used : customOf[n] # Dangling

Sort ==
    /\ ~ruined /\ NoneDangles
    /\ custom' = Rebuilt(mode)
    /\ customOf' = Repointed(custom')
    /\ primaryOf' = [n \in Nodes |-> IF n \in Used THEN n ELSE NULL]
    /\ keyOf' = key
    /\ sorted' = TRUE
    /\ tied' = (root.root # NULL /\ (tied \/ \E n, m \in Used : n # m /\ key[n] = key[m]))
    /\ UNCHANGED <<root, key, mode, ruined>>

(* The program goes on with a copy.  While it is constructed the compare() *)
(* of the base class is called, whatever the class of the container: the   *)
(* copy is in the order of the keys.                                       *)
Copy ==
    /\ ~ruined /\ NoneDangles
    /\ custom' = Rebuilt("none")
    /\ root' = S!FoldLeft(LAMBDA t, n : Insert(t, n, LAMBDA a, b : key[a] < key[b]),
                          EmptyTree, Iterated(root))
    /\ customOf' = [n \in Nodes |-> IF n \in Used THEN n ELSE NULL]
    /\ primaryOf' = customOf'
    /\ keyOf' = key
    /\ sorted' = (mode = "none" \/ Used = {})
    /\ tied' = FALSE
    /\ UNCHANGED <<key, mode, ruined>>

\* sort() and the copy read the order values through those pointers.
SortOrCopyDangling ==
    /\ ~ruined /\ ~NoneDangles
    /\ ruined' = TRUE
    /\ UNCHANGED <<root, custom, key, customOf, primaryOf, keyOf, mode, sorted, tied>>

Clear ==
    /\ ~ruined
    /\ root' = EmptyTree /\ custom' = EmptyTree
    /\ key' = [n \in Nodes |-> NULL] /\ keyOf' = key'
    /\ customOf' = [n \in Nodes |-> NULL] /\ primaryOf' = customOf'
    /\ sorted' = TRUE /\ tied' = FALSE
    /\ UNCHANGED <<mode, ruined>>

\* The program changes the order without a sort().
ChangeOrder(how) ==
    /\ ~ruined /\ how # mode
    /\ mode' = how
    /\ sorted' = (Used = {})
    /\ UNCHANGED <<root, custom, key, customOf, primaryOf, keyOf, tied, ruined>>

\* has() asks the root without looking whether there is one.
HasOfEmpty ==
    /\ ~ruined /\ root.root = NULL
    /\ ruined' = TRUE
    /\ UNCHANGED <<root, custom, key, customOf, primaryOf, keyOf, mode, sorted, tied>>

Next ==
    \/ \E k \in Keys : RemoveKey(k) \/ \E n, c \in Nodes : Add(k, n, c)
    \/ \E i \in 0 .. SizeOf(custom, custom.root) - 1 : RemoveAt(i)
    \/ \E how \in {"none", "reverse"} : ChangeOrder(how)
    \/ Sort \/ Copy \/ SortOrCopyDangling \/ Clear \/ HasOfEmpty

Spec == Init /\ [][Next]_vars

-----------------------------------------------------------------------------
InTree(t) == {Iterated(t)[i] : i \in DOMAIN Iterated(t)}

(* The two trees are two views of the same objects: each node belongs to   *)
(* the one it points to, both trees count and hold all objects, the        *)
(* primary one in the order of the keys, index() and operator[] are        *)
(* inverse to each other, and whatever is found by its key is found at its *)
(* index.  Only a sort() of equal keys ends this, until the container is   *)
(* cleared: removing in one order never breaks the other, and a deleted    *)
(* node, or the NULL root but by has(), is never used.                     *)
ViewsAgree ==
    ~tied =>
        /\ ruined => root.root = NULL
        /\ InTree(root) = Used
        /\ InTree(custom) = {c \in Nodes : primaryOf[c] # NULL}
        /\ SizeOf(root, root.root) = SizeOf(custom, custom.root)
        /\ \A n \in Used : /\ customOf[n] \in InTree(custom)
                           /\ primaryOf[customOf[n]] = n
                           /\ keyOf[customOf[n]] = key[n]
        /\ \A i, j \in DOMAIN Iterated(root) :
              i < j => key[Iterated(root)[i]] <= key[Iterated(root)[j]]
        /\ \A k \in Keys :
              LET n == Query(root, key, k)
              IN  IF n = NULL THEN \A m \in Used : key[m] # k
                  ELSE QueryAt(custom, Index(custom, customOf[n])) = customOf[n] /\ key[n] = k

(* What the iterators and operator[] show is in the order of compare(),    *)
(* as long as that has not changed since the last sort() or clear(), also  *)
(* after adding and removing; a copy is so only in a container that does   *)
(* not override compare().                                                 *)
ShowsItsOrder ==
    sorted => \A i, j \in DOMAIN Entries :
        i < j => Compare(mode, keyOf[Entries[i]], keyOf[Entries[j]]) <= 0
                 \/ keyOf[Entries[i]] = keyOf[Entries[j]]
==============================================================================

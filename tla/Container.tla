------------------------------ MODULE Container ------------------------------
(***************************************************************************)
(* csjp::Container with the add() of OwnerContainer (src/container): one   *)
(* client, one call at a time, each call a sequence of steps on a BinTree. *)
(* A step is one round of a loop of the tree, or one level of the          *)
(* recursion of remove().                                                  *)
(***************************************************************************)
EXTENDS BinTree

CONSTANT Keys

ASSUME KeysAssumption == Keys \subseteq Nat /\ NULL \notin Keys

\* NULL tells that there is no call: it is none of the calls.
ASSUME RequestAssumption ==
    NULL \notin ({"add"} \X (Nodes \X Keys)) \cup ({"removeAt"} \X Nat)
                \cup ({"remove"} \X Keys) \cup {<<"clear", NULL>>}

VARIABLES
    t,          \* the nodes and Container::root
    data,       \* the key each node owns, NULL for a node that does not exist
    pc,         \* "idle", "clear", "descend", "find", "walk", "replace", "count", "balance"
    node,       \* "this" of insert(); the node remove() returns
    iter,       \* the node the loop of the step has come to
    removing,   \* "this" of each remove() on the call stack, innermost last
    request,    \* the call in progress, NULL between calls
    before,     \* the entries before the call
    shrunk      \* a node has been removed since the tree was last empty

vars == <<t, data, pc, node, iter, removing, request, before, shrunk>>

Free == {n \in Nodes : data[n] = NULL}

Init ==
    /\ t = EmptyTree
    /\ data = [n \in Nodes |-> NULL]
    /\ pc = "idle" /\ node = NULL /\ iter = NULL /\ removing = <<>>
    /\ request = NULL /\ before = <<>> /\ shrunk = FALSE

Entry(n) == <<n, data[n]>>

\* What the iterators show.
Contents ==
    LET nodes == Iterated(t)
    IN  [i \in 1 .. Len(nodes) |-> Entry(nodes[i])]

-----------------------------------------------------------------------------
(* Calls.                                                                  *)

\* The call returns: what it allocated stays, "freed" is deleted.
Return(freed) ==
    /\ pc' = "idle" /\ node' = NULL /\ iter' = NULL /\ removing' = <<>>
    /\ request' = NULL
    /\ before' = <<>>
    /\ data' = [n \in Nodes |-> IF n \in freed THEN NULL ELSE data[n]]

Called(what) ==
    /\ pc = "idle" /\ request = NULL
    /\ request' = what
    /\ before' = Contents

\* OwnerContainer::add: a new node with the key, and insert().
Add(k) ==
    LET n == CHOOSE m \in Free : TRUE
    IN  /\ Free # {}
        /\ Called(<<"add", <<n, k>>>>)
        /\ data' = [data EXCEPT ![n] = k]
        /\ node' = n
        /\ iter' = t.root
        /\ pc' = "descend"
        /\ UNCHANGED <<t, removing, shrunk>>

Remove(n, what) ==
    /\ Called(what)
    /\ removing' = <<n>>
    /\ pc' = "find"
    /\ shrunk' = TRUE
    /\ UNCHANGED <<t, data, node, iter>>

RemoveAt(i) ==
    \E n \in Nodes \ Free : n = QueryAt(t, i) /\ Remove(n, <<"removeAt", i>>)

RemoveKey(k) ==
    \E n \in Nodes \ Free : n = Query(t, data, k) /\ Remove(n, <<"remove", k>>)

Clear ==
    /\ Called(<<"clear", NULL>>)
    /\ pc' = "clear"
    /\ UNCHANGED <<t, data, node, iter, removing, shrunk>>

-----------------------------------------------------------------------------
(* Their steps.                                                            *)

\* clear(): both subtrees are deleted, then the root.
ClearAll ==
    /\ pc = "clear"
    /\ t' = EmptyTree
    /\ shrunk' = FALSE
    /\ Return(Nodes)

\* The trivial case of insert().
InsertRoot ==
    /\ pc = "descend" /\ t.root = NULL
    /\ t' = [t EXCEPT !.root = node]
    /\ Return({})
    /\ UNCHANGED shrunk

\* mutant: equal keys go to the left
InsertDescendEqualLeft ==
    /\ pc = "descend" /\ iter # NULL
    /\ t' = Descend(t, node, iter)
    /\ iter' = IF data[iter] < data[node] THEN t.right[iter] ELSE t.left[iter]
    /\ UNCHANGED <<data, pc, node, removing, request, before, shrunk>>

InsertDescend ==
    /\ pc = "descend" /\ iter # NULL
    /\ t' = Descend(t, node, iter)
    /\ iter' = IF data[node] < data[iter] THEN t.left[iter] ELSE t.right[iter]
    /\ UNCHANGED <<data, pc, node, removing, request, before, shrunk>>

InsertAttach ==
    /\ pc = "descend" /\ iter = NULL /\ t.root # NULL
    /\ t' = Attach(t, node, data[node] < data[t.parent[node]])
    /\ iter' = node
    /\ pc' = "balance"
    /\ UNCHANGED <<data, node, removing, request, before, shrunk>>

\* The loop of balancing() up to the root.
Balance ==
    /\ pc = "balance" /\ iter # NULL
    /\ t' = BalanceAt(t, iter)
    /\ iter' = t'.parent[iter]
    /\ UNCHANGED <<data, pc, node, removing, request, before, shrunk>>

Innermost == removing[Len(removing)]

\* remove() of a leaf has no replacement; else prev() or next() starts below.
FindReplacement ==
    /\ pc = "find"
    /\ LET l == t.left[Innermost]
           r == t.right[Innermost]
       IN  /\ pc' = IF l = NULL /\ r = NULL THEN "replace" ELSE "walk"
           /\ iter' = IF l # NULL THEN l ELSE r
           /\ node' = NULL
    /\ UNCHANGED <<t, data, removing, request, before, shrunk>>

\* left->last(), or right->first() without a left child.
Further == IF t.left[Innermost] # NULL THEN t.right[iter] ELSE t.left[iter]

Walk ==
    /\ pc = "walk" /\ Further # NULL
    /\ iter' = Further
    /\ UNCHANGED <<t, data, pc, node, removing, request, before, shrunk>>

\* remove() calls itself for the neighbour that is to replace its node.
RemoveNeighbour ==
    /\ pc = "walk" /\ Further = NULL
    /\ removing' = Append(removing, iter)
    /\ pc' = "find" /\ iter' = NULL
    /\ UNCHANGED <<t, data, node, request, before, shrunk>>

\* mutant: the count begins with the removed leaf itself
ReplaceNodeCountsItself ==
    /\ pc = "replace"
    /\ t' = Replace(t, Innermost, node)
    /\ iter' = IF node = NULL THEN Innermost ELSE node
    /\ pc' = IF node = NULL THEN "count" ELSE "balance"
    /\ node' = Innermost
    /\ removing' = SubSeq(removing, 1, Len(removing) - 1)
    /\ UNCHANGED <<data, request, before, shrunk>>

\* Link the replacement and unlink the node; without one the ancestors are counted.
ReplaceNode ==
    /\ pc = "replace"
    /\ t' = Replace(t, Innermost, node)
    /\ iter' = IF node = NULL THEN t.parent[Innermost] ELSE node
    /\ pc' = IF node = NULL THEN "count" ELSE "balance"
    /\ node' = Innermost
    /\ removing' = SubSeq(removing, 1, Len(removing) - 1)
    /\ UNCHANGED <<data, request, before, shrunk>>

\* One less for every ancestor of the removed leaf ...
Count ==
    /\ pc = "count" /\ iter # NULL
    /\ t' = [t EXCEPT !.size[iter] = @ - 1]
    /\ iter' = t.parent[iter]
    /\ UNCHANGED <<data, pc, node, removing, request, before, shrunk>>

(* ... and repl->balancing(root), a call on NULL: undefined in C++, it does *)
(* nothing when built with the flags of configure.in.                      *)
Counted ==
    /\ pc = "count" /\ iter = NULL
    /\ pc' = "balance"
    /\ UNCHANGED <<t, data, node, iter, removing, request, before, shrunk>>

BalancedInsert ==
    /\ pc = "balance" /\ iter = NULL /\ request[1] = "add"
    /\ Return({})
    /\ UNCHANGED <<t, shrunk>>

\* An inner remove() returns the replacement to the remove() that called it.
RemoveReturns ==
    /\ pc = "balance" /\ iter = NULL /\ removing # <<>>
    /\ pc' = "replace"
    /\ UNCHANGED <<t, data, node, iter, removing, request, before, shrunk>>

\* The outermost one returns to the container, which deletes the node.
DeleteNode ==
    /\ pc = "balance" /\ iter = NULL /\ removing = <<>> /\ request[1] # "add"
    /\ Return({node})
    /\ shrunk' = (shrunk /\ t.root # NULL)
    /\ UNCHANGED t

Steps ==
    \/ ClearAll \/ InsertRoot \/ InsertDescend \/ InsertAttach \/ Balance
    \/ FindReplacement \/ Walk \/ RemoveNeighbour \/ ReplaceNode \/ Count \/ Counted
    \/ BalancedInsert \/ RemoveReturns \/ DeleteNode

Calls ==
    \/ \E k \in Keys : Add(k) \/ RemoveKey(k)
    \/ \E i \in 0 .. SizeOf(t, t.root) - 1 : RemoveAt(i)
    \/ Clear

Next == Calls \/ Steps

Spec == Init /\ [][Next]_vars

\* A call that has begun runs to its end; nobody need call.
FairSpec == Spec /\ WF_vars(Steps)

-----------------------------------------------------------------------------
(* Properties.                                                             *)

TypeOK ==
    /\ t \in Trees
    /\ data \in [Nodes -> Keys \cup {NULL}]
    /\ pc \in {"idle", "clear", "descend", "find", "walk", "replace", "count", "balance"}
    /\ node \in Pointers /\ iter \in Pointers
    /\ removing \in Seq(Nodes)
    /\ shrunk \in BOOLEAN

(* csjp_bintree.h:650-655 "parent and child are pointing to eachother", in *)
(* the middle of rotations, insertions and removals too: a child names its *)
(* parent, no node is the child of two, and only the root has no parent    *)
(* among the nodes that hang in the tree.                                  *)
LinksAgree ==
    /\ \A n \in Nodes :
        /\ t.left[n] # NULL => t.parent[t.left[n]] = n
        /\ t.right[n] # NULL => t.parent[t.right[n]] = n
        /\ t.left[n] = t.right[n] => t.left[n] = NULL
    /\ t.root # NULL => t.parent[t.root] = NULL

(* csjp_bintree.h:637 "node size right": a node counts its subtree, and    *)
(* one more only where insert() has just come by and where the count after *)
(* the removal of a leaf has yet to come by.                               *)
Excess == IF pc = "descend" THEN t.parent[node] ELSE IF pc = "count" THEN iter ELSE NULL

SizesAgree ==
    \A n \in Nodes :
        t.size[n] = SizeOf(t, t.left[n]) + SizeOf(t, t.right[n]) + 1 + (IF n = Excess THEN 1 ELSE 0)

(* Between calls the look-ups agree with what the iterators show: index()  *)
(* and operator[] are inverse to each other, size() counts the entries,    *)
(* has() and query() find a key exactly when there is one, also among      *)
(* equal keys that rotations have spread over both sides, and prev() goes  *)
(* back the way next() came.                                               *)
LookupsAgree ==
    pc = "idle" =>
        LET list == Iterated(t)
        IN  /\ Len(list) = SizeOf(t, t.root)
            /\ \A i \in 1 .. Len(list) :
                /\ QueryAt(t, i - 1) = list[i]
                /\ Index(t, list[i]) = i - 1
                /\ PrevOf(t, list[i]) = IF i = 1 THEN NULL ELSE list[i - 1]
            /\ \A k \in Keys :
                LET found == Query(t, data, k)
                IN  IF \E i \in 1 .. Len(list) : data[list[i]] = k
                    THEN found # NULL /\ data[found] = k
                    ELSE found = NULL

\* Neither child of the node is too large beside the other (csjp_bintree.h:640-641).
BalancedAt(u, n) ==
    ~Outweighs(u, u.left[n], u.right[n]) /\ ~Outweighs(u, u.right[n], u.left[n])

(* "Maintain blancedness from given node to the top" (csjp_bintree.h:303), *)
(* seen from the top: add() does not return while the root is out of       *)
(* balance, also where it comes upon a tree that removals have left so, and *)
(* whatever the rotations further down have made of what is below it.      *)
AddBalancesTheRoot ==
    [][request # NULL /\ request[1] = "add" /\ request' = NULL => BalancedAt(t', t'.root)]_vars

\* Every node that exists is balanced.
Balanced == \A n \in Nodes : data[n] # NULL => BalancedAt(t, n)

\* A tree that has only grown is balanced between calls ...
InsertKeepsBalance == pc = "idle" /\ ~shrunk => Balanced

\* ... and so is one that nodes have been removed from.
RemoveKeepsBalance == pc = "idle" /\ shrunk => Balanced

(* Every node is "localy ordered", as validity() asserts (csjp_bintree.h:643), *)
(* which insert() does not see to: it takes equal keys.                     *)
LocallyOrdered ==
    pc = "idle" => \A n \in Nodes : data[n] # NULL =>
        /\ t.left[n] # NULL => data[t.left[n]] < data[n]
        /\ t.right[n] # NULL => data[n] < data[t.right[n]]

\* Every call returns.
CallsReturn == request # NULL ~> request = NULL

(* The container is the list it promises to be: in key order, equal keys   *)
(* in the order they were added, and every call does to it what it says    *)
(* and nothing else.                                                       *)
KeyOf(e) == e[2]
Promise == INSTANCE SortedList WITH
    Entries <- Nodes \X Keys, Key <- KeyOf, None <- NULL,
    list <- IF request = NULL THEN Contents ELSE before
ImplementsSortedList == Promise!Spec
==============================================================================

------------------------------- MODULE BinTree -------------------------------
(***************************************************************************)
(* csjp::BinTree (src/container/csjp_bintree.h): a search tree of linked   *)
(* nodes that knows the size of every subtree and keeps it in balance with *)
(* rotations.                                                              *)
(*                                                                         *)
(* The pointers and sizes of all nodes, and the root pointer the           *)
(* operations are passed by reference, are one record t; an operation that *)
(* writes them is an operator from t to the t it leaves behind.  The loops *)
(* of insert, remove and balancing are steps of module Container.          *)
(***************************************************************************)
EXTENDS Naturals, Sequences

CONSTANTS Nodes, NULL

ASSUME NodesAssumption == NULL \notin Nodes

Pointers == Nodes \cup {NULL}

Trees ==
    [root : Pointers, parent : [Nodes -> Pointers], left : [Nodes -> Pointers],
     right : [Nodes -> Pointers], size : [Nodes -> Nat \ {0}]]

\* BinTree::BinTree() on every node, and a NULL root.
EmptyTree ==
    [root |-> NULL, parent |-> [n \in Nodes |-> NULL], left |-> [n \in Nodes |-> NULL],
     right |-> [n \in Nodes |-> NULL], size |-> [n \in Nodes |-> 1]]

\* left ? left->size : 0
SizeOf(t, n) == IF n = NULL THEN 0 ELSE t.size[n]

-----------------------------------------------------------------------------
(* Walks.                                                                  *)

First(t, n) ==
    LET first[m \in Nodes] == IF t.left[m] = NULL THEN m ELSE first[t.left[m]]
    IN  first[n]

Last(t, n) ==
    LET last[m \in Nodes] == IF t.right[m] = NULL THEN m ELSE last[t.right[m]]
    IN  last[n]

PrevOf(t, n) ==
    LET up[m \in Nodes] ==
            IF t.parent[m] # NULL /\ t.left[t.parent[m]] = m
            THEN up[t.parent[m]] ELSE t.parent[m]
    IN  IF t.left[n] # NULL THEN Last(t, t.left[n]) ELSE up[n]

NextOf(t, n) ==
    LET up[m \in Nodes] ==
            IF t.parent[m] # NULL /\ t.right[t.parent[m]] = m
            THEN up[t.parent[m]] ELSE t.parent[m]
    IN  IF t.right[n] # NULL THEN First(t, t.right[n]) ELSE up[n]

-----------------------------------------------------------------------------
(* Rotations and balancing.                                                *)

\* mutant: the child that changes sides keeps its parent pointer
RotateRightKeepsParent(t, a) ==
    LET b == t.left[a]
        p == t.parent[a]
        br == t.right[b]
    IN  [root   |-> IF a = t.root THEN b ELSE t.root,
         parent |-> [t.parent EXCEPT ![a] = b, ![b] = p],
         left   |-> [n \in Nodes |-> IF n = a THEN br
                                     ELSE IF n = p /\ a = t.left[n] THEN b
                                     ELSE t.left[n]],
         right  |-> [n \in Nodes |-> IF n = b THEN a
                                     ELSE IF n = p /\ a = t.right[n] THEN b
                                     ELSE t.right[n]],
         size   |-> [t.size EXCEPT ![a] = @ - 1 - SizeOf(t, t.left[b]),
                                   ![b] = @ + 1 + SizeOf(t, t.right[a])]]

\* a becomes the right child of its left child b.
RotateRight(t, a) ==
    LET b == t.left[a]
        p == t.parent[a]
        br == t.right[b]
    IN  [root   |-> IF a = t.root THEN b ELSE t.root,
         parent |-> [n \in Nodes |-> IF n = a THEN b
                                     ELSE IF n = b THEN p
                                     ELSE IF n = br THEN a
                                     ELSE t.parent[n]],
         left   |-> [n \in Nodes |-> IF n = a THEN br
                                     ELSE IF n = p /\ a = t.left[n] THEN b
                                     ELSE t.left[n]],
         right  |-> [n \in Nodes |-> IF n = b THEN a
                                     ELSE IF n = p /\ a = t.right[n] THEN b
                                     ELSE t.right[n]],
         size   |-> [t.size EXCEPT ![a] = @ - 1 - SizeOf(t, t.left[b]),
                                   ![b] = @ + 1 + SizeOf(t, t.right[a])]]

\* mutant: a keeps counting the subtree it has given away
RotateLeftKeepsSize(t, a) ==
    LET b == t.right[a]
        p == t.parent[a]
        bl == t.left[b]
    IN  [root   |-> IF a = t.root THEN b ELSE t.root,
         parent |-> [n \in Nodes |-> IF n = a THEN b
                                     ELSE IF n = b THEN p
                                     ELSE IF n = bl THEN a
                                     ELSE t.parent[n]],
         left   |-> [n \in Nodes |-> IF n = b THEN a
                                     ELSE IF n = p /\ a = t.left[n] THEN b
                                     ELSE t.left[n]],
         right  |-> [n \in Nodes |-> IF n = a THEN bl
                                     ELSE IF n = p /\ a = t.right[n] THEN b
                                     ELSE t.right[n]],
         size   |-> [t.size EXCEPT ![a] = @ - 1,
                                   ![b] = @ + 1 + SizeOf(t, t.left[a])]]

\* a becomes the left child of its right child b.
RotateLeft(t, a) ==
    LET b == t.right[a]
        p == t.parent[a]
        bl == t.left[b]
    IN  [root   |-> IF a = t.root THEN b ELSE t.root,
         parent |-> [n \in Nodes |-> IF n = a THEN b
                                     ELSE IF n = b THEN p
                                     ELSE IF n = bl THEN a
                                     ELSE t.parent[n]],
         left   |-> [n \in Nodes |-> IF n = b THEN a
                                     ELSE IF n = p /\ a = t.left[n] THEN b
                                     ELSE t.left[n]],
         right  |-> [n \in Nodes |-> IF n = a THEN bl
                                     ELSE IF n = p /\ a = t.right[n] THEN b
                                     ELSE t.right[n]],
         size   |-> [t.size EXCEPT ![a] = @ - 1 - SizeOf(t, t.right[b]),
                                   ![b] = @ + 1 + SizeOf(t, t.left[a])]]

\* left_size * 2 + 1 < right_size: m is too large beside its sibling n.
Outweighs(t, m, n) == SizeOf(t, n) * 2 + 1 < SizeOf(t, m)

\* After the inner rotation of a double rotation its lower node r is looked at once.
BalanceLower(t, r) ==
    IF Outweighs(t, t.right[r], t.left[r]) THEN RotateLeft(t, r)
    ELSE IF Outweighs(t, t.left[r], t.right[r]) THEN RotateRight(t, r)
    ELSE t

\* mutant: tolerates one node more on the right
BalanceAtLate(t, n) ==
    LET l == t.left[n]
        r == t.right[n]
    IN  IF SizeOf(t, l) * 2 + 2 < SizeOf(t, r)
        THEN RotateLeft(IF SizeOf(t, t.right[r]) < SizeOf(t, t.left[r])
                        THEN BalanceLower(RotateRight(t, r), r) ELSE t, n)
        ELSE IF Outweighs(t, l, r)
        THEN RotateRight(IF SizeOf(t, t.left[l]) < SizeOf(t, t.right[l])
                         THEN BalanceLower(RotateLeft(t, l), l) ELSE t, n)
        ELSE t

\* mutant: no inner rotation, so that the outer one is undone by the next round for ever
BalanceAtSingly(t, n) ==
    LET l == t.left[n]
        r == t.right[n]
    IN  IF Outweighs(t, r, l) THEN RotateLeft(t, n)
        ELSE IF Outweighs(t, l, r) THEN RotateRight(t, n)
        ELSE t

\* One round of the loop of balancing(), on node n.
BalanceAt(t, n) ==
    LET l == t.left[n]
        r == t.right[n]
    IN  IF Outweighs(t, r, l)
        THEN RotateLeft(IF SizeOf(t, t.right[r]) < SizeOf(t, t.left[r])
                        THEN BalanceLower(RotateRight(t, r), r) ELSE t, n)
        ELSE IF Outweighs(t, l, r)
        THEN RotateRight(IF SizeOf(t, t.left[l]) < SizeOf(t, t.right[l])
                         THEN BalanceLower(RotateLeft(t, l), l) ELSE t, n)
        ELSE t

-----------------------------------------------------------------------------
(* insert() and remove() of a node.                                        *)

\* The loop of insert() passes "below": it counts n there and looks further down.
Descend(t, n, below) ==
    [t EXCEPT !.parent[n] = below, !.size[below] = @ + 1]

\* insert() links n to its parent once the loop has found it.
Attach(t, n, before) ==
    LET p == t.parent[n]
    IN  IF before THEN [t EXCEPT !.left[p] = n] ELSE [t EXCEPT !.right[p] = n]

(* remove() once it has the replacement of node x (NULL for a leaf): link  *)
(* it in the place of x, and unlink x.                                     *)
Replace(t, x, repl) ==
    LET p == t.parent[x]
        l == t.left[x]
        r == t.right[x]
    IN  [root   |-> IF t.root = x THEN repl ELSE t.root,
         parent |-> [n \in Nodes |-> IF n = x THEN NULL
                                     ELSE IF n = repl THEN p
                                     ELSE IF n \in {l, r} THEN repl
                                     ELSE t.parent[n]],
         left   |-> [n \in Nodes |-> IF n = x THEN NULL
                                     ELSE IF n = repl THEN l
                                     ELSE IF n = p /\ x = t.left[n] THEN repl
                                     ELSE t.left[n]],
         right  |-> [n \in Nodes |-> IF n = x THEN NULL
                                     ELSE IF n = repl THEN r
                                     ELSE IF n = p /\ x = t.right[n] THEN repl
                                     ELSE t.right[n]],
         size   |-> [n \in Nodes |-> IF n = x THEN 1
                                     ELSE IF n = repl THEN t.size[x]
                                     ELSE t.size[n]]]

-----------------------------------------------------------------------------
(* Look-ups.                                                               *)

\* query() and has(): the node found from the root, or NULL.
Query(t, data, k) ==
    LET from[m \in Pointers] ==
            IF m = NULL THEN NULL
            ELSE IF k < data[m] THEN from[t.left[m]]
            ELSE IF data[m] < k THEN from[t.right[m]]
            ELSE m
    IN  from[t.root]

Index(t, n) ==
    LET before[m \in Nodes] ==
            LET p == t.parent[m]
            IN  IF p = NULL THEN 0
                ELSE before[p] + (IF t.right[p] = m THEN SizeOf(t, t.left[p]) + 1 ELSE 0)
    IN  SizeOf(t, t.left[n]) + before[n]

\* mutant: does not count the node it passes on the way to the right
QueryAtOffByOne(t, i) ==
    LET at[m \in Pointers] == [j \in Nat |->
            IF m = NULL THEN NULL
            ELSE IF j = SizeOf(t, t.left[m]) THEN m
            ELSE IF j < SizeOf(t, t.left[m]) THEN at[t.left[m]][j]
            ELSE at[t.right[m]][j - SizeOf(t, t.left[m])]]
    IN  at[t.root][i]

\* The node at position i, counted from 0.
QueryAt(t, i) ==
    LET at[m \in Pointers] == [j \in Nat |->
            IF m = NULL THEN NULL
            ELSE IF j = SizeOf(t, t.left[m]) THEN m
            ELSE IF j < SizeOf(t, t.left[m]) THEN at[t.left[m]][j]
            ELSE at[t.right[m]][j - 1 - SizeOf(t, t.left[m])]]
    IN  at[t.root][i]

\* The nodes as the iterator of a container meets them: first(), then next().
Iterated(t) ==
    LET from[m \in Pointers] == IF m = NULL THEN <<>> ELSE <<m>> \o from[NextOf(t, m)]
    IN  IF t.root = NULL THEN <<>> ELSE from[First(t, t.root)]
==============================================================================

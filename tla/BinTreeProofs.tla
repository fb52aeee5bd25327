---------------------------- MODULE BinTreeProofs ----------------------------
(***************************************************************************)
(* What the operators of BinTree preserve, for any set of nodes and any    *)
(* tree over them: the links between parents and children and the sizes of *)
(* the subtrees, and the order in which the tree holds its nodes, which the *)
(* look-ups and the iterators follow.  The sizes also carry the argument   *)
(* that a path of parent pointers has no cycle and that every loop ends: a *)
(* child is smaller than its parent.                                       *)
(***************************************************************************)
EXTENDS BinTree, SequenceTheorems, WellFoundedInduction, TLAPS

-----------------------------------------------------------------------------
(* A tree in good order.  Node e, if any, counts one node too many; node d, *)
(* if any, hangs nowhere but may already know its parent.                  *)

ChildrenPoint(t, d) ==
    \A n \in Nodes :
        /\ t.left[n] # NULL => t.parent[t.left[n]] = n /\ t.left[n] # d
        /\ t.right[n] # NULL => t.parent[t.right[n]] = n /\ t.right[n] # d
        /\ t.left[n] = t.right[n] => t.left[n] = NULL

RootOnTop(t, d) == t.root # NULL => t.parent[t.root] = NULL /\ t.root # d

ParentsKnow(t, d) ==
    \A n \in Nodes \ {d} :
        t.parent[n] # NULL => n = t.left[t.parent[n]] \/ n = t.right[t.parent[n]]

OthersAlone(t, d) ==
    \A n \in Nodes :
        (t.parent[n] = NULL \/ n = d) /\ n # t.root => t.left[n] = NULL /\ t.right[n] = NULL

SizesAdd(t, e) ==
    \A n \in Nodes :
        t.size[n] = SizeOf(t, t.left[n]) + SizeOf(t, t.right[n]) + 1 + (IF n = e THEN 1 ELSE 0)

SoundBut(t, e, d) ==
    /\ t \in Trees
    /\ ChildrenPoint(t, d) /\ RootOnTop(t, d) /\ ParentsKnow(t, d) /\ OthersAlone(t, d)
    /\ SizesAdd(t, e)

Sound(t) == SoundBut(t, NULL, NULL)

InTree(t, n) == n = t.root \/ t.parent[n] # NULL

\* The fields of a tree have the types they are declared with.
LEMMA Fields ==
    ASSUME NEW t \in Trees, NEW n \in Nodes
    PROVE  /\ t.root \in Pointers /\ t.parent[n] \in Pointers
           /\ t.left[n] \in Pointers /\ t.right[n] \in Pointers
           /\ t.size[n] \in Nat /\ t.size[n] > 0
           /\ DOMAIN t.parent = Nodes /\ DOMAIN t.left = Nodes
           /\ DOMAIN t.right = Nodes /\ DOMAIN t.size = Nodes
BY DEF Trees

\* SizeOf is a natural number, and positive for a node.
LEMMA SizeOfNat ==
    ASSUME NEW t \in Trees, NEW n \in Pointers
    PROVE  SizeOf(t, n) \in Nat /\ (n # NULL => SizeOf(t, n) > 0)
BY Fields, NodesAssumption DEF Pointers, SizeOf

\* A child is smaller than its parent, so it is neither the parent nor above it.
LEMMA ChildIsSmaller ==
    ASSUME NEW t, NEW e, NEW d, SoundBut(t, e, d), NEW n \in Nodes
    PROVE  /\ t.left[n] # NULL => t.left[n] \in Nodes /\ t.size[t.left[n]] < t.size[n]
           /\ t.right[n] # NULL => t.right[n] \in Nodes /\ t.size[t.right[n]] < t.size[n]
<1>1. t \in Trees
    BY DEF SoundBut
<1>2. t.left[n] \in Pointers /\ t.right[n] \in Pointers /\ t.size[n] \in Nat
    BY <1>1, Fields
<1>3. SizeOf(t, t.left[n]) \in Nat /\ SizeOf(t, t.right[n]) \in Nat
    BY <1>1, <1>2, SizeOfNat
<1>4. t.size[n] = SizeOf(t, t.left[n]) + SizeOf(t, t.right[n]) + 1 + (IF n = e THEN 1 ELSE 0)
    BY DEF SoundBut, SizesAdd
<1> QED
    BY <1>2, <1>3, <1>4 DEF SizeOf, Pointers

\* A node that has a parent hangs below a node of the tree.
LEMMA ParentInTree ==
    ASSUME NEW t, Sound(t), NEW n \in Nodes, t.parent[n] \in Nodes
    PROVE  InTree(t, t.parent[n])
<1>1. n = t.left[t.parent[n]] \/ n = t.right[t.parent[n]]
    BY NodesAssumption DEF Sound, SoundBut, ParentsKnow
<1> QED
    BY <1>1, NodesAssumption DEF Sound, SoundBut, OthersAlone, InTree

\* With every node counted right, the sizes of the children and one make the size.
LEMMA SizesAddPlain ==
    ASSUME NEW t \in Trees
    PROVE  SizesAdd(t, NULL) <=>
             \A n \in Nodes : t.size[n] = SizeOf(t, t.left[n]) + SizeOf(t, t.right[n]) + 1
<1>1. ASSUME NEW n \in Nodes
      PROVE  SizeOf(t, t.left[n]) + SizeOf(t, t.right[n]) + 1 + (IF n = NULL THEN 1 ELSE 0)
             = SizeOf(t, t.left[n]) + SizeOf(t, t.right[n]) + 1
    <2>1. SizeOf(t, t.left[n]) \in Nat /\ SizeOf(t, t.right[n]) \in Nat /\ n # NULL
        BY Fields, SizeOfNat, NodesAssumption
    <2> QED
        BY <2>1
<1> QED
    BY <1>1 DEF SizesAdd

\* A rotation to the right, described field by field.
LEMMA RotateRightFields ==
    ASSUME NEW t, Sound(t), NEW a \in Nodes, t.left[a] # NULL
    PROVE  LET b == t.left[a]
               p == t.parent[a]
               br == t.right[b]
               u == RotateRight(t, a)
           IN  /\ b \in Nodes /\ a # b /\ p # a /\ p # b /\ br # a /\ br # b
               /\ p \in Pointers /\ br \in Pointers
               /\ p # NULL => br # p
               /\ u.root = IF a = t.root THEN b ELSE t.root
               /\ \A n \in Nodes :
                    /\ u.parent[n] = IF n = a THEN b ELSE IF n = b THEN p
                                     ELSE IF n = br THEN a ELSE t.parent[n]
                    /\ u.left[n] = IF n = a THEN br ELSE IF n = p /\ a = t.left[n] THEN b
                                   ELSE t.left[n]
                    /\ u.right[n] = IF n = b THEN a ELSE IF n = p /\ a = t.right[n] THEN b
                                    ELSE t.right[n]
                    /\ u.size[n] = IF n = a THEN t.size[a] - 1 - SizeOf(t, t.left[b])
                                   ELSE IF n = b THEN t.size[b] + 1 + SizeOf(t, t.right[a])
                                   ELSE t.size[n]
<1> DEFINE b == t.left[a]
           p == t.parent[a]
           br == t.right[b]
           u == RotateRight(t, a)
<1>1. t \in Trees /\ SoundBut(t, NULL, NULL)
    BY DEF Sound, SoundBut
<1>2. b \in Nodes /\ t.size[b] < t.size[a] /\ t.parent[b] = a
    BY <1>1, ChildIsSmaller DEF SoundBut, ChildrenPoint
<1>3. br \in Pointers /\ p \in Pointers
    BY <1>1, <1>2, Fields
<1>4. br # NULL => br \in Nodes /\ t.size[br] < t.size[b] /\ t.parent[br] = b
    BY <1>1, <1>2, ChildIsSmaller DEF SoundBut, ChildrenPoint
<1>5. p # NULL => p \in Nodes /\ t.size[a] < t.size[p]
    <2> SUFFICES ASSUME p # NULL PROVE p \in Nodes /\ t.size[a] < t.size[p]
        OBVIOUS
    <2>1. p \in Nodes
        BY <1>3 DEF Pointers
    <2>2. a = t.left[p] \/ a = t.right[p]
        BY <1>1, NodesAssumption DEF SoundBut, ParentsKnow
    <2> QED
        BY <1>1, <2>1, <2>2, NodesAssumption, ChildIsSmaller
<1>6. t.size[a] \in Nat /\ t.size[b] \in Nat /\ (br # NULL => t.size[br] \in Nat)
      /\ (p # NULL => t.size[p] \in Nat)
    BY <1>1, <1>2, <1>4, <1>5, Fields
<1>7. /\ a # b /\ p # a /\ p # b /\ br # a /\ br # b
      /\ p # NULL => br # p
    BY <1>2, <1>4, <1>5, <1>6, NodesAssumption
<1>8. u.root = IF a = t.root THEN b ELSE t.root
    BY DEF RotateRight
<1>9. ASSUME NEW n \in Nodes
      PROVE  /\ u.parent[n] = IF n = a THEN b ELSE IF n = b THEN p
                              ELSE IF n = br THEN a ELSE t.parent[n]
             /\ u.left[n] = IF n = a THEN br ELSE IF n = p /\ a = t.left[n] THEN b
                            ELSE t.left[n]
             /\ u.right[n] = IF n = b THEN a ELSE IF n = p /\ a = t.right[n] THEN b
                             ELSE t.right[n]
             /\ u.size[n] = IF n = a THEN t.size[a] - 1 - SizeOf(t, t.left[b])
                            ELSE IF n = b THEN t.size[b] + 1 + SizeOf(t, t.right[a])
                            ELSE t.size[n]
    <2>1. u.parent[n] = IF n = a THEN b ELSE IF n = b THEN p
                        ELSE IF n = br THEN a ELSE t.parent[n]
        BY <1>7 DEF RotateRight
    <2>2. u.left[n] = IF n = a THEN br ELSE IF n = p /\ a = t.left[n] THEN b ELSE t.left[n]
        BY <1>7 DEF RotateRight
    <2>3. u.right[n] = IF n = b THEN a ELSE IF n = p /\ a = t.right[n] THEN b ELSE t.right[n]
        BY <1>7 DEF RotateRight
    <2>4. u.size[n] = IF n = a THEN t.size[a] - 1 - SizeOf(t, t.left[b])
                      ELSE IF n = b THEN t.size[b] + 1 + SizeOf(t, t.right[a])
                      ELSE t.size[n]
        BY <1>1, <1>2, <1>7, Fields DEF RotateRight
    <2> QED
        BY <2>1, <2>2, <2>3, <2>4
<1> QED
    BY <1>2, <1>3, <1>7, <1>8, <1>9

(* A rotation to the right keeps a tree in good order and every node of it  *)
(* in the tree, and changes the children of a and b and no other child into *)
(* or out of NULL.                                                          *)
LEMMA RotateRightSound ==
    ASSUME NEW t, Sound(t), NEW a \in Nodes, t.left[a] # NULL
    PROVE  LET u == RotateRight(t, a)
               b == t.left[a]
           IN  /\ Sound(u)
               /\ \A n \in Nodes : InTree(u, n) <=> InTree(t, n)
               /\ \A n \in Nodes \ {a, b} :
                    /\ (u.left[n] = NULL <=> t.left[n] = NULL)
                    /\ (u.right[n] = NULL <=> t.right[n] = NULL)
               /\ u.right[b] = a /\ u.parent[a] = b /\ u.left[a] = t.right[b]
               /\ u.right[a] = t.right[a]
<1> DEFINE b == t.left[a]
           p == t.parent[a]
           bl == t.left[b]
           br == t.right[b]
           ar == t.right[a]
           u == RotateRight(t, a)
<1>1. t \in Trees /\ SoundBut(t, NULL, NULL)
    BY DEF Sound, SoundBut
<1>2. /\ b \in Nodes /\ a # b /\ p # a /\ p # b /\ br # a /\ br # b
      /\ p \in Pointers /\ br \in Pointers
      /\ p # NULL => br # p
      /\ u.root = IF a = t.root THEN b ELSE t.root
    BY RotateRightFields
<1>3. ASSUME NEW n \in Nodes
      PROVE  /\ u.parent[n] = IF n = a THEN b ELSE IF n = b THEN p
                              ELSE IF n = br THEN a ELSE t.parent[n]
             /\ u.left[n] = IF n = a THEN br ELSE IF n = p /\ a = t.left[n] THEN b
                            ELSE t.left[n]
             /\ u.right[n] = IF n = b THEN a ELSE IF n = p /\ a = t.right[n] THEN b
                             ELSE t.right[n]
             /\ u.size[n] = IF n = a THEN t.size[a] - 1 - SizeOf(t, t.left[b])
                            ELSE IF n = b THEN t.size[b] + 1 + SizeOf(t, t.right[a])
                            ELSE t.size[n]
    BY RotateRightFields
<1>4. /\ bl \in Pointers /\ ar \in Pointers
      /\ bl # a /\ bl # b /\ ar # a /\ ar # b /\ (p # NULL => bl # p /\ ar # p)
    <2>1. bl \in Pointers /\ ar \in Pointers
        BY <1>1, <1>2, Fields
    <2>2. /\ bl # NULL => bl \in Nodes /\ t.size[bl] < t.size[b]
          /\ ar # NULL => ar \in Nodes /\ t.size[ar] < t.size[a]
          /\ t.size[b] < t.size[a]
        BY <1>1, <1>2, ChildIsSmaller
    <2>3. p # NULL => p \in Nodes /\ t.size[a] < t.size[p]
        <3>1. CASE p = NULL
            BY <3>1
        <3>2. CASE p # NULL
            <4>1. p \in Nodes /\ (a = t.left[p] \/ a = t.right[p])
                BY <1>1, <1>2, <3>2, NodesAssumption DEF Pointers, SoundBut, ParentsKnow
            <4> QED
                BY <1>1, <4>1, NodesAssumption, ChildIsSmaller
        <3> QED
            BY <3>1, <3>2
    <2>4. ar # b
        BY <1>1, <1>2, NodesAssumption DEF SoundBut, ChildrenPoint
    <2>5. t.size[a] \in Nat /\ t.size[b] \in Nat /\ (bl # NULL => t.size[bl] \in Nat)
          /\ (ar # NULL => t.size[ar] \in Nat) /\ (p # NULL => t.size[p] \in Nat)
        BY <1>1, <1>2, <2>2, <2>3, Fields
    <2> QED
        BY <1>2, <2>1, <2>2, <2>3, <2>4, <2>5, NodesAssumption
<1>5. \A n \in Nodes : t.left[n] \in Pointers /\ t.right[n] \in Pointers
                       /\ t.parent[n] \in Pointers /\ t.size[n] \in Nat /\ t.size[n] > 0
    BY <1>1, Fields
<1>6. t.root \in Pointers
    BY <1>1 DEF Trees
<1>7. /\ SizeOf(t, bl) \in Nat /\ SizeOf(t, br) \in Nat /\ SizeOf(t, ar) \in Nat
      /\ t.size[b] = SizeOf(t, bl) + SizeOf(t, br) + 1
      /\ t.size[a] = t.size[b] + SizeOf(t, ar) + 1
    <2>1. SizeOf(t, bl) \in Nat /\ SizeOf(t, br) \in Nat /\ SizeOf(t, ar) \in Nat
        BY <1>1, <1>2, <1>4, SizeOfNat
    <2>2. SizeOf(t, b) = t.size[b]
        BY <1>2, NodesAssumption DEF SizeOf
    <2> QED
        BY <1>1, <1>2, <2>1, <2>2, NodesAssumption DEF SoundBut, SizesAdd
<1>8. /\ u.size[a] = SizeOf(t, br) + SizeOf(t, ar) + 1
      /\ u.size[b] = t.size[a]
    BY <1>2, <1>3, <1>5, <1>7
<1>9. ChildrenPoint(t, NULL) /\ RootOnTop(t, NULL) /\ ParentsKnow(t, NULL)
      /\ OthersAlone(t, NULL) /\ SizesAdd(t, NULL)
    BY <1>1 DEF SoundBut
<1>10. u \in Trees
    <2>1. u.root \in Pointers
        BY <1>2, <1>6 DEF Pointers
    <2>2. /\ u.parent = [n \in Nodes |-> u.parent[n]]
          /\ u.left = [n \in Nodes |-> u.left[n]]
          /\ u.right = [n \in Nodes |-> u.right[n]]
        BY DEF RotateRight
    <2>3. u.size = [n \in Nodes |-> u.size[n]]
        BY <1>1 DEF RotateRight, Trees
    <2>4. \A n \in Nodes : u.parent[n] \in Pointers /\ u.left[n] \in Pointers
                           /\ u.right[n] \in Pointers
        BY <1>2, <1>3, <1>4, <1>5 DEF Pointers
    <2>5. ASSUME NEW n \in Nodes PROVE u.size[n] \in Nat \ {0}
        <3>1. t.size[n] \in Nat \ {0} /\ t.size[a] \in Nat \ {0}
            BY <1>5
        <3>2. SizeOf(t, br) + SizeOf(t, ar) + 1 \in Nat \ {0}
            BY <1>7
        <3>3. n # a /\ n # b => u.size[n] = t.size[n]
            BY <1>3
        <3> QED
            BY <1>8, <3>1, <3>2, <3>3
    <2>6. u = [root |-> u.root, parent |-> u.parent, left |-> u.left,
               right |-> u.right, size |-> u.size]
        BY DEF RotateRight
    <2> QED
        BY <2>1, <2>2, <2>3, <2>4, <2>5, <2>6 DEF Trees
<1>11. ChildrenPoint(u, NULL)
    <2> SUFFICES ASSUME NEW n \in Nodes
                 PROVE  /\ u.left[n] # NULL => u.parent[u.left[n]] = n
                        /\ u.right[n] # NULL => u.parent[u.right[n]] = n
                        /\ u.left[n] = u.right[n] => u.left[n] = NULL
        BY DEF ChildrenPoint
    <2>1. CASE n = a
        BY <1>2, <1>3, <1>4, <1>9, <2>1 DEF ChildrenPoint, Pointers
    <2>2. CASE n = b
        BY <1>2, <1>3, <1>4, <1>9, <2>2 DEF ChildrenPoint, Pointers
    <2>3. CASE n = p /\ n # a /\ n # b
        <3>1. /\ t.left[n] # NULL => t.parent[t.left[n]] = n /\ t.left[n] \in Nodes
              /\ t.right[n] # NULL => t.parent[t.right[n]] = n /\ t.right[n] \in Nodes
              /\ t.left[n] = t.right[n] => t.left[n] = NULL
              /\ t.parent[b] = a /\ (br # NULL => t.parent[br] = b)
            BY <1>2, <1>5, <1>9 DEF ChildrenPoint, Pointers
        <3>2. /\ u.left[n] = IF a = t.left[n] THEN b ELSE t.left[n]
              /\ u.right[n] = IF a = t.right[n] THEN b ELSE t.right[n]
              /\ u.parent[b] = n
            BY <1>2, <1>3, <2>3
        <3>3. t.left[n] # b /\ t.right[n] # b /\ (br # NULL => t.left[n] # br /\ t.right[n] # br)
            BY <1>2, <2>3, <3>1, NodesAssumption
        <3>4. ASSUME NEW m \in Nodes, m # a, m # b, m # br PROVE u.parent[m] = t.parent[m]
            BY <1>3, <3>4
        <3>5. u.left[n] # NULL => u.parent[u.left[n]] = n
            BY <3>1, <3>2, <3>3, <3>4
        <3>6. u.right[n] # NULL => u.parent[u.right[n]] = n
            BY <3>1, <3>2, <3>3, <3>4
        <3>7. u.left[n] = u.right[n] => u.left[n] = NULL
            BY <3>1, <3>2, <3>3, NodesAssumption
        <3> QED
            BY <3>5, <3>6, <3>7
    <2>4. CASE n # p /\ n # a /\ n # b
        BY <1>2, <1>3, <1>4, <1>5, <1>9, <2>4 DEF ChildrenPoint, Pointers
    <2> QED
        BY <2>1, <2>2, <2>3, <2>4
<1>12. RootOnTop(u, NULL)
    <2>1. CASE a = t.root
        BY <1>2, <1>3, <1>9, <2>1, NodesAssumption DEF RootOnTop
    <2>2. CASE a # t.root
        <3>1. SUFFICES ASSUME t.root # NULL PROVE u.parent[t.root] = NULL
            BY <1>2, <2>2 DEF RootOnTop
        <3>2. t.root \in Nodes /\ t.parent[t.root] = NULL
            BY <1>6, <1>9, <3>1 DEF RootOnTop, Pointers
        <3>3. t.root # b /\ t.root # br
            BY <1>2, <1>9, <3>1, <3>2, NodesAssumption DEF ChildrenPoint
        <3> QED
            BY <1>3, <2>2, <3>2, <3>3
    <2> QED
        BY <2>1, <2>2
<1>13. ParentsKnow(u, NULL)
    <2> SUFFICES ASSUME NEW n \in Nodes, u.parent[n] # NULL
                 PROVE  n = u.left[u.parent[n]] \/ n = u.right[u.parent[n]]
        BY DEF ParentsKnow
    <2>1. CASE n = a
        BY <1>2, <1>3, <2>1
    <2>2. CASE n = b
        <3>1. u.parent[b] = p /\ p \in Nodes
            BY <1>2, <1>3, <2>2 DEF Pointers
        <3>2. a = t.left[p] \/ a = t.right[p]
            BY <1>9, <2>2, <3>1, NodesAssumption DEF ParentsKnow
        <3> QED
            BY <1>2, <1>3, <2>2, <3>1, <3>2
    <2>3. CASE n = br /\ n # a /\ n # b
        BY <1>2, <1>3, <2>3
    <2>4. CASE n # a /\ n # b /\ n # br
        <3>1. u.parent[n] = t.parent[n] /\ t.parent[n] \in Nodes
            BY <1>3, <1>5, <2>4 DEF Pointers
        <3>2. n = t.left[t.parent[n]] \/ n = t.right[t.parent[n]]
            BY <1>9, <3>1, NodesAssumption DEF ParentsKnow
        <3> QED
            BY <1>2, <1>3, <2>4, <3>1, <3>2
    <2> QED
        BY <2>1, <2>2, <2>3, <2>4
<1>14. OthersAlone(u, NULL)
    <2> SUFFICES ASSUME NEW n \in Nodes, u.parent[n] = NULL, n # u.root
                 PROVE  u.left[n] = NULL /\ u.right[n] = NULL
        BY NodesAssumption DEF OthersAlone
    <2>1. n # a
        BY <1>2, <1>3, NodesAssumption
    <2>2. n # b
        <3>1. SUFFICES ASSUME n = b PROVE FALSE
            OBVIOUS
        <3>2. p = NULL /\ a # t.root
            BY <1>2, <1>3, <3>1
        <3> QED
            BY <1>9, <3>2 DEF OthersAlone
    <2>3. t.parent[n] = NULL /\ n # t.root
        <3>1. n # br
            BY <1>3, <2>1, <2>2, NodesAssumption
        <3> QED
            BY <1>2, <1>3, <2>1, <2>2, <3>1
    <2>4. t.left[n] = NULL /\ t.right[n] = NULL
        BY <1>9, <2>3 DEF OthersAlone
    <2> QED
        BY <1>2, <1>3, <2>1, <2>2, <2>4, NodesAssumption
<1>15. SizesAdd(u, NULL)
    <2> SUFFICES ASSUME NEW n \in Nodes
                 PROVE  u.size[n] = SizeOf(u, u.left[n]) + SizeOf(u, u.right[n]) + 1
        BY <1>10, SizesAddPlain
    <2>1. ASSUME NEW m \in Pointers, m # a, m # b PROVE SizeOf(u, m) = SizeOf(t, m)
        BY <1>3, <2>1 DEF SizeOf, Pointers
    <2>2. CASE n = a
        BY <1>2, <1>3, <1>4, <1>8, <2>1, <2>2
    <2>3. CASE n = b
        <3>1. u.left[b] = bl /\ u.right[b] = a
            BY <1>2, <1>3, <1>4
        <3>2. SizeOf(u, a) = SizeOf(t, br) + SizeOf(t, ar) + 1
            BY <1>8, NodesAssumption DEF SizeOf
        <3> QED
            BY <1>2, <1>4, <1>7, <1>8, <2>1, <2>3, <3>1, <3>2
    <2>4. CASE n # a /\ n # b
        <3>1. u.size[n] = t.size[n]
            BY <1>3, <2>4
        <3>2. t.size[n] = SizeOf(t, t.left[n]) + SizeOf(t, t.right[n]) + 1
            BY <1>1, <1>9, SizesAddPlain
        <3>3. SizeOf(u, b) = SizeOf(t, a)
            BY <1>2, <1>8, NodesAssumption DEF SizeOf
        <3>4. t.left[n] # b /\ t.right[n] # b
            BY <1>2, <1>9, <2>4, NodesAssumption DEF ChildrenPoint
        <3>5. (t.left[n] = a => n = p) /\ (t.right[n] = a => n = p)
            BY <1>9, NodesAssumption DEF ChildrenPoint
        <3>6. SizeOf(u, u.left[n]) = SizeOf(t, t.left[n])
            BY <1>2, <1>3, <1>5, <2>1, <2>4, <3>3, <3>4, <3>5
        <3>7. SizeOf(u, u.right[n]) = SizeOf(t, t.right[n])
            BY <1>2, <1>3, <1>5, <2>1, <2>4, <3>3, <3>4, <3>5
        <3> QED
            BY <3>1, <3>2, <3>6, <3>7
    <2> QED
        BY <2>2, <2>3, <2>4
<1>16. Sound(u)
    BY <1>10, <1>11, <1>12, <1>13, <1>14, <1>15 DEF Sound, SoundBut
<1>17. ASSUME NEW n \in Nodes PROVE InTree(u, n) <=> InTree(t, n)
    <2>1. InTree(t, a)
        BY <1>2, <1>9, NodesAssumption DEF InTree, OthersAlone
    <2>2. InTree(t, b) /\ (br # NULL => InTree(t, br))
        BY <1>2, <1>9, NodesAssumption DEF InTree, ChildrenPoint
    <2>3. CASE n = a
        BY <1>2, <1>3, <2>1, <2>3, NodesAssumption DEF InTree
    <2>4. CASE n = b
        BY <1>2, <1>3, <2>1, <2>2, <2>4, NodesAssumption DEF InTree
    <2>5. CASE n = br /\ n # a /\ n # b
        BY <1>2, <1>3, <2>2, <2>5, NodesAssumption DEF InTree
    <2>6. CASE n # a /\ n # b /\ n # br
        BY <1>2, <1>3, <2>6 DEF InTree
    <2> QED
        BY <2>3, <2>4, <2>5, <2>6
<1>18. ASSUME NEW n \in Nodes \ {a, b}
       PROVE  /\ (u.left[n] = NULL <=> t.left[n] = NULL)
              /\ (u.right[n] = NULL <=> t.right[n] = NULL)
    BY <1>2, <1>3, NodesAssumption
<1>19. u.right[b] = a /\ u.parent[a] = b /\ u.left[a] = br /\ u.right[a] = ar
    BY <1>2, <1>3
<1> QED
    BY <1>16, <1>17, <1>18, <1>19
-----------------------------------------------------------------------------
(* A rotation to the left is a rotation to the right seen in a mirror.     *)

Mirror(t) ==
    [root |-> t.root, parent |-> t.parent, left |-> t.right, right |-> t.left,
     size |-> t.size]

\* The mirror exchanges left and right and leaves the rest of a tree alone.
LEMMA MirrorFields ==
    ASSUME NEW t \in Trees
    PROVE  /\ Mirror(t) \in Trees
           /\ Mirror(t).left = t.right /\ Mirror(t).right = t.left
           /\ Mirror(t).parent = t.parent /\ Mirror(t).size = t.size
           /\ Mirror(t).root = t.root
BY DEF Mirror, Trees

\* A tree is in good order exactly when its image in the mirror is.
LEMMA MirrorSound ==
    ASSUME NEW t, Sound(t)
    PROVE  Sound(Mirror(t))
<1> DEFINE m == Mirror(t)
<1>1. t \in Trees /\ ChildrenPoint(t, NULL) /\ RootOnTop(t, NULL) /\ ParentsKnow(t, NULL)
      /\ OthersAlone(t, NULL) /\ SizesAdd(t, NULL)
    BY DEF Sound, SoundBut
<1>2. /\ m \in Trees /\ m.left = t.right /\ m.right = t.left
      /\ m.parent = t.parent /\ m.size = t.size /\ m.root = t.root
    BY <1>1, MirrorFields
<1> HIDE DEF m
<1>3. ChildrenPoint(m, NULL)
    BY <1>1, <1>2, NodesAssumption DEF ChildrenPoint
<1>4. RootOnTop(m, NULL)
    BY <1>1, <1>2 DEF RootOnTop
<1>5. ParentsKnow(m, NULL)
    BY <1>1, <1>2 DEF ParentsKnow
<1>6. OthersAlone(m, NULL)
    BY <1>1, <1>2 DEF OthersAlone
<1>7. SizesAdd(m, NULL)
    <2> SUFFICES ASSUME NEW n \in Nodes
                 PROVE  m.size[n] = SizeOf(m, m.left[n]) + SizeOf(m, m.right[n]) + 1
        BY <1>2, SizesAddPlain
    <2>1. t.size[n] = SizeOf(t, t.left[n]) + SizeOf(t, t.right[n]) + 1
        BY <1>1, SizesAddPlain
    <2>2. SizeOf(t, t.left[n]) \in Nat /\ SizeOf(t, t.right[n]) \in Nat
        BY <1>1, Fields, SizeOfNat
    <2>3. SizeOf(m, m.left[n]) = SizeOf(t, t.right[n]) /\ SizeOf(m, m.right[n]) = SizeOf(t, t.left[n])
        BY <1>2 DEF SizeOf
    <2> QED
        BY <1>2, <2>1, <2>2, <2>3
<1>8. Sound(m)
    BY <1>2, <1>3, <1>4, <1>5, <1>6, <1>7 DEF Sound, SoundBut
<1> QED
    BY <1>8 DEF m

\* The rotation to the left is the mirrored rotation to the right.
LEMMA RotateLeftMirrored ==
    ASSUME NEW t \in Trees, NEW a \in Nodes
    PROVE  RotateLeft(t, a) = Mirror(RotateRight(Mirror(t), a))
<1>1. /\ Mirror(t).left = t.right /\ Mirror(t).right = t.left
      /\ Mirror(t).parent = t.parent /\ Mirror(t).size = t.size
      /\ Mirror(t).root = t.root
    BY MirrorFields
<1>2. \A n : SizeOf(Mirror(t), n) = SizeOf(t, n)
    BY <1>1 DEF SizeOf
<1>3. /\ RotateLeft(t, a).root = RotateRight(Mirror(t), a).root
      /\ RotateLeft(t, a).parent = RotateRight(Mirror(t), a).parent
    BY <1>1 DEF RotateLeft, RotateRight
<1>4. /\ RotateLeft(t, a).left = RotateRight(Mirror(t), a).right
      /\ RotateLeft(t, a).right = RotateRight(Mirror(t), a).left
    BY <1>1 DEF RotateLeft, RotateRight
<1>5. RotateLeft(t, a).size = RotateRight(Mirror(t), a).size
    BY <1>1, <1>2 DEF RotateLeft, RotateRight
<1>6. \A r : Mirror(RotateRight(r, a)) =
              [root |-> RotateRight(r, a).root, parent |-> RotateRight(r, a).parent,
               left |-> RotateRight(r, a).right, right |-> RotateRight(r, a).left,
               size |-> RotateRight(r, a).size]
    BY DEF Mirror
<1>7. RotateLeft(t, a) =
          [root |-> RotateLeft(t, a).root, parent |-> RotateLeft(t, a).parent,
           left |-> RotateLeft(t, a).left, right |-> RotateLeft(t, a).right,
           size |-> RotateLeft(t, a).size]
    BY DEF RotateLeft
<1> QED
    BY <1>3, <1>4, <1>5, <1>6, <1>7

(* A rotation to the left keeps a tree in good order and every node of it   *)
(* in the tree, as a rotation to the right does.                            *)
LEMMA RotateLeftSound ==
    ASSUME NEW t, Sound(t), NEW a \in Nodes, t.right[a] # NULL
    PROVE  LET u == RotateLeft(t, a)
               b == t.right[a]
           IN  /\ Sound(u)
               /\ \A n \in Nodes : InTree(u, n) <=> InTree(t, n)
               /\ \A n \in Nodes \ {a, b} :
                    /\ (u.left[n] = NULL <=> t.left[n] = NULL)
                    /\ (u.right[n] = NULL <=> t.right[n] = NULL)
               /\ u.left[b] = a /\ u.parent[a] = b /\ u.right[a] = t.left[b]
               /\ u.left[a] = t.left[a]
<1> DEFINE m == Mirror(t)
           w == RotateRight(m, a)
           u == RotateLeft(t, a)
<1>1. t \in Trees
    BY DEF Sound, SoundBut
<1>2. /\ m.left = t.right /\ m.right = t.left
      /\ m.parent = t.parent /\ m.root = t.root
    BY <1>1, MirrorFields
<1>3. Sound(m) /\ m.left[a] # NULL
    BY <1>2, MirrorSound
<1>4. /\ Sound(w)
      /\ \A n \in Nodes : InTree(w, n) <=> InTree(m, n)
      /\ \A n \in Nodes \ {a, m.left[a]} :
           /\ (w.left[n] = NULL <=> m.left[n] = NULL)
           /\ (w.right[n] = NULL <=> m.right[n] = NULL)
      /\ w.right[m.left[a]] = a /\ w.parent[a] = m.left[a]
      /\ w.left[a] = m.right[m.left[a]] /\ w.right[a] = m.right[a]
    <2> HIDE DEF m
    <2> QED
        BY <1>3, RotateRightSound
<1>5. u = Mirror(w)
    BY <1>1, RotateLeftMirrored
<1>6. w \in Trees
    BY <1>4 DEF Sound, SoundBut
<1> HIDE DEF m, w, u
<1>7. /\ u.left = w.right /\ u.right = w.left
      /\ u.parent = w.parent /\ u.root = w.root
    BY <1>5, <1>6, MirrorFields
<1>8. Sound(u)
    BY <1>4, <1>5, MirrorSound
<1>9. \A n \in Nodes : InTree(u, n) <=> InTree(t, n)
    BY <1>2, <1>4, <1>7 DEF InTree
<1> QED
    BY <1>2, <1>4, <1>7, <1>8, <1>9 DEF u

-----------------------------------------------------------------------------
(* Balancing.                                                              *)

\* A node with a heavier sibling has one.
LEMMA OutweighsExists ==
    ASSUME NEW t \in Trees, NEW m \in Pointers, NEW n \in Pointers, Outweighs(t, m, n)
    PROVE  m # NULL
BY SizeOfNat DEF Outweighs, SizeOf

(* The look at the lower node r of an inner rotation keeps a tree in good   *)
(* order and leaves a node a alone that is neither r nor a child of it.     *)
LEMMA BalanceLowerSound ==
    ASSUME NEW t, Sound(t), NEW r \in Nodes, NEW a \in Nodes,
           a # r, t.left[r] # a, t.right[r] # a
    PROVE  LET u == BalanceLower(t, r)
           IN  /\ Sound(u)
               /\ \A n \in Nodes : InTree(u, n) <=> InTree(t, n)
               /\ u.left[a] = NULL <=> t.left[a] = NULL
               /\ u.right[a] = NULL <=> t.right[a] = NULL
<1> DEFINE u == BalanceLower(t, r)
<1>1. t \in Trees
    BY DEF Sound, SoundBut
<1>2. t.left[r] \in Pointers /\ t.right[r] \in Pointers
    BY <1>1, Fields
<1>3. CASE Outweighs(t, t.right[r], t.left[r])
    <2>1. t.right[r] # NULL
        BY <1>1, <1>2, <1>3, OutweighsExists
    <2>2. u = RotateLeft(t, r)
        BY <1>3 DEF BalanceLower
    <2> HIDE DEF u
    <2> QED
        BY <2>1, <2>2, RotateLeftSound DEF u
<1>4. CASE ~Outweighs(t, t.right[r], t.left[r]) /\ Outweighs(t, t.left[r], t.right[r])
    <2>1. t.left[r] # NULL
        BY <1>1, <1>2, <1>4, OutweighsExists
    <2>2. u = RotateRight(t, r)
        BY <1>4 DEF BalanceLower
    <2> HIDE DEF u
    <2> QED
        BY <2>1, <2>2, RotateRightSound DEF u
<1>5. CASE ~Outweighs(t, t.right[r], t.left[r]) /\ ~Outweighs(t, t.left[r], t.right[r])
    <2>1. u = t
        BY <1>5 DEF BalanceLower
    <2> QED
        BY <2>1
<1> QED
    BY <1>3, <1>4, <1>5

(* One round of balancing() keeps a tree in good order and every node of    *)
(* it in the tree; where it leaves a node on top it has found it balanced.  *)
LEMMA BalanceAtSound ==
    ASSUME NEW t, Sound(t), NEW a \in Nodes
    PROVE  LET u == BalanceAt(t, a)
           IN  /\ Sound(u)
               /\ \A n \in Nodes : InTree(u, n) <=> InTree(t, n)
               /\ u.parent[a] = NULL =>
                    /\ u = t
                    /\ ~Outweighs(t, t.left[a], t.right[a])
                    /\ ~Outweighs(t, t.right[a], t.left[a])
<1> DEFINE l == t.left[a]
           r == t.right[a]
           u == BalanceAt(t, a)
<1>1. t \in Trees /\ SoundBut(t, NULL, NULL)
    BY DEF Sound, SoundBut
<1>2. l \in Pointers /\ r \in Pointers
    BY <1>1, Fields
<1>3. CASE Outweighs(t, r, l)
    <2> DEFINE deep == SizeOf(t, t.right[r]) < SizeOf(t, t.left[r])
               w == IF deep THEN BalanceLower(RotateRight(t, r), r) ELSE t
    <2>1. r # NULL /\ r \in Nodes
        BY <1>1, <1>2, <1>3, OutweighsExists DEF Pointers
    <2>2. Sound(w) /\ (\A n \in Nodes : InTree(w, n) <=> InTree(t, n)) /\ w.right[a] # NULL
        <3>1. CASE ~deep
            BY <2>1, <3>1
        <3>2. CASE deep
            <4> DEFINE v == RotateRight(t, r)
                       b == t.left[r]
            <4>1. b \in Pointers /\ t.right[r] \in Pointers
                BY <1>1, <2>1, Fields
            <4>2. b # NULL /\ b \in Nodes
                BY <1>1, <3>2, <4>1, SizeOfNat DEF SizeOf, Pointers
            <4>3. /\ t.size[r] < t.size[a] /\ t.size[b] < t.size[r]
                  /\ t.right[r] # NULL => t.size[t.right[r]] < t.size[r]
                  /\ t.right[b] # NULL => t.size[t.right[b]] < t.size[b]
                BY <1>1, <2>1, <4>2, ChildIsSmaller
            <4>4. t.size[a] \in Nat /\ t.size[b] \in Nat /\ t.size[r] \in Nat
                BY <1>1, <2>1, <4>2, Fields
            <4>5. a # r /\ a # b /\ a # t.right[r] /\ a # t.right[b]
                BY <4>3, <4>4, NodesAssumption
            <4>6. /\ Sound(v)
                  /\ \A n \in Nodes : InTree(v, n) <=> InTree(t, n)
                  /\ v.right[a] = NULL <=> t.right[a] = NULL
                  /\ v.left[r] = t.right[b] /\ v.right[r] = t.right[r]
                BY <2>1, <4>2, <4>5, RotateRightSound
            <4> HIDE DEF v
            <4>7. LET x == BalanceLower(v, r)
                  IN  /\ Sound(x)
                      /\ \A n \in Nodes : InTree(x, n) <=> InTree(v, n)
                      /\ x.right[a] = NULL <=> v.right[a] = NULL
                BY <2>1, <4>5, <4>6, BalanceLowerSound
            <4>8. w = BalanceLower(v, r)
                BY <3>2 DEF v
            <4> HIDE DEF w
            <4> QED
                BY <2>1, <4>6, <4>7, <4>8
        <3> QED
            BY <3>1, <3>2
    <2>3. u = RotateLeft(w, a)
        BY <1>3 DEF BalanceAt
    <2> HIDE DEF w, u
    <2>4. /\ Sound(u) /\ u.parent[a] # NULL
          /\ \A n \in Nodes : InTree(u, n) <=> InTree(t, n)
        BY <2>2, <2>3, RotateLeftSound
    <2> QED
        BY <2>4 DEF u
<1>4. CASE ~Outweighs(t, r, l) /\ Outweighs(t, l, r)
    <2> DEFINE deep == SizeOf(t, t.left[l]) < SizeOf(t, t.right[l])
               w == IF deep THEN BalanceLower(RotateLeft(t, l), l) ELSE t
    <2>1. l # NULL /\ l \in Nodes
        BY <1>1, <1>2, <1>4, OutweighsExists DEF Pointers
    <2>2. Sound(w) /\ (\A n \in Nodes : InTree(w, n) <=> InTree(t, n)) /\ w.left[a] # NULL
        <3>1. CASE ~deep
            BY <2>1, <3>1
        <3>2. CASE deep
            <4> DEFINE v == RotateLeft(t, l)
                       b == t.right[l]
            <4>1. b \in Pointers /\ t.left[l] \in Pointers
                BY <1>1, <2>1, Fields
            <4>2. b # NULL /\ b \in Nodes
                BY <1>1, <3>2, <4>1, SizeOfNat DEF SizeOf, Pointers
            <4>3. /\ t.size[l] < t.size[a] /\ t.size[b] < t.size[l]
                  /\ t.left[l] # NULL => t.size[t.left[l]] < t.size[l]
                  /\ t.left[b] # NULL => t.size[t.left[b]] < t.size[b]
                BY <1>1, <2>1, <4>2, ChildIsSmaller
            <4>4. t.size[a] \in Nat /\ t.size[b] \in Nat /\ t.size[l] \in Nat
                BY <1>1, <2>1, <4>2, Fields
            <4>5. a # l /\ a # b /\ a # t.left[l] /\ a # t.left[b]
                BY <4>3, <4>4, NodesAssumption
            <4>6. /\ Sound(v)
                  /\ \A n \in Nodes : InTree(v, n) <=> InTree(t, n)
                  /\ v.left[a] = NULL <=> t.left[a] = NULL
                  /\ v.right[l] = t.left[b] /\ v.left[l] = t.left[l]
                BY <2>1, <4>2, <4>5, RotateLeftSound
            <4> HIDE DEF v
            <4>7. LET x == BalanceLower(v, l)
                  IN  /\ Sound(x)
                      /\ \A n \in Nodes : InTree(x, n) <=> InTree(v, n)
                      /\ x.left[a] = NULL <=> v.left[a] = NULL
                BY <2>1, <4>5, <4>6, BalanceLowerSound
            <4>8. w = BalanceLower(v, l)
                BY <3>2 DEF v
            <4> HIDE DEF w
            <4> QED
                BY <2>1, <4>6, <4>7, <4>8
        <3> QED
            BY <3>1, <3>2
    <2>3. u = RotateRight(w, a)
        BY <1>4 DEF BalanceAt
    <2> HIDE DEF w, u
    <2>4. /\ Sound(u) /\ u.parent[a] # NULL
          /\ \A n \in Nodes : InTree(u, n) <=> InTree(t, n)
        BY <2>2, <2>3, RotateRightSound
    <2> QED
        BY <2>4 DEF u
<1>5. CASE ~Outweighs(t, r, l) /\ ~Outweighs(t, l, r)
    <2>1. u = t
        BY <1>5 DEF BalanceAt
    <2> QED
        BY <1>5, <2>1
<1> QED
    BY <1>3, <1>4, <1>5

-----------------------------------------------------------------------------
(* Insertion.                                                              *)

\* A node outside the tree may be inserted: nothing points to it.
LEMMA LooseNode ==
    ASSUME NEW t, Sound(t), NEW n \in Nodes, ~InTree(t, n)
    PROVE  /\ SoundBut(t, NULL, n)
           /\ t.parent[n] = NULL /\ t.left[n] = NULL /\ t.right[n] = NULL /\ t.root # n
           /\ t.size[n] = 1
<1>1. /\ t \in Trees /\ ChildrenPoint(t, NULL) /\ RootOnTop(t, NULL) /\ ParentsKnow(t, NULL)
      /\ OthersAlone(t, NULL) /\ SizesAdd(t, NULL)
    BY DEF Sound, SoundBut
<1>2. t.parent[n] = NULL /\ t.root # n
    BY DEF InTree
<1>3. t.left[n] = NULL /\ t.right[n] = NULL
    BY <1>1, <1>2 DEF OthersAlone
<1>4. t.size[n] = 1
    <2>1. t.size[n] = SizeOf(t, t.left[n]) + SizeOf(t, t.right[n]) + 1
        BY <1>1, SizesAddPlain
    <2> QED
        BY <1>3, <2>1 DEF SizeOf
<1>5. ChildrenPoint(t, n)
    <2>1. ASSUME NEW m \in Nodes
          PROVE  /\ t.left[m] # NULL => t.parent[t.left[m]] = m /\ t.left[m] # n
                 /\ t.right[m] # NULL => t.parent[t.right[m]] = m /\ t.right[m] # n
                 /\ t.left[m] = t.right[m] => t.left[m] = NULL
        BY <1>1, <1>2, NodesAssumption DEF ChildrenPoint
    <2> QED
        BY <2>1 DEF ChildrenPoint
<1>6. RootOnTop(t, n) /\ ParentsKnow(t, n) /\ OthersAlone(t, n)
    BY <1>1, <1>2, <1>3, NodesAssumption DEF RootOnTop, ParentsKnow, OthersAlone
<1> QED
    BY <1>1, <1>2, <1>3, <1>4, <1>5, <1>6 DEF SoundBut

\* The first node becomes the root.
LEMMA RootSound ==
    ASSUME NEW t, NEW d \in Nodes, SoundBut(t, NULL, d), t.root = NULL, t.parent[d] = NULL
    PROVE  LET u == [t EXCEPT !.root = d]
           IN  /\ Sound(u) /\ InTree(u, d)
               /\ \A n \in Nodes \ {d} : InTree(u, n) <=> InTree(t, n)
<1> DEFINE u == [t EXCEPT !.root = d]
<1>1. /\ t \in Trees /\ ChildrenPoint(t, d) /\ RootOnTop(t, d) /\ ParentsKnow(t, d)
      /\ OthersAlone(t, d) /\ SizesAdd(t, NULL)
    BY DEF SoundBut
<1>2. /\ u.root = d /\ u.parent = t.parent /\ u.left = t.left /\ u.right = t.right
      /\ u.size = t.size /\ u \in Trees
    BY <1>1 DEF Trees, Pointers
<1> HIDE DEF u
<1>3. ChildrenPoint(u, NULL)
    BY <1>1, <1>2, NodesAssumption DEF ChildrenPoint
<1>4. RootOnTop(u, NULL)
    BY <1>2, NodesAssumption DEF RootOnTop
<1>5. ParentsKnow(u, NULL)
    BY <1>1, <1>2 DEF ParentsKnow
<1>6. OthersAlone(u, NULL)
    BY <1>1, <1>2, NodesAssumption DEF OthersAlone
<1>7. SizesAdd(u, NULL)
    BY <1>1, <1>2 DEF SizesAdd, SizeOf
<1>8. Sound(u)
    BY <1>2, <1>3, <1>4, <1>5, <1>6, <1>7 DEF Sound, SoundBut
<1>9. InTree(u, d) /\ \A n \in Nodes \ {d} : InTree(u, n) <=> InTree(t, n)
    BY <1>2, NodesAssumption DEF InTree
<1> QED
    BY <1>8, <1>9 DEF u

(* The loop of insert() goes one level down, to the root or to a child of   *)
(* the node it came by last, and takes the count that is too high along.    *)
LEMMA DescendSound ==
    ASSUME NEW t, NEW d \in Nodes, SoundBut(t, t.parent[d], d), NEW below \in Nodes,
           \/ t.parent[d] = NULL /\ below = t.root
           \/ /\ t.parent[d] \in Nodes /\ t.parent[d] # d
              /\ below = t.left[t.parent[d]] \/ below = t.right[t.parent[d]]
    PROVE  LET u == Descend(t, d, below)
           IN  /\ SoundBut(u, below, d)
               /\ u.parent[d] = below /\ below # d
               /\ u.root = t.root /\ u.left = t.left /\ u.right = t.right
               /\ InTree(u, below)
               /\ \A n \in Nodes \ {d} : InTree(u, n) <=> InTree(t, n)
<1> DEFINE e == t.parent[d]
           u == Descend(t, d, below)
<1>1. /\ t \in Trees /\ ChildrenPoint(t, d) /\ RootOnTop(t, d) /\ ParentsKnow(t, d)
      /\ OthersAlone(t, d) /\ SizesAdd(t, e)
    BY DEF SoundBut
<1>2. /\ below # d /\ t.parent[below] = e /\ below # e
      /\ InTree(t, below)
    <2>1. CASE e = NULL /\ below = t.root
        BY <1>1, <2>1, NodesAssumption DEF RootOnTop, InTree
    <2>2. CASE e \in Nodes /\ (below = t.left[e] \/ below = t.right[e])
        <3>1. below # NULL
            BY NodesAssumption
        <3>2. below # d /\ t.parent[below] = e
            BY <1>1, <2>2, <3>1 DEF ChildrenPoint
        <3>3. t.size[below] < t.size[e]
            BY <2>2, <3>1, ChildIsSmaller
        <3>4. t.size[below] \in Nat /\ t.size[e] \in Nat
            BY <1>1, <2>2, Fields
        <3> QED
            BY <2>2, <3>2, <3>3, <3>4, NodesAssumption DEF InTree
    <2> QED
        BY <2>1, <2>2
<1>3. /\ u.root = t.root /\ u.left = t.left /\ u.right = t.right
      /\ u.parent = [t.parent EXCEPT ![d] = below]
      /\ u.size = [t.size EXCEPT ![below] = @ + 1]
      /\ u \in Trees
    <2> DEFINE parent == [t.parent EXCEPT ![d] = below]
               size == [t.size EXCEPT ![below] = @ + 1]
    <2>1. parent \in [Nodes -> Pointers]
        BY <1>1 DEF Trees, Pointers
    <2>2. size \in [Nodes -> Nat \ {0}]
        BY <1>1 DEF Trees
    <2>3. u = [t EXCEPT !.parent = parent, !.size = size]
        BY <1>1 DEF Descend, Trees
    <2> HIDE DEF parent, size, u
    <2>4. /\ u.root = t.root /\ u.left = t.left /\ u.right = t.right
          /\ u.parent = parent /\ u.size = size /\ u \in Trees
        BY <1>1, <2>1, <2>2, <2>3 DEF Trees
    <2> QED
        BY <2>4 DEF parent, size
<1>4. /\ u.parent[d] = below /\ u.size[below] = t.size[below] + 1
      /\ \A n \in Nodes : (n # d => u.parent[n] = t.parent[n])
                           /\ (n # below => u.size[n] = t.size[n])
    BY <1>1, <1>3, Fields
<1> HIDE DEF u
<1>5. ChildrenPoint(u, d)
    <2> SUFFICES ASSUME NEW n \in Nodes
                 PROVE  /\ u.left[n] # NULL => u.parent[u.left[n]] = n /\ u.left[n] # d
                        /\ u.right[n] # NULL => u.parent[u.right[n]] = n /\ u.right[n] # d
                        /\ u.left[n] = u.right[n] => u.left[n] = NULL
        BY DEF ChildrenPoint
    <2>1. t.left[n] \in Pointers /\ t.right[n] \in Pointers
        BY <1>1, Fields
    <2>2. /\ t.left[n] # NULL => t.parent[t.left[n]] = n /\ t.left[n] # d
          /\ t.right[n] # NULL => t.parent[t.right[n]] = n /\ t.right[n] # d
          /\ t.left[n] = t.right[n] => t.left[n] = NULL
        BY <1>1 DEF ChildrenPoint
    <2> QED
        BY <1>3, <1>4, <2>1, <2>2 DEF Pointers
<1>6. RootOnTop(u, d)
    <2>1. t.root \in Pointers
        BY <1>1 DEF Trees
    <2> QED
        BY <1>1, <1>3, <1>4, <2>1 DEF RootOnTop, Pointers
<1>7. ParentsKnow(u, d) /\ OthersAlone(u, d)
    BY <1>1, <1>3, <1>4 DEF ParentsKnow, OthersAlone
<1>8. SizesAdd(u, below)
    <2> SUFFICES ASSUME NEW n \in Nodes
                 PROVE  u.size[n] = SizeOf(u, u.left[n]) + SizeOf(u, u.right[n]) + 1
                                    + (IF n = below THEN 1 ELSE 0)
        BY DEF SizesAdd
    <2> DEFINE l == t.left[n]
               r == t.right[n]
    <2>1. /\ l \in Pointers /\ r \in Pointers /\ SizeOf(t, l) \in Nat /\ SizeOf(t, r) \in Nat
          /\ t.size[n] \in Nat
        BY <1>1, Fields, SizeOfNat
    <2>2. t.size[n] = SizeOf(t, l) + SizeOf(t, r) + 1 + (IF n = e THEN 1 ELSE 0)
        BY <1>1 DEF SizesAdd
    <2>3. /\ l # below => SizeOf(u, l) = SizeOf(t, l)
          /\ r # below => SizeOf(u, r) = SizeOf(t, r)
          /\ l = below => SizeOf(u, l) = SizeOf(t, l) + 1
          /\ r = below => SizeOf(u, r) = SizeOf(t, r) + 1
        BY <1>4, <2>1, NodesAssumption DEF SizeOf, Pointers
    <2>4. /\ l = below \/ r = below => n = e
          /\ l = below => r # below
        BY <1>1, <1>2, NodesAssumption DEF ChildrenPoint
    <2>5. CASE n = below
        BY <1>2, <1>3, <1>4, <2>1, <2>2, <2>3, <2>4, <2>5
    <2>6. CASE n = e
        <3>1. l = below \/ r = below
            BY <2>6, NodesAssumption
        <3>2. u.size[n] = t.size[n] /\ n # below
            BY <1>2, <1>4, <2>6
        <3> QED
            BY <1>3, <2>1, <2>2, <2>3, <2>4, <2>6, <3>1, <3>2
    <2>7. CASE n # below /\ n # e
        BY <1>3, <1>4, <2>1, <2>2, <2>3, <2>4, <2>7
    <2> QED
        BY <2>5, <2>6, <2>7
<1>9. SoundBut(u, below, d)
    BY <1>3, <1>5, <1>6, <1>7, <1>8 DEF SoundBut
<1>10. InTree(u, below) /\ \A n \in Nodes \ {d} : InTree(u, n) <=> InTree(t, n)
    BY <1>2, <1>3, <1>4 DEF InTree
<1> QED
    BY <1>2, <1>3, <1>4, <1>9, <1>10 DEF u

(* insert() links its node to the place the loop has found: the tree is in  *)
(* good order again, with the node in it.                                   *)
LEMMA AttachSound ==
    ASSUME NEW t, NEW d \in Nodes, SoundBut(t, t.parent[d], d),
           t.parent[d] \in Nodes, t.parent[d] # d, InTree(t, t.parent[d]),
           NEW before \in BOOLEAN,
           (IF before THEN t.left[t.parent[d]] ELSE t.right[t.parent[d]]) = NULL
    PROVE  LET u == Attach(t, d, before)
           IN  /\ Sound(u) /\ InTree(u, d)
               /\ \A n \in Nodes \ {d} : InTree(u, n) <=> InTree(t, n)
<1> DEFINE e == t.parent[d]
           u == Attach(t, d, before)
<1>1. /\ t \in Trees /\ ChildrenPoint(t, d) /\ RootOnTop(t, d) /\ ParentsKnow(t, d)
      /\ OthersAlone(t, d) /\ SizesAdd(t, e)
    BY DEF SoundBut
<1>2. /\ u.root = t.root /\ u.parent = t.parent /\ u.size = t.size /\ u \in Trees
      /\ u.left = IF before THEN [t.left EXCEPT ![e] = d] ELSE t.left
      /\ u.right = IF before THEN t.right ELSE [t.right EXCEPT ![e] = d]
    BY <1>1 DEF Attach, Trees, Pointers
<1>3. /\ \A n \in Nodes \ {e} : u.left[n] = t.left[n] /\ u.right[n] = t.right[n]
      /\ u.left[e] = IF before THEN d ELSE t.left[e]
      /\ u.right[e] = IF before THEN t.right[e] ELSE d
    BY <1>1, <1>2, Fields
<1> HIDE DEF u
<1>4. t.left[d] = NULL /\ t.right[d] = NULL /\ t.size[d] = 1 /\ t.root # d
    <2>1. t.root # d
        BY <1>1, NodesAssumption DEF RootOnTop
    <2>2. t.left[d] = NULL /\ t.right[d] = NULL
        BY <1>1, <2>1 DEF OthersAlone
    <2>3. t.size[d] = 1
        BY <1>1, <2>2 DEF SizesAdd, SizeOf
    <2> QED
        BY <2>1, <2>2, <2>3
<1>5. ChildrenPoint(u, NULL)
    <2> SUFFICES ASSUME NEW n \in Nodes
                 PROVE  /\ u.left[n] # NULL => u.parent[u.left[n]] = n
                        /\ u.right[n] # NULL => u.parent[u.right[n]] = n
                        /\ u.left[n] = u.right[n] => u.left[n] = NULL
        BY DEF ChildrenPoint
    <2>1. CASE n = e
        BY <1>1, <1>2, <1>3, <2>1, NodesAssumption DEF ChildrenPoint
    <2>2. CASE n # e
        BY <1>1, <1>2, <1>3, <2>2 DEF ChildrenPoint
    <2> QED
        BY <2>1, <2>2
<1>6. RootOnTop(u, NULL)
    BY <1>1, <1>2 DEF RootOnTop
<1>7. ParentsKnow(u, NULL)
    <2> SUFFICES ASSUME NEW n \in Nodes, u.parent[n] # NULL
                 PROVE  n = u.left[u.parent[n]] \/ n = u.right[u.parent[n]]
        BY DEF ParentsKnow
    <2>1. CASE n = d
        BY <1>2, <1>3, <2>1
    <2>2. CASE n # d
        <3>1. u.parent[n] = t.parent[n] /\ t.parent[n] \in Nodes
            BY <1>1, <1>2, Fields DEF Pointers
        <3>2. n = t.left[t.parent[n]] \/ n = t.right[t.parent[n]]
            BY <1>1, <2>2, <3>1, NodesAssumption DEF ParentsKnow
        <3> QED
            BY <1>3, <3>1, <3>2, NodesAssumption
    <2> QED
        BY <2>1, <2>2
<1>8. OthersAlone(u, NULL)
    BY <1>1, <1>2, <1>3, NodesAssumption DEF OthersAlone, InTree
<1>9. SizesAdd(u, NULL)
    <2> SUFFICES ASSUME NEW n \in Nodes
                 PROVE  u.size[n] = SizeOf(u, u.left[n]) + SizeOf(u, u.right[n]) + 1
        BY <1>2, SizesAddPlain
    <2>1. /\ SizeOf(t, t.left[n]) \in Nat /\ SizeOf(t, t.right[n]) \in Nat
        BY <1>1, Fields, SizeOfNat
    <2>2. t.size[n] = SizeOf(t, t.left[n]) + SizeOf(t, t.right[n]) + 1 + (IF n = e THEN 1 ELSE 0)
        BY <1>1 DEF SizesAdd
    <2>3. \A m : SizeOf(u, m) = SizeOf(t, m)
        BY <1>2 DEF SizeOf
    <2>4. SizeOf(t, d) = 1 /\ SizeOf(t, NULL) = 0
        BY <1>4, NodesAssumption DEF SizeOf
    <2>5. CASE n = e
        BY <1>2, <1>3, <2>1, <2>2, <2>3, <2>4, <2>5
    <2>6. CASE n # e
        BY <1>2, <1>3, <2>1, <2>2, <2>3, <2>6
    <2> QED
        BY <2>5, <2>6
<1>10. Sound(u)
    BY <1>2, <1>5, <1>6, <1>7, <1>8, <1>9 DEF Sound, SoundBut
<1>11. InTree(u, d) /\ \A n \in Nodes \ {d} : InTree(u, n) <=> InTree(t, n)
    BY <1>2, NodesAssumption DEF InTree
<1> QED
    BY <1>10, <1>11 DEF u

-----------------------------------------------------------------------------
(* Removal.                                                                *)

\* What surrounds a node x of a tree: x is its own parent's child and no other's.
LEMMA Surroundings ==
    ASSUME NEW t, Sound(t), NEW x \in Nodes
    PROVE  LET p == t.parent[x]
               l == t.left[x]
               r == t.right[x]
           IN  /\ p \in Pointers /\ l \in Pointers /\ r \in Pointers
               /\ p # x /\ l # x /\ r # x
               /\ p # NULL => p # l /\ p # r
               /\ l # NULL => t.parent[l] = x
               /\ r # NULL => t.parent[r] = x
               /\ l = r => l = NULL
               /\ \A n \in Nodes : (t.left[n] = x \/ t.right[n] = x) => n = p
<1> DEFINE p == t.parent[x]
           l == t.left[x]
           r == t.right[x]
<1>1. /\ t \in Trees /\ ChildrenPoint(t, NULL) /\ ParentsKnow(t, NULL)
      /\ SoundBut(t, NULL, NULL)
    BY DEF Sound, SoundBut
<1>2. p \in Pointers /\ l \in Pointers /\ r \in Pointers
    BY <1>1, Fields
<1>3. /\ l # NULL => l \in Nodes /\ t.size[l] < t.size[x]
      /\ r # NULL => r \in Nodes /\ t.size[r] < t.size[x]
    BY <1>1, ChildIsSmaller
<1>4. p # NULL => p \in Nodes /\ t.size[x] < t.size[p]
    <2> SUFFICES ASSUME p # NULL PROVE p \in Nodes /\ t.size[x] < t.size[p]
        OBVIOUS
    <2>1. p \in Nodes
        BY <1>2 DEF Pointers
    <2>2. x = t.left[p] \/ x = t.right[p]
        BY <1>1, NodesAssumption DEF ParentsKnow
    <2> QED
        BY <1>1, <2>1, <2>2, ChildIsSmaller, NodesAssumption
<1>5. /\ t.size[x] \in Nat /\ (l # NULL => t.size[l] \in Nat)
      /\ (r # NULL => t.size[r] \in Nat) /\ (p # NULL => t.size[p] \in Nat)
    BY <1>1, <1>3, <1>4, Fields
<1>6. /\ p # x /\ l # x /\ r # x
      /\ p # NULL => p # l /\ p # r
    BY <1>3, <1>4, <1>5, NodesAssumption
<1>7. /\ l # NULL => t.parent[l] = x
      /\ r # NULL => t.parent[r] = x
      /\ l = r => l = NULL
      /\ \A n \in Nodes : (t.left[n] = x \/ t.right[n] = x) => n = p
    BY <1>1, NodesAssumption DEF ChildrenPoint
<1> QED
    BY <1>2, <1>6, <1>7

\* The replacement, a node outside the tree, takes the place of x in a tree.
LEMMA ReplaceSound ==
    ASSUME NEW t, Sound(t), NEW x \in Nodes, InTree(t, x), NEW y \in Nodes, ~InTree(t, y)
    PROVE  LET u == Replace(t, x, y)
           IN  /\ Sound(u) /\ ~InTree(u, x) /\ InTree(u, y)
               /\ \A n \in Nodes \ {x, y} : InTree(u, n) <=> InTree(t, n)
<1> DEFINE p == t.parent[x]
           l == t.left[x]
           r == t.right[x]
           u == Replace(t, x, y)
<1>1. /\ t \in Trees /\ ChildrenPoint(t, NULL) /\ RootOnTop(t, NULL) /\ ParentsKnow(t, NULL)
      /\ OthersAlone(t, NULL) /\ SizesAdd(t, NULL)
    BY DEF Sound, SoundBut
<1>2. /\ p \in Pointers /\ l \in Pointers /\ r \in Pointers
      /\ p # x /\ l # x /\ r # x
      /\ p # NULL => p # l /\ p # r
      /\ l # NULL => t.parent[l] = x
      /\ r # NULL => t.parent[r] = x
      /\ l = r => l = NULL
      /\ \A n \in Nodes : (t.left[n] = x \/ t.right[n] = x) => n = p
    BY Surroundings
<1>3. /\ x # y /\ t.parent[y] = NULL /\ t.left[y] = NULL /\ t.right[y] = NULL /\ t.root # y
      /\ SoundBut(t, NULL, y)
    BY LooseNode
<1>4. /\ l # y /\ r # y /\ p # y
      /\ \A n \in Nodes : t.left[n] # y /\ t.right[n] # y
    <2>1. \A n \in Nodes : t.left[n] # y /\ t.right[n] # y
        BY <1>3, NodesAssumption DEF SoundBut, ChildrenPoint
    <2>2. p # y
        BY <1>1, <1>3, <2>1, NodesAssumption DEF ParentsKnow
    <2> QED
        BY <2>1, <2>2
<1>5. /\ u.root = IF t.root = x THEN y ELSE t.root
      /\ \A n \in Nodes :
           /\ u.parent[n] = IF n = x THEN NULL ELSE IF n = y THEN p
                            ELSE IF n \in {l, r} THEN y ELSE t.parent[n]
           /\ u.left[n] = IF n = x THEN NULL ELSE IF n = y THEN l
                          ELSE IF n = p /\ x = t.left[n] THEN y ELSE t.left[n]
           /\ u.right[n] = IF n = x THEN NULL ELSE IF n = y THEN r
                           ELSE IF n = p /\ x = t.right[n] THEN y ELSE t.right[n]
           /\ u.size[n] = IF n = x THEN 1 ELSE IF n = y THEN t.size[x] ELSE t.size[n]
    BY DEF Replace
<1>6. u \in Trees
    <2>1. \A n \in Nodes : t.parent[n] \in Pointers /\ t.left[n] \in Pointers
                           /\ t.right[n] \in Pointers /\ t.size[n] \in Nat \ {0}
        BY <1>1 DEF Trees
    <2>2. t.root \in Pointers
        BY <1>1 DEF Trees
    <2>3. u.root \in Pointers
        BY <1>5, <2>2 DEF Pointers
    <2>4. /\ u.parent = [n \in Nodes |-> u.parent[n]] /\ u.left = [n \in Nodes |-> u.left[n]]
          /\ u.right = [n \in Nodes |-> u.right[n]] /\ u.size = [n \in Nodes |-> u.size[n]]
        BY DEF Replace
    <2>5. \A n \in Nodes : u.parent[n] \in Pointers /\ u.left[n] \in Pointers
                           /\ u.right[n] \in Pointers
        BY <1>2, <1>5, <2>1 DEF Pointers
    <2>6. ASSUME NEW n \in Nodes PROVE u.size[n] \in Nat \ {0}
        <3>1. u.size[n] \in {1, t.size[x], t.size[n]}
            BY <1>5
        <3> QED
            BY <2>1, <3>1
    <2>7. u = [root |-> u.root, parent |-> u.parent, left |-> u.left,
               right |-> u.right, size |-> u.size]
        BY DEF Replace
    <2> QED
        BY <2>3, <2>4, <2>5, <2>6, <2>7 DEF Trees
<1> HIDE DEF u
<1>7. ChildrenPoint(u, NULL)
    <2> SUFFICES ASSUME NEW n \in Nodes
                 PROVE  /\ u.left[n] # NULL => u.parent[u.left[n]] = n
                        /\ u.right[n] # NULL => u.parent[u.right[n]] = n
                        /\ u.left[n] = u.right[n] => u.left[n] = NULL
        BY DEF ChildrenPoint
    <2>1. CASE n = x
        BY <1>5, <2>1
    <2>2. CASE n = y
        BY <1>2, <1>3, <1>4, <1>5, <2>2 DEF Pointers
    <2>3. CASE n # x /\ n # y
        <3>1. /\ t.left[n] \in Pointers /\ t.right[n] \in Pointers
              /\ t.left[n] # NULL => t.parent[t.left[n]] = n
              /\ t.right[n] # NULL => t.parent[t.right[n]] = n
              /\ t.left[n] = t.right[n] => t.left[n] = NULL
            BY <1>1, Fields DEF ChildrenPoint
        <3>2. /\ t.left[n] # y /\ t.right[n] # y
              /\ t.left[n] # NULL => t.left[n] \notin {l, r}
              /\ t.right[n] # NULL => t.right[n] \notin {l, r}
            BY <1>2, <1>4, <2>3, <3>1, NodesAssumption
        <3>3. /\ u.left[n] = IF x = t.left[n] THEN y ELSE t.left[n]
              /\ u.right[n] = IF x = t.right[n] THEN y ELSE t.right[n]
            BY <1>2, <1>5, <2>3
        <3>4. t.left[n] = x \/ t.right[n] = x => u.parent[y] = n
            BY <1>2, <1>3, <1>5
        <3>5. ASSUME NEW m \in Nodes, m # x, m # y, m \notin {l, r}
              PROVE  u.parent[m] = t.parent[m]
            BY <1>5, <3>5
        <3>6. u.left[n] # NULL => u.parent[u.left[n]] = n
            BY <3>1, <3>2, <3>3, <3>4, <3>5 DEF Pointers
        <3>7. u.right[n] # NULL => u.parent[u.right[n]] = n
            BY <3>1, <3>2, <3>3, <3>4, <3>5 DEF Pointers
        <3>8. u.left[n] = u.right[n] => u.left[n] = NULL
            BY <3>1, <3>2, <3>3, NodesAssumption
        <3> QED
            BY <3>6, <3>7, <3>8
    <2> QED
        BY <2>1, <2>2, <2>3
<1>8. RootOnTop(u, NULL)
    <2>1. CASE t.root = x
        <3>1. u.root = y /\ p = NULL
            BY <1>1, <1>5, <2>1, NodesAssumption DEF RootOnTop
        <3>2. u.parent[y] = p
            BY <1>3, <1>5
        <3> QED
            BY <3>1, <3>2, NodesAssumption DEF RootOnTop
    <2>2. CASE t.root # x
        <3> SUFFICES ASSUME t.root # NULL PROVE u.parent[t.root] = NULL
            BY <1>5, <2>2 DEF RootOnTop
        <3>1. t.root \in Nodes /\ t.parent[t.root] = NULL
            BY <1>1 DEF RootOnTop, Trees, Pointers
        <3>2. t.root # y /\ t.root # l /\ t.root # r
            BY <1>2, <1>3, <3>1, NodesAssumption
        <3> QED
            BY <1>5, <2>2, <3>1, <3>2
    <2> QED
        BY <2>1, <2>2
<1>9. ParentsKnow(u, NULL)
    <2> SUFFICES ASSUME NEW n \in Nodes, u.parent[n] # NULL
                 PROVE  n = u.left[u.parent[n]] \/ n = u.right[u.parent[n]]
        BY DEF ParentsKnow
    <2>1. n # x
        BY <1>5
    <2>2. CASE n = y
        <3>1. u.parent[n] = p /\ p \in Nodes
            BY <1>2, <1>3, <1>5, <2>2 DEF Pointers
        <3>2. x = t.left[p] \/ x = t.right[p]
            BY <1>1, <3>1, NodesAssumption DEF ParentsKnow
        <3> QED
            BY <1>2, <1>4, <1>5, <2>2, <3>1, <3>2
    <2>3. CASE n # y /\ n \in {l, r}
        <3>1. u.parent[n] = y
            BY <1>5, <2>1, <2>3
        <3>2. u.left[y] = l /\ u.right[y] = r
            BY <1>3, <1>5
        <3> QED
            BY <2>3, <3>1, <3>2
    <2>4. CASE n # y /\ n \notin {l, r}
        <3>1. u.parent[n] = t.parent[n] /\ t.parent[n] \in Nodes
            BY <1>1, <1>5, <2>1, <2>4, Fields DEF Pointers
        <3>2. n = t.left[t.parent[n]] \/ n = t.right[t.parent[n]]
            BY <1>1, <3>1, NodesAssumption DEF ParentsKnow
        <3>3. t.parent[n] # x /\ t.parent[n] # y
            BY <1>3, <2>4, <3>2, NodesAssumption
        <3> QED
            BY <1>5, <2>1, <3>1, <3>2, <3>3
    <2> QED
        BY <2>2, <2>3, <2>4
<1>10. OthersAlone(u, NULL)
    <2> SUFFICES ASSUME NEW n \in Nodes, u.parent[n] = NULL, n # u.root
                 PROVE  u.left[n] = NULL /\ u.right[n] = NULL
        BY NodesAssumption DEF OthersAlone
    <2>1. CASE n = x
        BY <1>5, <2>1
    <2>2. CASE n = y
        <3>1. p = NULL /\ t.root # x
            BY <1>3, <1>5, <2>2
        <3> QED
            BY <3>1 DEF InTree
    <2>3. CASE n # x /\ n # y
        <3>1. n \notin {l, r}
            BY <1>5, <2>3, NodesAssumption
        <3>2. t.parent[n] = NULL /\ n # t.root
            BY <1>5, <2>3, <3>1
        <3>3. t.left[n] = NULL /\ t.right[n] = NULL
            BY <1>1, <3>2 DEF OthersAlone
        <3> QED
            BY <1>5, <2>3, <3>3, NodesAssumption
    <2> QED
        BY <2>1, <2>2, <2>3
<1>11. SizesAdd(u, NULL)
    <2> SUFFICES ASSUME NEW n \in Nodes
                 PROVE  u.size[n] = SizeOf(u, u.left[n]) + SizeOf(u, u.right[n]) + 1
        BY <1>6, SizesAddPlain
    <2>1. ASSUME NEW m \in Pointers, m # x, m # y PROVE SizeOf(u, m) = SizeOf(t, m)
        BY <1>5, <2>1 DEF SizeOf, Pointers
    <2>2. SizeOf(u, y) = SizeOf(t, x) /\ SizeOf(u, NULL) = 0
        BY <1>3, <1>5, NodesAssumption DEF SizeOf
    <2>3. t.size[n] = SizeOf(t, t.left[n]) + SizeOf(t, t.right[n]) + 1
        BY <1>1, SizesAddPlain
    <2>4. t.size[x] = SizeOf(t, l) + SizeOf(t, r) + 1
        BY <1>1, SizesAddPlain
    <2>5. CASE n = x
        <3>1. u.size[n] = 1 /\ u.left[n] = NULL /\ u.right[n] = NULL
            BY <1>5, <2>5
        <3> QED
            BY <2>2, <3>1
    <2>6. CASE n = y
        <3>1. u.size[n] = t.size[x] /\ u.left[n] = l /\ u.right[n] = r
            BY <1>3, <1>5, <2>6
        <3> QED
            BY <1>2, <1>4, <2>1, <2>4, <3>1
    <2>7. CASE n # x /\ n # y
        <3>1. t.left[n] \in Pointers /\ t.right[n] \in Pointers
            BY <1>1, Fields
        <3>2. /\ u.size[n] = t.size[n]
              /\ u.left[n] = IF x = t.left[n] THEN y ELSE t.left[n]
              /\ u.right[n] = IF x = t.right[n] THEN y ELSE t.right[n]
            BY <1>2, <1>5, <2>7
        <3>3. SizeOf(u, u.left[n]) = SizeOf(t, t.left[n])
            BY <1>4, <2>1, <2>2, <3>1, <3>2
        <3>4. SizeOf(u, u.right[n]) = SizeOf(t, t.right[n])
            BY <1>4, <2>1, <2>2, <3>1, <3>2
        <3> QED
            BY <2>3, <3>2, <3>3, <3>4
    <2> QED
        BY <2>5, <2>6, <2>7
<1>12. Sound(u)
    BY <1>6, <1>7, <1>8, <1>9, <1>10, <1>11 DEF Sound, SoundBut
<1>13. ~InTree(u, x)
    <2>1. u.parent[x] = NULL /\ u.root # x
        BY <1>3, <1>5
    <2> QED
        BY <2>1 DEF InTree
<1>14. InTree(u, y)
    <2>1. u.parent[y] = p
        BY <1>3, <1>5
    <2> QED
        BY <1>5, <2>1 DEF InTree
<1>15. ASSUME NEW n \in Nodes \ {x, y} PROVE InTree(u, n) <=> InTree(t, n)
    <2>1. CASE n \in {l, r}
        BY <1>2, <1>5, <2>1, NodesAssumption DEF InTree
    <2>2. CASE n \notin {l, r}
        BY <1>5, <2>2 DEF InTree
    <2> QED
        BY <2>1, <2>2
<1> QED
    BY <1>12, <1>13, <1>14, <1>15 DEF u

(* A leaf x leaves a tree: its parent counts one node too many.             *)
LEMMA ReplaceLeafSound ==
    ASSUME NEW t, Sound(t), NEW x \in Nodes, InTree(t, x),
           t.left[x] = NULL, t.right[x] = NULL
    PROVE  LET u == Replace(t, x, NULL)
           IN  /\ SoundBut(u, t.parent[x], NULL) /\ ~InTree(u, x)
               /\ \A n \in Nodes \ {x} : InTree(u, n) <=> InTree(t, n)
<1> DEFINE p == t.parent[x]
           u == Replace(t, x, NULL)
<1>1. /\ t \in Trees /\ ChildrenPoint(t, NULL) /\ RootOnTop(t, NULL) /\ ParentsKnow(t, NULL)
      /\ OthersAlone(t, NULL) /\ SizesAdd(t, NULL)
    BY DEF Sound, SoundBut
<1>2. /\ p \in Pointers /\ p # x
      /\ \A n \in Nodes : (t.left[n] = x \/ t.right[n] = x) => n = p
    BY Surroundings
<1>3. /\ u.root = IF t.root = x THEN NULL ELSE t.root
      /\ \A n \in Nodes :
           /\ u.parent[n] = IF n = x THEN NULL ELSE t.parent[n]
           /\ u.left[n] = IF n = x THEN NULL
                          ELSE IF n = p /\ x = t.left[n] THEN NULL ELSE t.left[n]
           /\ u.right[n] = IF n = x THEN NULL
                           ELSE IF n = p /\ x = t.right[n] THEN NULL ELSE t.right[n]
           /\ u.size[n] = IF n = x THEN 1 ELSE t.size[n]
    BY NodesAssumption DEF Replace
<1>4. u \in Trees
    <2>1. \A n \in Nodes : t.parent[n] \in Pointers /\ t.left[n] \in Pointers
                           /\ t.right[n] \in Pointers /\ t.size[n] \in Nat \ {0}
        BY <1>1 DEF Trees
    <2>2. u.root \in Pointers
        BY <1>1, <1>3 DEF Trees, Pointers
    <2>3. /\ u.parent = [n \in Nodes |-> u.parent[n]] /\ u.left = [n \in Nodes |-> u.left[n]]
          /\ u.right = [n \in Nodes |-> u.right[n]] /\ u.size = [n \in Nodes |-> u.size[n]]
        BY DEF Replace
    <2>4. \A n \in Nodes : u.parent[n] \in Pointers /\ u.left[n] \in Pointers
                           /\ u.right[n] \in Pointers
        BY <1>2, <1>3, <2>1 DEF Pointers
    <2>5. ASSUME NEW n \in Nodes PROVE u.size[n] \in Nat \ {0}
        <3>1. u.size[n] \in {1, t.size[n]}
            BY <1>3
        <3> QED
            BY <2>1, <3>1
    <2>6. u = [root |-> u.root, parent |-> u.parent, left |-> u.left,
               right |-> u.right, size |-> u.size]
        BY DEF Replace
    <2> QED
        BY <2>2, <2>3, <2>4, <2>5, <2>6 DEF Trees
<1> HIDE DEF u
<1>5. ChildrenPoint(u, NULL)
    <2> SUFFICES ASSUME NEW n \in Nodes
                 PROVE  /\ u.left[n] # NULL => u.parent[u.left[n]] = n
                        /\ u.right[n] # NULL => u.parent[u.right[n]] = n
                        /\ u.left[n] = u.right[n] => u.left[n] = NULL
        BY DEF ChildrenPoint
    <2>1. /\ t.left[n] \in Pointers /\ t.right[n] \in Pointers
          /\ t.left[n] # NULL => t.parent[t.left[n]] = n
          /\ t.right[n] # NULL => t.parent[t.right[n]] = n
          /\ t.left[n] = t.right[n] => t.left[n] = NULL
        BY <1>1, Fields DEF ChildrenPoint
    <2>2. /\ u.left[n] = IF n = x \/ x = t.left[n] THEN NULL ELSE t.left[n]
          /\ u.right[n] = IF n = x \/ x = t.right[n] THEN NULL ELSE t.right[n]
        BY <1>2, <1>3
    <2> QED
        BY <1>3, <2>1, <2>2 DEF Pointers
<1>6. RootOnTop(u, NULL)
    <2>1. t.root \in Pointers
        BY <1>1 DEF Trees
    <2> QED
        BY <1>1, <1>3, <2>1 DEF RootOnTop, Pointers
<1>7. ParentsKnow(u, NULL)
    <2> SUFFICES ASSUME NEW n \in Nodes, u.parent[n] # NULL
                 PROVE  n = u.left[u.parent[n]] \/ n = u.right[u.parent[n]]
        BY DEF ParentsKnow
    <2>1. n # x /\ u.parent[n] = t.parent[n] /\ t.parent[n] \in Nodes
        BY <1>1, <1>3, Fields DEF Pointers
    <2>2. n = t.left[t.parent[n]] \/ n = t.right[t.parent[n]]
        BY <1>1, <2>1, NodesAssumption DEF ParentsKnow
    <2>3. t.parent[n] # x
        BY <2>2, NodesAssumption
    <2> QED
        BY <1>3, <2>1, <2>2, <2>3
<1>8. OthersAlone(u, NULL)
    <2> SUFFICES ASSUME NEW n \in Nodes, u.parent[n] = NULL, n # u.root
                 PROVE  u.left[n] = NULL /\ u.right[n] = NULL
        BY NodesAssumption DEF OthersAlone
    <2> QED
        BY <1>1, <1>3 DEF OthersAlone
<1>9. SizesAdd(u, p)
    <2> SUFFICES ASSUME NEW n \in Nodes
                 PROVE  u.size[n] = SizeOf(u, u.left[n]) + SizeOf(u, u.right[n]) + 1
                                    + (IF n = p THEN 1 ELSE 0)
        BY DEF SizesAdd
    <2> DEFINE l == t.left[n]
               r == t.right[n]
    <2>1. ASSUME NEW m \in Pointers, m # x PROVE SizeOf(u, m) = SizeOf(t, m)
        BY <1>3, <2>1 DEF SizeOf, Pointers
    <2>2. SizeOf(u, NULL) = 0 /\ SizeOf(t, NULL) = 0
        BY DEF SizeOf
    <2>3. /\ t.size[n] = SizeOf(t, l) + SizeOf(t, r) + 1
          /\ l \in Pointers /\ r \in Pointers
          /\ SizeOf(t, l) \in Nat /\ SizeOf(t, r) \in Nat
        BY <1>1, Fields, SizeOfNat, SizesAddPlain
    <2>4. SizeOf(t, x) = 1
        <3>1. t.size[x] = SizeOf(t, t.left[x]) + SizeOf(t, t.right[x]) + 1
            BY <1>1, SizesAddPlain
        <3> QED
            BY <2>2, <3>1, NodesAssumption DEF SizeOf
    <2>5. CASE n = x
        <3>1. u.size[n] = 1 /\ u.left[n] = NULL /\ u.right[n] = NULL /\ n # p
            BY <1>2, <1>3, <2>5
        <3> QED
            BY <2>2, <3>1
    <2>6. CASE n = p
        <3>1. (l = x \/ r = x) /\ (l = x => r # x)
            BY <1>1, <2>6, NodesAssumption DEF ParentsKnow, ChildrenPoint
        <3>2. /\ u.size[n] = t.size[n]
              /\ u.left[n] = IF l = x THEN NULL ELSE l
              /\ u.right[n] = IF r = x THEN NULL ELSE r
            BY <1>2, <1>3, <2>6
        <3> QED
            BY <2>1, <2>2, <2>3, <2>4, <2>6, <3>1, <3>2
    <2>7. CASE n # x /\ n # p
        <3>1. l # x /\ r # x
            BY <1>2, <2>7
        <3>2. u.size[n] = t.size[n] /\ u.left[n] = l /\ u.right[n] = r
            BY <1>3, <2>7
        <3> QED
            BY <2>1, <2>3, <2>7, <3>1, <3>2
    <2> QED
        BY <2>5, <2>6, <2>7
<1>10. SoundBut(u, p, NULL)
    BY <1>4, <1>5, <1>6, <1>7, <1>8, <1>9 DEF SoundBut
<1>11. ~InTree(u, x)
    <2>1. u.parent[x] = NULL /\ u.root # x
        BY <1>3, NodesAssumption
    <2> QED
        BY <2>1 DEF InTree
<1>12. \A n \in Nodes \ {x} : InTree(u, n) <=> InTree(t, n)
    BY <1>3, NodesAssumption DEF InTree
<1> QED
    BY <1>10, <1>11, <1>12 DEF u

(* An ancestor of the removed leaf counts one node less, and its own parent *)
(* is the one that counts one too many.                                     *)
LEMMA CountSound ==
    ASSUME NEW t, NEW e \in Nodes, SoundBut(t, e, NULL)
    PROVE  LET u == [t EXCEPT !.size[e] = @ - 1]
           IN  /\ SoundBut(u, t.parent[e], NULL)
               /\ \A n \in Nodes : InTree(u, n) <=> InTree(t, n)
<1> DEFINE p == t.parent[e]
           u == [t EXCEPT !.size[e] = @ - 1]
           size == [t.size EXCEPT ![e] = @ - 1]
<1>1. /\ t \in Trees /\ ChildrenPoint(t, NULL) /\ RootOnTop(t, NULL) /\ ParentsKnow(t, NULL)
      /\ OthersAlone(t, NULL) /\ SizesAdd(t, e)
    BY DEF SoundBut
<1>2. ASSUME NEW n \in Nodes
      PROVE  /\ t.left[n] \in Pointers /\ t.right[n] \in Pointers
             /\ SizeOf(t, t.left[n]) \in Nat /\ SizeOf(t, t.right[n]) \in Nat
             /\ t.size[n] \in Nat
             /\ t.size[n] = SizeOf(t, t.left[n]) + SizeOf(t, t.right[n]) + 1
                            + (IF n = e THEN 1 ELSE 0)
    BY <1>1, Fields, SizeOfNat DEF SizesAdd
<1>3. /\ size[e] = t.size[e] - 1 /\ size[e] \in Nat \ {0}
      /\ \A n \in Nodes \ {e} : size[n] = t.size[n]
    <2>1. size[e] = t.size[e] - 1 /\ \A n \in Nodes \ {e} : size[n] = t.size[n]
        BY <1>1, Fields
    <2>2. t.size[e] - 1 \in Nat \ {0}
        BY <1>2
    <2> QED
        BY <2>1, <2>2
<1>4. size \in [Nodes -> Nat \ {0}]
    BY <1>1, <1>3 DEF Trees
<1>5. u = [t EXCEPT !.size = size]
    BY <1>1 DEF Trees
<1> HIDE DEF u, size
<1>6. /\ u.root = t.root /\ u.parent = t.parent /\ u.left = t.left /\ u.right = t.right
      /\ u.size = size /\ u \in Trees
    BY <1>1, <1>4, <1>5 DEF Trees
<1>7. ChildrenPoint(u, NULL) /\ RootOnTop(u, NULL) /\ ParentsKnow(u, NULL)
      /\ OthersAlone(u, NULL)
    BY <1>1, <1>6 DEF ChildrenPoint, RootOnTop, ParentsKnow, OthersAlone
<1>8. SizesAdd(u, p)
    <2> SUFFICES ASSUME NEW n \in Nodes
                 PROVE  u.size[n] = SizeOf(u, u.left[n]) + SizeOf(u, u.right[n]) + 1
                                    + (IF n = p THEN 1 ELSE 0)
        BY DEF SizesAdd
    <2> DEFINE l == t.left[n]
               r == t.right[n]
    <2>1. /\ l # e => SizeOf(u, l) = SizeOf(t, l)
          /\ r # e => SizeOf(u, r) = SizeOf(t, r)
          /\ l = e => SizeOf(u, l) = SizeOf(t, l) - 1
          /\ r = e => SizeOf(u, r) = SizeOf(t, r) - 1
        BY <1>2, <1>3, <1>6, NodesAssumption DEF SizeOf, Pointers
    <2>2. /\ l = e \/ r = e => n = p
          /\ l = e => r # e
          /\ n = p => l = e \/ r = e
        BY <1>1, NodesAssumption DEF ChildrenPoint, ParentsKnow
    <2>3. p # e
        <3> SUFFICES ASSUME p = e PROVE FALSE
            OBVIOUS
        <3>1. t.left[e] = e \/ t.right[e] = e
            BY <1>1, NodesAssumption DEF ParentsKnow
        <3>2. t.size[e] < t.size[e]
            BY <3>1, ChildIsSmaller, NodesAssumption
        <3> QED
            BY <1>2, <3>2
    <2>4. CASE n = e
        BY <1>2, <1>3, <1>6, <2>1, <2>2, <2>3, <2>4
    <2>5. CASE n = p
        BY <1>2, <1>3, <1>6, <2>1, <2>2, <2>3, <2>5
    <2>6. CASE n # e /\ n # p
        BY <1>2, <1>3, <1>6, <2>1, <2>2, <2>6
    <2> QED
        BY <2>4, <2>5, <2>6
<1>9. SoundBut(u, p, NULL)
    BY <1>6, <1>7, <1>8 DEF SoundBut
<1>10. \A n \in Nodes : InTree(u, n) <=> InTree(t, n)
    BY <1>6 DEF InTree
<1> QED
    BY <1>9, <1>10 DEF u

\* The tree of a new container, and of one that was cleared, is in good order.
LEMMA EmptySound ==
    Sound(EmptyTree) /\ \A n \in Nodes : ~InTree(EmptyTree, n)
<1> DEFINE u == EmptyTree
<1>1. /\ u \in Trees /\ u.root = NULL
      /\ \A n \in Nodes : u.parent[n] = NULL /\ u.left[n] = NULL /\ u.right[n] = NULL
                           /\ u.size[n] = 1
    BY DEF EmptyTree, Trees, Pointers
<1> HIDE DEF u
<1>2. SizesAdd(u, NULL)
    BY <1>1, SizesAddPlain DEF SizeOf
<1>3. /\ ChildrenPoint(u, NULL) /\ RootOnTop(u, NULL) /\ ParentsKnow(u, NULL)
      /\ OthersAlone(u, NULL)
    BY <1>1 DEF ChildrenPoint, RootOnTop, ParentsKnow, OthersAlone
<1>4. \A n \in Nodes : ~InTree(u, n)
    BY <1>1, NodesAssumption DEF InTree
<1> QED
    BY <1>1, <1>2, <1>3, <1>4 DEF Sound, SoundBut, u

-----------------------------------------------------------------------------
(* Induction over a rank, for facts about functions and sets.              *)

\* The order of the ranks: smaller than.
Below == {p \in Nat \X Nat : p[1] < p[2]}

\* There is no infinite descent among the natural numbers.
LEMMA BelowIsWellFounded == IsWellFoundedOn(Below, Nat)
BY NatLessThanWellFounded DEF OpToRel, Below

\* Numbers that each have a smaller one beside them are none.
LEMMA NoLeast ==
    ASSUME NEW Bad \in SUBSET Nat, \A i \in Bad : \E j \in Bad : j < i
    PROVE  Bad = {}
<1> SUFFICES ASSUME Bad # {} PROVE FALSE
    OBVIOUS
<1>1. PICK i \in Bad : \A j \in Bad : ~(<<j, i>> \in Below)
    <2>1. IsWellFoundedOn(Below, Bad)
        BY BelowIsWellFounded, IsWellFoundedOnSubset
    <2>2. PICK i : i \in Bad
        OBVIOUS
    <2> QED
        BY <2>1, <2>2, WFMin
<1>2. PICK j \in Bad : j < i
    OBVIOUS
<1>3. <<j, i>> \in Nat \X Nat /\ <<j, i>>[1] = j /\ <<j, i>>[2] = i
    OBVIOUS
<1> QED
    BY <1>1, <1>2, <1>3 DEF Below

\* A set whose every element has one of a lower rank beside it is empty.
LEMMA Descent ==
    ASSUME NEW S, NEW rank \in [S -> Nat], NEW Bad \in SUBSET S,
           \A x \in Bad : \E y \in Bad : rank[y] < rank[x]
    PROVE  Bad = {}
<1> DEFINE Ranks == {rank[x] : x \in Bad}
<1>1. Ranks \in SUBSET Nat
    OBVIOUS
<1>2. \A i \in Ranks : \E j \in Ranks : j < i
    OBVIOUS
<1> HIDE DEF Ranks
<1>3. Ranks = {}
    BY <1>1, <1>2, NoLeast
<1> QED
    BY <1>3 DEF Ranks

(* A loop that goes on from x to next[x] while x is in D, and that gets     *)
(* closer to its end with every round, computes a function.                *)
Loop(S, V, D, next, base, rank, bound) ==
    /\ D \in SUBSET S /\ next \in [D -> S] /\ base \in [S -> V]
    /\ rank \in [S -> Nat] /\ bound \in Nat /\ \A x \in S : rank[x] < bound
    /\ \A x \in D : rank[next[x]] < rank[x]

\* What a loop returns is what its next round returns, and the base where it ends.
LEMMA LoopComputes ==
    ASSUME NEW S, NEW V, NEW D, NEW next, NEW base, NEW rank, NEW bound,
           Loop(S, V, D, next, base, rank, bound)
    PROVE  \E f \in [S -> V] : \A x \in S : f[x] = IF x \in D THEN f[next[x]] ELSE base[x]
<1> USE DEF Loop
<1> DEFINE Upto(k, f) == \A x \in S : rank[x] < k => f[x] = IF x \in D THEN f[next[x]] ELSE base[x]
           Bad == {k \in Nat : ~ \E f \in [S -> V] : Upto(k, f)}
<1>1. ASSUME NEW k \in Nat, NEW f \in [S -> V], Upto(k, f)
      PROVE  \E g \in [S -> V] : Upto(k + 1, g)
    <2> DEFINE g == [x \in S |-> IF rank[x] = k THEN (IF x \in D THEN f[next[x]] ELSE base[x])
                                 ELSE f[x]]
    <2>1. g \in [S -> V]
        OBVIOUS
    <2>2. ASSUME NEW x \in S, rank[x] < k + 1
          PROVE  g[x] = IF x \in D THEN g[next[x]] ELSE base[x]
        <3>1. rank[x] \in Nat
            OBVIOUS
        <3>2. ASSUME x \in D PROVE next[x] \in S /\ rank[next[x]] \in Nat /\ rank[next[x]] < rank[x] /\ g[next[x]] = f[next[x]]
            <4>1. next[x] \in S /\ rank[next[x]] \in Nat /\ rank[next[x]] < rank[x]
                BY <3>2
            <4>2. rank[next[x]] # k
                BY <4>1, <3>1, <2>2
            <4> QED
                BY <4>1, <4>2
        <3>3. CASE rank[x] = k
            BY <3>2, <3>3
        <3>4. CASE rank[x] # k
            <4>1. rank[x] < k
                BY <3>1, <3>4, <2>2
            <4>2. f[x] = IF x \in D THEN f[next[x]] ELSE base[x]
                BY <1>1, <4>1
            <4> QED
                BY <3>2, <3>4, <4>2
        <3> QED
            BY <3>3, <3>4
    <2> QED
        BY <2>1, <2>2
<1>2. \E f \in [S -> V] : Upto(0, f)
    <2>1. \A x \in S : ~(rank[x] < 0)
        OBVIOUS
    <2> QED
        BY <2>1
<1> HIDE DEF Upto
<1>3. Bad \in SUBSET Nat
    OBVIOUS
<1>4. \A k \in Bad : \E j \in Bad : j < k
    <2> SUFFICES ASSUME NEW k \in Bad PROVE k - 1 \in Bad /\ k - 1 < k
        OBVIOUS
    <2>1. k # 0
        BY <1>2
    <2>2. k - 1 \in Nat /\ k - 1 < k /\ (k - 1) + 1 = k
        BY <2>1
    <2> QED
        BY <1>1, <2>2
<1> HIDE DEF Bad
<1>5. Bad = {}
    BY <1>3, <1>4, NoLeast
<1>6. PICK f \in [S -> V] : Upto(bound, f)
    BY <1>5 DEF Bad
<1> QED
    BY <1>6 DEF Upto
-----------------------------------------------------------------------------
(* The order of a tree.                                                    *)

\* The nodes of a tree but for the one on its way into it.
Hanging(t, d) == {n \in Nodes \ {d} : InTree(t, n)}

(* From left to right the tree holds the nodes of s: pos[n] of them come    *)
(* before n, and the ones below and at n are those from lo[n] on and before *)
(* hi[n], those below on its left before it, those on its right after it.   *)
Spread(t, d, s, lo, pos, hi) ==
    /\ s \in Seq(Nodes)
    /\ lo \in [Nodes -> Nat] /\ pos \in [Nodes -> Nat] /\ hi \in [Nodes -> Nat]
    /\ IF t.root = NULL THEN s = <<>> ELSE lo[t.root] = 0 /\ hi[t.root] = Len(s)
    /\ \A n \in Hanging(t, d) :
        /\ lo[n] <= pos[n] /\ pos[n] < hi[n] /\ hi[n] <= Len(s)
        /\ s[pos[n] + 1] = n
        /\ IF t.left[n] = NULL THEN lo[n] = pos[n]
           ELSE lo[t.left[n]] = lo[n] /\ hi[t.left[n]] = pos[n]
        /\ IF t.right[n] = NULL THEN hi[n] = pos[n] + 1
           ELSE lo[t.right[n]] = pos[n] + 1 /\ hi[t.right[n]] = hi[n]

\* What that says of one node.
LEMMA Spans ==
    ASSUME NEW t, NEW e, NEW d, SoundBut(t, e, d), NEW s, NEW lo, NEW pos, NEW hi,
           Spread(t, d, s, lo, pos, hi), NEW n \in Hanging(t, d)
    PROVE  /\ n \in Nodes /\ n # NULL /\ Len(s) \in Nat
           /\ lo[n] \in Nat /\ pos[n] \in Nat /\ hi[n] \in Nat
           /\ lo[n] <= pos[n] /\ pos[n] < hi[n] /\ hi[n] <= Len(s)
           /\ s[pos[n] + 1] = n
           /\ t.left[n] \in Pointers /\ t.right[n] \in Pointers
           /\ t.left[n] = NULL => lo[n] = pos[n]
           /\ t.right[n] = NULL => hi[n] = pos[n] + 1
           /\ t.left[n] # NULL => /\ t.left[n] \in Hanging(t, d) /\ t.left[n] \in Nodes
                                  /\ lo[t.left[n]] = lo[n] /\ hi[t.left[n]] = pos[n]
           /\ t.right[n] # NULL => /\ t.right[n] \in Hanging(t, d) /\ t.right[n] \in Nodes
                                   /\ lo[t.right[n]] = pos[n] + 1 /\ hi[t.right[n]] = hi[n]
<1>1. n \in Nodes /\ n # NULL /\ t \in Trees /\ ChildrenPoint(t, d)
    BY NodesAssumption DEF Hanging, SoundBut
<1>2. t.left[n] \in Pointers /\ t.right[n] \in Pointers
    BY <1>1, Fields
<1>3. /\ t.left[n] # NULL => t.left[n] \in Hanging(t, d)
      /\ t.right[n] # NULL => t.right[n] \in Hanging(t, d)
    BY <1>1, <1>2 DEF ChildrenPoint, Hanging, InTree, Pointers
<1>4. Len(s) \in Nat /\ lo[n] \in Nat /\ pos[n] \in Nat /\ hi[n] \in Nat
    BY <1>1 DEF Spread
<1> QED
    BY <1>1, <1>2, <1>3, <1>4 DEF Spread, Pointers

\* Among the nodes below which two positions lie one stands between them.
LEMMA Narrowest ==
    ASSUME NEW t, NEW e, NEW d, SoundBut(t, e, d), NEW s, NEW lo, NEW pos, NEW hi,
           Spread(t, d, s, lo, pos, hi), NEW i \in Nat, NEW j \in Nat, i <= j, j < Len(s)
    PROVE  \E x \in Hanging(t, d) : lo[x] <= i /\ j < hi[x] /\ i <= pos[x] /\ pos[x] <= j
<1> SUFFICES ASSUME \A x \in Hanging(t, d) :
                        lo[x] <= i /\ j < hi[x] => ~(i <= pos[x] /\ pos[x] <= j)
             PROVE  FALSE
    OBVIOUS
<1> DEFINE S == Hanging(t, d)
           rank == [x \in S |-> hi[x] - lo[x]]
           Bad == {x \in S : lo[x] <= i /\ j < hi[x]}
<1>1. rank \in [S -> Nat]
    <2>1. ASSUME NEW x \in S PROVE hi[x] - lo[x] \in Nat
        <3>1. lo[x] \in Nat /\ pos[x] \in Nat /\ hi[x] \in Nat /\ lo[x] <= pos[x] /\ pos[x] < hi[x]
            BY Spans
        <3> QED
            BY <3>1
    <2> QED
        BY <2>1
<1>2. ASSUME NEW x \in Bad PROVE \E y \in Bad : rank[y] < rank[x]
    <2>1. /\ x \in S /\ lo[x] \in Nat /\ pos[x] \in Nat /\ hi[x] \in Nat
          /\ lo[x] <= pos[x] /\ pos[x] < hi[x] /\ lo[x] <= i /\ j < hi[x]
          /\ t.left[x] = NULL => lo[x] = pos[x]
          /\ t.right[x] = NULL => hi[x] = pos[x] + 1
          /\ t.left[x] # NULL => t.left[x] \in S /\ lo[t.left[x]] = lo[x] /\ hi[t.left[x]] = pos[x]
          /\ t.right[x] # NULL => t.right[x] \in S /\ lo[t.right[x]] = pos[x] + 1
                                  /\ hi[t.right[x]] = hi[x]
        BY Spans
    <2>2. CASE j < pos[x]
        <3>1. t.left[x] # NULL
            BY <2>1, <2>2
        <3>2. t.left[x] \in Bad
            BY <2>1, <2>2, <3>1
        <3>3. pos[x] - lo[x] < hi[x] - lo[x]
            BY <2>1
        <3>4. rank[t.left[x]] = pos[x] - lo[x] /\ rank[x] = hi[x] - lo[x]
            BY <2>1, <3>1
        <3> QED
            BY <3>2, <3>3, <3>4
    <2>3. CASE pos[x] < i
        <3>1. t.right[x] # NULL
            BY <2>1, <2>3
        <3>2. t.right[x] \in Bad
            BY <2>1, <2>3, <3>1
        <3>3. hi[x] - (pos[x] + 1) < hi[x] - lo[x]
            BY <2>1
        <3>4. rank[t.right[x]] = hi[x] - (pos[x] + 1) /\ rank[x] = hi[x] - lo[x]
            BY <2>1, <3>1
        <3> QED
            BY <3>2, <3>3, <3>4
    <2> QED
        BY <2>1, <2>2, <2>3
<1>3. t.root \in Bad
    <2>1. Len(s) # 0 /\ Len(s) \in Nat
        BY DEF Spread
    <2>2. t.root # NULL /\ lo[t.root] = 0 /\ hi[t.root] = Len(s)
        BY <2>1 DEF Spread
    <2>3. t.root \in S
        BY <2>2 DEF SoundBut, RootOnTop, Trees, Hanging, InTree, Pointers
    <2> QED
        BY <2>2, <2>3
<1> HIDE DEF rank, Bad, S
<1>4. Bad \in SUBSET S
    BY DEF Bad
<1>5. Bad = {}
    BY <1>1, <1>2, <1>4, Descent
<1> QED
    BY <1>3, <1>5

\* Every node of s hangs in the tree, at its place.
LEMMA EveryPlace ==
    ASSUME NEW t, NEW e, NEW d, SoundBut(t, e, d), NEW s, NEW lo, NEW pos, NEW hi,
           Spread(t, d, s, lo, pos, hi), NEW i \in 1 .. Len(s)
    PROVE  s[i] \in Hanging(t, d) /\ pos[s[i]] = i - 1
<1>1. i - 1 \in Nat /\ i - 1 < Len(s) /\ Len(s) \in Nat
    BY DEF Spread
<1>2. PICK x \in Hanging(t, d) : i - 1 <= pos[x] /\ pos[x] <= i - 1
    BY <1>1, Narrowest
<1>3. pos[x] \in Nat /\ s[pos[x] + 1] = x
    BY Spans
<1> QED
    BY <1>1, <1>2, <1>3

\* Of two neighbours one hangs below the other, so that their sides meet at no gap.
LEMMA NeighboursHang ==
    ASSUME NEW t, NEW e, NEW d, SoundBut(t, e, d), NEW s, NEW lo, NEW pos, NEW hi,
           Spread(t, d, s, lo, pos, hi),
           NEW p \in Hanging(t, d), NEW q \in Hanging(t, d), pos[q] = pos[p] + 1
    PROVE  t.right[p] # NULL \/ t.left[q] # NULL
<1>1. /\ pos[p] \in Nat /\ pos[q] \in Nat /\ s[pos[p] + 1] = p /\ s[pos[q] + 1] = q
      /\ Len(s) \in Nat /\ pos[q] < Len(s)
      /\ t.right[p] = NULL => hi[p] = pos[p] + 1
      /\ t.left[q] = NULL => lo[q] = pos[q]
    BY Spans
<1>2. PICK x \in Hanging(t, d) :
          lo[x] <= pos[p] /\ pos[q] < hi[x] /\ pos[p] <= pos[x] /\ pos[x] <= pos[q]
    BY <1>1, Narrowest
<1>3. pos[x] \in Nat /\ s[pos[x] + 1] = x
    BY Spans
<1>4. x = p \/ x = q
    BY <1>1, <1>2, <1>3
<1> QED
    BY <1>1, <1>2, <1>4

\* From left to right the tree holds the nodes of s.
Orders(t, d, s) == \E lo, pos, hi : Spread(t, d, s, lo, pos, hi)

-----------------------------------------------------------------------------
(* Rotations and balancing leave the order as it is.                       *)

\* A rotation to the right: b is given what hangs at a, and a the right part of it.
LEMMA RotateRightOrders ==
    ASSUME NEW t, Sound(t), NEW a \in Nodes, t.left[a] # NULL, NEW s, Orders(t, NULL, s)
    PROVE  Orders(RotateRight(t, a), NULL, s)
<1> DEFINE b == t.left[a]
           p == t.parent[a]
           br == t.right[b]
           u == RotateRight(t, a)
<1>1. PICK lo, pos, hi : Spread(t, NULL, s, lo, pos, hi)
    BY DEF Orders
<1>2. /\ t \in Trees /\ SoundBut(t, NULL, NULL) /\ ChildrenPoint(t, NULL)
      /\ OthersAlone(t, NULL) /\ RootOnTop(t, NULL)
    BY DEF Sound, SoundBut
<1>3. /\ b \in Nodes /\ a # b /\ p # a /\ p # b /\ br # a /\ br # b
      /\ p \in Pointers /\ br \in Pointers
      /\ u.root = IF a = t.root THEN b ELSE t.root
      /\ \A n \in Nodes :
           /\ u.left[n] = IF n = a THEN br ELSE IF n = p /\ a = t.left[n] THEN b
                          ELSE t.left[n]
           /\ u.right[n] = IF n = b THEN a ELSE IF n = p /\ a = t.right[n] THEN b
                           ELSE t.right[n]
    BY RotateRightFields
<1>4. /\ \A n \in Nodes : InTree(u, n) <=> InTree(t, n)
      /\ Sound(u)
    BY RotateRightSound
<1>5. Hanging(u, NULL) = Hanging(t, NULL)
    BY <1>4 DEF Hanging
<1>6. a \in Hanging(t, NULL) /\ b \in Hanging(t, NULL)
    <2>1. InTree(t, a)
        BY <1>2 DEF OthersAlone, InTree
    <2>2. a \in Hanging(t, NULL)
        BY <2>1, NodesAssumption DEF Hanging
    <2> QED
        BY <1>1, <1>2, <2>2, Spans
<1> DEFINE lo2 == [lo EXCEPT ![a] = pos[b] + 1]
           hi2 == [hi EXCEPT ![b] = hi[a]]
<1>7. /\ s \in Seq(Nodes) /\ lo \in [Nodes -> Nat] /\ pos \in [Nodes -> Nat] /\ hi \in [Nodes -> Nat]
      /\ IF t.root = NULL THEN s = <<>> ELSE lo[t.root] = 0 /\ hi[t.root] = Len(s)
    BY <1>1 DEF Spread
<1>8. /\ lo2 \in [Nodes -> Nat] /\ hi2 \in [Nodes -> Nat]
      /\ lo2[a] = pos[b] + 1 /\ hi2[b] = hi[a]
      /\ \A n \in Nodes : (n # a => lo2[n] = lo[n]) /\ (n # b => hi2[n] = hi[n])
    BY <1>3, <1>7
<1> HIDE DEF u, lo2, hi2
<1>9. /\ lo[b] = lo[a] /\ hi[b] = pos[a] /\ lo[a] <= pos[a] /\ pos[a] < hi[a]
      /\ lo[b] <= pos[b] /\ pos[b] < hi[b] /\ hi[a] <= Len(s)
      /\ lo[a] \in Nat /\ pos[a] \in Nat /\ hi[a] \in Nat /\ pos[b] \in Nat /\ Len(s) \in Nat
      /\ br = NULL => hi[b] = pos[b] + 1
      /\ br # NULL => br \in Nodes /\ lo[br] = pos[b] + 1 /\ hi[br] = hi[b]
    BY <1>1, <1>2, <1>6, Spans
<1>10. ASSUME NEW n \in Hanging(t, NULL)
       PROVE  /\ lo2[n] <= pos[n] /\ pos[n] < hi2[n] /\ hi2[n] <= Len(s)
              /\ s[pos[n] + 1] = n
              /\ IF u.left[n] = NULL THEN lo2[n] = pos[n]
                 ELSE lo2[u.left[n]] = lo2[n] /\ hi2[u.left[n]] = pos[n]
              /\ IF u.right[n] = NULL THEN hi2[n] = pos[n] + 1
                 ELSE lo2[u.right[n]] = pos[n] + 1 /\ hi2[u.right[n]] = hi2[n]
    <2>1. /\ n \in Nodes /\ n # NULL
          /\ lo[n] \in Nat /\ pos[n] \in Nat /\ hi[n] \in Nat
          /\ lo[n] <= pos[n] /\ pos[n] < hi[n] /\ hi[n] <= Len(s)
          /\ s[pos[n] + 1] = n
          /\ t.left[n] = NULL => lo[n] = pos[n]
          /\ t.right[n] = NULL => hi[n] = pos[n] + 1
          /\ t.left[n] # NULL => /\ t.left[n] \in Nodes
                                 /\ lo[t.left[n]] = lo[n] /\ hi[t.left[n]] = pos[n]
          /\ t.right[n] # NULL => /\ t.right[n] \in Nodes
                                  /\ lo[t.right[n]] = pos[n] + 1 /\ hi[t.right[n]] = hi[n]
        BY <1>1, <1>2, Spans
    <2>2. /\ t.left[n] # NULL => t.parent[t.left[n]] = n
          /\ t.right[n] # NULL => t.parent[t.right[n]] = n
          /\ t.left[n] = t.right[n] => t.left[n] = NULL
          /\ t.parent[b] = a
        BY <1>2, <2>1 DEF ChildrenPoint
    <2>3. CASE n = a
        <3>1. u.left[n] = br /\ u.right[n] = t.right[a] /\ t.right[a] # a /\ t.right[a] # b
            BY <1>3, <2>1, <2>2, <2>3, NodesAssumption
        <3>2. IF br = NULL THEN lo2[a] = pos[a] ELSE lo2[br] = lo2[a] /\ hi2[br] = pos[a]
            <4>1. CASE br = NULL
                BY <1>8, <1>9, <4>1
            <4>2. CASE br # NULL
                BY <1>3, <1>8, <1>9, <4>2
            <4> QED
                BY <4>1, <4>2
        <3>3. lo2[a] <= pos[a] /\ hi2[a] = hi[a]
            BY <1>3, <1>8, <1>9
        <3>4. IF t.right[a] = NULL THEN hi2[a] = pos[a] + 1
              ELSE lo2[t.right[a]] = pos[a] + 1 /\ hi2[t.right[a]] = hi2[a]
            BY <1>8, <2>1, <2>3, <3>1, <3>3
        <3> QED
            BY <2>1, <2>3, <3>1, <3>2, <3>3, <3>4
    <2>4. CASE n = b
        <3>1. u.left[n] = t.left[b] /\ u.right[n] = a /\ t.left[b] # a /\ t.left[b] # b
            BY <1>3, <2>1, <2>2, <2>4, NodesAssumption
        <3> QED
            BY <1>3, <1>8, <1>9, <2>1, <2>4, <3>1, NodesAssumption
    <2>5. CASE n # a /\ n # b
        <3>1. t.left[n] # b /\ t.right[n] # b
            BY <1>3, <2>1, <2>2, <2>5, NodesAssumption
        <3>2. /\ u.left[n] = IF t.left[n] = a THEN b ELSE t.left[n]
              /\ u.right[n] = IF t.right[n] = a THEN b ELSE t.right[n]
            BY <1>3, <2>1, <2>2, <2>5, NodesAssumption
        <3>3. lo2[n] = lo[n] /\ hi2[n] = hi[n]
            BY <1>8, <2>1, <2>5
        <3>4. IF u.left[n] = NULL THEN lo2[n] = pos[n]
              ELSE lo2[u.left[n]] = lo2[n] /\ hi2[u.left[n]] = pos[n]
            <4>1. CASE t.left[n] = a
                BY <1>3, <1>8, <1>9, <2>1, <2>5, <3>2, <3>3, <4>1, NodesAssumption
            <4>2. CASE t.left[n] = NULL
                BY <2>1, <3>2, <3>3, <4>2, NodesAssumption
            <4>3. CASE t.left[n] # NULL /\ t.left[n] # a
                BY <1>8, <2>1, <3>1, <3>2, <3>3, <4>3
            <4> QED
                BY <4>1, <4>2, <4>3
        <3>5. IF u.right[n] = NULL THEN hi2[n] = pos[n] + 1
              ELSE lo2[u.right[n]] = pos[n] + 1 /\ hi2[u.right[n]] = hi2[n]
            <4>1. CASE t.right[n] = a
                BY <1>3, <1>8, <1>9, <2>1, <2>5, <3>2, <3>3, <4>1, NodesAssumption
            <4>2. CASE t.right[n] = NULL
                BY <2>1, <3>2, <3>3, <4>2, NodesAssumption
            <4>3. CASE t.right[n] # NULL /\ t.right[n] # a
                BY <1>8, <2>1, <3>1, <3>2, <3>3, <4>3
            <4> QED
                BY <4>1, <4>2, <4>3
        <3> QED
            BY <2>1, <3>3, <3>4, <3>5
    <2> QED
        BY <2>3, <2>4, <2>5
<1>11. IF u.root = NULL THEN s = <<>> ELSE lo2[u.root] = 0 /\ hi2[u.root] = Len(s)
    <2>1. t.root # NULL => t.root \in Nodes /\ (t.root = b => FALSE)
        BY <1>2, <1>3, NodesAssumption DEF RootOnTop, ChildrenPoint, Trees, Pointers
    <2>2. t.root # NULL => lo[t.root] = 0 /\ hi[t.root] = Len(s)
        BY <1>7
    <2>3. CASE t.root = NULL
        BY <1>3, <1>7, <2>3, NodesAssumption
    <2>4. CASE t.root = a
        BY <1>3, <1>8, <1>9, <2>2, <2>4, NodesAssumption
    <2>5. CASE t.root # NULL /\ t.root # a
        BY <1>3, <1>8, <2>1, <2>2, <2>5
    <2> QED
        BY <2>3, <2>4, <2>5
<1>12. Spread(u, NULL, s, lo2, pos, hi2)
    BY <1>5, <1>7, <1>8, <1>10, <1>11 DEF Spread
<1> QED
    BY <1>12 DEF Orders, u

\* The sequence from its end to its beginning: the order a mirrored tree holds.
Backwards(s) == [i \in 1 .. Len(s) |-> s[Len(s) + 1 - i]]

\* What is known of a sequence read backwards.
LEMMA BackwardsSeq ==
    ASSUME NEW S, NEW s \in Seq(S)
    PROVE  /\ Backwards(s) \in Seq(S) /\ Len(Backwards(s)) = Len(s)
           /\ \A i \in 1 .. Len(s) : Backwards(s)[i] = s[Len(s) + 1 - i]
           /\ Backwards(Backwards(s)) = s
<1>1. Len(s) \in Nat
    OBVIOUS
<1>2. \A i \in 1 .. Len(s) : Len(s) + 1 - i \in 1 .. Len(s) /\ s[i] \in S
    BY <1>1
<1>3. Backwards(s) \in [1 .. Len(s) -> S]
    BY <1>1, <1>2 DEF Backwards
<1>4. Backwards(s) \in Seq(S) /\ Len(Backwards(s)) = Len(s)
    BY <1>1, <1>3
<1>5. \A i \in 1 .. Len(s) : Backwards(s)[i] = s[Len(s) + 1 - i]
    BY DEF Backwards
<1>6. \A i \in 1 .. Len(s) : Len(s) + 1 - (Len(s) + 1 - i) = i
    BY <1>1
<1>7. Backwards(Backwards(s)) = [i \in 1 .. Len(s) |-> s[i]]
    BY <1>2, <1>4, <1>5, <1>6 DEF Backwards
<1>8. s = [i \in 1 .. Len(s) |-> s[i]]
    OBVIOUS
<1> QED
    BY <1>4, <1>5, <1>7, <1>8

\* The mirror turns the order round.
LEMMA MirrorOrders ==
    ASSUME NEW t, Sound(t), NEW s, Orders(t, NULL, s)
    PROVE  Orders(Mirror(t), NULL, Backwards(s))
<1> DEFINE m == Mirror(t)
           N == Len(s)
           H == Hanging(t, NULL)
           w == Backwards(s)
<1>1. PICK lo, pos, hi : Spread(t, NULL, s, lo, pos, hi)
    BY DEF Orders
<1>2. SoundBut(t, NULL, NULL) /\ t \in Trees
    BY DEF Sound, SoundBut
<1>3. m.left = t.right /\ m.right = t.left /\ m.parent = t.parent /\ m.root = t.root
    BY <1>2, MirrorFields
<1>4. Hanging(m, NULL) = H
    BY <1>3 DEF Hanging, InTree
<1>5. s \in Seq(Nodes) /\ N \in Nat
    BY <1>1 DEF Spread
<1>6. /\ w \in Seq(Nodes) /\ Len(w) = N
      /\ \A i \in 1 .. N : w[i] = s[N + 1 - i]
    BY <1>5, BackwardsSeq
<1> DEFINE lo2 == [n \in Nodes |-> IF n \in H THEN N - hi[n] ELSE 0]
           pos2 == [n \in Nodes |-> IF n \in H THEN N - 1 - pos[n] ELSE 0]
           hi2 == [n \in Nodes |-> IF n \in H THEN N - lo[n] ELSE 0]
<1>7. ASSUME NEW n \in H
      PROVE  /\ n \in Nodes /\ n # NULL
             /\ lo[n] \in Nat /\ pos[n] \in Nat /\ hi[n] \in Nat
             /\ lo[n] <= pos[n] /\ pos[n] < hi[n] /\ hi[n] <= N
             /\ s[pos[n] + 1] = n
             /\ t.left[n] = NULL => lo[n] = pos[n]
             /\ t.right[n] = NULL => hi[n] = pos[n] + 1
             /\ t.left[n] # NULL => /\ t.left[n] \in H /\ t.left[n] \in Nodes
                                    /\ lo[t.left[n]] = lo[n] /\ hi[t.left[n]] = pos[n]
             /\ t.right[n] # NULL => /\ t.right[n] \in H /\ t.right[n] \in Nodes
                                     /\ lo[t.right[n]] = pos[n] + 1 /\ hi[t.right[n]] = hi[n]
    BY <1>1, <1>2, Spans
<1>8. ASSUME NEW n \in H
      PROVE  /\ n \in Nodes
             /\ lo2[n] = N - hi[n] /\ pos2[n] = N - 1 - pos[n] /\ hi2[n] = N - lo[n]
    BY <1>7
<1>9. /\ lo2 \in [Nodes -> Nat] /\ pos2 \in [Nodes -> Nat] /\ hi2 \in [Nodes -> Nat]
    <2>1. ASSUME NEW n \in H
          PROVE  N - hi[n] \in Nat /\ N - 1 - pos[n] \in Nat /\ N - lo[n] \in Nat
        BY <1>5, <1>7
    <2> HIDE DEF H, N
    <2> QED
        BY <2>1
<1> HIDE DEF m, w, H, N, lo2, pos2, hi2
<1>10. ASSUME NEW n \in H
       PROVE  /\ lo2[n] <= pos2[n] /\ pos2[n] < hi2[n] /\ hi2[n] <= N
              /\ w[pos2[n] + 1] = n
              /\ IF m.left[n] = NULL THEN lo2[n] = pos2[n]
                 ELSE lo2[m.left[n]] = lo2[n] /\ hi2[m.left[n]] = pos2[n]
              /\ IF m.right[n] = NULL THEN hi2[n] = pos2[n] + 1
                 ELSE lo2[m.right[n]] = pos2[n] + 1 /\ hi2[m.right[n]] = hi2[n]
    <2>1. lo2[n] <= pos2[n] /\ pos2[n] < hi2[n] /\ hi2[n] <= N
        BY <1>5, <1>7, <1>8
    <2>2. w[pos2[n] + 1] = n
        <3>1. pos2[n] + 1 \in 1 .. N /\ N + 1 - (pos2[n] + 1) = pos[n] + 1
            BY <1>5, <1>7, <1>8
        <3> QED
            BY <1>6, <1>7, <3>1
    <2>3. IF m.left[n] = NULL THEN lo2[n] = pos2[n]
          ELSE lo2[m.left[n]] = lo2[n] /\ hi2[m.left[n]] = pos2[n]
        <3>1. CASE t.right[n] = NULL
            BY <1>3, <1>5, <1>7, <1>8, <3>1
        <3>2. CASE t.right[n] # NULL
            <4> DEFINE r == t.right[n]
            <4>1. r \in H /\ lo[r] = pos[n] + 1 /\ hi[r] = hi[n] /\ m.left[n] = r
                BY <1>3, <1>7, <3>2
            <4> HIDE DEF r
            <4>2. lo2[r] = N - hi[n] /\ hi2[r] = N - (pos[n] + 1)
                BY <1>8, <4>1
            <4>3. pos[n] \in Nat
                BY <1>7
            <4>4. N - (pos[n] + 1) = N - 1 - pos[n]
                BY <1>5, <4>3
            <4> QED
                BY <1>8, <3>2, <4>1, <4>2, <4>4 DEF r
        <3> QED
            BY <3>1, <3>2
    <2>4. IF m.right[n] = NULL THEN hi2[n] = pos2[n] + 1
          ELSE lo2[m.right[n]] = pos2[n] + 1 /\ hi2[m.right[n]] = hi2[n]
        BY <1>3, <1>5, <1>7, <1>8
    <2> QED
        BY <2>1, <2>2, <2>3, <2>4
<1>11. IF m.root = NULL THEN w = <<>> ELSE lo2[m.root] = 0 /\ hi2[m.root] = N
    <2>1. CASE t.root = NULL
        <3>1. N = 0
            BY <1>1, <2>1 DEF Spread, N
        <3> QED
            BY <1>3, <1>6, <2>1, <3>1, EmptySeq
    <2>2. CASE t.root # NULL
        <3>1. t.root \in H
            BY <1>2, <2>2 DEF Trees, Pointers, H, Hanging, InTree
        <3>2. lo[t.root] = 0 /\ hi[t.root] = N
            BY <1>1, <2>2 DEF Spread, N
        <3> QED
            BY <1>3, <1>5, <1>8, <2>2, <3>1, <3>2
    <2> QED
        BY <2>1, <2>2
<1>12. Spread(m, NULL, w, lo2, pos2, hi2)
    BY <1>4, <1>6, <1>9, <1>10, <1>11 DEF Spread
<1> QED
    BY <1>12 DEF Orders, m, w

\* rotateLeft(), the mirror image of rotateRight(), keeps the order.
LEMMA RotateLeftOrders ==
    ASSUME NEW t, Sound(t), NEW a \in Nodes, t.right[a] # NULL, NEW s, Orders(t, NULL, s)
    PROVE  Orders(RotateLeft(t, a), NULL, s)
<1> DEFINE m == Mirror(t)
           w == RotateRight(m, a)
<1>1. t \in Trees /\ s \in Seq(Nodes)
    BY DEF Sound, SoundBut, Orders, Spread
<1>2. Sound(m) /\ m.left[a] # NULL /\ Orders(m, NULL, Backwards(s))
    BY <1>1, MirrorFields, MirrorSound, MirrorOrders
<1>3. RotateLeft(t, a) = Mirror(w)
    BY <1>1, RotateLeftMirrored
<1> HIDE DEF m
<1>4. Sound(w) /\ Orders(w, NULL, Backwards(s))
    BY <1>2, RotateRightSound, RotateRightOrders
<1> HIDE DEF w
<1>5. Orders(Mirror(w), NULL, Backwards(Backwards(s)))
    BY <1>4, MirrorOrders
<1> QED
    BY <1>1, <1>3, <1>5, BackwardsSeq

\* Only the links count for the order, not the sizes.
LEMMA SameLinksSpread ==
    ASSUME NEW t, NEW u, NEW d, u.root = t.root, u.left = t.left, u.right = t.right,
           \A n \in Nodes \ {d} : InTree(u, n) <=> InTree(t, n),
           NEW s, NEW lo, NEW pos, NEW hi, Spread(t, d, s, lo, pos, hi)
    PROVE  Spread(u, d, s, lo, pos, hi)
<1>1. Hanging(u, d) = Hanging(t, d)
    BY DEF Hanging
<1> QED
    BY <1>1 DEF Spread

\* balanceLower(), one or two rotations, keeps the order.
LEMMA BalanceLowerOrders ==
    ASSUME NEW t, Sound(t), NEW r \in Nodes, NEW s, Orders(t, NULL, s)
    PROVE  Orders(BalanceLower(t, r), NULL, s)
<1>1. t \in Trees
    BY DEF Sound, SoundBut
<1>2. t.left[r] \in Pointers /\ t.right[r] \in Pointers
    BY <1>1, Fields
<1>3. CASE Outweighs(t, t.right[r], t.left[r])
    BY <1>1, <1>2, <1>3, OutweighsExists, RotateLeftOrders DEF BalanceLower
<1>4. CASE ~Outweighs(t, t.right[r], t.left[r]) /\ Outweighs(t, t.left[r], t.right[r])
    BY <1>1, <1>2, <1>4, OutweighsExists, RotateRightOrders DEF BalanceLower
<1>5. CASE ~Outweighs(t, t.right[r], t.left[r]) /\ ~Outweighs(t, t.left[r], t.right[r])
    BY <1>5 DEF BalanceLower
<1> QED
    BY <1>3, <1>4, <1>5

\* One round of balancing() leaves the order as it is.
LEMMA BalanceAtOrders ==
    ASSUME NEW t, Sound(t), NEW a \in Nodes, NEW s, Orders(t, NULL, s)
    PROVE  Orders(BalanceAt(t, a), NULL, s)
<1> DEFINE l == t.left[a]
           r == t.right[a]
           u == BalanceAt(t, a)
<1>1. t \in Trees /\ SoundBut(t, NULL, NULL)
    BY DEF Sound, SoundBut
<1>2. l \in Pointers /\ r \in Pointers
    BY <1>1, Fields
<1>3. CASE Outweighs(t, r, l)
    <2> DEFINE deep == SizeOf(t, t.right[r]) < SizeOf(t, t.left[r])
               w == IF deep THEN BalanceLower(RotateRight(t, r), r) ELSE t
    <2>1. r # NULL /\ r \in Nodes
        BY <1>1, <1>2, <1>3, OutweighsExists DEF Pointers
    <2>2. Sound(w) /\ Orders(w, NULL, s) /\ w.right[a] # NULL
        <3>1. CASE ~deep
            BY <2>1, <3>1
        <3>2. CASE deep
            <4> DEFINE v == RotateRight(t, r)
                       b == t.left[r]
            <4>1. b \in Pointers /\ t.right[r] \in Pointers
                BY <1>1, <2>1, Fields
            <4>2. b # NULL /\ b \in Nodes
                BY <1>1, <3>2, <4>1, SizeOfNat DEF SizeOf, Pointers
            <4>3. /\ t.size[r] < t.size[a] /\ t.size[b] < t.size[r]
                  /\ t.right[r] # NULL => t.size[t.right[r]] < t.size[r]
                  /\ t.right[b] # NULL => t.size[t.right[b]] < t.size[b]
                BY <1>1, <2>1, <4>2, ChildIsSmaller
            <4>4. t.size[a] \in Nat /\ t.size[b] \in Nat /\ t.size[r] \in Nat
                BY <1>1, <2>1, <4>2, Fields
            <4>5. a # r /\ a # b /\ a # t.right[r] /\ a # t.right[b]
                BY <4>3, <4>4, NodesAssumption
            <4>6. /\ Sound(v) /\ Orders(v, NULL, s)
                  /\ v.right[a] = NULL <=> t.right[a] = NULL
                  /\ v.left[r] = t.right[b] /\ v.right[r] = t.right[r]
                BY <2>1, <4>2, <4>5, RotateRightSound, RotateRightOrders
            <4> HIDE DEF v
            <4>7. LET x == BalanceLower(v, r)
                  IN  Sound(x) /\ (x.right[a] = NULL <=> v.right[a] = NULL)
                BY <2>1, <4>5, <4>6, BalanceLowerSound
            <4>8. Orders(BalanceLower(v, r), NULL, s)
                BY <2>1, <4>6, BalanceLowerOrders
            <4>9. w = BalanceLower(v, r)
                BY <3>2 DEF v
            <4> HIDE DEF w
            <4> QED
                BY <2>1, <4>6, <4>7, <4>8, <4>9
        <3> QED
            BY <3>1, <3>2
    <2>3. u = RotateLeft(w, a)
        BY <1>3 DEF BalanceAt
    <2> HIDE DEF w, u
    <2>4. Orders(u, NULL, s)
        BY <2>2, <2>3, RotateLeftOrders
    <2> QED
        BY <2>4 DEF u
<1>4. CASE ~Outweighs(t, r, l) /\ Outweighs(t, l, r)
    <2> DEFINE deep == SizeOf(t, t.left[l]) < SizeOf(t, t.right[l])
               w == IF deep THEN BalanceLower(RotateLeft(t, l), l) ELSE t
    <2>1. l # NULL /\ l \in Nodes
        BY <1>1, <1>2, <1>4, OutweighsExists DEF Pointers
    <2>2. Sound(w) /\ Orders(w, NULL, s) /\ w.left[a] # NULL
        <3>1. CASE ~deep
            BY <2>1, <3>1
        <3>2. CASE deep
            <4> DEFINE v == RotateLeft(t, l)
                       b == t.right[l]
            <4>1. b \in Pointers /\ t.left[l] \in Pointers
                BY <1>1, <2>1, Fields
            <4>2. b # NULL /\ b \in Nodes
                BY <1>1, <3>2, <4>1, SizeOfNat DEF SizeOf, Pointers
            <4>3. /\ t.size[l] < t.size[a] /\ t.size[b] < t.size[l]
                  /\ t.left[l] # NULL => t.size[t.left[l]] < t.size[l]
                  /\ t.left[b] # NULL => t.size[t.left[b]] < t.size[b]
                BY <1>1, <2>1, <4>2, ChildIsSmaller
            <4>4. t.size[a] \in Nat /\ t.size[b] \in Nat /\ t.size[l] \in Nat
                BY <1>1, <2>1, <4>2, Fields
            <4>5. a # l /\ a # b /\ a # t.left[l] /\ a # t.left[b]
                BY <4>3, <4>4, NodesAssumption
            <4>6. /\ Sound(v) /\ Orders(v, NULL, s)
                  /\ v.left[a] = NULL <=> t.left[a] = NULL
                  /\ v.right[l] = t.left[b] /\ v.left[l] = t.left[l]
                BY <2>1, <4>2, <4>5, RotateLeftSound, RotateLeftOrders
            <4> HIDE DEF v
            <4>7. LET x == BalanceLower(v, l)
                  IN  Sound(x) /\ (x.left[a] = NULL <=> v.left[a] = NULL)
                BY <2>1, <4>5, <4>6, BalanceLowerSound
            <4>8. Orders(BalanceLower(v, l), NULL, s)
                BY <2>1, <4>6, BalanceLowerOrders
            <4>9. w = BalanceLower(v, l)
                BY <3>2 DEF v
            <4> HIDE DEF w
            <4> QED
                BY <2>1, <4>6, <4>7, <4>8, <4>9
        <3> QED
            BY <3>1, <3>2
    <2>3. u = RotateRight(w, a)
        BY <1>4 DEF BalanceAt
    <2> HIDE DEF w, u
    <2>4. Orders(u, NULL, s)
        BY <2>2, <2>3, RotateRightOrders
    <2> QED
        BY <2>4 DEF u
<1>5. CASE ~Outweighs(t, r, l) /\ ~Outweighs(t, l, r)
    BY <1>5 DEF BalanceAt
<1> QED
    BY <1>3, <1>4, <1>5

-----------------------------------------------------------------------------
(* Insertion puts one node into the order, removal takes one out.          *)

\* s with n after its first g elements.
Put(s, g, n) ==
    [i \in 1 .. Len(s) + 1 |-> IF i <= g THEN s[i] ELSE IF i = g + 1 THEN n ELSE s[i - 1]]

\* s without its element i.
Drop(s, i) == [j \in 1 .. Len(s) - 1 |-> IF j < i THEN s[j] ELSE s[j + 1]]

\* A sequence with an element put in is longer by one.
LEMMA PutSeq ==
    ASSUME NEW S, NEW s \in Seq(S), NEW g \in 0 .. Len(s), NEW n \in S
    PROVE  Put(s, g, n) \in Seq(S) /\ Len(Put(s, g, n)) = Len(s) + 1
<1>1. Len(s) \in Nat
    OBVIOUS
<1>2. ASSUME NEW i \in 1 .. Len(s) + 1
      PROVE  (IF i <= g THEN s[i] ELSE IF i = g + 1 THEN n ELSE s[i - 1]) \in S
    <2>1. i <= g => i \in 1 .. Len(s)
        BY <1>1
    <2>2. ~(i <= g) /\ i # g + 1 => i - 1 \in 1 .. Len(s)
        BY <1>1
    <2> QED
        BY <2>1, <2>2, ElementOfSeq
<1>3. Put(s, g, n) \in [1 .. Len(s) + 1 -> S]
    BY <1>2 DEF Put
<1>4. Len(s) + 1 \in Nat
    BY <1>1
<1> QED
    BY <1>3, <1>4

\* A sequence with an element dropped is shorter by one.
LEMMA DropSeq ==
    ASSUME NEW S, NEW s \in Seq(S), NEW i \in 1 .. Len(s)
    PROVE  Drop(s, i) \in Seq(S) /\ Len(Drop(s, i)) = Len(s) - 1
<1>1. Len(s) \in Nat /\ Len(s) - 1 \in Nat
    <2>1. Len(s) \in Nat
        OBVIOUS
    <2> QED
        BY <2>1
<1>2. ASSUME NEW j \in 1 .. Len(s) - 1
      PROVE  (IF j < i THEN s[j] ELSE s[j + 1]) \in S
    <2>1. j \in 1 .. Len(s) /\ j + 1 \in 1 .. Len(s)
        BY <1>1
    <2> QED
        BY <2>1, ElementOfSeq
<1>3. Drop(s, i) \in [1 .. Len(s) - 1 -> S]
    BY <1>2 DEF Drop
<1> QED
    BY <1>1, <1>3

\* The empty tree holds nothing.
LEMMA EmptyOrders == Orders(EmptyTree, NULL, <<>>)
<1> DEFINE f == [n \in Nodes |-> 0]
<1>1. Hanging(EmptyTree, NULL) = {} /\ EmptyTree.root = NULL
    BY EmptySound DEF Hanging, EmptyTree
<1>2. f \in [Nodes -> Nat] /\ <<>> \in Seq(Nodes)
    OBVIOUS
<1> HIDE DEF f
<1>3. Spread(EmptyTree, NULL, <<>>, f, f, f)
    BY <1>1, <1>2 DEF Spread
<1> QED
    BY <1>3 DEF Orders

\* The first node becomes the root.
LEMMA RootOrders ==
    ASSUME NEW t, NEW d \in Nodes, SoundBut(t, NULL, d), t.root = NULL, t.parent[d] = NULL,
           NEW s, Orders(t, d, s)
    PROVE  s = <<>> /\ Orders([t EXCEPT !.root = d], NULL, <<d>>)
<1> DEFINE u == [t EXCEPT !.root = d]
           f == [n \in Nodes |-> 0]
           g == [n \in Nodes |-> 1]
<1>1. PICK lo, pos, hi : Spread(t, d, s, lo, pos, hi)
    BY DEF Orders
<1>2. s = <<>>
    BY <1>1 DEF Spread
<1>3. Hanging(t, d) = {}
    <2> SUFFICES ASSUME NEW n \in Hanging(t, d) PROVE FALSE
        OBVIOUS
    <2>1. pos[n] \in Nat /\ hi[n] \in Nat /\ pos[n] < hi[n] /\ hi[n] <= Len(s)
        BY <1>1, Spans
    <2>2. Len(s) = 0
        BY <1>2
    <2> QED
        BY <2>1, <2>2
<1>4. /\ u.root = d /\ u.left = t.left /\ u.right = t.right
      /\ InTree(u, d) /\ \A n \in Nodes \ {d} : InTree(u, n) <=> InTree(t, n)
    BY RootSound DEF SoundBut, Trees
<1>5. t.left[d] = NULL /\ t.right[d] = NULL
    BY NodesAssumption DEF SoundBut, OthersAlone
<1>6. d # NULL
    BY NodesAssumption
<1> HIDE DEF u
<1>7. Hanging(u, NULL) = {d}
    BY <1>3, <1>4, <1>6 DEF Hanging
<1>8. f \in [Nodes -> Nat] /\ g \in [Nodes -> Nat] /\ f[d] = 0 /\ g[d] = 1
      /\ <<d>> \in Seq(Nodes) /\ Len(<<d>>) = 1 /\ <<d>>[1] = d
    OBVIOUS
<1> HIDE DEF f, g
<1>9. Spread(u, NULL, <<d>>, f, f, g)
    BY <1>4, <1>5, <1>6, <1>7, <1>8 DEF Spread
<1> QED
    BY <1>2, <1>9 DEF Orders, u

(* insert() links its node where the loop has found that there is no child: *)
(* right before the parent, or right after it.                              *)
LEMMA AttachOrders ==
    ASSUME NEW t, NEW d \in Nodes, SoundBut(t, t.parent[d], d),
           t.parent[d] \in Nodes, t.parent[d] # d, InTree(t, t.parent[d]),
           NEW before \in BOOLEAN,
           (IF before THEN t.left[t.parent[d]] ELSE t.right[t.parent[d]]) = NULL,
           NEW s, NEW lo, NEW pos, NEW hi, Spread(t, d, s, lo, pos, hi),
           NEW g, g = IF before THEN pos[t.parent[d]] ELSE pos[t.parent[d]] + 1
    PROVE  g \in 0 .. Len(s) /\ Orders(Attach(t, d, before), NULL, Put(s, g, d))
<1> DEFINE p == t.parent[d]
           u == Attach(t, d, before)
           w == Put(s, g, d)
           N == Len(s)
           H == Hanging(t, d)
           lo2 == [n \in Nodes |-> IF n = d THEN g ELSE IF lo[n] > g THEN lo[n] + 1 ELSE lo[n]]
           pos2 == [n \in Nodes |-> IF n = d THEN g ELSE IF pos[n] >= g THEN pos[n] + 1 ELSE pos[n]]
           hi2 == [n \in Nodes |-> IF n = d THEN g + 1 ELSE IF hi[n] >= g THEN hi[n] + 1 ELSE hi[n]]
<1>1. /\ t \in Trees /\ RootOnTop(t, d) /\ OthersAlone(t, d)
      /\ s \in Seq(Nodes) /\ N \in Nat
      /\ lo \in [Nodes -> Nat] /\ pos \in [Nodes -> Nat] /\ hi \in [Nodes -> Nat]
      /\ IF t.root = NULL THEN s = <<>> ELSE lo[t.root] = 0 /\ hi[t.root] = N
    BY DEF SoundBut, Spread
<1>2. /\ u.root = t.root /\ u.parent = t.parent
      /\ u.left = IF before THEN [t.left EXCEPT ![p] = d] ELSE t.left
      /\ u.right = IF before THEN t.right ELSE [t.right EXCEPT ![p] = d]
    BY <1>1 DEF Attach, Trees, Pointers
<1>3. /\ \A n \in Nodes \ {p} : u.left[n] = t.left[n] /\ u.right[n] = t.right[n]
      /\ u.left[p] = IF before THEN d ELSE t.left[p]
      /\ u.right[p] = IF before THEN t.right[p] ELSE d
    BY <1>1, <1>2, Fields
<1>4. t.root # d /\ t.left[d] = NULL /\ t.right[d] = NULL
    BY <1>1, NodesAssumption DEF RootOnTop, OthersAlone
<1>5. Hanging(u, NULL) = H \cup {d} /\ p \in H
    BY <1>2, NodesAssumption DEF Hanging, InTree
<1>6. ASSUME NEW n \in H
      PROVE  /\ n \in Nodes /\ n # NULL /\ n # d
             /\ lo[n] \in Nat /\ pos[n] \in Nat /\ hi[n] \in Nat
             /\ lo[n] <= pos[n] /\ pos[n] < hi[n] /\ hi[n] <= N
             /\ s[pos[n] + 1] = n
             /\ t.left[n] = NULL => lo[n] = pos[n]
             /\ t.right[n] = NULL => hi[n] = pos[n] + 1
             /\ t.left[n] # NULL => /\ t.left[n] \in H
                                    /\ lo[t.left[n]] = lo[n] /\ hi[t.left[n]] = pos[n]
             /\ t.right[n] # NULL => /\ t.right[n] \in H
                                     /\ lo[t.right[n]] = pos[n] + 1 /\ hi[t.right[n]] = hi[n]
    BY Spans DEF Hanging
<1>7. g = IF before THEN pos[p] ELSE pos[p] + 1
    OBVIOUS
<1> HIDE DEF N
<1>71. N \in Nat
    BY <1>1
<1>72. pos[p] \in Nat /\ pos[p] < N
    <2>1. pos[p] \in Nat /\ hi[p] \in Nat /\ pos[p] < hi[p] /\ hi[p] <= N
        BY <1>5, <1>6
    <2> QED
        BY <1>71, <2>1
<1>73. g \in Nat /\ g <= N
    <2>1. g = pos[p] \/ g = pos[p] + 1
        BY <1>7
    <2> QED
        BY <1>71, <1>72, <2>1
<1>8. ASSUME NEW n \in H
      PROVE  /\ lo2[n] = (IF lo[n] > g THEN lo[n] + 1 ELSE lo[n])
             /\ pos2[n] = (IF pos[n] >= g THEN pos[n] + 1 ELSE pos[n])
             /\ hi2[n] = (IF hi[n] >= g THEN hi[n] + 1 ELSE hi[n])
    BY <1>6
<1>9. lo2[d] = g /\ pos2[d] = g /\ hi2[d] = g + 1
    OBVIOUS
<1>10. lo2 \in [Nodes -> Nat] /\ pos2 \in [Nodes -> Nat] /\ hi2 \in [Nodes -> Nat]
    <2>1. ASSUME NEW n \in Nodes
          PROVE  /\ lo[n] \in Nat /\ pos[n] \in Nat /\ hi[n] \in Nat
                 /\ lo[n] + 1 \in Nat /\ pos[n] + 1 \in Nat /\ hi[n] + 1 \in Nat
        BY <1>1
    <2> QED
        BY <1>73, <2>1
<1>11. w \in Seq(Nodes) /\ Len(w) = N + 1 /\ g \in 0 .. N
    <2>1. g \in 0 .. N
        BY <1>71, <1>73
    <2>2. s \in Seq(Nodes) /\ g \in 0 .. Len(s)
        BY <1>1, <2>1 DEF N
    <2>3. Put(s, g, d) \in Seq(Nodes) /\ Len(Put(s, g, d)) = Len(s) + 1
        BY <2>2, PutSeq
    <2> QED
        BY <2>1, <2>3 DEF N
<1>12. \A i \in 1 .. N + 1 : w[i] = IF i <= g THEN s[i] ELSE IF i = g + 1 THEN d ELSE s[i - 1]
    BY DEF Put, N
<1> HIDE DEF H, lo2, pos2, hi2, w, u
<1>13. ASSUME NEW n \in H
       PROVE  lo2[n] <= pos2[n] /\ pos2[n] < hi2[n] /\ hi2[n] <= N + 1
    <2>1. /\ lo[n] \in Nat /\ pos[n] \in Nat /\ hi[n] \in Nat
          /\ lo[n] <= pos[n] /\ pos[n] < hi[n] /\ hi[n] <= N
        BY <1>6
    <2> QED
        BY <1>71, <1>73, <1>8, <2>1
<1>14. ASSUME NEW n \in H
       PROVE  w[pos2[n] + 1] = n
    <2>1. pos[n] \in Nat /\ pos[n] < N /\ s[pos[n] + 1] = n
        BY <1>71, <1>6
    <2>2. CASE pos[n] >= g
        <3>1. pos[n] + 2 \in 1 .. N + 1 /\ ~(pos[n] + 2 <= g) /\ pos[n] + 2 # g + 1
              /\ (pos[n] + 2) - 1 = pos[n] + 1 /\ (pos[n] + 1) + 1 = pos[n] + 2
            BY <1>71, <1>73, <2>1, <2>2
        <3>2. pos2[n] = pos[n] + 1
            BY <1>8, <2>2
        <3> QED
            BY <1>12, <2>1, <3>1, <3>2
    <2>3. CASE ~(pos[n] >= g)
        <3>1. pos[n] + 1 \in 1 .. N + 1 /\ pos[n] + 1 <= g
            BY <1>71, <1>73, <2>1, <2>3
        <3>2. pos2[n] = pos[n]
            BY <1>8, <2>3
        <3> QED
            BY <1>12, <2>1, <3>1, <3>2
    <2> QED
        BY <2>2, <2>3
<1>15. ASSUME NEW n \in H
       PROVE  IF u.left[n] = NULL THEN lo2[n] = pos2[n]
              ELSE lo2[u.left[n]] = lo2[n] /\ hi2[u.left[n]] = pos2[n]
    <2>1. lo[n] \in Nat /\ pos[n] \in Nat /\ hi[n] \in Nat
        BY <1>6
    <2>2. CASE n = p /\ before
        <3>1. u.left[n] = d /\ d # NULL /\ lo[n] = g /\ pos[n] = g
            BY <1>3, <1>6, <1>7, <2>2, NodesAssumption
        <3>2. lo2[n] = g /\ pos2[n] = g + 1
            BY <1>73, <1>8, <3>1
        <3> QED
            BY <1>9, <3>1, <3>2
    <2>3. CASE ~(n = p /\ before)
        <3>1. u.left[n] = t.left[n]
            BY <1>3, <1>6, <2>3
        <3>2. CASE t.left[n] = NULL
            <4>1. lo[n] = pos[n]
                BY <1>6, <3>2
            <4>2. pos[n] # g
                <5> SUFFICES ASSUME pos[n] = g PROVE FALSE
                    OBVIOUS
                <5>1. CASE before
                    BY <1>5, <1>6, <1>7, <2>3, <5>1
                <5>2. CASE ~before
                    <6>1. t.right[p] = NULL /\ pos[n] = pos[p] + 1
                        BY <1>7, <5>2
                    <6> QED
                        BY <1>5, <3>2, <6>1, NeighboursHang DEF H
                <5> QED
                    BY <5>1, <5>2
            <4>3. lo2[n] = pos2[n]
                BY <1>73, <1>8, <2>1, <4>1, <4>2
            <4> QED
                BY <3>1, <3>2, <4>3
        <3>3. CASE t.left[n] # NULL
            <4> DEFINE c == t.left[n]
            <4>1. c \in H /\ lo[c] = lo[n] /\ hi[c] = pos[n]
                BY <1>6, <3>3
            <4> HIDE DEF c
            <4>2. lo2[c] = lo2[n] /\ hi2[c] = pos2[n]
                BY <1>8, <4>1
            <4> QED
                BY <3>1, <3>3, <4>2 DEF c
        <3> QED
            BY <3>2, <3>3
    <2> QED
        BY <2>2, <2>3
<1>16. ASSUME NEW n \in H
       PROVE  IF u.right[n] = NULL THEN hi2[n] = pos2[n] + 1
              ELSE lo2[u.right[n]] = pos2[n] + 1 /\ hi2[u.right[n]] = hi2[n]
    <2>1. lo[n] \in Nat /\ pos[n] \in Nat /\ hi[n] \in Nat
        BY <1>6
    <2>2. CASE n = p /\ ~before
        <3>1. u.right[n] = d /\ d # NULL /\ pos[n] + 1 = g /\ hi[n] = g
            BY <1>3, <1>6, <1>7, <2>2, NodesAssumption
        <3>2. pos2[n] = pos[n] /\ hi2[n] = g + 1
            BY <1>73, <1>8, <2>1, <3>1
        <3> QED
            BY <1>9, <3>1, <3>2
    <2>3. CASE ~(n = p /\ ~before)
        <3>1. u.right[n] = t.right[n]
            BY <1>3, <1>6, <2>3
        <3>2. CASE t.right[n] = NULL
            <4>1. hi[n] = pos[n] + 1
                BY <1>6, <3>2
            <4>2. pos[n] + 1 # g
                <5> SUFFICES ASSUME pos[n] + 1 = g PROVE FALSE
                    OBVIOUS
                <5>1. CASE ~before
                    <6>2. g = pos[p] + 1
                        BY <1>7, <5>1
                    <6>1. pos[n] = pos[p]
                        BY <1>72, <2>1, <6>2
                    <6> QED
                        BY <1>5, <1>6, <2>3, <5>1, <6>1
                <5>2. CASE before
                    <6>1. t.left[p] = NULL /\ pos[p] = pos[n] + 1
                        BY <1>7, <5>2
                    <6> QED
                        BY <1>5, <3>2, <6>1, NeighboursHang DEF H
                <5> QED
                    BY <5>1, <5>2
            <4>3. hi2[n] = pos2[n] + 1
                BY <1>73, <1>8, <2>1, <4>1, <4>2
            <4> QED
                BY <3>1, <3>2, <4>3
        <3>3. CASE t.right[n] # NULL
            <4> DEFINE c == t.right[n]
            <4>1. c \in H /\ lo[c] = pos[n] + 1 /\ hi[c] = hi[n]
                BY <1>6, <3>3
            <4> HIDE DEF c
            <4>2. lo2[c] = pos2[n] + 1 /\ hi2[c] = hi2[n]
                BY <1>73, <1>8, <2>1, <4>1
            <4> QED
                BY <3>1, <3>3, <4>2 DEF c
        <3> QED
            BY <3>2, <3>3
    <2> QED
        BY <2>2, <2>3
<1>17. /\ lo2[d] <= pos2[d] /\ pos2[d] < hi2[d] /\ hi2[d] <= N + 1
       /\ w[pos2[d] + 1] = d /\ u.left[d] = NULL /\ lo2[d] = pos2[d]
       /\ u.right[d] = NULL /\ hi2[d] = pos2[d] + 1
    <2>1. u.left[d] = NULL /\ u.right[d] = NULL
        BY <1>3, <1>4
    <2>2. g <= g /\ g < g + 1 /\ g + 1 <= N + 1 /\ g + 1 \in 1 .. N + 1 /\ ~(g + 1 <= g)
        BY <1>71, <1>73
    <2> QED
        BY <1>9, <1>12, <2>1, <2>2
<1>18. IF u.root = NULL THEN w = <<>> ELSE lo2[u.root] = 0 /\ hi2[u.root] = N + 1
    <2>1. t.root # NULL
        <3>1. N # 0
            BY <1>71, <1>72
        <3>2. s # <<>>
            BY <3>1, EmptySeq DEF N
        <3> QED
            BY <1>1, <3>2
    <2>2. t.root \in H
        BY <1>1, <1>4, <2>1 DEF H, Hanging, InTree, Trees, Pointers
    <2>3. lo[t.root] = 0 /\ hi[t.root] = N
        BY <1>1, <2>1
    <2>4. ~(0 > g) /\ N >= g
        BY <1>71, <1>73
    <2>5. lo2[t.root] = 0 /\ hi2[t.root] = N + 1
        BY <1>8, <2>2, <2>3, <2>4
    <2> QED
        BY <1>2, <2>1, <2>5
<1>19. Spread(u, NULL, w, lo2, pos2, hi2)
    BY <1>5, <1>10, <1>11, <1>13, <1>14, <1>15, <1>16, <1>17, <1>18 DEF Spread
<1> QED
    BY <1>11, <1>19 DEF Orders, u, w, N

\* remove() of a leaf takes it out of the order.
LEMMA ReplaceLeafOrders ==
    ASSUME NEW t, Sound(t), NEW s, Orders(t, NULL, s), NEW i \in 1 .. Len(s),
           NEW x, x = s[i], t.left[x] = NULL, t.right[x] = NULL
    PROVE  Orders(Replace(t, x, NULL), NULL, Drop(s, i))
<1> DEFINE p == t.parent[x]
           u == Replace(t, x, NULL)
           w == Drop(s, i)
           N == Len(s)
           H == Hanging(t, NULL)
           g == i - 1
<1>1. PICK lo, pos, hi : Spread(t, NULL, s, lo, pos, hi)
    BY DEF Orders
<1>2. SoundBut(t, NULL, NULL) /\ t \in Trees
    BY DEF Sound, SoundBut
<1>3. x \in H /\ pos[x] = g
    BY <1>1, <1>2, EveryPlace
<1>4. x \in Nodes /\ InTree(t, x) /\ x # NULL
    BY <1>3, NodesAssumption DEF Hanging
<1>5. ~InTree(u, x) /\ \A n \in Nodes \ {x} : InTree(u, n) <=> InTree(t, n)
    BY <1>4, ReplaceLeafSound
<1>6. /\ u.root = IF t.root = x THEN NULL ELSE t.root
      /\ \A n \in Nodes \ {x} :
           /\ u.left[n] = IF x = t.left[n] THEN NULL ELSE t.left[n]
           /\ u.right[n] = IF x = t.right[n] THEN NULL ELSE t.right[n]
    <2>1. \A n \in Nodes : (t.left[n] = x \/ t.right[n] = x) => n = p
        BY <1>4, Surroundings
    <2> QED
        BY <2>1, NodesAssumption DEF Replace
<1>7. Hanging(u, NULL) = H \ {x}
    BY <1>4, <1>5 DEF Hanging
<1> DEFINE lo2 == [n \in Nodes |-> IF lo[n] > g THEN lo[n] - 1 ELSE lo[n]]
           pos2 == [n \in Nodes |-> IF pos[n] > g THEN pos[n] - 1 ELSE pos[n]]
           hi2 == [n \in Nodes |-> IF hi[n] > g THEN hi[n] - 1 ELSE hi[n]]
<1>8. s \in Seq(Nodes) /\ lo \in [Nodes -> Nat] /\ pos \in [Nodes -> Nat] /\ hi \in [Nodes -> Nat]
    BY <1>1 DEF Spread
<1>9. N \in Nat /\ g \in Nat /\ g < N /\ i = g + 1
    <2>1. N \in Nat /\ i \in 1 .. N
        BY <1>8
    <2> HIDE DEF N
    <2> QED
        BY <2>1
<1>91. g \in Nat
    BY <1>9
<1>10. w \in Seq(Nodes) /\ Len(w) = N - 1
    BY <1>8, DropSeq
<1>11. \A j \in 1 .. N - 1 : w[j] = IF j < i THEN s[j] ELSE s[j + 1]
    BY DEF Drop
<1>12. ASSUME NEW n \in H
       PROVE  /\ n \in Nodes /\ n # NULL
              /\ lo[n] \in Nat /\ pos[n] \in Nat /\ hi[n] \in Nat
              /\ lo[n] <= pos[n] /\ pos[n] < hi[n] /\ hi[n] <= N
              /\ s[pos[n] + 1] = n
              /\ t.left[n] = NULL => lo[n] = pos[n]
              /\ t.right[n] = NULL => hi[n] = pos[n] + 1
              /\ t.left[n] # NULL => /\ t.left[n] \in H
                                     /\ lo[t.left[n]] = lo[n] /\ hi[t.left[n]] = pos[n]
              /\ t.right[n] # NULL => /\ t.right[n] \in H
                                      /\ lo[t.right[n]] = pos[n] + 1 /\ hi[t.right[n]] = hi[n]
    BY <1>1, <1>2, Spans
<1>13. lo[x] = g /\ hi[x] = g + 1
    BY <1>3, <1>12
<1>14. lo2 \in [Nodes -> Nat] /\ pos2 \in [Nodes -> Nat] /\ hi2 \in [Nodes -> Nat]
    <2>1. ASSUME NEW n \in Nodes
          PROVE  /\ lo[n] \in Nat /\ pos[n] \in Nat /\ hi[n] \in Nat
                 /\ lo[n] > g => lo[n] - 1 \in Nat
                 /\ pos[n] > g => pos[n] - 1 \in Nat
                 /\ hi[n] > g => hi[n] - 1 \in Nat
        <3>1. lo[n] \in Nat /\ pos[n] \in Nat /\ hi[n] \in Nat
            BY <1>8
        <3> HIDE DEF g
        <3> QED
            BY <1>9, <3>1
    <2> HIDE DEF g
    <2> QED
        BY <2>1
<1>15. ASSUME NEW n \in H
       PROVE  /\ lo2[n] = (IF lo[n] > g THEN lo[n] - 1 ELSE lo[n])
              /\ pos2[n] = (IF pos[n] > g THEN pos[n] - 1 ELSE pos[n])
              /\ hi2[n] = (IF hi[n] > g THEN hi[n] - 1 ELSE hi[n])
    <2> HIDE DEF g, H
    <2> QED
        BY <1>12
<1> HIDE DEF H, N, g, lo2, pos2, hi2, w, u, p
<1>16. ASSUME NEW n \in H \ {x}
       PROVE  pos[n] # g
    <2>1. s[pos[n] + 1] = n /\ s[pos[x] + 1] = x
        BY <1>3, <1>12
    <2> QED
        BY <1>3, <2>1
<1>17. ASSUME NEW n \in H \ {x}
       PROVE  lo2[n] <= pos2[n] /\ pos2[n] < hi2[n] /\ hi2[n] <= N - 1
    <2>1. /\ lo[n] \in Nat /\ pos[n] \in Nat /\ hi[n] \in Nat
          /\ lo[n] <= pos[n] /\ pos[n] < hi[n] /\ hi[n] <= N /\ pos[n] # g
        BY <1>12, <1>16
    <2> QED
        BY <1>9, <1>15, <2>1
<1>18. ASSUME NEW n \in H \ {x}
       PROVE  w[pos2[n] + 1] = n
    <2>1. pos[n] \in Nat /\ pos[n] < N /\ s[pos[n] + 1] = n /\ pos[n] # g
        BY <1>9, <1>12, <1>16
    <2>2. CASE pos[n] > g
        <3>1. pos[n] \in 1 .. N - 1 /\ ~(pos[n] < i) /\ (pos[n] - 1) + 1 = pos[n]
            BY <1>9, <2>1, <2>2
        <3>2. pos2[n] = pos[n] - 1
            BY <1>15, <2>2
        <3> QED
            BY <1>11, <2>1, <3>1, <3>2
    <2>3. CASE ~(pos[n] > g)
        <3>1. pos[n] + 1 \in 1 .. N - 1 /\ pos[n] + 1 < i
            BY <1>9, <2>1, <2>3
        <3>2. pos2[n] = pos[n]
            BY <1>15, <2>3
        <3> QED
            BY <1>11, <2>1, <3>1, <3>2
    <2> QED
        BY <2>2, <2>3
<1>19. ASSUME NEW n \in H \ {x}
       PROVE  IF u.left[n] = NULL THEN lo2[n] = pos2[n]
              ELSE lo2[u.left[n]] = lo2[n] /\ hi2[u.left[n]] = pos2[n]
    <2>1. lo[n] \in Nat /\ pos[n] \in Nat /\ hi[n] \in Nat /\ n \in Nodes
        BY <1>12
    <2>2. u.left[n] = IF x = t.left[n] THEN NULL ELSE t.left[n]
        BY <1>6, <2>1
    <2>3. CASE t.left[n] = x
        <3>1. u.left[n] = NULL /\ lo[n] = g /\ pos[n] = g + 1
            BY <1>4, <1>12, <1>13, <2>2, <2>3
        <3>2. lo2[n] = g /\ pos2[n] = g
            BY <1>9, <1>15, <3>1
        <3> QED
            BY <3>1, <3>2
    <2>4. CASE t.left[n] = NULL
        <3>1. u.left[n] = NULL /\ lo[n] = pos[n]
            BY <1>4, <1>12, <2>2, <2>4
        <3> QED
            BY <1>15, <3>1
    <2>5. CASE t.left[n] # NULL /\ t.left[n] # x
        <3> DEFINE c == t.left[n]
        <3>1. u.left[n] = c /\ c \in H /\ lo[c] = lo[n] /\ hi[c] = pos[n]
            BY <1>12, <2>2, <2>5
        <3> HIDE DEF c
        <3>2. lo2[c] = lo2[n] /\ hi2[c] = pos2[n]
            BY <1>15, <3>1
        <3> QED
            BY <2>5, <3>1, <3>2 DEF c
    <2> QED
        BY <2>3, <2>4, <2>5
<1>20. ASSUME NEW n \in H \ {x}
       PROVE  IF u.right[n] = NULL THEN hi2[n] = pos2[n] + 1
              ELSE lo2[u.right[n]] = pos2[n] + 1 /\ hi2[u.right[n]] = hi2[n]
    <2>1. lo[n] \in Nat /\ pos[n] \in Nat /\ hi[n] \in Nat /\ n \in Nodes /\ pos[n] # g
        BY <1>12, <1>16
    <2>2. u.right[n] = IF x = t.right[n] THEN NULL ELSE t.right[n]
        BY <1>6, <2>1
    <2>3. CASE t.right[n] = x
        <3>1. u.right[n] = NULL /\ pos[n] + 1 = g /\ hi[n] = g + 1
            BY <1>4, <1>12, <1>13, <2>2, <2>3
        <3>2. hi2[n] = g /\ pos2[n] = pos[n]
            BY <1>9, <1>15, <2>1, <3>1
        <3> QED
            BY <3>1, <3>2
    <2>4. CASE t.right[n] = NULL
        <3>1. u.right[n] = NULL /\ hi[n] = pos[n] + 1
            BY <1>4, <1>12, <2>2, <2>4
        <3>2. /\ (IF pos[n] + 1 > g THEN (pos[n] + 1) - 1 ELSE pos[n] + 1)
                 = (IF pos[n] > g THEN pos[n] - 1 ELSE pos[n]) + 1
            BY <1>91, <2>1
        <3>3. hi2[n] = pos2[n] + 1
            BY <1>15, <3>1, <3>2
        <3> QED
            BY <3>1, <3>3
    <2>5. CASE t.right[n] # NULL /\ t.right[n] # x
        <3> DEFINE c == t.right[n]
        <3>1. u.right[n] = c /\ c \in H /\ lo[c] = pos[n] + 1 /\ hi[c] = hi[n]
            BY <1>12, <2>2, <2>5
        <3> HIDE DEF c
        <3>2. /\ (IF pos[n] + 1 > g THEN (pos[n] + 1) - 1 ELSE pos[n] + 1)
                 = (IF pos[n] > g THEN pos[n] - 1 ELSE pos[n]) + 1
            BY <1>91, <2>1
        <3>3. lo2[c] = pos2[n] + 1 /\ hi2[c] = hi2[n]
            BY <1>15, <3>1, <3>2
        <3> QED
            BY <2>5, <3>1, <3>3 DEF c
    <2> QED
        BY <2>3, <2>4, <2>5
<1>21. IF u.root = NULL THEN w = <<>> ELSE lo2[u.root] = 0 /\ hi2[u.root] = N - 1
    <2>1. t.root # NULL /\ lo[t.root] = 0 /\ hi[t.root] = N
        <3>1. s # <<>>
            BY <1>9, EmptySeq DEF N
        <3> QED
            BY <1>1, <3>1 DEF Spread, N
    <2>2. CASE t.root = x
        <3>1. g = 0 /\ N = 1
            BY <1>9, <1>13, <2>1, <2>2
        <3>2. Len(w) = 0
            BY <1>10, <3>1
        <3> QED
            BY <1>6, <1>10, <2>2, <3>2, EmptySeq
    <2>3. CASE t.root # x
        <3>1. t.root \in H
            BY <1>2, <2>1 DEF Trees, Pointers, H, Hanging, InTree
        <3>2. ~(0 > g) /\ N > g
            BY <1>9
        <3>3. lo2[t.root] = 0 /\ hi2[t.root] = N - 1
            BY <1>15, <2>1, <3>1, <3>2
        <3> QED
            BY <1>6, <2>3, <2>1, <3>3
    <2> QED
        BY <2>2, <2>3
<1>22. Spread(u, NULL, w, lo2, pos2, hi2)
    BY <1>7, <1>10, <1>14, <1>17, <1>18, <1>19, <1>20, <1>21 DEF Spread
<1> QED
    BY <1>22 DEF Orders, u, w

\* The replacement takes the place of the removed node in the order.
LEMMA ReplaceOrders ==
    ASSUME NEW t, Sound(t), NEW s, Orders(t, NULL, s), NEW i \in 1 .. Len(s),
           NEW x, x = s[i], NEW y \in Nodes, ~InTree(t, y)
    PROVE  Orders(Replace(t, x, y), NULL, [s EXCEPT ![i] = y])
<1> DEFINE p == t.parent[x]
           u == Replace(t, x, y)
           w == [s EXCEPT ![i] = y]
           N == Len(s)
           H == Hanging(t, NULL)
<1>1. PICK lo, pos, hi : Spread(t, NULL, s, lo, pos, hi)
    BY DEF Orders
<1>2. SoundBut(t, NULL, NULL) /\ t \in Trees /\ ChildrenPoint(t, NULL)
    BY DEF Sound, SoundBut
<1>3. x \in H /\ pos[x] = i - 1
    BY <1>1, <1>2, EveryPlace
<1>4. x \in Nodes /\ InTree(t, x) /\ x # NULL /\ y # NULL /\ x # y /\ y \notin H
    BY <1>3, NodesAssumption DEF Hanging
<1>5. /\ ~InTree(u, x) /\ InTree(u, y)
      /\ \A n \in Nodes \ {x, y} : InTree(u, n) <=> InTree(t, n)
    BY <1>4, ReplaceSound
<1>6. /\ u.root = IF t.root = x THEN y ELSE t.root
      /\ u.left[y] = t.left[x] /\ u.right[y] = t.right[x]
      /\ \A n \in Nodes \ {x, y} :
           /\ u.left[n] = IF x = t.left[n] THEN y ELSE t.left[n]
           /\ u.right[n] = IF x = t.right[n] THEN y ELSE t.right[n]
    <2>1. \A n \in Nodes : (t.left[n] = x \/ t.right[n] = x) => n = p
        BY <1>4, Surroundings
    <2> QED
        BY <1>4, <2>1 DEF Replace
<1>7. Hanging(u, NULL) = (H \ {x}) \cup {y}
    BY <1>4, <1>5 DEF Hanging
<1> DEFINE lo2 == [lo EXCEPT ![y] = lo[x]]
           pos2 == [pos EXCEPT ![y] = pos[x]]
           hi2 == [hi EXCEPT ![y] = hi[x]]
<1>8. s \in Seq(Nodes) /\ lo \in [Nodes -> Nat] /\ pos \in [Nodes -> Nat] /\ hi \in [Nodes -> Nat]
    BY <1>1 DEF Spread
<1>9. /\ lo2 \in [Nodes -> Nat] /\ pos2 \in [Nodes -> Nat] /\ hi2 \in [Nodes -> Nat]
      /\ lo2[y] = lo[x] /\ pos2[y] = pos[x] /\ hi2[y] = hi[x]
      /\ \A n \in H : lo2[n] = lo[n] /\ pos2[n] = pos[n] /\ hi2[n] = hi[n]
    BY <1>4, <1>8 DEF Hanging
<1>10. /\ w \in Seq(Nodes) /\ Len(w) = N /\ w[i] = y
       /\ \A j \in 1 .. N : j # i => w[j] = s[j]
    BY <1>8
<1>11. ASSUME NEW n \in H
       PROVE  /\ n \in Nodes /\ n # NULL
              /\ lo[n] \in Nat /\ pos[n] \in Nat /\ hi[n] \in Nat
              /\ lo[n] <= pos[n] /\ pos[n] < hi[n] /\ hi[n] <= N
              /\ s[pos[n] + 1] = n
              /\ t.left[n] = NULL => lo[n] = pos[n]
              /\ t.right[n] = NULL => hi[n] = pos[n] + 1
              /\ t.left[n] # NULL => /\ t.left[n] \in H
                                     /\ lo[t.left[n]] = lo[n] /\ hi[t.left[n]] = pos[n]
              /\ t.right[n] # NULL => /\ t.right[n] \in H
                                      /\ lo[t.right[n]] = pos[n] + 1 /\ hi[t.right[n]] = hi[n]
    BY <1>1, <1>2, Spans
<1>12. N \in Nat /\ i \in 1 .. N /\ (i - 1) + 1 = i
    BY <1>8
<1> HIDE DEF H, N, lo2, pos2, hi2, w, u, p
<1>13. ASSUME NEW n \in H \ {x}
       PROVE  w[pos[n] + 1] = n
    <2>1. pos[n] \in Nat /\ hi[n] \in Nat /\ pos[n] < hi[n] /\ hi[n] <= N
        BY <1>11
    <2>2. pos[n] + 1 \in 1 .. N
        BY <1>12, <2>1
    <2>3. s[pos[n] + 1] = n
        BY <1>11
    <2>4. pos[n] + 1 # i
        BY <2>3
    <2> QED
        BY <1>10, <2>2, <2>3, <2>4
<1>14. ASSUME NEW n \in H \ {x}
       PROVE  /\ IF u.left[n] = NULL THEN lo2[n] = pos2[n]
                 ELSE lo2[u.left[n]] = lo2[n] /\ hi2[u.left[n]] = pos2[n]
              /\ IF u.right[n] = NULL THEN hi2[n] = pos2[n] + 1
                 ELSE lo2[u.right[n]] = pos2[n] + 1 /\ hi2[u.right[n]] = hi2[n]
    <2>1. n \in Nodes /\ n # y
        BY <1>4, <1>11
    <2>2. /\ u.left[n] = IF x = t.left[n] THEN y ELSE t.left[n]
          /\ u.right[n] = IF x = t.right[n] THEN y ELSE t.right[n]
        BY <1>6, <2>1
    <2>3. /\ t.left[n] = NULL => lo[n] = pos[n]
          /\ t.right[n] = NULL => hi[n] = pos[n] + 1
          /\ t.left[n] # NULL => /\ t.left[n] \in H
                                 /\ lo[t.left[n]] = lo[n] /\ hi[t.left[n]] = pos[n]
          /\ t.right[n] # NULL => /\ t.right[n] \in H
                                  /\ lo[t.right[n]] = pos[n] + 1 /\ hi[t.right[n]] = hi[n]
        BY <1>11
    <2>4. lo2[n] = lo[n] /\ pos2[n] = pos[n] /\ hi2[n] = hi[n]
        BY <1>9
    <2>5. IF u.left[n] = NULL THEN lo2[n] = pos2[n]
          ELSE lo2[u.left[n]] = lo2[n] /\ hi2[u.left[n]] = pos2[n]
        BY <1>4, <1>9, <2>2, <2>3, <2>4
    <2>6. IF u.right[n] = NULL THEN hi2[n] = pos2[n] + 1
          ELSE lo2[u.right[n]] = pos2[n] + 1 /\ hi2[u.right[n]] = hi2[n]
        BY <1>4, <1>9, <2>2, <2>3, <2>4
    <2> QED
        BY <2>5, <2>6
<1>15. /\ lo2[y] <= pos2[y] /\ pos2[y] < hi2[y] /\ hi2[y] <= N /\ w[pos2[y] + 1] = y
       /\ IF u.left[y] = NULL THEN lo2[y] = pos2[y]
          ELSE lo2[u.left[y]] = lo2[y] /\ hi2[u.left[y]] = pos2[y]
       /\ IF u.right[y] = NULL THEN hi2[y] = pos2[y] + 1
          ELSE lo2[u.right[y]] = pos2[y] + 1 /\ hi2[u.right[y]] = hi2[y]
    <2>1. w[pos2[y] + 1] = y
        BY <1>3, <1>9, <1>10, <1>12
    <2>2. /\ lo[x] <= pos[x] /\ pos[x] < hi[x] /\ hi[x] <= N
          /\ t.left[x] = NULL => lo[x] = pos[x]
          /\ t.right[x] = NULL => hi[x] = pos[x] + 1
          /\ t.left[x] # NULL => /\ t.left[x] \in H
                                 /\ lo[t.left[x]] = lo[x] /\ hi[t.left[x]] = pos[x]
          /\ t.right[x] # NULL => /\ t.right[x] \in H
                                  /\ lo[t.right[x]] = pos[x] + 1 /\ hi[t.right[x]] = hi[x]
        BY <1>3, <1>11
    <2>3. /\ u.left[y] = t.left[x] /\ u.right[y] = t.right[x]
          /\ lo2[y] = lo[x] /\ pos2[y] = pos[x] /\ hi2[y] = hi[x]
          /\ \A n \in H : lo2[n] = lo[n] /\ hi2[n] = hi[n]
        BY <1>6, <1>9
    <2>4. IF u.left[y] = NULL THEN lo2[y] = pos2[y]
          ELSE lo2[u.left[y]] = lo2[y] /\ hi2[u.left[y]] = pos2[y]
        BY <2>2, <2>3
    <2>5. IF u.right[y] = NULL THEN hi2[y] = pos2[y] + 1
          ELSE lo2[u.right[y]] = pos2[y] + 1 /\ hi2[u.right[y]] = hi2[y]
        BY <2>2, <2>3
    <2> QED
        BY <2>1, <2>2, <2>3, <2>4, <2>5
<1>16. IF u.root = NULL THEN w = <<>> ELSE lo2[u.root] = 0 /\ hi2[u.root] = N
    <2>1. t.root # NULL /\ lo[t.root] = 0 /\ hi[t.root] = N
        <3>1. s # <<>>
            BY <1>12, EmptySeq DEF N
        <3> QED
            BY <1>1, <3>1 DEF Spread, N
    <2>2. t.root \in H
        BY <1>2, <2>1 DEF Trees, Pointers, H, Hanging, InTree
    <2> QED
        BY <1>4, <1>6, <1>9, <2>1, <2>2
<1>17. ASSUME NEW n \in H \ {x}
       PROVE  /\ lo2[n] <= pos2[n] /\ pos2[n] < hi2[n] /\ hi2[n] <= N
              /\ w[pos2[n] + 1] = n
    BY <1>9, <1>11, <1>13
<1>18. Spread(u, NULL, w, lo2, pos2, hi2)
    BY <1>7, <1>9, <1>10, <1>14, <1>15, <1>16, <1>17 DEF Spread
<1> QED
    BY <1>18 DEF Orders, u, w

\* A node that hangs nowhere makes no difference.
LEMMA LooseOrders ==
    ASSUME NEW t, NEW d \in Nodes, ~InTree(t, d), NEW s
    PROVE  Orders(t, d, s) <=> Orders(t, NULL, s)
<1>1. Hanging(t, d) = Hanging(t, NULL)
    BY NodesAssumption DEF Hanging
<1> QED
    BY <1>1 DEF Orders, Spread

\* What is above a node.
LEMMA Above ==
    ASSUME NEW t, Sound(t), NEW s, NEW lo, NEW pos, NEW hi, Spread(t, NULL, s, lo, pos, hi),
           NEW n \in Hanging(t, NULL)
    PROVE  /\ t.parent[n] \in Pointers
           /\ t.parent[n] = NULL => n = t.root /\ lo[n] = 0 /\ hi[n] = Len(s)
           /\ t.parent[n] # NULL =>
                LET p == t.parent[n]
                IN  /\ p \in Hanging(t, NULL) /\ p \in Nodes
                    /\ \/ t.left[p] = n /\ t.right[p] # n /\ lo[n] = lo[p] /\ hi[n] = pos[p]
                       \/ t.right[p] = n /\ t.left[p] # n /\ lo[n] = pos[p] + 1 /\ hi[n] = hi[p]
<1> DEFINE p == t.parent[n]
<1>1. n \in Nodes /\ InTree(t, n) /\ n # NULL
    BY NodesAssumption DEF Hanging
<1>2. t \in Trees /\ ParentsKnow(t, NULL) /\ ChildrenPoint(t, NULL) /\ SoundBut(t, NULL, NULL)
    BY DEF Sound, SoundBut
<1>3. p \in Pointers
    BY <1>1, <1>2, Fields
<1>4. CASE p = NULL
    <2>1. n = t.root
        BY <1>1, <1>4 DEF InTree
    <2>2. lo[t.root] = 0 /\ hi[t.root] = Len(s)
        BY <1>1, <2>1 DEF Spread
    <2> QED
        BY <1>3, <1>4, <2>1, <2>2
<1>5. CASE p # NULL
    <2>1. p \in Nodes
        BY <1>3, <1>5 DEF Pointers
    <2>2. InTree(t, p)
        BY <1>1, <2>1, ParentInTree
    <2>3. p \in Hanging(t, NULL)
        BY <1>5, <2>1, <2>2 DEF Hanging
    <2>4. n = t.left[p] \/ n = t.right[p]
        BY <1>1, <1>2, <1>5 DEF ParentsKnow
    <2>5. t.left[p] = t.right[p] => t.left[p] = NULL
        BY <1>2, <2>1 DEF ChildrenPoint
    <2>6. /\ t.left[p] # NULL => lo[t.left[p]] = lo[p] /\ hi[t.left[p]] = pos[p]
          /\ t.right[p] # NULL => lo[t.right[p]] = pos[p] + 1 /\ hi[t.right[p]] = hi[p]
        BY <2>3 DEF Spread
    <2> QED
        BY <1>1, <1>3, <1>5, <2>1, <2>3, <2>4, <2>5, <2>6
<1> QED
    BY <1>4, <1>5

\* A node that does not hang in the tree is alone.
LEMMA Outside ==
    ASSUME NEW t, Sound(t), NEW n \in Nodes, n \notin Hanging(t, NULL)
    PROVE  /\ t.parent[n] = NULL /\ t.left[n] = NULL /\ t.right[n] = NULL /\ t.size[n] = 1
           /\ t.root # n
<1>1. ~InTree(t, n)
    BY NodesAssumption DEF Hanging
<1> QED
    BY <1>1, LooseNode

\* What hangs in the tree between lo and hi is what a node counts.
LEMMA SizesSpan ==
    ASSUME NEW t, Sound(t), NEW s, NEW lo, NEW pos, NEW hi, Spread(t, NULL, s, lo, pos, hi)
    PROVE  \A n \in Hanging(t, NULL) : t.size[n] = hi[n] - lo[n]
<1> DEFINE H == Hanging(t, NULL)
           Bad == {n \in H : t.size[n] # hi[n] - lo[n]}
<1>1. SoundBut(t, NULL, NULL) /\ t \in Trees /\ SizesAdd(t, NULL)
    BY DEF Sound, SoundBut
<1>2. t.size \in [Nodes -> Nat] /\ Bad \in SUBSET Nodes
    BY <1>1 DEF Trees, Hanging
<1>3. ASSUME NEW n \in Bad PROVE \E m \in Bad : t.size[m] < t.size[n]
    <2> SUFFICES ASSUME \A m \in Bad : ~(t.size[m] < t.size[n]) PROVE FALSE
        OBVIOUS
    <2>1. /\ n \in H /\ n \in Nodes /\ n # NULL
          /\ lo[n] \in Nat /\ pos[n] \in Nat /\ hi[n] \in Nat
          /\ t.left[n] \in Pointers /\ t.right[n] \in Pointers
          /\ t.left[n] = NULL => lo[n] = pos[n]
          /\ t.right[n] = NULL => hi[n] = pos[n] + 1
          /\ t.left[n] # NULL => t.left[n] \in H /\ lo[t.left[n]] = lo[n] /\ hi[t.left[n]] = pos[n]
          /\ t.right[n] # NULL => t.right[n] \in H /\ lo[t.right[n]] = pos[n] + 1
                                  /\ hi[t.right[n]] = hi[n]
        BY <1>1, Spans
    <2>2. /\ t.left[n] # NULL => t.size[t.left[n]] < t.size[n]
          /\ t.right[n] # NULL => t.size[t.right[n]] < t.size[n]
        BY <1>1, <2>1, ChildIsSmaller
    <2>3. SizeOf(t, t.left[n]) = pos[n] - lo[n]
        BY <2>1, <2>2 DEF SizeOf
    <2>4. SizeOf(t, t.right[n]) = hi[n] - (pos[n] + 1)
        BY <2>1, <2>2 DEF SizeOf
    <2>5. t.size[n] = SizeOf(t, t.left[n]) + SizeOf(t, t.right[n]) + 1
        BY <1>1, <2>1, SizesAddPlain
    <2>6. t.size[n] = hi[n] - lo[n]
        BY <2>1, <2>3, <2>4, <2>5
    <2> QED
        BY <2>6
<1> HIDE DEF Bad
<1>4. Bad = {}
    BY <1>2, <1>3, Descent
<1> QED
    BY <1>4 DEF Bad

\* first() of what hangs at n.
LEMMA FirstIs ==
    ASSUME NEW t, Sound(t), NEW s, NEW lo, NEW pos, NEW hi, Spread(t, NULL, s, lo, pos, hi),
           NEW n \in Hanging(t, NULL)
    PROVE  First(t, n) = s[lo[n] + 1]
<1> DEFINE H == Hanging(t, NULL)
           f == [m \in Nodes |-> IF m \in H THEN s[lo[m] + 1] ELSE m]
           Is(g) == g = [m \in Nodes |-> IF t.left[m] = NULL THEN m ELSE g[t.left[m]]]
<1>1. SoundBut(t, NULL, NULL) /\ t \in Trees /\ t.size \in [Nodes -> Nat]
    BY DEF Sound, SoundBut, Trees
<1>2. Is(f)
    <2>1. ASSUME NEW m \in Nodes PROVE f[m] = IF t.left[m] = NULL THEN m ELSE f[t.left[m]]
        <3>1. CASE m \in H
            <4>1. /\ s[pos[m] + 1] = m
                  /\ t.left[m] = NULL => lo[m] = pos[m]
                  /\ t.left[m] # NULL => t.left[m] \in H /\ t.left[m] \in Nodes
                                         /\ lo[t.left[m]] = lo[m]
                BY <1>1, <3>1, Spans
            <4> QED
                BY <3>1, <4>1
        <3>2. CASE m \notin H
            <4>1. t.left[m] = NULL
                BY <3>2, Outside
            <4> QED
                BY <3>2, <4>1
        <3> QED
            BY <3>1, <3>2
    <2>2. f = [m \in Nodes |-> f[m]]
        OBVIOUS
    <2> HIDE DEF f
    <2> QED
        BY <2>1, <2>2
<1>3. ASSUME NEW g, Is(g) PROVE g = f
    <2> HIDE DEF H, f
    <2> DEFINE Bad == {m \in Nodes : g[m] # f[m]}
    <2>1. ASSUME NEW m \in Bad PROVE \E y \in Bad : t.size[y] < t.size[m]
        <3>1. t.left[m] # NULL => t.left[m] \in Nodes /\ t.size[t.left[m]] < t.size[m]
            BY <1>1, ChildIsSmaller
        <3>2. g[m] = IF t.left[m] = NULL THEN m ELSE g[t.left[m]]
            BY <1>3
        <3>3. f[m] = IF t.left[m] = NULL THEN m ELSE f[t.left[m]]
            BY <1>2
        <3> QED
            BY <3>1, <3>2, <3>3
    <2>2. Bad \in SUBSET Nodes
        OBVIOUS
    <2> HIDE DEF Bad
    <2>4. Bad = {}
        BY <1>1, <2>1, <2>2, Descent
    <2>3. g = [m \in Nodes |-> g[m]] /\ f = [m \in Nodes |-> f[m]]
        BY <1>2, <1>3
    <2> QED
        BY <2>3, <2>4 DEF Bad
<1> HIDE DEF f
<1>4. First(t, n) = f[n]
    BY <1>2, <1>3 DEF First
<1>5. n \in H /\ n \in Nodes
    BY DEF Hanging
<1> QED
    BY <1>4, <1>5 DEF f

\* last() of what hangs at n.
LEMMA LastIs ==
    ASSUME NEW t, Sound(t), NEW s, NEW lo, NEW pos, NEW hi, Spread(t, NULL, s, lo, pos, hi),
           NEW n \in Hanging(t, NULL)
    PROVE  Last(t, n) = s[hi[n]]
<1> DEFINE H == Hanging(t, NULL)
           f == [m \in Nodes |-> IF m \in H THEN s[hi[m]] ELSE m]
           Is(g) == g = [m \in Nodes |-> IF t.right[m] = NULL THEN m ELSE g[t.right[m]]]
<1>1. SoundBut(t, NULL, NULL) /\ t \in Trees /\ t.size \in [Nodes -> Nat]
    BY DEF Sound, SoundBut, Trees
<1>2. Is(f)
    <2>1. ASSUME NEW m \in Nodes PROVE f[m] = IF t.right[m] = NULL THEN m ELSE f[t.right[m]]
        <3>1. CASE m \in H
            <4>1. /\ s[pos[m] + 1] = m
                  /\ t.right[m] = NULL => hi[m] = pos[m] + 1
                  /\ t.right[m] # NULL => t.right[m] \in H /\ t.right[m] \in Nodes
                                         /\ hi[t.right[m]] = hi[m]
                BY <1>1, <3>1, Spans
            <4> QED
                BY <3>1, <4>1
        <3>2. CASE m \notin H
            <4>1. t.right[m] = NULL
                BY <3>2, Outside
            <4> QED
                BY <3>2, <4>1
        <3> QED
            BY <3>1, <3>2
    <2>2. f = [m \in Nodes |-> f[m]]
        OBVIOUS
    <2> HIDE DEF f
    <2> QED
        BY <2>1, <2>2
<1>3. ASSUME NEW g, Is(g) PROVE g = f
    <2> HIDE DEF H, f
    <2> DEFINE Bad == {m \in Nodes : g[m] # f[m]}
    <2>1. ASSUME NEW m \in Bad PROVE \E y \in Bad : t.size[y] < t.size[m]
        <3>1. t.right[m] # NULL => t.right[m] \in Nodes /\ t.size[t.right[m]] < t.size[m]
            BY <1>1, ChildIsSmaller
        <3>2. g[m] = IF t.right[m] = NULL THEN m ELSE g[t.right[m]]
            BY <1>3
        <3>3. f[m] = IF t.right[m] = NULL THEN m ELSE f[t.right[m]]
            BY <1>2
        <3> QED
            BY <3>1, <3>2, <3>3
    <2>2. Bad \in SUBSET Nodes
        OBVIOUS
    <2> HIDE DEF Bad
    <2>4. Bad = {}
        BY <1>1, <2>1, <2>2, Descent
    <2>3. g = [m \in Nodes |-> g[m]] /\ f = [m \in Nodes |-> f[m]]
        BY <1>2, <1>3
    <2> QED
        BY <2>3, <2>4 DEF Bad
<1> HIDE DEF f
<1>4. Last(t, n) = f[n]
    BY <1>2, <1>3 DEF Last
<1>5. n \in H /\ n \in Nodes
    BY DEF Hanging
<1> QED
    BY <1>4, <1>5 DEF f

\* Upwards every round comes to a node that counts more, and none counts more than all.
LEMMA UpwardsRank ==
    ASSUME NEW t, Sound(t), NEW s, NEW lo, NEW pos, NEW hi, Spread(t, NULL, s, lo, pos, hi)
    PROVE  \E rank \in [Nodes -> Nat] : \A n \in Nodes :
               t.parent[n] # NULL => t.parent[n] \in Nodes /\ rank[t.parent[n]] < rank[n]
<1> DEFINE H == Hanging(t, NULL)
           rank == [n \in Nodes |-> IF n \in H THEN Len(s) - (hi[n] - lo[n]) ELSE 0]
<1>1. ASSUME NEW n \in H
      PROVE  /\ n \in Nodes /\ lo[n] \in Nat /\ pos[n] \in Nat /\ hi[n] \in Nat /\ Len(s) \in Nat
             /\ lo[n] <= pos[n] /\ pos[n] < hi[n] /\ hi[n] <= Len(s)
    BY Spans DEF Sound
<1>2. rank \in [Nodes -> Nat]
    <2>1. ASSUME NEW n \in H PROVE Len(s) - (hi[n] - lo[n]) \in Nat
        BY <1>1
    <2> QED
        BY <2>1
<1>3. ASSUME NEW n \in Nodes, t.parent[n] # NULL
      PROVE  t.parent[n] \in Nodes /\ rank[t.parent[n]] < rank[n]
    <2> DEFINE p == t.parent[n]
    <2>1. n \in H
        BY <1>3, Outside
    <2>2. /\ p \in H /\ p \in Nodes
          /\ (lo[n] = lo[p] /\ hi[n] = pos[p]) \/ (lo[n] = pos[p] + 1 /\ hi[n] = hi[p])
        BY <1>3, <2>1, Above
    <2>3. rank[n] = Len(s) - (hi[n] - lo[n]) /\ rank[p] = Len(s) - (hi[p] - lo[p])
        BY <2>1, <2>2
    <2>4. Len(s) - (hi[p] - lo[p]) < Len(s) - (hi[n] - lo[n])
        <3>1. /\ lo[n] \in Nat /\ hi[n] \in Nat /\ Len(s) \in Nat
              /\ lo[p] \in Nat /\ pos[p] \in Nat /\ hi[p] \in Nat
              /\ lo[p] <= pos[p] /\ pos[p] < hi[p]
            BY <1>1, <2>1, <2>2
        <3> QED
            BY <2>2, <3>1
    <2> QED
        BY <2>2, <2>3, <2>4
<1> QED
    BY <1>2, <1>3

\* next() of the node at pos[n], the last one excepted, is the node at pos[n] + 1.
LEMMA NextIs ==
    ASSUME NEW t, Sound(t), NEW s, NEW lo, NEW pos, NEW hi, Spread(t, NULL, s, lo, pos, hi)
    PROVE  /\ \A n \in Hanging(t, NULL) :
                 NextOf(t, n) = IF pos[n] + 1 = Len(s) THEN NULL ELSE s[pos[n] + 2]
           /\ \A n \in Nodes \ Hanging(t, NULL) : NextOf(t, n) = NULL
<1> DEFINE H == Hanging(t, NULL)
           f == [m \in Nodes |-> IF m \in H /\ hi[m] # Len(s) THEN s[hi[m] + 1] ELSE NULL]
           Is(g) == g = [m \in Nodes |-> IF t.parent[m] # NULL /\ t.right[t.parent[m]] = m
                                         THEN g[t.parent[m]] ELSE t.parent[m]]
<1>1. SoundBut(t, NULL, NULL) /\ t \in Trees
    BY DEF Sound, SoundBut, Trees
<1>2. ASSUME NEW n \in H
      PROVE  /\ n \in Nodes /\ n # NULL /\ Len(s) \in Nat
             /\ lo[n] \in Nat /\ pos[n] \in Nat /\ hi[n] \in Nat
             /\ lo[n] <= pos[n] /\ pos[n] < hi[n] /\ hi[n] <= Len(s)
             /\ s[pos[n] + 1] = n
             /\ t.right[n] = NULL => hi[n] = pos[n] + 1
             /\ t.right[n] # NULL => t.right[n] \in H
                                     /\ lo[t.right[n]] = pos[n] + 1 /\ hi[t.right[n]] = hi[n]
    BY <1>1, Spans
<1>3. ASSUME NEW m \in Nodes
      PROVE  f[m] = IF t.parent[m] # NULL /\ t.right[t.parent[m]] = m
                    THEN f[t.parent[m]] ELSE t.parent[m]
    <2> DEFINE p == t.parent[m]
    <2>1. CASE m \notin H
        <3>1. p = NULL
            BY <2>1, Outside
        <3> QED
            BY <2>1, <3>1
    <2>2. CASE m \in H /\ p = NULL
        <3>1. hi[m] = Len(s)
            BY <2>2, Above
        <3> QED
            BY <2>2, <3>1
    <2>3. CASE m \in H /\ p # NULL
        <3>1. /\ p \in H /\ p \in Nodes
              /\ \/ t.left[p] = m /\ t.right[p] # m /\ lo[m] = lo[p] /\ hi[m] = pos[p]
                 \/ t.right[p] = m /\ t.left[p] # m /\ lo[m] = pos[p] + 1 /\ hi[m] = hi[p]
            BY <2>3, Above
        <3>2. CASE t.right[p] = m
            BY <2>3, <3>1, <3>2
        <3>3. CASE t.right[p] # m
            <4>1. hi[m] # Len(s) /\ s[hi[m] + 1] = p
                BY <1>2, <3>1, <3>3
            <4> QED
                BY <2>3, <3>3, <4>1
        <3> QED
            BY <3>2, <3>3
    <2> QED
        BY <2>1, <2>2, <2>3
<1>4. Is(f)
    <2>1. f = [m \in Nodes |-> f[m]]
        OBVIOUS
    <2> HIDE DEF f
    <2> QED
        BY <1>3, <2>1
<1>5. ASSUME NEW g, Is(g) PROVE g = f
    <2> HIDE DEF H, f
    <2>1. PICK rank \in [Nodes -> Nat] : \A n \in Nodes :
               t.parent[n] # NULL => t.parent[n] \in Nodes /\ rank[t.parent[n]] < rank[n]
        BY UpwardsRank
    <2> DEFINE Bad == {m \in Nodes : g[m] # f[m]}
    <2>2. ASSUME NEW m \in Bad PROVE \E y \in Bad : rank[y] < rank[m]
        <3>1. t.parent[m] # NULL => t.parent[m] \in Nodes /\ rank[t.parent[m]] < rank[m]
            BY <2>1
        <3>2. g[m] = IF t.parent[m] # NULL /\ t.right[t.parent[m]] = m
                     THEN g[t.parent[m]] ELSE t.parent[m]
            BY <1>5
        <3> QED
            BY <1>3, <3>1, <3>2
    <2>3. Bad \in SUBSET Nodes
        OBVIOUS
    <2> HIDE DEF Bad
    <2>5. Bad = {}
        BY <2>2, <2>3, Descent
    <2>4. g = [m \in Nodes |-> g[m]] /\ f = [m \in Nodes |-> f[m]]
        BY <1>4, <1>5
    <2> QED
        BY <2>4, <2>5 DEF Bad
<1> HIDE DEF f
<1>6. ASSUME NEW n \in Nodes
      PROVE  NextOf(t, n) = IF t.right[n] # NULL THEN First(t, t.right[n]) ELSE f[n]
    BY <1>4, <1>5 DEF NextOf
<1>7. ASSUME NEW n \in H
      PROVE  NextOf(t, n) = IF pos[n] + 1 = Len(s) THEN NULL ELSE s[pos[n] + 2]
    <2>1. CASE t.right[n] = NULL
        <3>1. hi[n] = pos[n] + 1 /\ hi[n] + 1 = pos[n] + 2 /\ NextOf(t, n) = f[n] /\ n \in Nodes
            BY <1>2, <1>6, <2>1
        <3> QED
            BY <3>1 DEF f
    <2>2. CASE t.right[n] # NULL
        <3> DEFINE r == t.right[n]
        <3>1. r \in H /\ lo[r] = pos[n] + 1 /\ hi[r] = hi[n] /\ NextOf(t, n) = First(t, r)
            BY <1>2, <1>6, <2>2
        <3> HIDE DEF r
        <3>2. First(t, r) = s[lo[r] + 1]
            BY <3>1, FirstIs
        <3>3. pos[n] + 1 # Len(s) /\ lo[r] + 1 = pos[n] + 2
            BY <1>2, <3>1
        <3> QED
            BY <3>1, <3>2, <3>3
    <2> QED
        BY <2>1, <2>2
<1>8. ASSUME NEW n \in Nodes \ H PROVE NextOf(t, n) = NULL
    <2>1. t.right[n] = NULL
        BY Outside
    <2>2. NextOf(t, n) = f[n]
        BY <1>6, <2>1
    <2> QED
        BY <2>2 DEF f
<1> QED
    BY <1>7, <1>8

\* prev() of the node at pos[n], the first one excepted, is the node at pos[n] - 1.
LEMMA PrevIs ==
    ASSUME NEW t, Sound(t), NEW s, NEW lo, NEW pos, NEW hi, Spread(t, NULL, s, lo, pos, hi)
    PROVE  \A n \in Hanging(t, NULL) : PrevOf(t, n) = IF pos[n] = 0 THEN NULL ELSE s[pos[n]]
<1> DEFINE H == Hanging(t, NULL)
           f == [m \in Nodes |-> IF m \in H /\ lo[m] # 0 THEN s[lo[m]] ELSE NULL]
           Is(g) == g = [m \in Nodes |-> IF t.parent[m] # NULL /\ t.left[t.parent[m]] = m
                                         THEN g[t.parent[m]] ELSE t.parent[m]]
<1>1. SoundBut(t, NULL, NULL) /\ t \in Trees
    BY DEF Sound, SoundBut, Trees
<1>2. ASSUME NEW n \in H
      PROVE  /\ n \in Nodes /\ n # NULL /\ Len(s) \in Nat
             /\ lo[n] \in Nat /\ pos[n] \in Nat /\ hi[n] \in Nat
             /\ lo[n] <= pos[n] /\ pos[n] < hi[n] /\ hi[n] <= Len(s)
             /\ s[pos[n] + 1] = n
             /\ t.left[n] = NULL => lo[n] = pos[n]
             /\ t.left[n] # NULL => t.left[n] \in H
                                    /\ lo[t.left[n]] = lo[n] /\ hi[t.left[n]] = pos[n]
    BY <1>1, Spans
<1>3. ASSUME NEW m \in Nodes
      PROVE  f[m] = IF t.parent[m] # NULL /\ t.left[t.parent[m]] = m
                    THEN f[t.parent[m]] ELSE t.parent[m]
    <2> DEFINE p == t.parent[m]
    <2>1. CASE m \notin H
        <3>1. p = NULL
            BY <2>1, Outside
        <3> QED
            BY <2>1, <3>1
    <2>2. CASE m \in H /\ p = NULL
        <3>1. lo[m] = 0
            BY <2>2, Above
        <3> QED
            BY <2>2, <3>1
    <2>3. CASE m \in H /\ p # NULL
        <3>1. /\ p \in H /\ p \in Nodes
              /\ \/ t.left[p] = m /\ t.right[p] # m /\ lo[m] = lo[p] /\ hi[m] = pos[p]
                 \/ t.right[p] = m /\ t.left[p] # m /\ lo[m] = pos[p] + 1 /\ hi[m] = hi[p]
            BY <2>3, Above
        <3>2. CASE t.left[p] = m
            BY <2>3, <3>1, <3>2
        <3>3. CASE t.left[p] # m
            <4>1. lo[m] # 0 /\ s[lo[m]] = p
                BY <1>2, <3>1, <3>3
            <4> QED
                BY <2>3, <3>3, <4>1
        <3> QED
            BY <3>2, <3>3
    <2> QED
        BY <2>1, <2>2, <2>3
<1>4. Is(f)
    <2>1. f = [m \in Nodes |-> f[m]]
        OBVIOUS
    <2> HIDE DEF f
    <2> QED
        BY <1>3, <2>1
<1>5. ASSUME NEW g, Is(g) PROVE g = f
    <2> HIDE DEF H, f
    <2>1. PICK rank \in [Nodes -> Nat] : \A n \in Nodes :
               t.parent[n] # NULL => t.parent[n] \in Nodes /\ rank[t.parent[n]] < rank[n]
        BY UpwardsRank
    <2> DEFINE Bad == {m \in Nodes : g[m] # f[m]}
    <2>2. ASSUME NEW m \in Bad PROVE \E y \in Bad : rank[y] < rank[m]
        <3>1. t.parent[m] # NULL => t.parent[m] \in Nodes /\ rank[t.parent[m]] < rank[m]
            BY <2>1
        <3>2. g[m] = IF t.parent[m] # NULL /\ t.left[t.parent[m]] = m
                     THEN g[t.parent[m]] ELSE t.parent[m]
            BY <1>5
        <3> QED
            BY <1>3, <3>1, <3>2
    <2>3. Bad \in SUBSET Nodes
        OBVIOUS
    <2> HIDE DEF Bad
    <2>5. Bad = {}
        BY <2>2, <2>3, Descent
    <2>4. g = [m \in Nodes |-> g[m]] /\ f = [m \in Nodes |-> f[m]]
        BY <1>4, <1>5
    <2> QED
        BY <2>4, <2>5 DEF Bad
<1> HIDE DEF f
<1>6. ASSUME NEW n \in Nodes
      PROVE  PrevOf(t, n) = IF t.left[n] # NULL THEN Last(t, t.left[n]) ELSE f[n]
    BY <1>4, <1>5 DEF PrevOf
<1>7. ASSUME NEW n \in H
      PROVE  PrevOf(t, n) = IF pos[n] = 0 THEN NULL ELSE s[pos[n]]
    <2>1. CASE t.left[n] = NULL
        <3>1. lo[n] = pos[n] /\ PrevOf(t, n) = f[n] /\ n \in Nodes
            BY <1>2, <1>6, <2>1
        <3> QED
            BY <3>1 DEF f
    <2>2. CASE t.left[n] # NULL
        <3> DEFINE l == t.left[n]
        <3>1. l \in H /\ lo[l] = lo[n] /\ hi[l] = pos[n] /\ PrevOf(t, n) = Last(t, l)
            BY <1>2, <1>6, <2>2
        <3> HIDE DEF l
        <3>2. Last(t, l) = s[hi[l]]
            BY <3>1, LastIs
        <3>3. pos[n] # 0
            BY <1>2, <3>1
        <3> QED
            BY <3>1, <3>2, <3>3
    <2> QED
        BY <2>1, <2>2
<1> QED
    BY <1>7

\* index() of a node is its position.
LEMMA IndexIs ==
    ASSUME NEW t, Sound(t), NEW s, NEW lo, NEW pos, NEW hi, Spread(t, NULL, s, lo, pos, hi),
           NEW n \in Hanging(t, NULL)
    PROVE  Index(t, n) = pos[n]
<1> DEFINE H == Hanging(t, NULL)
           f == [m \in Nodes |-> IF m \in H THEN lo[m] ELSE 0]
           Step(g, m) == LET p == t.parent[m]
                         IN  IF p = NULL THEN 0
                             ELSE g[p] + (IF t.right[p] = m THEN SizeOf(t, t.left[p]) + 1 ELSE 0)
           Is(g) == g = [m \in Nodes |-> Step(g, m)]
<1>1. SoundBut(t, NULL, NULL) /\ t \in Trees
    BY DEF Sound, SoundBut, Trees
<1>2. ASSUME NEW m \in H
      PROVE  /\ m \in Nodes /\ m # NULL /\ Len(s) \in Nat
             /\ lo[m] \in Nat /\ pos[m] \in Nat /\ hi[m] \in Nat
             /\ lo[m] <= pos[m]
             /\ t.left[m] = NULL => lo[m] = pos[m]
             /\ t.left[m] # NULL => t.left[m] \in H
                                    /\ lo[t.left[m]] = lo[m] /\ hi[t.left[m]] = pos[m]
    BY <1>1, Spans
<1>3. ASSUME NEW m \in H PROVE SizeOf(t, t.left[m]) = pos[m] - lo[m]
    <2>1. t.left[m] # NULL => t.size[t.left[m]] = hi[t.left[m]] - lo[t.left[m]]
        BY <1>2, SizesSpan
    <2> QED
        BY <1>2, <2>1 DEF SizeOf
<1>4. ASSUME NEW m \in Nodes PROVE f[m] = Step(f, m)
    <2> DEFINE p == t.parent[m]
    <2>1. CASE m \notin H
        <3>1. p = NULL
            BY <2>1, Outside
        <3> QED
            BY <2>1, <3>1
    <2>2. CASE m \in H /\ p = NULL
        <3>1. lo[m] = 0
            BY <2>2, Above
        <3> QED
            BY <2>2, <3>1
    <2>3. CASE m \in H /\ p # NULL
        <3>1. /\ p \in H /\ p \in Nodes
              /\ \/ t.left[p] = m /\ t.right[p] # m /\ lo[m] = lo[p] /\ hi[m] = pos[p]
                 \/ t.right[p] = m /\ t.left[p] # m /\ lo[m] = pos[p] + 1 /\ hi[m] = hi[p]
            BY <2>3, Above
        <3>2. f[m] = lo[m] /\ f[p] = lo[p] /\ lo[p] \in Nat /\ pos[p] \in Nat
            BY <1>2, <2>3, <3>1
        <3> HIDE DEF f
        <3>3. CASE t.right[p] = m
            <4>1. Step(f, m) = f[p] + (SizeOf(t, t.left[p]) + 1)
                BY <2>3, <3>3
            <4>2. SizeOf(t, t.left[p]) = pos[p] - lo[p]
                BY <1>3, <3>1
            <4>3. lo[p] + ((pos[p] - lo[p]) + 1) = pos[p] + 1
                BY <3>2
            <4> HIDE DEF Step
            <4> QED
                BY <3>1, <3>2, <3>3, <4>1, <4>2, <4>3
        <3>4. CASE t.right[p] # m
            <4>1. Step(f, m) = f[p] + 0
                BY <2>3, <3>4
            <4> HIDE DEF Step
            <4> QED
                BY <3>1, <3>2, <3>4, <4>1
        <3> QED
            BY <3>3, <3>4
    <2> QED
        BY <2>1, <2>2, <2>3
<1>5. Is(f)
    <2>1. f = [m \in Nodes |-> f[m]]
        OBVIOUS
    <2> HIDE DEF f, Step
    <2> QED
        BY <1>4, <2>1
<1>6. ASSUME NEW g, Is(g) PROVE g = f
    <2> HIDE DEF H, f
    <2>1. PICK rank \in [Nodes -> Nat] : \A m \in Nodes :
               t.parent[m] # NULL => t.parent[m] \in Nodes /\ rank[t.parent[m]] < rank[m]
        BY UpwardsRank
    <2> DEFINE Bad == {m \in Nodes : g[m] # f[m]}
    <2>2. ASSUME NEW m \in Bad PROVE \E y \in Bad : rank[y] < rank[m]
        <3>1. t.parent[m] # NULL => t.parent[m] \in Nodes /\ rank[t.parent[m]] < rank[m]
            BY <2>1
        <3>2. g[m] = Step(g, m)
            BY <1>6
        <3>3. f[m] = Step(f, m)
            BY <1>4
        <3>4. t.parent[m] # NULL
            BY <3>2, <3>3
        <3>5. g[t.parent[m]] # f[t.parent[m]]
            BY <3>2, <3>3, <3>4
        <3> QED
            BY <3>1, <3>4, <3>5
    <2>3. Bad \in SUBSET Nodes
        OBVIOUS
    <2> HIDE DEF Bad
    <2>4. g = [m \in Nodes |-> g[m]] /\ f = [m \in Nodes |-> f[m]]
        BY <1>5, <1>6
    <2>5. Bad = {}
        BY <2>2, <2>3, Descent
    <2> QED
        BY <2>4, <2>5 DEF Bad
<1> HIDE DEF f
<1>7. Index(t, n) = SizeOf(t, t.left[n]) + f[n]
    BY <1>5, <1>6 DEF Index
<1>8. f[n] = lo[n]
    BY <1>2 DEF f
<1>9. lo[n] \in Nat /\ pos[n] \in Nat /\ (pos[n] - lo[n]) + lo[n] = pos[n]
    BY <1>2
<1> QED
    BY <1>3, <1>7, <1>8, <1>9

\* query(i) finds the node at position i.
LEMMA QueryAtIs ==
    ASSUME NEW t, Sound(t), NEW s, NEW lo, NEW pos, NEW hi, Spread(t, NULL, s, lo, pos, hi),
           NEW i \in Nat, i < Len(s)
    PROVE  QueryAt(t, i) = s[i + 1]
<1> DEFINE H == Hanging(t, NULL)
           At(m, j) == IF m = NULL THEN NULL
                       ELSE IF m \in H THEN IF j < hi[m] - lo[m] THEN s[(lo[m] + j) + 1] ELSE NULL
                       ELSE IF j = 0 THEN m ELSE NULL
           f == [m \in Pointers |-> [j \in Nat |-> At(m, j)]]
           Step(g, m, j) == IF m = NULL THEN NULL
                            ELSE IF j = SizeOf(t, t.left[m]) THEN m
                            ELSE IF j < SizeOf(t, t.left[m]) THEN g[t.left[m]][j]
                            ELSE g[t.right[m]][j - 1 - SizeOf(t, t.left[m])]
           Is(g) == g = [m \in Pointers |-> [j \in Nat |-> Step(g, m, j)]]
<1>1. SoundBut(t, NULL, NULL) /\ t \in Trees
    BY DEF Sound, SoundBut, Trees
<1>2. ASSUME NEW m \in Pointers, NEW j \in Nat PROVE f[m][j] = At(m, j)
    <2> HIDE DEF At
    <2> QED
        OBVIOUS
<1>3. ASSUME NEW m \in H
      PROVE  /\ m \in Nodes /\ m # NULL
             /\ lo[m] \in Nat /\ pos[m] \in Nat /\ hi[m] \in Nat
             /\ lo[m] <= pos[m] /\ pos[m] < hi[m] /\ s[pos[m] + 1] = m
             /\ t.left[m] = NULL => lo[m] = pos[m]
             /\ t.left[m] # NULL => t.left[m] \in H
                                    /\ lo[t.left[m]] = lo[m] /\ hi[t.left[m]] = pos[m]
             /\ t.right[m] = NULL => hi[m] = pos[m] + 1
             /\ t.right[m] # NULL => t.right[m] \in H
                                    /\ lo[t.right[m]] = pos[m] + 1 /\ hi[t.right[m]] = hi[m]
    BY <1>1, Spans
<1>4. ASSUME NEW m \in H PROVE SizeOf(t, t.left[m]) = pos[m] - lo[m]
    <2>1. t.left[m] # NULL => t.size[t.left[m]] = hi[t.left[m]] - lo[t.left[m]]
        BY <1>3, SizesSpan
    <2> QED
        BY <1>3, <2>1 DEF SizeOf
<1>5. ASSUME NEW m \in Nodes
      PROVE  m # NULL /\ m \in Pointers /\ t.left[m] \in Pointers /\ t.right[m] \in Pointers
             /\ SizeOf(t, t.left[m]) \in Nat
    BY <1>1, Fields, SizeOfNat, NodesAssumption DEF Pointers
<1>6. ASSUME NEW m \in Pointers, NEW j \in Nat PROVE At(m, j) = Step(f, m, j)
    <2>1. CASE m = NULL
        BY <2>1
    <2>2. CASE m # NULL /\ m \notin H
        <3>1. t.left[m] = NULL /\ t.right[m] = NULL /\ SizeOf(t, NULL) = 0
            BY <2>2, Outside DEF Pointers, SizeOf
        <3>2. CASE j = 0
            <4>1. Step(f, m, j) = m
                BY <2>2, <3>1, <3>2
            <4> QED
                BY <2>2, <3>2, <4>1
        <3>3. CASE j # 0
            <4>1. j - 1 - 0 \in Nat /\ ~(j < 0) /\ j # 0
                BY <3>3
            <4>2. Step(f, m, j) = f[NULL][j - 1 - 0]
                BY <2>2, <3>1, <4>1
            <4>3. f[NULL][j - 1 - 0] = At(NULL, j - 1 - 0)
                BY <1>2, <4>1 DEF Pointers
            <4> QED
                BY <2>2, <3>3, <4>2, <4>3
        <3> QED
            BY <3>2, <3>3
    <2>3. CASE m \in H
        <3> DEFINE k == SizeOf(t, t.left[m])
        <3>1. /\ m \in Nodes /\ m # NULL
              /\ lo[m] \in Nat /\ pos[m] \in Nat /\ hi[m] \in Nat
              /\ lo[m] <= pos[m] /\ pos[m] < hi[m] /\ s[pos[m] + 1] = m
            BY <1>3, <2>3
        <3>2. k = pos[m] - lo[m] /\ k \in Nat
            BY <1>4, <1>5, <2>3, <3>1
        <3>3. CASE j = k
            <4>1. j < hi[m] - lo[m] /\ (lo[m] + j) + 1 = pos[m] + 1
                BY <3>1, <3>2, <3>3
            <4>2. At(m, j) = m
                BY <2>3, <3>1, <4>1
            <4>3. Step(f, m, j) = m
                BY <3>1, <3>3
            <4> QED
                BY <4>2, <4>3
        <3>4. CASE j < k
            <4> DEFINE l == t.left[m]
            <4>1. j # k /\ k # 0
                BY <3>2, <3>4
            <4>2. l # NULL
                BY <4>1 DEF SizeOf
            <4>3. l \in H /\ l \in Pointers /\ l # NULL /\ lo[l] = lo[m] /\ hi[l] = pos[m]
                BY <1>3, <1>5, <2>3, <3>1, <4>2
            <4>4. Step(f, m, j) = f[l][j]
                BY <3>1, <3>4, <4>1
            <4>5. f[l][j] = At(l, j)
                BY <1>2, <4>3
            <4>6. j < pos[m] - lo[m] /\ j < hi[m] - lo[m]
                BY <3>1, <3>2, <3>4
            <4> HIDE DEF l, k
            <4>7. At(l, j) = s[(lo[m] + j) + 1]
                BY <4>3, <4>6
            <4>8. At(m, j) = s[(lo[m] + j) + 1]
                BY <2>3, <3>1, <4>6
            <4> QED
                BY <4>4, <4>5, <4>7, <4>8
        <3>5. CASE ~(j = k) /\ ~(j < k)
            <4>0. /\ (j - 1 - k < hi[m] - (pos[m] + 1)) <=> (j < hi[m] - lo[m])
                  /\ ((pos[m] + 1) + (j - 1 - k)) + 1 = (lo[m] + j) + 1
                <5>1. lo[m] \in Nat /\ pos[m] \in Nat /\ hi[m] \in Nat /\ k = pos[m] - lo[m]
                    BY <3>1, <3>2
                <5> HIDE DEF k, f, At, Step, Is
                <5>2. (j - 1 - k < hi[m] - (pos[m] + 1)) <=> (j < hi[m] - lo[m])
                    BY <5>1
                <5>3. ((pos[m] + 1) + (j - 1 - k)) + 1 = (lo[m] + j) + 1
                    <6>1. \A a, b \in Nat : ((b + 1) + (j - 1 - (b - a))) + 1 = (a + j) + 1
                        OBVIOUS
                    <6> QED
                        BY <5>1, <6>1
                <5> QED
                    BY <5>2, <5>3
            <4> DEFINE r == t.right[m]
                       q == j - 1 - k
            <4>1. q \in Nat /\ r \in Pointers
                BY <1>5, <3>1, <3>2, <3>5
            <4>2. Step(f, m, j) = f[r][q]
                BY <3>1, <3>5
            <4>3. f[r][q] = At(r, q)
                BY <1>2, <4>1
            <4>4. CASE r = NULL
                <5>1. hi[m] = pos[m] + 1
                    BY <1>3, <2>3, <4>4
                <5>2. ~(j < hi[m] - lo[m])
                    BY <3>1, <3>2, <3>5, <5>1
                <5> HIDE DEF f, Step, q
                <5>3. At(m, j) = NULL
                    BY <2>3, <3>1, <5>2
                <5>4. At(r, q) = NULL
                    BY <4>4
                <5> HIDE DEF At, r
                <5> QED
                    BY <4>2, <4>3, <5>3, <5>4
            <4>5. CASE r # NULL
                <5>1. r \in H /\ lo[r] = pos[m] + 1 /\ hi[r] = hi[m]
                    BY <1>3, <2>3, <4>5
                <5>2. /\ (q < hi[m] - (pos[m] + 1)) <=> (j < hi[m] - lo[m])
                      /\ ((pos[m] + 1) + q) + 1 = (lo[m] + j) + 1
                    BY <4>0
                <5> HIDE DEF r, q, k
                <5>3. At(r, q) = IF j < hi[m] - lo[m] THEN s[(lo[m] + j) + 1] ELSE NULL
                    BY <4>5, <5>1, <5>2
                <5>4. At(m, j) = IF j < hi[m] - lo[m] THEN s[(lo[m] + j) + 1] ELSE NULL
                    BY <2>3, <3>1
                <5> QED
                    BY <4>2, <4>3, <5>3, <5>4
            <4> QED
                BY <4>4, <4>5
        <3> QED
            BY <3>3, <3>4, <3>5
    <2> QED
        BY <2>1, <2>2, <2>3
<1>7. Is(f)
    <2> HIDE DEF At, Step
    <2>1. f = [m \in Pointers |-> [j \in Nat |-> At(m, j)]]
        OBVIOUS
    <2> HIDE DEF f
    <2> QED
        BY <1>6, <2>1
<1>8. ASSUME NEW g, Is(g) PROVE g = f
    <2> DEFINE rank == [m \in Pointers |-> SizeOf(t, m)]
               Bad == {m \in Pointers : \E j \in Nat : g[m][j] # f[m][j]}
    <2> HIDE DEF f, Step
    <2>1. rank \in [Pointers -> Nat]
        BY <1>1, SizeOfNat
    <2>2. /\ \A m \in Pointers, j \in Nat : g[m][j] = Step(g, m, j)
          /\ \A m \in Pointers, j \in Nat : f[m][j] = Step(f, m, j)
        <3>1. ASSUME NEW h, Is(h), NEW m \in Pointers, NEW j \in Nat
              PROVE  h[m][j] = Step(h, m, j)
            <4>1. h[m] = [k \in Nat |-> Step(h, m, k)]
                BY <3>1
            <4> QED
                BY <4>1
        <3> QED
            BY <1>7, <1>8, <3>1
    <2>3. ASSUME NEW m \in Bad PROVE \E y \in Bad : rank[y] < rank[m]
        <3>1. PICK j \in Nat : Step(g, m, j) # Step(f, m, j)
            BY <2>2
        <3>2. m # NULL /\ m \in Nodes
            BY <3>1 DEF Step, Pointers
        <3> DEFINE k == SizeOf(t, t.left[m])
        <3>3. k \in Nat /\ t.left[m] \in Pointers /\ t.right[m] \in Pointers
            BY <1>5, <3>2
        <3>4. j # k
            BY <3>1, <3>2 DEF Step
        <3>5. CASE j < k
            <4>1. g[t.left[m]][j] # f[t.left[m]][j]
                BY <3>1, <3>2, <3>4, <3>5 DEF Step
            <4>2. t.left[m] # NULL
                BY <2>2, <4>1 DEF Step, Pointers
            <4>3. t.size[t.left[m]] < t.size[m]
                BY <1>1, <3>2, <4>2, ChildIsSmaller
            <4> QED
                BY <3>2, <3>3, <4>1, <4>2, <4>3 DEF SizeOf
        <3>6. CASE ~(j < k)
            <4>1. g[t.right[m]][j - 1 - k] # f[t.right[m]][j - 1 - k]
                BY <3>1, <3>2, <3>4, <3>6 DEF Step
            <4>2. j - 1 - k \in Nat
                BY <3>3, <3>4, <3>6
            <4>3. t.right[m] # NULL
                BY <2>2, <4>1, <4>2 DEF Step, Pointers
            <4>4. t.size[t.right[m]] < t.size[m]
                BY <1>1, <3>2, <4>3, ChildIsSmaller
            <4> QED
                BY <3>2, <3>3, <4>1, <4>2, <4>3, <4>4 DEF SizeOf
        <3> QED
            BY <3>5, <3>6
    <2>4. Bad \in SUBSET Pointers
        OBVIOUS
    <2> HIDE DEF Bad, rank
    <2>5. Bad = {}
        BY <2>1, <2>3, <2>4, Descent
    <2>6. \A m \in Pointers, j \in Nat : g[m][j] = f[m][j]
        BY <2>5 DEF Bad
    <2>7. \A m \in Pointers, j \in Nat : Step(g, m, j) = Step(f, m, j)
        BY <2>2, <2>6
    <2> QED
        BY <1>7, <1>8, <2>7
<1> HIDE DEF f
<1>9. QueryAt(t, i) = f[t.root][i]
    BY <1>7, <1>8 DEF QueryAt
<1>10. t.root \in H /\ t.root \in Pointers /\ lo[t.root] = 0 /\ hi[t.root] = Len(s)
    <2>1. Len(s) # 0 /\ Len(s) \in Nat
        BY DEF Spread
    <2>2. t.root # NULL
        BY <2>1 DEF Spread
    <2> QED
        BY <1>1, <2>2 DEF Spread, Trees, Pointers, Hanging, InTree
<1>11. Len(s) \in Nat /\ i < Len(s) - 0 /\ (0 + i) + 1 = i + 1
    BY DEF Spread
<1>12. f[t.root][i] = At(t.root, i) /\ t.root # NULL
    BY <1>2, <1>3, <1>10
<1> QED
    BY <1>9, <1>10, <1>11, <1>12

\* What is left of a sequence from one of its elements on.
LEMMA FromHere ==
    ASSUME NEW S, NEW s \in Seq(S)
    PROVE  /\ \A p \in 1 .. Len(s) :
                 <<s[p]>> \o SubSeq(s, p + 1, Len(s)) = SubSeq(s, p, Len(s))
           /\ SubSeq(s, Len(s) + 1, Len(s)) = <<>>
           /\ SubSeq(s, 1, Len(s)) = s
<1>1. Len(s) \in Nat
    OBVIOUS
<1>2. ASSUME NEW p \in 1 .. Len(s)
      PROVE  <<s[p]>> \o SubSeq(s, p + 1, Len(s)) = SubSeq(s, p, Len(s))
    OBVIOUS
<1>3. SubSeq(s, Len(s) + 1, Len(s)) = <<>>
    OBVIOUS
<1>4. SubSeq(s, 1, Len(s)) = s
    OBVIOUS
<1> QED
    BY <1>2, <1>3, <1>4

\* The iterator meets the nodes in their order.
LEMMA IteratedIs ==
    ASSUME NEW t, Sound(t), NEW s, Orders(t, NULL, s)
    PROVE  Iterated(t) = s
<1>1. PICK lo, pos, hi : Spread(t, NULL, s, lo, pos, hi)
    BY DEF Orders
<1> DEFINE H == Hanging(t, NULL)
           At(m) == IF m = NULL THEN <<>>
                    ELSE IF m \in H THEN SubSeq(s, pos[m] + 1, Len(s)) ELSE <<m>>
           f == [m \in Pointers |-> At(m)]
           Step(g, m) == IF m = NULL THEN <<>> ELSE <<m>> \o g[NextOf(t, m)]
           Is(g) == g = [m \in Pointers |-> Step(g, m)]
<1>2. SoundBut(t, NULL, NULL) /\ t \in Trees /\ s \in Seq(Nodes) /\ Len(s) \in Nat
    BY <1>1 DEF Sound, SoundBut, Trees, Spread
<1>3. ASSUME NEW m \in H
      PROVE  m \in Nodes /\ m # NULL /\ m \in Pointers /\ pos[m] \in Nat /\ pos[m] < Len(s)
             /\ s[pos[m] + 1] = m
    <2>1. m \in Nodes /\ m # NULL /\ pos[m] \in Nat /\ hi[m] \in Nat /\ pos[m] < hi[m]
          /\ hi[m] <= Len(s) /\ s[pos[m] + 1] = m
        BY <1>1, <1>2, Spans
    <2> QED
        BY <1>2, <2>1 DEF Pointers
<1>4. ASSUME NEW m \in H
      PROVE  \/ pos[m] + 1 = Len(s) /\ NextOf(t, m) = NULL
             \/ /\ pos[m] + 1 # Len(s) /\ NextOf(t, m) \in H
                /\ pos[NextOf(t, m)] = pos[m] + 1
    <2>1. NextOf(t, m) = IF pos[m] + 1 = Len(s) THEN NULL ELSE s[pos[m] + 2]
        BY <1>1, NextIs
    <2>2. CASE pos[m] + 1 # Len(s)
        <3>1. pos[m] \in Nat /\ pos[m] < Len(s)
            BY <1>3
        <3>2. pos[m] + 2 \in 1 .. Len(s) /\ (pos[m] + 2) - 1 = pos[m] + 1
            BY <1>2, <2>2, <3>1
        <3>3. s[pos[m] + 2] \in H /\ pos[s[pos[m] + 2]] = (pos[m] + 2) - 1
            BY <1>1, <1>2, <3>2, EveryPlace
        <3> QED
            BY <2>1, <2>2, <3>2, <3>3
    <2> QED
        BY <2>1, <2>2
<1>5. ASSUME NEW m \in Nodes, m \notin H PROVE NextOf(t, m) = NULL
    BY <1>1, <1>5, NextIs
<1>6. ASSUME NEW m \in Pointers PROVE f[m] = Step(f, m)
    <2>1. f[m] = At(m) /\ f[NULL] = At(NULL)
        BY DEF Pointers
    <2>2. CASE m = NULL
        BY <2>1, <2>2
    <2>3. CASE m # NULL /\ m \notin H
        <3>1. m \in Nodes /\ NextOf(t, m) = NULL
            BY <1>5, <2>3 DEF Pointers
        <3>2. <<m>> \o <<>> = <<m>>
            BY <3>1, ConcatEmptySeq
        <3> QED
            BY <2>1, <2>3, <3>1, <3>2
    <2>4. CASE m \in H
        <3>1. m # NULL /\ pos[m] \in Nat /\ pos[m] < Len(s) /\ s[pos[m] + 1] = m
            BY <1>3, <2>4
        <3>2. /\ pos[m] + 1 \in 1 .. Len(s) /\ (pos[m] + 1) + 1 = pos[m] + 2
              /\ SubSeq(s, Len(s) + 1, Len(s)) = <<>>
            BY <1>2, <3>1, FromHere
        <3>3. <<m>> \o SubSeq(s, (pos[m] + 1) + 1, Len(s)) = SubSeq(s, pos[m] + 1, Len(s))
            BY <1>2, <3>1, <3>2, FromHere
        <3>4. f[NextOf(t, m)] = SubSeq(s, (pos[m] + 1) + 1, Len(s))
            <4>1. CASE pos[m] + 1 = Len(s)
                <5>1. NextOf(t, m) = NULL
                    BY <1>4, <2>4, <4>1
                <5> QED
                    BY <2>1, <3>2, <4>1, <5>1
            <4>2. CASE pos[m] + 1 # Len(s)
                <5> DEFINE n == NextOf(t, m)
                <5>1. n \in H /\ pos[n] = pos[m] + 1
                    BY <1>4, <2>4, <4>2
                <5> HIDE DEF n
                <5>2. n # NULL /\ n \in Pointers
                    BY <1>3, <5>1
                <5>3. f[n] = SubSeq(s, (pos[m] + 1) + 1, Len(s))
                    BY <5>1, <5>2
                <5> QED
                    BY <5>3 DEF n
            <4> QED
                BY <4>1, <4>2
        <3> HIDE DEF f
        <3> QED
            BY <2>1, <2>4, <3>1, <3>3, <3>4
    <2> QED
        BY <2>2, <2>3, <2>4
<1>7. Is(f)
    <2>1. f = [m \in Pointers |-> f[m]]
        OBVIOUS
    <2> HIDE DEF f, Step
    <2> QED
        BY <1>6, <2>1
<1>8. ASSUME NEW g, Is(g) PROVE g = f
    <2> DEFINE rank == [m \in Pointers |-> IF m = NULL THEN 0
                                           ELSE IF m \in H THEN Len(s) - pos[m] ELSE 1]
               Bad == {m \in Pointers : g[m] # f[m]}
    <2>1. rank \in [Pointers -> Nat]
        <3>1. ASSUME NEW m \in H PROVE Len(s) - pos[m] \in Nat
            BY <1>2, <1>3
        <3> QED
            BY <3>1
    <2>2. ASSUME NEW m \in Pointers, m # NULL
          PROVE  NextOf(t, m) \in Pointers /\ rank[NextOf(t, m)] < rank[m]
        <3> DEFINE n == NextOf(t, m)
        <3>0. rank[NULL] = 0
            BY DEF Pointers
        <3>1. CASE m \notin H
            <4>1. n = NULL /\ rank[m] = 1
                BY <1>5, <2>2, <3>1 DEF Pointers
            <4> QED
                BY <3>0, <4>1 DEF Pointers
        <3>2. CASE m \in H
            <4>1. rank[m] = Len(s) - pos[m] /\ pos[m] \in Nat /\ pos[m] < Len(s)
                BY <1>3, <3>2
            <4>2. CASE n = NULL
                BY <1>2, <3>0, <4>1, <4>2 DEF Pointers
            <4>3. CASE n # NULL
                <5>1. n \in H /\ pos[n] = pos[m] + 1
                    BY <1>4, <3>2, <4>3
                <5>2. n \in Pointers
                    BY <1>3, <5>1
                <5> HIDE DEF n
                <5>3. rank[n] = Len(s) - (pos[m] + 1)
                    BY <4>3, <5>1, <5>2
                <5> HIDE DEF rank
                <5>4. Len(s) - (pos[m] + 1) < Len(s) - pos[m]
                    BY <1>2, <4>1
                <5>5. n \in Pointers /\ rank[n] < rank[m]
                    BY <4>1, <5>2, <5>3, <5>4
                <5> QED
                    BY <5>5 DEF n
            <4> QED
                BY <4>2, <4>3
        <3> QED
            BY <3>1, <3>2
    <2> HIDE DEF f, rank, Step
    <2>3. ASSUME NEW m \in Bad PROVE \E y \in Bad : rank[y] < rank[m]
        <3>1. Step(g, m) # Step(f, m) /\ m \in Pointers
            BY <1>6, <1>8
        <3>2. m # NULL /\ g[NextOf(t, m)] # f[NextOf(t, m)]
            BY <3>1 DEF Step
        <3> QED
            BY <2>2, <3>1, <3>2
    <2>4. Bad \in SUBSET Pointers
        OBVIOUS
    <2>5. g = [m \in Pointers |-> g[m]] /\ f = [m \in Pointers |-> f[m]]
        BY <1>7, <1>8
    <2> HIDE DEF Bad
    <2>6. Bad = {}
        BY <2>1, <2>3, <2>4, Descent
    <2> QED
        BY <2>5, <2>6 DEF Bad
<1> HIDE DEF f
<1>9. Iterated(t) = IF t.root = NULL THEN <<>> ELSE f[First(t, t.root)]
    BY <1>7, <1>8 DEF Iterated
<1>10. CASE t.root = NULL
    BY <1>1, <1>9, <1>10 DEF Spread
<1>11. CASE t.root # NULL
    <2>1. t.root \in H /\ lo[t.root] = 0 /\ hi[t.root] = Len(s)
        BY <1>1, <1>2, <1>11 DEF Spread, Trees, Pointers, Hanging, InTree
    <2>2. First(t, t.root) = s[0 + 1]
        BY <1>1, <2>1, FirstIs
    <2>3. 1 \in 1 .. Len(s) /\ 0 + 1 = 1 /\ 1 - 1 = 0
        <3>1. pos[t.root] \in Nat /\ pos[t.root] < Len(s)
            BY <1>3, <2>1
        <3> QED
            BY <1>2, <3>1
    <2>4. s[1] \in H /\ pos[s[1]] = 0
        BY <1>1, <1>2, <2>3, EveryPlace
    <2>5. f[s[1]] = SubSeq(s, 0 + 1, Len(s))
        <3>1. s[1] \in Pointers /\ s[1] # NULL
            BY <1>3, <2>4
        <3> QED
            BY <2>4, <3>1 DEF f
    <2>6. SubSeq(s, 1, Len(s)) = s
        BY <1>2, FromHere
    <2> QED
        BY <1>9, <1>11, <2>2, <2>3, <2>5, <2>6
<1> QED
    BY <1>10, <1>11

\* The nodes of s are in the order of their keys.
Sorted(s, data) ==
    /\ \A i \in 1 .. Len(s) : data[s[i]] \in Nat
    /\ \A i, j \in 1 .. Len(s) : i < j => data[s[i]] <= data[s[j]]

\* query() and has(): the loop down from the root comes to an end.
LEMMA QueryLoops ==
    ASSUME NEW t, Sound(t), NEW s, NEW lo, NEW pos, NEW hi, Spread(t, NULL, s, lo, pos, hi),
           NEW data, NEW k
    PROVE  \E f : /\ f = [m \in Pointers |->
                            IF m = NULL THEN NULL
                            ELSE IF k < data[m] THEN f[t.left[m]]
                            ELSE IF data[m] < k THEN f[t.right[m]]
                            ELSE m]
                  /\ Query(t, data, k) = f[t.root]
<1> DEFINE Step(f, m) == IF m = NULL THEN NULL
                         ELSE IF k < data[m] THEN f[t.left[m]]
                         ELSE IF data[m] < k THEN f[t.right[m]]
                         ELSE m
           Is(f) == f = [m \in Pointers |-> Step(f, m)]
<1>1. \E f : Is(f)
    <2> DEFINE H == Hanging(t, NULL)
               D == {m \in Pointers : m # NULL /\ (k < data[m] \/ data[m] < k)}
               next == [m \in D |-> IF k < data[m] THEN t.left[m] ELSE t.right[m]]
               base == [m \in Pointers |-> m]
               rank == [m \in Pointers |-> IF m = NULL THEN 0
                                           ELSE IF m \in H THEN hi[m] - lo[m] ELSE 1]
    <2>1. /\ SoundBut(t, NULL, NULL) /\ t \in Trees /\ Len(s) \in Nat
          /\ \A m \in Nodes : t.left[m] \in Pointers /\ t.right[m] \in Pointers
        BY Fields DEF Sound, SoundBut, Spread
    <2>2. ASSUME NEW m \in H
          PROVE  /\ m \in Nodes /\ m # NULL /\ m \in Pointers
                 /\ lo[m] \in Nat /\ pos[m] \in Nat /\ hi[m] \in Nat
                 /\ lo[m] <= pos[m] /\ pos[m] < hi[m] /\ hi[m] <= Len(s)
                 /\ t.left[m] # NULL => t.left[m] \in H
                                        /\ lo[t.left[m]] = lo[m] /\ hi[t.left[m]] = pos[m]
                 /\ t.right[m] # NULL => t.right[m] \in H
                                         /\ lo[t.right[m]] = pos[m] + 1 /\ hi[t.right[m]] = hi[m]
        <3>1. m \in Nodes
            BY DEF Hanging
        <3> QED
            BY <2>1, <3>1, Spans DEF Pointers
    <2>3. D \in SUBSET Pointers /\ base \in [Pointers -> Pointers]
        OBVIOUS
    <2>4. next \in [D -> Pointers]
        BY <2>1 DEF Pointers
    <2>5. rank \in [Pointers -> Nat]
        <3>1. ASSUME NEW m \in H PROVE hi[m] - lo[m] \in Nat
            BY <2>2
        <3> QED
            BY <3>1
    <2>6. ASSUME NEW m \in Pointers PROVE rank[m] < Len(s) + 2
        <3>1. CASE m \in H
            <4>1. rank[m] = hi[m] - lo[m]
                BY <2>2, <3>1
            <4> QED
                BY <2>1, <2>2, <3>1, <4>1
        <3>2. CASE m \notin H
            <4>1. rank[m] \in {0, 1}
                BY <3>2
            <4> QED
                BY <2>1, <4>1
        <3> QED
            BY <3>1, <3>2
    <2>7. ASSUME NEW m \in D PROVE rank[next[m]] < rank[m]
        <3>0. rank[NULL] = 0 /\ m \in Nodes /\ m # NULL
            BY DEF Pointers
        <3>1. next[m] = t.left[m] \/ next[m] = t.right[m]
            OBVIOUS
        <3>2. CASE m \notin H
            <4>1. next[m] = NULL
                BY <3>0, <3>1, <3>2, Outside
            <4>2. rank[m] = 1
                BY <3>0, <3>2
            <4> QED
                BY <3>0, <4>1, <4>2
        <3>3. CASE m \in H
            <4>1. rank[m] = hi[m] - lo[m]
                BY <2>2, <3>3
            <4>2. CASE next[m] = NULL
                BY <2>2, <3>0, <3>3, <4>1, <4>2
            <4>3. CASE next[m] # NULL
                <5> DEFINE n == next[m]
                <5>1. /\ n \in H
                      /\ \/ lo[n] = lo[m] /\ hi[n] = pos[m]
                         \/ lo[n] = pos[m] + 1 /\ hi[n] = hi[m]
                    BY <2>2, <3>1, <3>3, <4>3
                <5> HIDE DEF n, next
                <5>2. rank[n] = hi[n] - lo[n]
                    BY <2>2, <5>1
                <5> HIDE DEF rank
                <5>3. hi[n] - lo[n] < hi[m] - lo[m]
                    <6>1. /\ lo[m] \in Nat /\ pos[m] \in Nat /\ hi[m] \in Nat
                          /\ lo[m] <= pos[m] /\ pos[m] < hi[m]
                        BY <2>2, <3>3
                    <6>2. CASE lo[n] = lo[m] /\ hi[n] = pos[m]
                        BY <6>1, <6>2
                    <6>3. CASE lo[n] = pos[m] + 1 /\ hi[n] = hi[m]
                        BY <6>1, <6>3
                    <6> QED
                        BY <5>1, <6>2, <6>3
                <5> QED
                    BY <4>1, <5>2, <5>3 DEF n
            <4> QED
                BY <4>2, <4>3
        <3> QED
            BY <3>2, <3>3
    <2> DEFINE bound == Len(s) + 2
    <2>8. bound \in Nat /\ \A m \in Pointers : rank[m] < bound
        BY <2>1, <2>6
    <2> HIDE DEF D, next, base, rank, bound
    <2>13. \A m \in D : rank[next[m]] < rank[m]
        BY <2>7
    <2>9. PICK f \in [Pointers -> Pointers] :
              \A m \in Pointers : f[m] = IF m \in D THEN f[next[m]] ELSE base[m]
        <3>1. Loop(Pointers, Pointers, D, next, base, rank, bound)
            BY <2>3, <2>4, <2>5, <2>8, <2>13 DEF Loop
        <3> QED
            BY <3>1, LoopComputes
    <2>10. ASSUME NEW m \in Pointers PROVE f[m] = Step(f, m)
        BY <2>9 DEF D, next, base
    <2>11. f = [m \in Pointers |-> f[m]]
        OBVIOUS
    <2> HIDE DEF Step
    <2>12. Is(f)
        BY <2>10, <2>11
    <2> QED
        BY <2>12
<1>2. Is(CHOOSE f : Is(f))
    <2> HIDE DEF Is
    <2> QED
        BY <1>1
<1>3. Query(t, data, k) = (CHOOSE f : Is(f))[t.root]
    BY DEF Query
<1> HIDE DEF Is
<1>4. \E f : Is(f) /\ Query(t, data, k) = f[t.root]
    BY <1>2, <1>3
<1> QED
    BY <1>4 DEF Is

\* query() and has() find a node with the key exactly when there is one.
LEMMA QueryIs ==
    ASSUME NEW t, Sound(t), NEW s, Orders(t, NULL, s), NEW data, Sorted(s, data), NEW k \in Nat
    PROVE  /\ Query(t, data, k) # NULL =>
                \E i \in 1 .. Len(s) : s[i] = Query(t, data, k) /\ data[s[i]] = k
           /\ (\E i \in 1 .. Len(s) : data[s[i]] = k) => Query(t, data, k) # NULL
<1>1. PICK lo, pos, hi : Spread(t, NULL, s, lo, pos, hi)
    BY DEF Orders
<1> DEFINE H == Hanging(t, NULL)
<1>2. SoundBut(t, NULL, NULL) /\ t \in Trees /\ s \in Seq(Nodes) /\ Len(s) \in Nat
    BY <1>1 DEF Sound, SoundBut, Trees, Spread
<1>3. ASSUME NEW m \in H
      PROVE  /\ m \in Nodes /\ m # NULL /\ m \in Pointers
             /\ lo[m] \in Nat /\ pos[m] \in Nat /\ hi[m] \in Nat
             /\ lo[m] <= pos[m] /\ pos[m] < hi[m] /\ hi[m] <= Len(s) /\ s[pos[m] + 1] = m
             /\ t.left[m] = NULL => lo[m] = pos[m]
             /\ t.left[m] # NULL => t.left[m] \in H
                                    /\ lo[t.left[m]] = lo[m] /\ hi[t.left[m]] = pos[m]
             /\ t.right[m] = NULL => hi[m] = pos[m] + 1
             /\ t.right[m] # NULL => t.right[m] \in H
                                     /\ lo[t.right[m]] = pos[m] + 1 /\ hi[t.right[m]] = hi[m]
    <2>1. m \in Nodes
        BY DEF Hanging
    <2> QED
        BY <1>1, <1>2, <2>1, Spans DEF Pointers
<1>4. ASSUME NEW m \in H PROVE pos[m] + 1 \in 1 .. Len(s) /\ data[m] \in Nat
    <2>1. /\ pos[m] \in Nat /\ hi[m] \in Nat /\ pos[m] < hi[m] /\ hi[m] <= Len(s)
          /\ s[pos[m] + 1] = m
        BY <1>3
    <2>2. pos[m] + 1 \in 1 .. Len(s)
        BY <1>2, <2>1
    <2> QED
        BY <2>1, <2>2 DEF Sorted
<1>5. ASSUME NEW m \in H, NEW n \in H, pos[m] <= pos[n] PROVE data[m] <= data[n]
    <2>1. /\ pos[m] \in Nat /\ pos[n] \in Nat /\ s[pos[m] + 1] = m /\ s[pos[n] + 1] = n
          /\ pos[m] + 1 \in 1 .. Len(s) /\ pos[n] + 1 \in 1 .. Len(s)
          /\ data[m] \in Nat /\ data[n] \in Nat
        BY <1>3, <1>4
    <2>2. CASE pos[m] = pos[n]
        BY <2>1, <2>2
    <2>3. CASE pos[m] # pos[n]
        <3>1. pos[m] + 1 < pos[n] + 1
            BY <1>5, <2>1, <2>3
        <3> QED
            BY <2>1, <3>1 DEF Sorted
    <2> QED
        BY <2>2, <2>3
<1>6. PICK g : /\ g = [m \in Pointers |-> IF m = NULL THEN NULL
                                          ELSE IF k < data[m] THEN g[t.left[m]]
                                          ELSE IF data[m] < k THEN g[t.right[m]]
                                          ELSE m]
               /\ Query(t, data, k) = g[t.root]
    BY <1>1, QueryLoops
<1>7. /\ g[NULL] = NULL
      /\ \A m \in H : g[m] = IF k < data[m] THEN g[t.left[m]]
                             ELSE IF data[m] < k THEN g[t.right[m]] ELSE m
    <2>1. \A m \in Pointers : g[m] = IF m = NULL THEN NULL
                                     ELSE IF k < data[m] THEN g[t.left[m]]
                                     ELSE IF data[m] < k THEN g[t.right[m]]
                                     ELSE m
        BY <1>6
    <2> QED
        BY <1>3, <2>1 DEF Pointers
<1> DEFINE Finds(m) == g[m] # NULL => g[m] \in H /\ data[g[m]] = k
           Misses(m) == g[m] = NULL => \A n \in H : lo[m] <= pos[n] /\ pos[n] < hi[m] => data[n] # k
           rank == [m \in H |-> hi[m] - lo[m]]
           Bad == {m \in H : ~(Finds(m) /\ Misses(m))}
<1>8. rank \in [H -> Nat]
    <2>1. ASSUME NEW m \in H PROVE hi[m] - lo[m] \in Nat
        BY <1>3
    <2> QED
        BY <2>1
<1>9. ASSUME NEW m \in Bad PROVE \E y \in Bad : rank[y] < rank[m]
    <2> SUFFICES ASSUME \A y \in Bad : ~(rank[y] < rank[m]) PROVE FALSE
        OBVIOUS
    <2>1. /\ m \in H /\ m # NULL /\ lo[m] \in Nat /\ pos[m] \in Nat /\ hi[m] \in Nat
          /\ lo[m] <= pos[m] /\ pos[m] < hi[m] /\ data[m] \in Nat
        BY <1>3, <1>4
    <2>2. rank[m] = hi[m] - lo[m]
        BY <2>1
    <2>3. CASE k < data[m]
        <3> DEFINE l == t.left[m]
        <3>1. g[m] = g[l]
            BY <1>7, <2>1, <2>3
        <3>2. \A n \in H : pos[m] <= pos[n] => data[n] # k
            BY <1>4, <1>5, <2>1, <2>3
        <3>3. CASE l = NULL
            <4>1. lo[m] = pos[m] /\ g[m] = NULL
                BY <1>3, <1>7, <2>1, <3>1, <3>3
            <4> QED
                BY <3>2, <4>1
        <3>4. CASE l # NULL
            <4>1. l \in H /\ lo[l] = lo[m] /\ hi[l] = pos[m]
                BY <1>3, <2>1, <3>4
            <4> HIDE DEF l
            <4>2. rank[l] = pos[m] - lo[m]
                BY <4>1
            <4>3. rank[l] < rank[m]
                BY <2>1, <2>2, <4>2
            <4>4. Finds(l) /\ Misses(l)
                BY <4>1, <4>3
            <4>5. Finds(m)
                BY <3>1, <4>4
            <4>6. Misses(m)
                <5> SUFFICES ASSUME g[m] = NULL, NEW n \in H, lo[m] <= pos[n], pos[n] < hi[m]
                             PROVE  data[n] # k
                    OBVIOUS
                <5>1. pos[n] \in Nat
                    BY <1>3
                <5>2. CASE pos[n] < pos[m]
                    BY <3>1, <4>1, <4>4, <5>2
                <5>3. CASE pos[m] <= pos[n]
                    BY <3>2, <5>3
                <5> QED
                    BY <2>1, <5>1, <5>2, <5>3
            <4> QED
                BY <4>5, <4>6
        <3> QED
            BY <3>3, <3>4
    <2>4. CASE data[m] < k
        <3> DEFINE r == t.right[m]
        <3>1. g[m] = g[r]
            BY <1>7, <2>1, <2>4
        <3>2. \A n \in H : pos[n] <= pos[m] => data[n] # k
            BY <1>4, <1>5, <2>1, <2>4
        <3>3. CASE r = NULL
            <4>1. hi[m] = pos[m] + 1 /\ g[m] = NULL
                BY <1>3, <1>7, <2>1, <3>1, <3>3
            <4>2. ASSUME NEW n \in H, pos[n] < hi[m] PROVE data[n] # k
                <5>1. pos[n] \in Nat
                    BY <1>3
                <5>2. pos[n] <= pos[m]
                    BY <2>1, <4>1, <4>2, <5>1
                <5> QED
                    BY <3>2, <5>2
            <4> QED
                BY <4>1, <4>2
        <3>4. CASE r # NULL
            <4>1. r \in H /\ lo[r] = pos[m] + 1 /\ hi[r] = hi[m]
                BY <1>3, <2>1, <3>4
            <4> HIDE DEF r
            <4>2. rank[r] = hi[m] - (pos[m] + 1)
                BY <4>1
            <4>3. rank[r] < rank[m]
                BY <2>1, <2>2, <4>2
            <4>4. Finds(r) /\ Misses(r)
                BY <4>1, <4>3
            <4>5. Finds(m)
                BY <3>1, <4>4
            <4>6. Misses(m)
                <5> SUFFICES ASSUME g[m] = NULL, NEW n \in H, lo[m] <= pos[n], pos[n] < hi[m]
                             PROVE  data[n] # k
                    OBVIOUS
                <5>1. pos[n] \in Nat
                    BY <1>3
                <5>2. CASE pos[m] + 1 <= pos[n]
                    BY <3>1, <4>1, <4>4, <5>2
                <5>3. CASE pos[n] <= pos[m]
                    BY <3>2, <5>3
                <5> QED
                    BY <2>1, <5>1, <5>2, <5>3
            <4> QED
                BY <4>5, <4>6
        <3> QED
            BY <3>3, <3>4
    <2>5. CASE ~(k < data[m]) /\ ~(data[m] < k)
        <3>1. g[m] = m /\ data[m] = k
            BY <1>7, <2>1, <2>5
        <3> QED
            BY <2>1, <3>1
    <2> QED
        BY <2>3, <2>4, <2>5
<1>10. Bad \in SUBSET H
    OBVIOUS
<1> HIDE DEF Bad, rank
<1>11. Bad = {}
    BY <1>8, <1>9, <1>10, Descent
<1>12. ASSUME NEW m \in H PROVE Finds(m) /\ Misses(m)
    BY <1>11 DEF Bad
<1>13. CASE t.root = NULL
    BY <1>1, <1>6, <1>7, <1>13 DEF Spread
<1>14. CASE t.root # NULL
    <2>1. t.root \in H /\ lo[t.root] = 0 /\ hi[t.root] = Len(s)
        BY <1>1, <1>2, <1>14 DEF Spread, Trees, Pointers, Hanging, InTree
    <2>2. Finds(t.root) /\ Misses(t.root)
        BY <1>12, <2>1
    <2>3. ASSUME g[t.root] # NULL
          PROVE  \E i \in 1 .. Len(s) : s[i] = g[t.root] /\ data[s[i]] = k
        <3> DEFINE n == g[t.root]
        <3>1. n \in H /\ data[n] = k
            BY <2>2, <2>3
        <3> HIDE DEF n
        <3>2. pos[n] + 1 \in 1 .. Len(s) /\ s[pos[n] + 1] = n
            BY <1>3, <1>4, <3>1
        <3> QED
            BY <3>1, <3>2 DEF n
    <2>4. ASSUME NEW i \in 1 .. Len(s), data[s[i]] = k PROVE g[t.root] # NULL
        <3>1. s[i] \in H /\ pos[s[i]] = i - 1
            BY <1>1, <1>2, EveryPlace
        <3>2. 0 <= i - 1 /\ i - 1 < Len(s)
            BY <1>2
        <3> QED
            BY <2>1, <2>2, <2>4, <3>1, <3>2
    <2> QED
        BY <1>6, <2>3, <2>4
<1> QED
    BY <1>13, <1>14

-----------------------------------------------------------------------------
(* A tree that holds the nodes of s in order.                              *)

\* Each node of s hangs in the tree and has one place in s.
LEMMA OrderedNodes ==
    ASSUME NEW t, Sound(t), NEW s, Orders(t, NULL, s)
    PROVE  /\ s \in Seq(Nodes) /\ Len(s) \in Nat
           /\ \A i \in 1 .. Len(s) : s[i] \in Nodes /\ s[i] # NULL /\ InTree(t, s[i])
           /\ \A i, j \in 1 .. Len(s) : s[i] = s[j] => i = j
           /\ t.root = NULL => s = <<>>
<1>1. PICK lo, pos, hi : Spread(t, NULL, s, lo, pos, hi)
    BY DEF Orders
<1>2. SoundBut(t, NULL, NULL) /\ s \in Seq(Nodes) /\ Len(s) \in Nat /\ (t.root = NULL => s = <<>>)
    BY <1>1 DEF Sound, Spread
<1>3. ASSUME NEW i \in 1 .. Len(s) PROVE s[i] \in Hanging(t, NULL) /\ pos[s[i]] = i - 1
    BY <1>1, <1>2, EveryPlace
<1>4. \A i \in 1 .. Len(s) : s[i] \in Nodes /\ s[i] # NULL /\ InTree(t, s[i])
    BY <1>3 DEF Hanging
<1>5. ASSUME NEW i \in 1 .. Len(s), NEW j \in 1 .. Len(s), s[i] = s[j] PROVE i = j
    <2>1. i - 1 = j - 1
        BY <1>3, <1>5
    <2> QED
        BY <1>2, <2>1
<1> QED
    BY <1>2, <1>4, <1>5

(* Every look-up finds what it is to find: iterating, size(), queryAt(),    *)
(* index(), and prev() of any node.                                        *)
LEMMA LookupsFind ==
    ASSUME NEW t, Sound(t), NEW s, Orders(t, NULL, s)
    PROVE  /\ Iterated(t) = s
           /\ SizeOf(t, t.root) = Len(s)
           /\ \A i \in 1 .. Len(s) :
                /\ QueryAt(t, i - 1) = s[i]
                /\ Index(t, s[i]) = i - 1
                /\ PrevOf(t, s[i]) = IF i = 1 THEN NULL ELSE s[i - 1]
<1>1. PICK lo, pos, hi : Spread(t, NULL, s, lo, pos, hi)
    BY DEF Orders
<1>2. SoundBut(t, NULL, NULL) /\ t \in Trees /\ Len(s) \in Nat
    BY <1>1 DEF Sound, SoundBut, Spread
<1>3. Iterated(t) = s
    BY IteratedIs
<1>4. SizeOf(t, t.root) = Len(s)
    <2>1. CASE t.root = NULL
        BY <1>1, <2>1 DEF Spread, SizeOf
    <2>2. CASE t.root # NULL
        <3>1. t.root \in Hanging(t, NULL) /\ lo[t.root] = 0 /\ hi[t.root] = Len(s)
            BY <1>1, <1>2, <2>2 DEF Spread, Trees, Pointers, Hanging, InTree
        <3>2. t.size[t.root] = hi[t.root] - lo[t.root]
            BY <1>1, <3>1, SizesSpan
        <3> QED
            BY <1>2, <2>2, <3>1, <3>2 DEF SizeOf
    <2> QED
        BY <2>1, <2>2
<1>5. ASSUME NEW i \in 1 .. Len(s)
      PROVE  /\ QueryAt(t, i - 1) = s[i]
             /\ Index(t, s[i]) = i - 1
             /\ PrevOf(t, s[i]) = IF i = 1 THEN NULL ELSE s[i - 1]
    <2>1. s[i] \in Hanging(t, NULL) /\ pos[s[i]] = i - 1
        BY <1>1, <1>2, EveryPlace
    <2>2. i - 1 \in Nat /\ i - 1 < Len(s) /\ (i - 1) + 1 = i /\ (i - 1 = 0 <=> i = 1)
        BY <1>2
    <2>3. QueryAt(t, i - 1) = s[(i - 1) + 1]
        BY <1>1, <2>2, QueryAtIs
    <2>4. Index(t, s[i]) = pos[s[i]]
        BY <1>1, <2>1, IndexIs
    <2>5. PrevOf(t, s[i]) = IF pos[s[i]] = 0 THEN NULL ELSE s[pos[s[i]]]
        BY <1>1, <2>1, PrevIs
    <2> QED
        BY <2>1, <2>2, <2>3, <2>4, <2>5
<1> QED
    BY <1>3, <1>4, <1>5
==============================================================================

--------------------------- MODULE ContainerProofs ---------------------------
(***************************************************************************)
(* For any number of nodes, any keys and any sequence of calls, the links  *)
(* and the sizes of the tree of a Container agree after every step, the    *)
(* tree holds its nodes in order, its look-ups agree with its iterators,   *)
(* and it is the list that SortedList promises.                            *)
(***************************************************************************)
EXTENDS Container, BinTreeProofs

-----------------------------------------------------------------------------
(* The inductive invariant.                                                *)

\* The tree is in order but for the node being inserted and the counts under way.
InOrder == SoundBut(t, Excess, IF pc = "descend" THEN node ELSE NULL)

\* The node that exists and hangs nowhere: being inserted, or removed last.
Detached ==
    IF node # NULL /\ ~(pc = "balance" /\ request[1] = "add") THEN {node} ELSE {}

\* Every other node hangs in the tree exactly when it exists.
HangsWhenExists ==
    \A n \in Nodes :
        IF n \in Detached THEN data[n] # NULL /\ (pc # "descend" => ~InTree(t, n))
        ELSE InTree(t, n) <=> data[n] # NULL

\* insert() stands on the side of the parent it has noted where the key belongs.
StandsBelowParent ==
    pc = "descend" =>
        /\ t.parent[node] = NULL => iter = t.root
        /\ t.parent[node] # NULL =>
            LET p == t.parent[node]
            IN  /\ p # node /\ t.root # NULL /\ InTree(t, p)
                /\ iter = IF data[node] < data[p] THEN t.left[p] ELSE t.right[p]

\* What the variables of insert() and remove() hold in the phases of a call.
Phases ==
    /\ pc \in {"idle", "clear"} => node = NULL /\ removing = <<>>
    /\ pc = "descend" => node \in Nodes /\ request[1] = "add" /\ removing = <<>>
    /\ pc \in {"find", "walk"} => node = NULL
    /\ pc \in {"find", "walk", "replace"} => removing # <<>>
    /\ pc \in {"clear", "find", "walk", "replace", "count"} => request[1] # "add"
    /\ pc \in {"count", "balance"} => node \in Nodes
    /\ pc = "balance" /\ request[1] = "add" => removing = <<>>

\* The nodes whose removal has begun still hang in the tree, each once on the stack.
StackHangs ==
    /\ \A i \in 1 .. Len(removing) : InTree(t, removing[i])
    /\ \A i, j \in 1 .. Len(removing) : i # j => removing[i] # removing[j]

\* remove() looks for the replacement further and further down.
Downwards ==
    /\ pc = "find" =>
        \A i \in 1 .. Len(removing) - 1 : t.size[Innermost] < t.size[removing[i]]
    /\ pc = "walk" =>
        /\ iter \in Nodes /\ t.parent[iter] # NULL
        /\ \A i \in 1 .. Len(removing) : t.size[iter] < t.size[removing[i]]
    /\ pc = "replace" /\ node = NULL => t.left[Innermost] = NULL /\ t.right[Innermost] = NULL

\* insert() leaves balancing() at the root, and not before the root is balanced.
Climbed ==
    pc = "balance" /\ request[1] = "add" =>
        /\ iter # NULL => InTree(t, iter)
        /\ iter = NULL => t.root # NULL /\ BalancedAt(t, t.root)

IInv ==
    /\ TypeOK /\ InOrder /\ HangsWhenExists /\ StandsBelowParent
    /\ Phases /\ StackHangs /\ Downwards /\ Climbed

-----------------------------------------------------------------------------
(* Every action preserves it.                                              *)

\* InsertRoot.
LEMMA InsertRootKeeps == ASSUME IInv, InsertRoot PROVE IInv'
  <1> USE DEF IInv
  <1>1. pc = "descend" /\ node \in Nodes /\ data[node] # NULL /\ removing = <<>>
    BY NodesAssumption DEF InsertRoot, Phases, HangsWhenExists, Detached
  <1>2. t.parent[node] = NULL /\ t' = [t EXCEPT !.root = node]
    BY <1>1 DEF InsertRoot, StandsBelowParent
  <1>3. SoundBut(t, NULL, node)
    BY <1>1, <1>2 DEF InOrder, Excess
  <1>4. /\ Sound(t') /\ InTree(t', node)
        /\ \A n \in Nodes \ {node} : InTree(t', n) <=> InTree(t, n)
    BY <1>1, <1>2, <1>3, RootSound DEF InsertRoot
  <1>5. /\ pc' = "idle" /\ node' = NULL /\ iter' = NULL /\ removing' = <<>> /\ data' = data
        /\ shrunk' = shrunk
    BY DEF InsertRoot, Return, TypeOK
  <1>6. TypeOK'
    BY <1>4, <1>5 DEF TypeOK, Sound, SoundBut, Pointers
  <1>7. InOrder'
    BY <1>4, <1>5 DEF InOrder, Excess, Sound
  <1>8. HangsWhenExists'
    BY <1>1, <1>4, <1>5 DEF HangsWhenExists, Detached
  <1>9. StandsBelowParent' /\ Phases' /\ StackHangs' /\ Downwards' /\ Climbed'
    BY <1>5 DEF StandsBelowParent, Phases, StackHangs, Downwards, Climbed
  <1> QED
    BY <1>6, <1>7, <1>8, <1>9

LEMMA InitIInv == Init => IInv
  <1> SUFFICES ASSUME Init PROVE IInv
    OBVIOUS
  <1>1. Sound(t) /\ \A n \in Nodes : ~InTree(t, n)
    BY EmptySound DEF Init
  <1>2. TypeOK
    <2>1. t \in Trees
      BY <1>1 DEF Sound, SoundBut
    <2>2. data \in [Nodes -> Keys \cup {NULL}]
      BY DEF Init
    <2> QED
      BY <2>1, <2>2, EmptySeq DEF Init, TypeOK, Pointers
  <1>3. InOrder
    BY <1>1 DEF Init, InOrder, Excess, Sound
  <1>4. HangsWhenExists
    BY <1>1 DEF Init, HangsWhenExists, Detached
  <1>5. StandsBelowParent /\ Phases /\ StackHangs /\ Downwards /\ Climbed
    BY DEF Init, StandsBelowParent, Phases, StackHangs, Downwards, Climbed
  <1> QED
    BY <1>2, <1>3, <1>4, <1>5 DEF IInv

\* Add: the new node is loose, and insert() begins at the root.
LEMMA AddKeeps == ASSUME IInv, NEW k \in Keys, Add(k) PROVE IInv'
  <1> USE DEF IInv
  <1> DEFINE n == CHOOSE m \in Free : TRUE
  <1>1. n \in Nodes /\ data[n] = NULL /\ pc = "idle"
    BY DEF Add, Free, Called
  <1>2. /\ data' = [data EXCEPT ![n] = k] /\ node' = n /\ iter' = t.root /\ pc' = "descend"
        /\ t' = t /\ removing' = removing /\ shrunk' = shrunk
    BY DEF Add
  <1>3. request'[1] = "add"
    BY DEF Add, Called
  <1> HIDE DEF n
  <1>4. removing = <<>> /\ Detached = {}
    BY <1>1 DEF Phases, Detached
  <1>5. Sound(t) /\ ~InTree(t, n)
    BY <1>1, <1>4 DEF InOrder, Excess, Sound, HangsWhenExists
  <1>6. SoundBut(t, NULL, n) /\ t.parent[n] = NULL
    BY <1>1, <1>5, LooseNode
  <1>7. n # NULL /\ k # NULL
    BY <1>1, NodesAssumption, KeysAssumption
  <1>8. TypeOK'
    BY <1>1, <1>2, <1>5, Fields DEF TypeOK, Pointers
  <1>9. InOrder'
    BY <1>2, <1>6 DEF InOrder, Excess
  <1>10. HangsWhenExists'
    BY <1>2, <1>1, <1>4, <1>7 DEF HangsWhenExists, Detached, TypeOK
  <1>11. StandsBelowParent'
    BY <1>2, <1>6 DEF StandsBelowParent
  <1>12. Phases' /\ StackHangs' /\ Downwards' /\ Climbed'
    BY <1>1, <1>2, <1>3, <1>4 DEF Phases, StackHangs, Downwards, Climbed
  <1> QED
    BY <1>8, <1>9, <1>10, <1>11, <1>12

\* RemoveAt and RemoveKey: only a node that exists, and so hangs in the tree, is removed.
LEMMA RemoveKeeps ==
    ASSUME IInv, NEW n \in Nodes \ Free, NEW what, what[1] # "add", Remove(n, what)
    PROVE  IInv'
  <1> USE DEF IInv
  <1>1. pc = "idle" /\ node = NULL /\ data[n] # NULL
    BY DEF Remove, Called, Free, Phases
  <1>2. /\ t' = t /\ data' = data /\ node' = NULL /\ iter' = iter /\ pc' = "find"
        /\ removing' = <<n>> /\ request' = what /\ shrunk' = TRUE
    BY <1>1 DEF Remove, Called
  <1>3. Sound(t) /\ InTree(t, n) /\ Detached = {}
    BY <1>1 DEF InOrder, Excess, Sound, HangsWhenExists, Detached
  <1>4. removing' \in Seq(Nodes) /\ Len(removing') = 1 /\ removing'[1] = n
    BY <1>2
  <1>5. TypeOK'
    BY <1>2, <1>4 DEF TypeOK, Pointers
  <1>6. InOrder' /\ HangsWhenExists'
    BY <1>2, <1>3 DEF InOrder, Excess, Sound, HangsWhenExists, Detached
  <1>7. StandsBelowParent' /\ Phases'
    BY <1>2 DEF StandsBelowParent, Phases
  <1>8. StackHangs' /\ Downwards' /\ Climbed'
    BY <1>2, <1>3, <1>4 DEF StackHangs, Downwards, Climbed
  <1> QED
    BY <1>5, <1>6, <1>7, <1>8

LEMMA ClearKeeps == ASSUME IInv, Clear PROVE IInv'
  <1> USE DEF IInv
  <1>1. pc = "idle" /\ pc' = "clear" /\ UNCHANGED <<t, data, node, iter, removing, shrunk>>
        /\ request'[1] = "clear"
    BY DEF Clear, Called
  <1>2. TypeOK' /\ InOrder'
    BY <1>1 DEF TypeOK, InOrder, Excess
  <1>3. HangsWhenExists'
    BY <1>1 DEF HangsWhenExists, Detached, Phases
  <1>4. StandsBelowParent' /\ Phases' /\ StackHangs' /\ Downwards' /\ Climbed'
    BY <1>1 DEF StandsBelowParent, Phases, StackHangs, Downwards, Climbed
  <1> QED
    BY <1>2, <1>3, <1>4

LEMMA ClearAllKeeps == ASSUME IInv, ClearAll PROVE IInv'
  <1>1. /\ t' = EmptyTree /\ pc' = "idle" /\ node' = NULL /\ iter' = NULL /\ removing' = <<>>
        /\ shrunk' = FALSE /\ data' = [n \in Nodes |-> NULL]
    BY DEF ClearAll, Return
  <1>2. Sound(t') /\ \A n \in Nodes : ~InTree(t', n)
    BY <1>1, EmptySound
  <1>3. TypeOK'
    <2>1. t' \in Trees
      BY <1>2 DEF Sound, SoundBut
    <2>2. data' \in [Nodes -> Keys \cup {NULL}]
      BY <1>1
    <2> QED
      BY <1>1, <2>1, <2>2, EmptySeq DEF TypeOK, Pointers
  <1>4. InOrder' /\ HangsWhenExists'
    BY <1>1, <1>2 DEF InOrder, Excess, Sound, HangsWhenExists, Detached
  <1>5. StandsBelowParent' /\ Phases' /\ StackHangs' /\ Downwards' /\ Climbed'
    BY <1>1 DEF StandsBelowParent, Phases, StackHangs, Downwards, Climbed
  <1> QED
    BY <1>3, <1>4, <1>5 DEF IInv

\* InsertDescend.
LEMMA InsertDescendKeeps == ASSUME IInv, InsertDescend PROVE IInv'
  <1> USE DEF IInv
  <1>1. pc = "descend" /\ iter \in Nodes /\ node \in Nodes /\ removing = <<>>
        /\ request[1] = "add" /\ data[node] # NULL
    BY NodesAssumption DEF InsertDescend, Phases, TypeOK, Pointers, HangsWhenExists, Detached
  <1>2. /\ t' = Descend(t, node, iter)
        /\ iter' = IF data[node] < data[iter] THEN t.left[iter] ELSE t.right[iter]
        /\ UNCHANGED <<data, pc, node, removing, request, before, shrunk>>
    BY DEF InsertDescend
  <1>3. t \in Trees /\ SoundBut(t, t.parent[node], node)
    BY <1>1 DEF TypeOK, InOrder, Excess
  <1>4. t.parent[node] \in Pointers
    BY <1>1, <1>3, Fields
  <1>5. \/ t.parent[node] = NULL /\ iter = t.root
        \/ /\ t.parent[node] \in Nodes /\ t.parent[node] # node /\ t.root # NULL
           /\ iter = t.left[t.parent[node]] \/ iter = t.right[t.parent[node]]
    BY <1>1, <1>4 DEF StandsBelowParent, Pointers
  <1>6. /\ SoundBut(t', iter, node)
        /\ t'.parent[node] = iter /\ iter # node
        /\ t'.root = t.root /\ t'.left = t.left /\ t'.right = t.right
        /\ InTree(t', iter)
        /\ \A n \in Nodes \ {node} : InTree(t', n) <=> InTree(t, n)
    BY <1>1, <1>2, <1>3, <1>5, DescendSound
  <1>7. t' \in Trees /\ iter' \in Pointers /\ t.root # NULL
    BY <1>1, <1>2, <1>3, <1>5, <1>6, Fields, NodesAssumption DEF SoundBut
  <1>8. TypeOK'
    BY <1>2, <1>7 DEF TypeOK
  <1>9. InOrder'
    BY <1>1, <1>2, <1>6 DEF InOrder, Excess
  <1>10. HangsWhenExists'
    BY <1>1, <1>2, <1>6, NodesAssumption DEF HangsWhenExists, Detached
  <1>11. StandsBelowParent'
    BY <1>1, <1>2, <1>6, <1>7, NodesAssumption DEF StandsBelowParent
  <1>12. Phases' /\ StackHangs' /\ Downwards' /\ Climbed'
    BY <1>1, <1>2 DEF Phases, StackHangs, Downwards, Climbed
  <1> QED
    BY <1>8, <1>9, <1>10, <1>11, <1>12

\* InsertAttach.
LEMMA InsertAttachKeeps == ASSUME IInv, InsertAttach PROVE IInv'
  <1> USE DEF IInv
  <1> DEFINE p == t.parent[node]
             left == data[node] < data[p]
  <1>1. pc = "descend" /\ iter = NULL /\ t.root # NULL /\ node \in Nodes /\ removing = <<>>
        /\ request[1] = "add" /\ data[node] # NULL
    BY NodesAssumption DEF InsertAttach, Phases, HangsWhenExists, Detached
  <1>2. /\ t' = Attach(t, node, left) /\ iter' = node /\ pc' = "balance"
        /\ UNCHANGED <<data, node, removing, request, before, shrunk>>
    BY DEF InsertAttach
  <1>3. t \in Trees /\ SoundBut(t, p, node)
    BY <1>1 DEF TypeOK, InOrder, Excess
  <1>4. /\ p \in Nodes /\ p # node /\ InTree(t, p)
        /\ (IF left THEN t.left[p] ELSE t.right[p]) = NULL
    BY <1>1, <1>3, Fields DEF StandsBelowParent, Pointers
  <1>5. left \in BOOLEAN
    OBVIOUS
  <1> HIDE DEF left
  <1>6. /\ Sound(t') /\ InTree(t', node)
        /\ \A n \in Nodes \ {node} : InTree(t', n) <=> InTree(t, n)
    BY <1>1, <1>2, <1>3, <1>4, <1>5, AttachSound
  <1>7. t' \in Trees
    BY <1>6 DEF Sound, SoundBut
  <1>8. TypeOK'
    BY <1>1, <1>2, <1>7 DEF TypeOK, Pointers
  <1>9. InOrder'
    BY <1>2, <1>6 DEF InOrder, Excess, Sound
  <1>10. HangsWhenExists'
    BY <1>1, <1>2, <1>6 DEF HangsWhenExists, Detached
  <1>11. StandsBelowParent' /\ Phases' /\ StackHangs' /\ Downwards' /\ Climbed'
    BY <1>1, <1>2, <1>6, NodesAssumption
    DEF StandsBelowParent, Phases, StackHangs, Downwards, Climbed
  <1> QED
    BY <1>8, <1>9, <1>10, <1>11

LEMMA BalanceKeeps == ASSUME IInv, Balance PROVE IInv'
  <1> USE DEF IInv
  <1>1. pc = "balance" /\ iter \in Nodes
    BY DEF Balance, TypeOK, Pointers
  <1>2. /\ t' = BalanceAt(t, iter) /\ iter' = t'.parent[iter]
        /\ UNCHANGED <<data, pc, node, removing, request, before, shrunk>>
    BY DEF Balance
  <1>3. Sound(t)
    BY <1>1 DEF InOrder, Excess, Sound
  <1>4. /\ Sound(t') /\ \A n \in Nodes : InTree(t', n) <=> InTree(t, n)
        /\ iter' = NULL => t' = t /\ BalancedAt(t, iter)
    BY <1>1, <1>2, <1>3, BalanceAtSound DEF BalancedAt
  <1>5. t' \in Trees /\ iter' \in Pointers
    BY <1>1, <1>2, <1>4, Fields DEF Sound, SoundBut
  <1>6. TypeOK'
    BY <1>2, <1>5 DEF TypeOK
  <1>7. InOrder'
    BY <1>1, <1>2, <1>4 DEF InOrder, Excess, Sound
  <1>8. HangsWhenExists'
    BY <1>1, <1>2, <1>4 DEF HangsWhenExists, Detached
  <1>9. StackHangs'
    BY <1>2, <1>4 DEF StackHangs, TypeOK
  <1>10. StandsBelowParent' /\ Phases' /\ Downwards'
    BY <1>1, <1>2 DEF StandsBelowParent, Phases, Downwards
  <1>11. Climbed'
    <2> SUFFICES ASSUME request[1] = "add"
                 PROVE  /\ iter' # NULL => InTree(t', iter')
                        /\ iter' = NULL => t'.root # NULL /\ BalancedAt(t', t'.root)
      BY <1>2 DEF Climbed
    <2>1. iter # NULL /\ InTree(t, iter)
      BY <1>1, NodesAssumption DEF Climbed
    <2>2. ASSUME iter' # NULL PROVE InTree(t', iter')
      <3>1. InTree(t', iter) /\ iter' \in Nodes /\ t'.parent[iter] = iter'
        BY <1>1, <1>2, <1>4, <1>5, <2>1, <2>2 DEF Pointers
      <3> QED
        BY <1>1, <1>4, <2>2, <3>1, ParentInTree
    <2>3. ASSUME iter' = NULL PROVE t'.root # NULL /\ BalancedAt(t', t'.root)
      BY <1>2, <1>4, <2>1, <2>3 DEF InTree
    <2> QED
      BY <2>2, <2>3
  <1> QED
    BY <1>6, <1>7, <1>8, <1>9, <1>10, <1>11

\* While anything is being removed, the innermost node is one of the tree.
LEMMA InnermostHangs ==
    ASSUME IInv, removing # <<>>
    PROVE  /\ Len(removing) \in Nat \ {0}
           /\ \A i \in 1 .. Len(removing) : removing[i] \in Nodes
           /\ Innermost \in Nodes /\ InTree(t, Innermost)
  <1> USE DEF IInv
  <1>1. Len(removing) \in Nat \ {0}
    BY EmptySeq DEF TypeOK
  <1>2. \A i \in 1 .. Len(removing) : removing[i] \in Nodes
    BY ElementOfSeq DEF TypeOK
  <1> QED
    BY <1>1, <1>2 DEF Innermost, StackHangs

LEMMA FindReplacementKeeps == ASSUME IInv, FindReplacement PROVE IInv'
  <1> USE DEF IInv
  <1> DEFINE x == Innermost
             below == IF t.left[x] # NULL THEN t.left[x] ELSE t.right[x]
  <1>1. /\ pc = "find" /\ node = NULL /\ removing # <<>> /\ request[1] # "add" /\ node' = NULL
        /\ pc' = (IF t.left[x] = NULL /\ t.right[x] = NULL THEN "replace" ELSE "walk")
        /\ iter' = below
        /\ UNCHANGED <<t, data, removing, request, before, shrunk>>
    BY DEF FindReplacement, Phases
  <1>2. Len(removing) \in Nat \ {0} /\ x \in Nodes
        /\ \A i \in 1 .. Len(removing) : removing[i] \in Nodes
    BY <1>1, InnermostHangs
  <1>3. t \in Trees /\ Sound(t)
    BY <1>1 DEF TypeOK, InOrder, Excess, Sound
  <1>4. below \in Pointers
    BY <1>2, <1>3, Fields
  <1>5. TypeOK'
    BY <1>1, <1>4 DEF TypeOK, Pointers
  <1>6. InOrder' /\ HangsWhenExists' /\ StackHangs'
    BY <1>1 DEF InOrder, Excess, HangsWhenExists, Detached, StackHangs
  <1>7. StandsBelowParent' /\ Phases' /\ Climbed'
    BY <1>1 DEF StandsBelowParent, Phases, Climbed
  <1>8. Downwards'
    <2>1. Innermost' = x
      BY <1>1 DEF Innermost
    <2>2. CASE t.left[x] = NULL /\ t.right[x] = NULL
      BY <1>1, <2>1, <2>2 DEF Downwards
    <2>3. CASE ~(t.left[x] = NULL /\ t.right[x] = NULL)
      <3>1. below \in Nodes /\ t.size[below] < t.size[x] /\ t.parent[below] = x
        BY <1>2, <1>3, <2>3, ChildIsSmaller DEF Sound, SoundBut, ChildrenPoint
      <3>2. \A i \in 1 .. Len(removing) : t.size[removing[i]] \in Nat
        BY <1>2, <1>3, Fields
      <3>3. t.size[below] \in Nat /\ t.size[x] \in Nat
        BY <1>2, <1>3, <3>1, Fields
      <3>4. \A i \in 1 .. Len(removing) - 1 : t.size[x] < t.size[removing[i]]
        BY <1>1 DEF Downwards
      <3>5. \A i \in 1 .. Len(removing) : t.size[below] < t.size[removing[i]]
        BY <1>2, <3>1, <3>2, <3>3, <3>4 DEF Innermost
      <3>6. x # NULL
        BY <1>2, NodesAssumption
      <3> QED
        BY <1>1, <2>3, <3>1, <3>5, <3>6 DEF Downwards
    <2> QED
      BY <2>2, <2>3
  <1> QED
    BY <1>5, <1>6, <1>7, <1>8

LEMMA WalkKeeps == ASSUME IInv, Walk PROVE IInv'
  <1> USE DEF IInv
  <1>1. /\ pc = "walk" /\ Further # NULL /\ iter' = Further /\ removing # <<>>
        /\ UNCHANGED <<t, data, pc, node, removing, request, before, shrunk>>
    BY DEF Walk, Phases
  <1>2. /\ iter \in Nodes /\ \A i \in 1 .. Len(removing) : removing[i] \in Nodes
        /\ \A i \in 1 .. Len(removing) : t.size[iter] < t.size[removing[i]]
    BY <1>1, InnermostHangs DEF Downwards
  <1>3. t \in Trees /\ Sound(t)
    BY <1>1 DEF TypeOK, InOrder, Excess, Sound
  <1>4. Further = t.left[iter] \/ Further = t.right[iter]
    BY DEF Further
  <1>5. Further \in Nodes /\ t.size[Further] < t.size[iter] /\ t.parent[Further] = iter
    BY <1>1, <1>2, <1>3, <1>4, ChildIsSmaller DEF Sound, SoundBut, ChildrenPoint
  <1>6. t.size[Further] \in Nat /\ t.size[iter] \in Nat
        /\ \A i \in 1 .. Len(removing) : t.size[removing[i]] \in Nat
    BY <1>2, <1>3, <1>5, Fields
  <1>7. \A i \in 1 .. Len(removing) : t.size[Further] < t.size[removing[i]]
    BY <1>2, <1>5, <1>6
  <1>8. TypeOK'
    BY <1>1, <1>5 DEF TypeOK, Pointers
  <1>9. InOrder' /\ HangsWhenExists' /\ StackHangs'
    BY <1>1 DEF InOrder, Excess, HangsWhenExists, Detached, StackHangs
  <1>10. Phases' /\ StandsBelowParent' /\ Climbed'
    BY <1>1 DEF Phases, StandsBelowParent, Climbed
  <1>11. Downwards'
    BY <1>1, <1>2, <1>5, <1>7, NodesAssumption DEF Downwards
  <1> QED
    BY <1>8, <1>9, <1>10, <1>11

\* RemoveNeighbour: smaller than all on the stack, the replacement is not among them.
LEMMA RemoveNeighbourKeeps == ASSUME IInv, RemoveNeighbour PROVE IInv'
  <1> USE DEF IInv
  <1>1. /\ pc = "walk" /\ pc' = "find" /\ iter' = NULL /\ removing' = Append(removing, iter)
        /\ removing # <<>> /\ node = NULL /\ request[1] # "add"
        /\ UNCHANGED <<t, data, node, request, before, shrunk>>
    BY DEF RemoveNeighbour, Phases
  <1>2. /\ iter \in Nodes /\ t.parent[iter] # NULL
        /\ \A i \in 1 .. Len(removing) : t.size[iter] < t.size[removing[i]]
    BY <1>1 DEF Downwards
  <1>3. /\ Len(removing) \in Nat \ {0}
        /\ \A i \in 1 .. Len(removing) : removing[i] \in Nodes
    BY <1>1, InnermostHangs
  <1>4. /\ removing' \in Seq(Nodes) /\ removing' # <<>> /\ Len(removing') = Len(removing) + 1
        /\ \A i \in 1 .. Len(removing) : removing'[i] = removing[i]
        /\ removing'[Len(removing) + 1] = iter
    BY <1>1, <1>2, AppendProperties DEF TypeOK
  <1>5. TypeOK'
    BY <1>1, <1>4 DEF TypeOK, Pointers
  <1>6. InOrder' /\ HangsWhenExists'
    BY <1>1 DEF InOrder, Excess, HangsWhenExists, Detached
  <1>7. Phases' /\ StandsBelowParent' /\ Climbed'
    BY <1>1, <1>4 DEF Phases, StandsBelowParent, Climbed
  <1>8. StackHangs'
    <2>1. \A i \in 1 .. Len(removing) : removing[i] # iter
      <3> SUFFICES ASSUME NEW i \in 1 .. Len(removing), removing[i] = iter PROVE FALSE
        OBVIOUS
      <3>1. t.size[iter] \in Nat
        BY <1>2, Fields DEF TypeOK
      <3> QED
        BY <1>2, <3>1
    <2>2. InTree(t, iter)
      BY <1>2 DEF InTree
    <2>3. t' = t
      BY <1>1
    <2> QED
      BY <1>3, <1>4, <2>1, <2>2, <2>3 DEF StackHangs
  <1>9. Innermost' = iter
    BY <1>4 DEF Innermost
  <1>10. Downwards'
    BY <1>1, <1>2, <1>3, <1>4, <1>9 DEF Downwards
  <1> QED
    BY <1>5, <1>6, <1>7, <1>8, <1>10

\* ReplaceNode: of the removed node and the replacement one leaves the tree, the
\* other comes back; without a replacement the counts above the leaf are to follow.
LEMMA ReplaceNodeKeeps == ASSUME IInv, ReplaceNode PROVE IInv'
  <1> USE DEF IInv
  <1> DEFINE x == Innermost
             k == Len(removing)
  <1>1. /\ pc = "replace" /\ removing # <<>> /\ request[1] # "add" /\ node' = x
        /\ t' = Replace(t, x, node)
        /\ iter' = (IF node = NULL THEN t.parent[x] ELSE node)
        /\ pc' = (IF node = NULL THEN "count" ELSE "balance")
        /\ removing' = SubSeq(removing, 1, k - 1)
        /\ UNCHANGED <<data, request, before, shrunk>>
    BY DEF ReplaceNode, Phases
  <1>2. /\ k \in Nat \ {0} /\ x \in Nodes /\ InTree(t, x)
        /\ \A i \in 1 .. k : removing[i] \in Nodes
    BY <1>1, InnermostHangs
  <1>3. t \in Trees /\ Sound(t) /\ node \in Pointers
    BY <1>1 DEF TypeOK, InOrder, Excess, Sound
  <1>4. /\ removing' \in Seq(Nodes) /\ Len(removing') = k - 1
        /\ \A i \in 1 .. k - 1 : removing'[i] = removing[i]
    <2>1. \A i \in 1 .. k - 1 : removing[i] \in Nodes
      BY <1>2
    <2>2. 1 \in Int /\ k - 1 \in Int
      BY <1>2
    <2> HIDE DEF k
    <2> QED
      BY <1>1, <1>2, <2>1, <2>2, SubSeqProperties
  <1>5. /\ \A i \in 1 .. k - 1 : removing[i] # x /\ InTree(t, removing[i])
        /\ \A i, j \in 1 .. k - 1 : i # j => removing[i] # removing[j]
    BY <1>2 DEF StackHangs, Innermost
  <1>6. Detached = IF node = NULL THEN {} ELSE {node}
    BY <1>1 DEF Detached
  <1>7. Detached' = {x}
    BY <1>1, <1>2, NodesAssumption DEF Detached
  <1>8. x \notin Detached /\ data[x] # NULL
    BY <1>1, <1>2, <1>6 DEF HangsWhenExists
  <1>9. CASE node = NULL
    <2>1. t.left[x] = NULL /\ t.right[x] = NULL
      BY <1>1, <1>9 DEF Downwards
    <2>2. /\ SoundBut(t', t.parent[x], NULL) /\ ~InTree(t', x)
          /\ \A n \in Nodes \ {x} : InTree(t', n) <=> InTree(t, n)
      BY <1>1, <1>2, <1>3, <1>9, <2>1, ReplaceLeafSound
    <2>3. t' \in Trees /\ t.parent[x] \in Pointers
      BY <1>2, <1>3, <2>2, Fields DEF SoundBut
    <2>4. TypeOK'
      BY <1>1, <1>2, <1>4, <1>9, <2>3 DEF TypeOK, Pointers
    <2>5. InOrder'
      BY <1>1, <1>9, <2>2 DEF InOrder, Excess
    <2>6. HangsWhenExists'
      BY <1>1, <1>6, <1>7, <1>8, <1>9, <2>2 DEF HangsWhenExists
    <2>7. StackHangs'
      BY <1>2, <1>4, <1>5, <2>2 DEF StackHangs
    <2>8. StandsBelowParent' /\ Phases' /\ Downwards' /\ Climbed'
      BY <1>1, <1>2, <1>9 DEF StandsBelowParent, Phases, Downwards, Climbed
    <2> QED
      BY <2>4, <2>5, <2>6, <2>7, <2>8
  <1>10. CASE node # NULL
    <2>1. node \in Nodes /\ ~InTree(t, node) /\ node # x /\ data[node] # NULL
      BY <1>1, <1>3, <1>6, <1>8, <1>10 DEF HangsWhenExists, Pointers
    <2>2. /\ Sound(t') /\ ~InTree(t', x) /\ InTree(t', node)
          /\ \A n \in Nodes \ {x, node} : InTree(t', n) <=> InTree(t, n)
      BY <1>1, <1>2, <1>3, <2>1, ReplaceSound
    <2>3. t' \in Trees
      BY <2>2 DEF Sound, SoundBut
    <2>4. TypeOK'
      BY <1>1, <1>2, <1>3, <1>4, <1>10, <2>3 DEF TypeOK, Pointers
    <2>5. InOrder'
      BY <1>1, <1>10, <2>2 DEF InOrder, Excess, Sound
    <2>6. HangsWhenExists'
      BY <1>1, <1>6, <1>7, <1>8, <2>1, <2>2 DEF HangsWhenExists
    <2>7. StackHangs'
      <3>1. \A i \in 1 .. k - 1 : removing[i] \in Nodes \ {x, node}
        BY <1>2, <1>5, <2>1
      <3> QED
        BY <1>4, <1>5, <2>2, <3>1 DEF StackHangs
    <2>8. StandsBelowParent' /\ Phases' /\ Downwards' /\ Climbed'
      BY <1>1, <1>2, <1>10 DEF StandsBelowParent, Phases, Downwards, Climbed
    <2> QED
      BY <2>4, <2>5, <2>6, <2>7, <2>8
  <1> QED
    BY <1>9, <1>10

LEMMA CountKeeps == ASSUME IInv, Count PROVE IInv'
  <1> USE DEF IInv
  <1>1. /\ pc = "count" /\ iter \in Nodes
        /\ t' = [t EXCEPT !.size[iter] = @ - 1] /\ iter' = t.parent[iter]
        /\ UNCHANGED <<data, pc, node, removing, request, before, shrunk>>
    BY DEF Count, TypeOK, Pointers
  <1>2. t \in Trees /\ SoundBut(t, iter, NULL)
    BY <1>1 DEF TypeOK, InOrder, Excess
  <1>3. SoundBut(t', iter', NULL) /\ \A n \in Nodes : InTree(t', n) <=> InTree(t, n)
    BY <1>1, <1>2, CountSound
  <1>4. t' \in Trees /\ iter' \in Pointers
    BY <1>1, <1>2, <1>3, Fields DEF SoundBut
  <1>5. TypeOK'
    BY <1>1, <1>4 DEF TypeOK
  <1>6. InOrder'
    BY <1>1, <1>3 DEF InOrder, Excess
  <1>7. HangsWhenExists'
    BY <1>1, <1>3 DEF HangsWhenExists, Detached
  <1>8. StackHangs'
    BY <1>1, <1>3, ElementOfSeq DEF StackHangs, TypeOK
  <1>9. StandsBelowParent' /\ Phases' /\ Downwards' /\ Climbed'
    BY <1>1 DEF StandsBelowParent, Phases, Downwards, Climbed
  <1> QED
    BY <1>5, <1>6, <1>7, <1>8, <1>9

LEMMA CountedKeeps == ASSUME IInv, Counted PROVE IInv'
  <1> USE DEF IInv
  <1>1. /\ pc = "count" /\ iter = NULL /\ pc' = "balance" /\ request[1] # "add"
        /\ UNCHANGED <<t, data, node, iter, removing, request, before, shrunk>>
    BY DEF Counted, Phases
  <1>2. TypeOK' /\ InOrder' /\ HangsWhenExists' /\ StackHangs'
    BY <1>1 DEF TypeOK, InOrder, Excess, HangsWhenExists, Detached, StackHangs
  <1>3. StandsBelowParent' /\ Phases' /\ Downwards' /\ Climbed'
    BY <1>1 DEF StandsBelowParent, Phases, Downwards, Climbed
  <1> QED
    BY <1>2, <1>3

LEMMA BalancedInsertKeeps == ASSUME IInv, BalancedInsert PROVE IInv'
  <1> USE DEF IInv
  <1>1. /\ pc = "balance" /\ request[1] = "add" /\ removing = <<>>
        /\ pc' = "idle" /\ node' = NULL /\ iter' = NULL /\ removing' = <<>>
        /\ t' = t /\ data' = data /\ shrunk' = shrunk
    BY DEF BalancedInsert, Return, Phases, TypeOK
  <1>2. TypeOK' /\ InOrder' /\ HangsWhenExists'
    BY <1>1 DEF TypeOK, Pointers, InOrder, Excess, HangsWhenExists, Detached
  <1>3. StandsBelowParent' /\ Phases' /\ StackHangs' /\ Downwards' /\ Climbed'
    BY <1>1 DEF StandsBelowParent, Phases, StackHangs, Downwards, Climbed
  <1> QED
    BY <1>2, <1>3

LEMMA RemoveReturnsKeeps == ASSUME IInv, RemoveReturns PROVE IInv'
  <1> USE DEF IInv
  <1>1. /\ pc = "balance" /\ removing # <<>> /\ request[1] # "add" /\ pc' = "replace"
        /\ node \in Nodes
        /\ UNCHANGED <<t, data, node, iter, removing, request, before, shrunk>>
    BY DEF RemoveReturns, Phases
  <1>2. TypeOK' /\ InOrder' /\ HangsWhenExists' /\ StackHangs'
    BY <1>1 DEF TypeOK, InOrder, Excess, HangsWhenExists, Detached, StackHangs
  <1>3. StandsBelowParent' /\ Phases' /\ Downwards' /\ Climbed'
    BY <1>1, NodesAssumption DEF StandsBelowParent, Phases, Downwards, Climbed
  <1> QED
    BY <1>2, <1>3

\* DeleteNode: what is deleted hangs nowhere.
LEMMA DeleteNodeKeeps == ASSUME IInv, DeleteNode PROVE IInv'
  <1> USE DEF IInv
  <1>1. /\ pc = "balance" /\ removing = <<>> /\ request[1] # "add" /\ node \in Nodes
        /\ pc' = "idle" /\ node' = NULL /\ iter' = NULL /\ removing' = <<>> /\ t' = t
        /\ data' = [n \in Nodes |-> IF n = node THEN NULL ELSE data[n]]
        /\ shrunk' \in BOOLEAN
    BY DEF DeleteNode, Return, Phases, TypeOK
  <1>2. ~InTree(t, node)
    BY <1>1, NodesAssumption DEF HangsWhenExists, Detached
  <1>3. data' \in [Nodes -> Keys \cup {NULL}]
    BY <1>1 DEF TypeOK
  <1>4. TypeOK'
    BY <1>1, <1>3 DEF TypeOK, Pointers
  <1>5. InOrder' /\ HangsWhenExists'
    BY <1>1, <1>2 DEF InOrder, Excess, HangsWhenExists, Detached
  <1>6. StandsBelowParent' /\ Phases' /\ StackHangs' /\ Downwards' /\ Climbed'
    BY <1>1 DEF StandsBelowParent, Phases, StackHangs, Downwards, Climbed
  <1> QED
    BY <1>4, <1>5, <1>6

LEMMA NextIInv == IInv /\ [Next]_vars => IInv'
  <1> SUFFICES ASSUME IInv, [Next]_vars PROVE IInv'
    OBVIOUS
  <1>1. CASE Calls
    <2>1. ASSUME NEW k \in Keys, Add(k) PROVE IInv'
      BY <2>1, AddKeeps
    <2>2. ASSUME NEW k \in Keys, RemoveKey(k) PROVE IInv'
      <3>1. PICK n \in Nodes \ Free : Remove(n, <<"remove", k>>)
        BY <2>2 DEF RemoveKey
      <3>2. <<"remove", k>>[1] # "add"
        OBVIOUS
      <3> QED
        BY <3>1, <3>2, RemoveKeeps
    <2>3. ASSUME NEW i \in 0 .. SizeOf(t, t.root) - 1, RemoveAt(i) PROVE IInv'
      <3>1. PICK n \in Nodes \ Free : Remove(n, <<"removeAt", i>>)
        BY <2>3 DEF RemoveAt
      <3>2. <<"removeAt", i>>[1] # "add"
        OBVIOUS
      <3> QED
        BY <3>1, <3>2, RemoveKeeps
    <2> QED
      BY <1>1, <2>1, <2>2, <2>3, ClearKeeps DEF Calls
  <1>2. CASE Steps
    BY <1>2, ClearAllKeeps, InsertRootKeeps, InsertDescendKeeps, InsertAttachKeeps, BalanceKeeps,
       FindReplacementKeeps, WalkKeeps, RemoveNeighbourKeeps, ReplaceNodeKeeps, CountKeeps,
       CountedKeeps, BalancedInsertKeeps, RemoveReturnsKeeps, DeleteNodeKeeps
    DEF Steps
  <1>3. CASE UNCHANGED vars
    BY <1>3
    DEF vars, IInv, TypeOK, InOrder, Excess, HangsWhenExists, Detached, StandsBelowParent,
        Phases, StackHangs, Downwards, Innermost, Climbed, BalancedAt
  <1> QED
    BY <1>1, <1>2, <1>3 DEF Next

-----------------------------------------------------------------------------
\* csjp_bintree.h: the inductive invariant holds in every reachable state.
THEOREM ContainerInvariance == Spec => []IInv
  <1> QED
    BY InitIInv, NextIInv, PTL DEF Spec

\* csjp_bintree.h, csjp_container.h: every variable keeps its type; in particular
\* the size of a node never reaches zero, though every removal counts down.
THEOREM ContainerTypeCorrect == Spec => []TypeOK
  <1>1. IInv => TypeOK
    BY DEF IInv
  <1> QED
    BY <1>1, ContainerInvariance, PTL

\* csjp_bintree.h:650-655: for any tree and any sequence of calls a child names its
\* parent, no node is the child of two, and the root has no parent, after every step.
THEOREM LinksAlwaysAgree == Spec => []LinksAgree
  <1>1. ASSUME IInv PROVE LinksAgree
    <2> DEFINE d == IF pc = "descend" THEN node ELSE NULL
    <2>1. ChildrenPoint(t, d) /\ RootOnTop(t, d)
      BY <1>1 DEF IInv, InOrder, SoundBut
    <2> QED
      BY <2>1 DEF ChildrenPoint, RootOnTop, LinksAgree
  <1> QED
    BY <1>1, ContainerInvariance, PTL

\* csjp_bintree.h:637: for any tree and any sequence of calls a node counts its
\* subtree, and one more only at the step insert() or the count after a removal is at.
THEOREM SizesAlwaysAgree == Spec => []SizesAgree
  <1>1. ASSUME IInv PROVE SizesAgree
    <2>1. SizesAdd(t, Excess)
      BY <1>1 DEF IInv, InOrder, SoundBut
    <2> QED
      BY <2>1 DEF SizesAdd, SizesAgree
  <1> QED
    BY <1>1, ContainerInvariance, PTL

\* csjp_bintree.h, csjp_container.h: between calls the tree hangs together, and the
\* nodes that hang in it are exactly those that exist: none leaks, none dangles.
THEOREM NoneLeaks ==
    Spec => [](pc = "idle" => Sound(t) /\ \A n \in Nodes : InTree(t, n) <=> data[n] # NULL)
  <1>1. ASSUME IInv
        PROVE  pc = "idle" => Sound(t) /\ \A n \in Nodes : InTree(t, n) <=> data[n] # NULL
    BY <1>1 DEF IInv, InOrder, Excess, Sound, HangsWhenExists, Detached, Phases
  <1> QED
    BY <1>1, ContainerInvariance, PTL

\* csjp_bintree.h:303: for any tree, also one that removals have left out of balance,
\* add() returns with a balanced root.
THEOREM AddAlwaysBalancesTheRoot == Spec => AddBalancesTheRoot
  <1>1. ASSUME IInv, IInv', Next, request # NULL, request[1] = "add", request' = NULL
        PROVE  BalancedAt(t', t'.root)
    <2>1. CASE InsertRoot
      <3>1. pc = "descend" /\ node \in Nodes /\ t'.root = node /\ t'.left = t.left
            /\ t'.right = t.right /\ node # t.root
        BY <1>1, <2>1, NodesAssumption DEF InsertRoot, IInv, Phases, TypeOK, Trees
      <3>2. t.left[node] = NULL /\ t.right[node] = NULL
        BY <1>1, <3>1 DEF IInv, InOrder, SoundBut, OthersAlone
      <3>3. ~(0 * 2 + 1 < 0)
        OBVIOUS
      <3> QED
        BY <3>1, <3>2, <3>3 DEF BalancedAt, Outweighs, SizeOf
    <2>2. CASE BalancedInsert
      BY <1>1, <2>2 DEF BalancedInsert, IInv, Climbed
    <2>3. ~Calls
      BY <1>1 DEF Calls, Add, RemoveKey, RemoveAt, Remove, Clear, Called
    <2>4. ~ClearAll /\ ~DeleteNode
      BY <1>1 DEF ClearAll, DeleteNode, IInv, Phases
    <2>5. ~InsertDescend /\ ~InsertAttach /\ ~Balance /\ ~FindReplacement /\ ~Walk
          /\ ~RemoveNeighbour /\ ~ReplaceNode /\ ~Count /\ ~Counted /\ ~RemoveReturns
      BY <1>1 DEF InsertDescend, InsertAttach, Balance, FindReplacement, Walk, RemoveNeighbour,
                  ReplaceNode, Count, Counted, RemoveReturns
    <2> QED
      BY <1>1, <2>1, <2>2, <2>3, <2>4, <2>5 DEF Next, Steps
  <1>2. IInv /\ IInv' /\ [Next]_vars
        => [request # NULL /\ request[1] = "add" /\ request' = NULL
              => BalancedAt(t', t'.root)]_vars
    BY <1>1 DEF vars
  <1> QED
    BY <1>2, ContainerInvariance, PTL DEF Spec, AddBalancesTheRoot

-----------------------------------------------------------------------------
(* The inductive invariant of the order.                                   *)

\* The nodes of the entries before the call.
NodesBefore == [i \in 1 .. Len(before) |-> before[i][1]]

\* A remove() is under way.
Removing == pc \in {"find", "walk", "replace", "count"} \/ (pc = "balance" /\ request[1] # "add")

\* Who calls what: between calls there is no request, and insert() has the entry it was asked for.
Requested ==
    /\ pc = "idle" <=> request = NULL
    /\ pc = "clear" => request[1] = "clear"
    /\ (pc = "descend" \/ (pc = "balance" /\ request[1] = "add"))
         => request[1] = "add" /\ request[2] = Entry(node)
    /\ Removing => request[1] \in {"removeAt", "remove"}

\* Between calls the tree holds its nodes in the order of their keys.
IdleInOrder == pc = "idle" => Orders(t, NULL, Iterated(t)) /\ Sorted(Iterated(t), data)

\* The entries before the call were in that order too, and keep their keys during the call.
BeforeInOrder ==
    pc # "idle" =>
        /\ NodesBefore \in Seq(Nodes)
        /\ before = [i \in 1 .. Len(NodesBefore) |-> Entry(NodesBefore[i])]
        /\ Sorted(NodesBefore, data)
        /\ \A i, j \in 1 .. Len(NodesBefore) : NodesBefore[i] = NodesBefore[j] => i = j

\* The tree still holds the nodes it held before the call, ...
StillWhole ==
    pc \in {"clear", "find"} \/ (pc = "replace" /\ node = NULL) => Orders(t, NULL, NodesBefore)

\* ... or all of them but the node a remove() has taken out, ...
OneTakenOut ==
    pc = "count" \/ (pc \in {"replace", "balance"} /\ node # NULL /\ request[1] # "add") =>
        \E g \in 1 .. Len(NodesBefore) :
            NodesBefore[g] = node /\ Orders(t, NULL, Drop(NodesBefore, g))

\* A node n belongs after the first "lower" nodes of s and before those after "upper".
Belongs(s, d, n, lower, upper) ==
    /\ \A i \in 1 .. Len(s) : i <= lower => d[s[i]] <= d[n]
    /\ \A i \in 1 .. Len(s) : upper < i => d[n] < d[s[i]]

\* ... or the new node among them, after those with its key, ...
OnePutIn ==
    pc = "balance" /\ request[1] = "add" =>
        \E g \in 0 .. Len(NodesBefore) :
            Orders(t, NULL, Put(NodesBefore, g, node)) /\ Belongs(NodesBefore, data, node, g, g)

(* ... where insert() narrows the gaps down it can be put in to those below *)
(* the place it has come to.                                               *)
Narrowed(u, s, d, n, lo, pos, hi) ==
    /\ Spread(u, n, s, lo, pos, hi)
    /\ u.parent[n] # NULL =>
        LET p == u.parent[n]
        IN  IF d[n] < d[p] THEN Belongs(s, d, n, lo[p], pos[p])
            ELSE Belongs(s, d, n, pos[p] + 1, hi[p])

\* insert() is on its way down: some ranges of the tree narrow the gaps so.
Narrowing ==
    pc = "descend" => \E lo, pos, hi : Narrowed(t, NodesBefore, data, node, lo, pos, hi)

\* The removed nodes: those on the stack, and the one just taken out.
Held(i) == IF i <= Len(removing) THEN removing[i] ELSE node
\* How many they are.
Depth == IF node = NULL THEN Len(removing) ELSE Len(removing) + 1

\* From place c on, each of them is the neighbour of the one before.
Down(c) == \A i \in 1 .. Depth : i <= c /\ Held(i) = NodesBefore[c + 1 - i]
Up(c) ==
    \A i \in 1 .. Depth : c + i <= Len(NodesBefore) + 1 /\ Held(i) = NodesBefore[c + i - 1]

\* The node the client asked for is the first of them.
Asked(c) ==
    IF request[1] = "removeAt" THEN request[2] + 1 = c ELSE request[2] = data[NodesBefore[c]]

\* They go down from that place (left->last()) or up from it (right->first()).
Neighbours ==
    Removing =>
        \E c \in 1 .. Len(NodesBefore) :
            /\ Asked(c)
            /\ \/ /\ Down(c)
                  /\ pc = "find" /\ Len(removing) # 1 => t.right[Innermost] = NULL
                  /\ pc = "walk" => t.left[Innermost] # NULL
               \/ /\ Up(c)
                  /\ pc = "find" /\ Len(removing) # 1 => t.left[Innermost] = NULL
                  /\ pc = "walk" => t.left[Innermost] = NULL

\* prev() or next() is on its way to the neighbour: the place stays at the end of the range.
Walking ==
    pc = "walk" =>
        \E lo, pos, hi :
            /\ Spread(t, NULL, NodesBefore, lo, pos, hi)
            /\ IF t.left[Innermost] # NULL THEN hi[iter] = pos[Innermost]
               ELSE lo[iter] = pos[Innermost] + 1

\* The parts together.
ListInv ==
    /\ Requested /\ IdleInOrder /\ BeforeInOrder /\ StillWhole /\ OneTakenOut /\ OnePutIn
    /\ Narrowing /\ Neighbours /\ Walking

-----------------------------------------------------------------------------
(* Sequences of nodes and their entries.                                   *)

\* What the iterators show of the nodes s, with the keys d.
EntriesOf(s, d) == [i \in 1 .. Len(s) |-> <<s[i], d[s[i]]>>]

\* There are as many entries as nodes, and the nodes can be had back from them.
LEMMA EntriesSeq ==
    ASSUME NEW s \in Seq(Nodes), NEW d
    PROVE  /\ Len(EntriesOf(s, d)) = Len(s)
           /\ \A i \in 1 .. Len(s) : EntriesOf(s, d)[i] = <<s[i], d[s[i]]>>
           /\ [i \in 1 .. Len(EntriesOf(s, d)) |-> EntriesOf(s, d)[i][1]] = s
<1>1. Len(s) \in Nat /\ s = [i \in 1 .. Len(s) |-> s[i]]
    OBVIOUS
<1>2. EntriesOf(s, d) \in Seq({<<s[i], d[s[i]]>> : i \in 1 .. Len(s)}) /\ Len(EntriesOf(s, d)) = Len(s)
    BY <1>1 DEF EntriesOf
<1>3. \A i \in 1 .. Len(s) : EntriesOf(s, d)[i] = <<s[i], d[s[i]]>>
    BY DEF EntriesOf
<1> QED
    BY <1>1, <1>2, <1>3

\* A node put in where it belongs leaves the nodes in the order of their keys.
LEMMA PutSorted ==
    ASSUME NEW s \in Seq(Nodes), NEW d, Sorted(s, d), NEW n \in Nodes, d[n] \in Nat,
           NEW g \in 0 .. Len(s),
           \A i \in 1 .. Len(s) : i <= g => d[s[i]] <= d[n],
           \A i \in 1 .. Len(s) : g < i => d[n] < d[s[i]]
    PROVE  Sorted(Put(s, g, n), d)
<1> DEFINE w == Put(s, g, n)
           N == Len(s)
<1>1. N \in Nat /\ Len(w) = N + 1 /\ g \in Nat /\ g <= N
    BY PutSeq
<1>2. ASSUME NEW i \in 1 .. N + 1
      PROVE  /\ i <= g => w[i] = s[i] /\ i \in 1 .. N
             /\ i = g + 1 => w[i] = n
             /\ g + 1 < i => w[i] = s[i - 1] /\ i - 1 \in 1 .. N
    <2>1. w[i] = IF i <= g THEN s[i] ELSE IF i = g + 1 THEN n ELSE s[i - 1]
        BY DEF Put
    <2> HIDE DEF w, N
    <2> QED
        BY <1>1, <2>1
<1>3. /\ \A i \in 1 .. N : d[s[i]] \in Nat
      /\ \A i, j \in 1 .. N : i < j => d[s[i]] <= d[s[j]]
      /\ \A i \in 1 .. N : i <= g => d[s[i]] <= d[n]
      /\ \A i \in 1 .. N : g < i => d[n] < d[s[i]]
    BY DEF Sorted
<1> HIDE DEF w, N
<1>4. ASSUME NEW i \in 1 .. N + 1 PROVE d[w[i]] \in Nat
    BY <1>1, <1>2, <1>3
<1>5. ASSUME NEW i \in 1 .. N + 1, NEW j \in 1 .. N + 1, i < j PROVE d[w[i]] <= d[w[j]]
    <2>1. CASE j <= g
        <3>1. i <= g
            BY <1>1, <1>5, <2>1
        <3> QED
            BY <1>2, <1>3, <1>5, <2>1, <3>1
    <2>2. CASE j = g + 1
        <3>1. i <= g
            BY <1>1, <1>5, <2>2
        <3> QED
            BY <1>2, <1>3, <2>2, <3>1
    <2>3. CASE g + 1 < j
        <3>1. w[j] = s[j - 1] /\ j - 1 \in 1 .. N /\ g < j - 1 /\ d[n] < d[s[j - 1]]
              /\ d[s[j - 1]] \in Nat
            BY <1>1, <1>2, <1>3, <2>3
        <3>2. CASE i <= g
            <4>1. w[i] = s[i] /\ i \in 1 .. N /\ i < j - 1
                BY <1>1, <1>2, <3>1, <3>2
            <4> QED
                BY <1>3, <3>1, <4>1
        <3>3. CASE i = g + 1
            BY <1>2, <3>1, <3>3
        <3>4. CASE g + 1 < i
            <4>1. w[i] = s[i - 1] /\ i - 1 \in 1 .. N /\ i - 1 < j - 1
                BY <1>1, <1>2, <1>5, <3>4
            <4> QED
                BY <1>3, <3>1, <4>1
        <3> QED
            BY <1>1, <3>2, <3>3, <3>4
    <2> QED
        BY <1>1, <2>1, <2>2, <2>3
<1> QED
    BY <1>1, <1>4, <1>5 DEF Sorted, w

\* Without one of them the others are still in order, whatever becomes of its key.
LEMMA DropSorted ==
    ASSUME NEW s \in Seq(Nodes), NEW d, Sorted(s, d), NEW g \in 1 .. Len(s), NEW e,
           \A i \in 1 .. Len(s) : i # g => e[s[i]] = d[s[i]]
    PROVE  Sorted(Drop(s, g), e) /\ EntriesOf(Drop(s, g), e) = EntriesOf(Drop(s, g), d)
<1> DEFINE w == Drop(s, g)
           N == Len(s)
<1>1. N \in Nat /\ Len(w) = N - 1 /\ g \in Nat /\ 1 <= g /\ g <= N
    BY DropSeq
<1>2. ASSUME NEW i \in 1 .. N - 1
      PROVE  /\ i < g => w[i] = s[i] /\ i \in 1 .. N /\ i # g
             /\ g <= i => w[i] = s[i + 1] /\ i + 1 \in 1 .. N /\ i + 1 # g
    <2>1. w[i] = IF i < g THEN s[i] ELSE s[i + 1]
        BY DEF Drop
    <2> HIDE DEF w, N
    <2> QED
        BY <1>1, <2>1
<1>3. /\ \A i \in 1 .. N : d[s[i]] \in Nat
      /\ \A i, j \in 1 .. N : i < j => d[s[i]] <= d[s[j]]
      /\ \A i \in 1 .. N : i # g => e[s[i]] = d[s[i]]
    BY DEF Sorted
<1> HIDE DEF w, N
<1>4. ASSUME NEW i \in 1 .. N - 1 PROVE d[w[i]] \in Nat /\ e[w[i]] = d[w[i]]
    <2>1. CASE i < g
        BY <1>2, <1>3, <2>1
    <2>2. CASE g <= i
        BY <1>2, <1>3, <2>2
    <2> QED
        BY <1>1, <2>1, <2>2
<1>5. ASSUME NEW i \in 1 .. N - 1, NEW j \in 1 .. N - 1, i < j PROVE d[w[i]] <= d[w[j]]
    <2>1. CASE j < g
        <3>1. i < g
            BY <1>1, <1>5, <2>1
        <3> QED
            BY <1>2, <1>3, <1>5, <2>1, <3>1
    <2>2. CASE g <= j
        <3>1. w[j] = s[j + 1] /\ j + 1 \in 1 .. N
            BY <1>2, <2>2
        <3>2. CASE i < g
            <4>1. w[i] = s[i] /\ i \in 1 .. N /\ i < j + 1
                BY <1>1, <1>2, <1>5, <3>2
            <4> QED
                BY <1>3, <3>1, <4>1
        <3>3. CASE g <= i
            <4>1. w[i] = s[i + 1] /\ i + 1 \in 1 .. N /\ i + 1 < j + 1
                BY <1>1, <1>2, <1>5, <3>3
            <4> QED
                BY <1>3, <3>1, <4>1
        <3> QED
            BY <1>1, <3>2, <3>3
    <2> QED
        BY <1>1, <2>1, <2>2
<1>6. Sorted(w, e)
    BY <1>1, <1>4, <1>5 DEF Sorted
<1>7. EntriesOf(w, e) = EntriesOf(w, d)
    BY <1>1, <1>4 DEF EntriesOf
<1> QED
    BY <1>6, <1>7 DEF w

-----------------------------------------------------------------------------
(* Calls begin and end.                                                    *)

\* Between calls.
LEMMA IdleFacts ==
    ASSUME IInv, ListInv, pc = "idle"
    PROVE  LET s == Iterated(t)
           IN  /\ Sound(t) /\ Orders(t, NULL, s) /\ Sorted(s, data) /\ request = NULL
               /\ node = NULL /\ removing = <<>>
               /\ s \in Seq(Nodes) /\ Len(s) \in Nat
               /\ Contents = EntriesOf(s, data) /\ SizeOf(t, t.root) = Len(s)
               /\ \A i \in 1 .. Len(s) : s[i] \in Nodes /\ data[s[i]] # NULL
               /\ \A i, j \in 1 .. Len(s) : s[i] = s[j] => i = j
<1>1. Sound(t) /\ node = NULL /\ removing = <<>>
    BY DEF IInv, InOrder, Excess, Sound, Phases
<1>2. /\ Orders(t, NULL, Iterated(t)) /\ Sorted(Iterated(t), data) /\ request = NULL
    BY DEF ListInv, IdleInOrder, Requested
<1>3. /\ Iterated(t) \in Seq(Nodes) /\ Len(Iterated(t)) \in Nat
      /\ \A i \in 1 .. Len(Iterated(t)) : Iterated(t)[i] \in Nodes /\ InTree(t, Iterated(t)[i])
      /\ \A i, j \in 1 .. Len(Iterated(t)) : Iterated(t)[i] = Iterated(t)[j] => i = j
    BY <1>1, <1>2, OrderedNodes
<1>4. SizeOf(t, t.root) = Len(Iterated(t))
    BY <1>1, <1>2, LookupsFind
<1>5. \A n \in Nodes : InTree(t, n) => data[n] # NULL
    BY <1>1 DEF IInv, HangsWhenExists, Detached
<1>6. Contents = EntriesOf(Iterated(t), data)
    BY DEF Contents, EntriesOf, Entry
<1> QED
    BY <1>1, <1>2, <1>3, <1>4, <1>5, <1>6

\* A call begins: what the iterators show is what was there before it.
LEMMA CallBegins ==
    ASSUME IInv, ListInv, pc = "idle", pc' # "idle", before' = Contents,
           \A n \in Nodes : data[n] # NULL => data'[n] = data[n]
    PROVE  NodesBefore' = Iterated(t) /\ BeforeInOrder' /\ IdleInOrder'
<1> DEFINE s == Iterated(t)
<1>1. /\ Sorted(s, data) /\ s \in Seq(Nodes) /\ Len(s) \in Nat
      /\ Contents = EntriesOf(s, data)
      /\ \A i \in 1 .. Len(s) : s[i] \in Nodes /\ data[s[i]] # NULL
      /\ \A i, j \in 1 .. Len(s) : s[i] = s[j] => i = j
    BY IdleFacts
<1> HIDE DEF s
<1>2. \A i \in 1 .. Len(s) : data'[s[i]] = data[s[i]]
    BY <1>1
<1>3. NodesBefore' = s
    BY <1>1, EntriesSeq DEF NodesBefore
<1>4. before' = [i \in 1 .. Len(s) |-> <<s[i], data'[s[i]]>>]
    BY <1>1, <1>2 DEF EntriesOf
<1>5. Sorted(s, data')
    BY <1>1, <1>2 DEF Sorted
<1>6. BeforeInOrder'
    BY <1>1, <1>3, <1>4, <1>5 DEF BeforeInOrder, Entry
<1>7. IdleInOrder'
    BY DEF IdleInOrder
<1> QED
    BY <1>3, <1>6, <1>7 DEF s

\* A call goes on: the entries before it stay what they are.
LEMMA CallGoesOn ==
    ASSUME ListInv, pc # "idle", pc' # "idle", UNCHANGED <<data, before, request>>
    PROVE  /\ NodesBefore' = NodesBefore /\ BeforeInOrder' /\ IdleInOrder'
           /\ request # NULL /\ request' # NULL
           /\ NodesBefore \in Seq(Nodes) /\ Len(NodesBefore) \in Nat
           /\ Sorted(NodesBefore, data)
           /\ \A i, j \in 1 .. Len(NodesBefore) : NodesBefore[i] = NodesBefore[j] => i = j
<1>1. NodesBefore' = NodesBefore
    BY DEF NodesBefore
<1>2. BeforeInOrder' /\ IdleInOrder'
    BY <1>1 DEF ListInv, BeforeInOrder, IdleInOrder, Entry
<1>3. /\ NodesBefore \in Seq(Nodes) /\ Sorted(NodesBefore, data)
      /\ \A i, j \in 1 .. Len(NodesBefore) : NodesBefore[i] = NodesBefore[j] => i = j
    BY DEF ListInv, BeforeInOrder
<1>4. request # NULL
    BY DEF ListInv, Requested
<1> QED
    BY <1>1, <1>2, <1>3, <1>4

\* A call ends with the nodes of s in the tree.
LEMMA CallEnds ==
    ASSUME IInv', pc' = "idle", request' = NULL, NEW s, Orders(t', NULL, s), Sorted(s, data')
    PROVE  ListInv' /\ Contents' = EntriesOf(s, data')
<1>1. Sound(t')
    BY DEF IInv, InOrder, Excess, Sound
<1>2. Iterated(t') = s
    BY <1>1, LookupsFind
<1>3. Iterated(t)' = s
    BY <1>2
<1>4. Contents' = EntriesOf(s, data')
    BY <1>3 DEF Contents, EntriesOf, Entry
<1>5. IdleInOrder'
    BY <1>3 DEF IdleInOrder
<1>6. /\ Requested' /\ BeforeInOrder' /\ StillWhole' /\ OneTakenOut' /\ OnePutIn'
      /\ Narrowing' /\ Neighbours' /\ Walking'
    BY DEF Requested, BeforeInOrder, StillWhole, OneTakenOut, OnePutIn, Narrowing, Neighbours,
           Walking, Removing
<1> QED
    BY <1>4, <1>5, <1>6 DEF ListInv

\* The empty tree is in order.
LEMMA InitListInv == Init => ListInv
<1> SUFFICES ASSUME Init PROVE ListInv
    OBVIOUS
<1>1. t = EmptyTree /\ pc = "idle" /\ request = NULL
    BY DEF Init
<1>2. Iterated(t) = <<>> /\ Orders(t, NULL, <<>>)
    BY <1>1, EmptyOrders, EmptySound, LookupsFind
<1>3. Sorted(<<>>, data)
    BY DEF Sorted
<1> QED
    BY <1>1, <1>2, <1>3
    DEF ListInv, Requested, Removing, IdleInOrder, BeforeInOrder, StillWhole, OneTakenOut,
        OnePutIn, Narrowing, Neighbours, Walking

\* Add: the new node can still go anywhere.
LEMMA AddOrders == ASSUME IInv, ListInv, NEW k \in Keys, Add(k) PROVE ListInv'
<1> DEFINE n == CHOOSE m \in Free : TRUE
<1>1. n \in Nodes /\ data[n] = NULL /\ pc = "idle"
    BY DEF Add, Free, Called
<1>2. /\ data' = [data EXCEPT ![n] = k] /\ node' = n /\ pc' = "descend" /\ t' = t
      /\ before' = Contents /\ request' = <<"add", <<n, k>>>>
    BY DEF Add, Called
<1> HIDE DEF n
<1>3. data \in [Nodes -> Keys \cup {NULL}]
    BY DEF IInv, TypeOK
<1>4. \A m \in Nodes : data[m] # NULL => data'[m] = data[m]
    BY <1>1, <1>2, <1>3
<1>5. NodesBefore' = Iterated(t) /\ BeforeInOrder' /\ IdleInOrder'
    BY <1>1, <1>2, <1>4, CallBegins
<1>6. data'[n] = k
    BY <1>1, <1>2, <1>3
<1>7. request' # NULL /\ request'[1] = "add" /\ request'[2] = <<n, k>>
    <2>1. <<"add", <<n, k>>>> \in {"add"} \X (Nodes \X Keys)
        BY <1>1
    <2> QED
        BY <1>2, <2>1, RequestAssumption
<1>8. Requested'
    BY <1>2, <1>6, <1>7 DEF Requested, Entry, Removing
<1>9. Narrowing'
    <2>1. Sound(t) /\ Orders(t, NULL, Iterated(t)) /\ ~InTree(t, n)
        BY <1>1, IdleFacts DEF IInv, HangsWhenExists, Detached
    <2>2. Orders(t, n, Iterated(t)) /\ t.parent[n] = NULL
        BY <1>1, <2>1, LooseOrders, LooseNode
    <2>3. Orders(t', node', NodesBefore') /\ t'.parent[node'] = NULL
        BY <1>2, <1>5, <2>2
    <2> QED
        BY <2>3 DEF Orders, Narrowing, Narrowed
<1>10. StillWhole' /\ OneTakenOut' /\ OnePutIn' /\ Neighbours' /\ Walking'
    BY <1>2 DEF StillWhole, OneTakenOut, OnePutIn, Neighbours, Removing, Walking
<1> QED
    BY <1>5, <1>8, <1>9, <1>10 DEF ListInv

\* RemoveAt and RemoveKey: the node they name is at the place c.
LEMMA RemoveOrders ==
    ASSUME IInv, ListInv, NEW n, NEW what, what # NULL, what[1] \in {"removeAt", "remove"},
           Remove(n, what), NEW c \in 1 .. Len(Iterated(t)), Iterated(t)[c] = n,
           what[1] = "removeAt" => what[2] + 1 = c,
           what[1] = "remove" => what[2] = data[n]
    PROVE  ListInv'
<1> DEFINE s == Iterated(t)
<1>1. /\ pc = "idle" /\ request' = what /\ before' = Contents /\ removing' = <<n>>
      /\ pc' = "find" /\ UNCHANGED <<t, data, node>>
    BY DEF Remove, Called
<1>2. NodesBefore' = s /\ BeforeInOrder' /\ IdleInOrder'
    BY <1>1, CallBegins
<1>3. Orders(t, NULL, s) /\ node = NULL /\ Len(s) \in Nat
    BY <1>1, IdleFacts
<1> HIDE DEF s
<1>4. Requested'
    BY <1>1 DEF Requested, Removing
<1>5. StillWhole'
    BY <1>1, <1>2, <1>3 DEF StillWhole
<1>6. Len(removing') = 1 /\ removing'[1] = n
    BY <1>1
<1>7. Depth' = 1 /\ Held(1)' = n
    BY <1>1, <1>3, <1>6 DEF Depth, Held
<1>8. c \in 1 .. Len(s) /\ s[c] = n
    BY DEF s
<1>9. Down(c)'
    <2>1. \A i \in 1 .. 1 : i <= c /\ c + 1 - i = c /\ i = 1
        BY <1>3, <1>8
    <2> QED
        BY <1>2, <1>7, <1>8, <2>1 DEF Down
<1>10. Asked(c)'
    BY <1>1, <1>2, <1>8 DEF Asked
<1>11. Neighbours'
    BY <1>1, <1>2, <1>6, <1>8, <1>9, <1>10 DEF Neighbours
<1>12. OneTakenOut' /\ OnePutIn' /\ Narrowing' /\ Walking'
    BY <1>1 DEF OneTakenOut, OnePutIn, Narrowing, Walking
<1> QED
    BY <1>2, <1>4, <1>5, <1>11, <1>12 DEF ListInv

\* Clear.
LEMMA ClearOrders == ASSUME IInv, ListInv, Clear PROVE ListInv'
<1>1. /\ pc = "idle" /\ request' = <<"clear", NULL>> /\ before' = Contents
      /\ pc' = "clear" /\ UNCHANGED <<t, data, node, removing>>
    BY DEF Clear, Called
<1>2. NodesBefore' = Iterated(t) /\ BeforeInOrder' /\ IdleInOrder'
    BY <1>1, CallBegins
<1>3. Requested'
    BY <1>1, RequestAssumption DEF Requested, Removing
<1>4. StillWhole'
    BY <1>1, <1>2, IdleFacts DEF StillWhole
<1>5. OneTakenOut' /\ OnePutIn' /\ Narrowing' /\ Neighbours' /\ Walking'
    BY <1>1 DEF OneTakenOut, OnePutIn, Narrowing, Neighbours, Removing, Walking
<1> QED
    BY <1>2, <1>3, <1>4, <1>5 DEF ListInv

\* ClearAll.
LEMMA ClearAllOrders ==
    ASSUME IInv, IInv', ListInv, ClearAll
    PROVE  ListInv' /\ request # NULL /\ request[1] = "clear" /\ request' = NULL /\ Contents' = <<>>
<1>1. pc = "clear" /\ pc' = "idle" /\ request' = NULL /\ t' = EmptyTree
    BY DEF ClearAll, Return
<1>2. Orders(t', NULL, <<>>) /\ Sorted(<<>>, data')
    BY <1>1, EmptyOrders DEF Sorted
<1>3. ListInv' /\ Contents' = EntriesOf(<<>>, data')
    BY <1>1, <1>2, CallEnds
<1>4. EntriesOf(<<>>, data') = <<>>
    BY DEF EntriesOf
<1> QED
    BY <1>1, <1>3, <1>4 DEF ListInv, Requested

\* The key of the node that insert() brings is a number.
LEMMA KeyOfNode ==
    ASSUME IInv, ListInv, pc \in {"descend", "balance"}, request[1] = "add"
    PROVE  node \in Nodes /\ data[node] \in Nat /\ data[node] \in Keys
<1>1. node \in Nodes
    BY DEF IInv, Phases
<1>2. data[node] # NULL
    <2>1. CASE pc = "descend"
        BY <1>1, <2>1, NodesAssumption DEF IInv, HangsWhenExists, Detached
    <2>2. CASE pc = "balance"
        <3>1. Sound(t) /\ (InTree(t, node) => data[node] # NULL)
            BY <1>1, <2>2 DEF IInv, InOrder, Excess, Sound, HangsWhenExists, Detached
        <3>2. PICK g \in 0 .. Len(NodesBefore) : Orders(t, NULL, Put(NodesBefore, g, node))
            BY <2>2 DEF ListInv, OnePutIn
        <3>3. /\ Len(Put(NodesBefore, g, node)) = Len(NodesBefore) + 1
              /\ Put(NodesBefore, g, node)[g + 1] = node /\ Len(NodesBefore) \in Nat
            <4>1. NodesBefore \in Seq(Nodes) /\ Len(NodesBefore) \in Nat
                BY <2>2 DEF ListInv, BeforeInOrder
            <4> QED
                BY <1>1, <4>1, PutSeq DEF Put
        <3>4. InTree(t, Put(NodesBefore, g, node)[g + 1])
            BY <3>1, <3>2, <3>3, OrderedNodes
        <3> QED
            BY <3>1, <3>3, <3>4
    <2> QED
        BY <2>1, <2>2
<1>3. data \in [Nodes -> Keys \cup {NULL}]
    BY DEF IInv, TypeOK
<1> QED
    BY <1>1, <1>2, <1>3, KeysAssumption

-----------------------------------------------------------------------------
(* insert().                                                               *)

\* InsertRoot.
LEMMA InsertRootOrders ==
    ASSUME IInv, IInv', ListInv, InsertRoot
    PROVE  /\ ListInv' /\ NodesBefore = <<>> /\ request # NULL /\ request[1] = "add"
           /\ request' = NULL /\ Contents' = EntriesOf(Put(NodesBefore, 0, node), data)
<1>1. /\ pc = "descend" /\ t.root = NULL /\ t' = [t EXCEPT !.root = node]
      /\ pc' = "idle" /\ request' = NULL /\ data' = data
    BY DEF InsertRoot, Return, IInv, TypeOK
<1>2. request[1] = "add" /\ request # NULL
    BY <1>1 DEF ListInv, Requested
<1>3. node \in Nodes /\ data[node] \in Nat
    BY <1>1, <1>2, KeyOfNode
<1>4. SoundBut(t, NULL, node) /\ t.parent[node] = NULL
    BY <1>1, <1>3 DEF IInv, InOrder, Excess, StandsBelowParent
<1>5. Orders(t, node, NodesBefore)
    BY <1>1 DEF ListInv, Narrowing, Narrowed, Orders
<1>6. NodesBefore = <<>> /\ Orders(t', NULL, <<node>>)
    <2>1. NodesBefore = <<>> /\ Orders([t EXCEPT !.root = node], NULL, <<node>>)
        BY <1>1, <1>3, <1>4, <1>5, RootOrders
    <2> QED
        BY <1>1, <2>1
<1>7. Put(<<>>, 0, node) = <<node>>
    BY DEF Put
<1>8. Sorted(<<node>>, data')
    BY <1>1, <1>3 DEF Sorted
<1>9. ListInv' /\ Contents' = EntriesOf(<<node>>, data')
    BY <1>1, <1>6, <1>8, CallEnds
<1> QED
    BY <1>1, <1>2, <1>6, <1>7, <1>9

\* Where the loop of insert() stands it has the nodes of a part of the tree before it.
LEMMA InsertStands ==
    ASSUME IInv, pc = "descend", iter # NULL,
           NEW lo, NEW pos, NEW hi, Narrowed(t, NodesBefore, data, node, lo, pos, hi)
    PROVE  iter \in Hanging(t, node) /\ Belongs(NodesBefore, data, node, lo[iter], hi[iter])
<1> DEFINE p == t.parent[node]
           s == NodesBefore
<1>0. Spread(t, node, s, lo, pos, hi)
    BY DEF Narrowed
<1>1. /\ node \in Nodes /\ SoundBut(t, p, node) /\ t \in Trees /\ iter \in Nodes
    BY DEF IInv, Phases, InOrder, Excess, SoundBut, TypeOK, Pointers
<1>2. p \in Pointers
    BY <1>1, Fields
<1>3. Len(s) \in Nat
    BY <1>0 DEF Spread
<1>4. CASE p = NULL
    <2>1. iter = t.root
        BY <1>4 DEF IInv, StandsBelowParent
    <2>2. iter # node /\ InTree(t, iter)
        BY <1>1, <2>1 DEF SoundBut, RootOnTop, InTree
    <2>3. lo[iter] = 0 /\ hi[iter] = Len(s)
        BY <1>0, <2>1 DEF Spread
    <2>4. \A i \in 1 .. Len(s) : ~(i <= 0) /\ ~(Len(s) < i)
        BY <1>3
    <2>5. Belongs(s, data, node, lo[iter], hi[iter])
        BY <2>3, <2>4 DEF Belongs
    <2> QED
        BY <1>1, <2>2, <2>5 DEF Hanging
<1>5. CASE p # NULL
    <2>1. /\ p \in Nodes /\ p # node /\ InTree(t, p)
          /\ iter = IF data[node] < data[p] THEN t.left[p] ELSE t.right[p]
        BY <1>2, <1>5 DEF IInv, StandsBelowParent, Pointers
    <2>2. p \in Hanging(t, node)
        BY <2>1 DEF Hanging
    <2> HIDE DEF p
    <2>3. /\ t.left[p] # NULL => t.left[p] \in Hanging(t, node)
                                  /\ lo[t.left[p]] = lo[p] /\ hi[t.left[p]] = pos[p]
          /\ t.right[p] # NULL => t.right[p] \in Hanging(t, node)
                                   /\ lo[t.right[p]] = pos[p] + 1 /\ hi[t.right[p]] = hi[p]
        BY <1>0, <1>1, <2>2, Spans
    <2>4. IF data[node] < data[p] THEN Belongs(s, data, node, lo[p], pos[p])
          ELSE Belongs(s, data, node, pos[p] + 1, hi[p])
        BY <1>5 DEF p, Narrowed
    <2> QED
        BY <2>1, <2>3, <2>4
<1> QED
    BY <1>4, <1>5

\* InsertDescend: the node passed bounds the place from one side.
LEMMA InsertDescendOrders == ASSUME IInv, IInv', ListInv, InsertDescend PROVE ListInv'
<1> DEFINE p == t.parent[node]
<1>1. /\ pc = "descend" /\ iter # NULL /\ t' = Descend(t, node, iter)
      /\ UNCHANGED <<data, pc, node, removing, request, before>>
    BY DEF InsertDescend
<1>2. request[1] = "add"
    BY <1>1 DEF ListInv, Requested
<1>3. node \in Nodes /\ data[node] \in Nat
    BY <1>1, <1>2, KeyOfNode
<1>4. /\ NodesBefore' = NodesBefore /\ BeforeInOrder' /\ IdleInOrder'
      /\ NodesBefore \in Seq(Nodes) /\ Len(NodesBefore) \in Nat /\ Sorted(NodesBefore, data)
    BY <1>1, CallGoesOn
<1>5. PICK lo, pos, hi : Narrowed(t, NodesBefore, data, node, lo, pos, hi)
    BY <1>1 DEF ListInv, Narrowing
<1>6. iter \in Hanging(t, node) /\ Belongs(NodesBefore, data, node, lo[iter], hi[iter])
    BY <1>1, <1>5, InsertStands
<1>7. SoundBut(t, p, node) /\ iter \in Nodes /\ t \in Trees /\ p \in Pointers
    BY <1>1, <1>3, <1>6, Fields DEF IInv, InOrder, Excess, SoundBut, Hanging
<1>8. \/ p = NULL /\ iter = t.root
      \/ /\ p \in Nodes /\ p # node
         /\ iter = t.left[p] \/ iter = t.right[p]
    BY <1>1, <1>7 DEF IInv, StandsBelowParent, Pointers
<1>9. /\ t'.parent[node] = iter /\ t'.root = t.root /\ t'.left = t.left /\ t'.right = t.right
      /\ \A n \in Nodes \ {node} : InTree(t', n) <=> InTree(t, n)
    BY <1>1, <1>3, <1>7, <1>8, DescendSound
<1>10. Spread(t', node, NodesBefore, lo, pos, hi)
    BY <1>5, <1>9, SameLinksSpread DEF Narrowed
<1>11. /\ pos[iter] \in Nat /\ pos[iter] + 1 \in 1 .. Len(NodesBefore)
       /\ NodesBefore[pos[iter] + 1] = iter
    <2>1. /\ pos[iter] \in Nat /\ hi[iter] \in Nat /\ pos[iter] < hi[iter]
          /\ hi[iter] <= Len(NodesBefore) /\ NodesBefore[pos[iter] + 1] = iter
        BY <1>5, <1>6, <1>7, Spans DEF Narrowed
    <2> QED
        BY <1>4, <2>1
<1>12. /\ \A i \in 1 .. Len(NodesBefore) : data[NodesBefore[i]] \in Nat
       /\ \A i, j \in 1 .. Len(NodesBefore) : i < j => data[NodesBefore[i]] <= data[NodesBefore[j]]
    BY <1>4 DEF Sorted
<1>13. data[iter] \in Nat
    BY <1>11, <1>12
<1>14. IF data[node] < data[iter] THEN Belongs(NodesBefore, data, node, lo[iter], pos[iter])
       ELSE Belongs(NodesBefore, data, node, pos[iter] + 1, hi[iter])
    <2>1. CASE data[node] < data[iter]
        <3>1. ASSUME NEW i \in 1 .. Len(NodesBefore), pos[iter] < i
              PROVE  data[node] < data[NodesBefore[i]]
            <4>1. CASE i = pos[iter] + 1
                BY <1>11, <2>1, <4>1
            <4>2. CASE i # pos[iter] + 1
                <5>1. pos[iter] + 1 < i
                    BY <1>11, <3>1, <4>2
                <5>2. data[iter] <= data[NodesBefore[i]] /\ data[NodesBefore[i]] \in Nat
                    BY <1>11, <1>12, <5>1
                <5> QED
                    BY <1>3, <1>13, <2>1, <5>2
            <4> QED
                BY <4>1, <4>2
        <3> QED
            BY <1>6, <2>1, <3>1 DEF Belongs
    <2>2. CASE ~(data[node] < data[iter])
        <3>1. data[iter] <= data[node]
            BY <1>3, <1>13, <2>2
        <3>2. ASSUME NEW i \in 1 .. Len(NodesBefore), i <= pos[iter] + 1
              PROVE  data[NodesBefore[i]] <= data[node]
            <4>1. CASE i = pos[iter] + 1
                BY <1>11, <3>1, <4>1
            <4>2. CASE i # pos[iter] + 1
                <5>1. i < pos[iter] + 1
                    BY <1>11, <3>2, <4>2
                <5>2. data[NodesBefore[i]] <= data[iter] /\ data[NodesBefore[i]] \in Nat
                    BY <1>11, <1>12, <5>1
                <5> QED
                    BY <1>3, <1>13, <3>1, <5>2
            <4> QED
                BY <4>1, <4>2
        <3> QED
            BY <1>6, <2>2, <3>2 DEF Belongs
    <2> QED
        BY <2>1, <2>2
<1>15. Narrowed(t', NodesBefore, data, node, lo, pos, hi)
    BY <1>9, <1>10, <1>14 DEF Narrowed
<1>17. Narrowing'
    BY <1>1, <1>4, <1>15 DEF Narrowing
<1>18. Requested'
    BY <1>1 DEF ListInv, Requested, Removing, Entry
<1>19. StillWhole' /\ OneTakenOut' /\ OnePutIn' /\ Neighbours' /\ Walking'
    BY <1>1, <1>2 DEF StillWhole, OneTakenOut, OnePutIn, Neighbours, Removing, Walking
<1> QED
    BY <1>4, <1>17, <1>18, <1>19 DEF ListInv

\* InsertAttach: one gap is left, and the new node is put in there.
LEMMA InsertAttachOrders == ASSUME IInv, IInv', ListInv, InsertAttach PROVE ListInv'
<1> DEFINE p == t.parent[node]
           left == data[node] < data[p]
           s == NodesBefore
<1>1. /\ pc = "descend" /\ iter = NULL /\ t.root # NULL /\ t' = Attach(t, node, left)
      /\ pc' = "balance" /\ UNCHANGED <<data, node, removing, request, before>>
    BY DEF InsertAttach
<1>2. request[1] = "add" /\ request[2] = Entry(node)
    BY <1>1 DEF ListInv, Requested
<1>3. node \in Nodes /\ data[node] \in Nat
    BY <1>1, <1>2, KeyOfNode
<1>4. /\ NodesBefore' = s /\ BeforeInOrder' /\ IdleInOrder'
      /\ s \in Seq(Nodes) /\ Len(s) \in Nat /\ request # NULL
    BY <1>1, CallGoesOn
<1>5. PICK lo, pos, hi : Narrowed(t, s, data, node, lo, pos, hi)
    BY <1>1 DEF ListInv, Narrowing
<1>6. SoundBut(t, p, node) /\ t \in Trees /\ p \in Pointers
    BY <1>1, <1>3, Fields DEF IInv, InOrder, Excess, SoundBut
<1>7. /\ p \in Nodes /\ p # node /\ InTree(t, p) /\ p # NULL
      /\ (IF left THEN t.left[p] ELSE t.right[p]) = NULL
    BY <1>1, <1>6, NodesAssumption DEF IInv, StandsBelowParent, Pointers
<1>8. Spread(t, node, s, lo, pos, hi) /\ left \in BOOLEAN /\ p \in Hanging(t, node)
    BY <1>5, <1>7 DEF Narrowed, Hanging
<1>9. /\ t.left[p] = NULL => lo[p] = pos[p]
      /\ t.right[p] = NULL => hi[p] = pos[p] + 1
    BY <1>6, <1>8, Spans
<1>10. IF left THEN Belongs(s, data, node, lo[p], pos[p])
       ELSE Belongs(s, data, node, pos[p] + 1, hi[p])
    BY <1>5, <1>7 DEF Narrowed
<1> DEFINE g == IF left THEN pos[p] ELSE pos[p] + 1
<1>11. Belongs(s, data, node, g, g)
    BY <1>7, <1>9, <1>10
<1> HIDE DEF left
<1>12. g \in 0 .. Len(s) /\ Orders(Attach(t, node, left), NULL, Put(s, g, node))
    BY <1>3, <1>6, <1>7, <1>8, AttachOrders
<1> HIDE DEF g
<1>13. OnePutIn'
    BY <1>1, <1>4, <1>11, <1>12 DEF OnePutIn
<1>14. Requested'
    BY <1>1, <1>2, <1>4 DEF Requested, Removing, Entry
<1>15. StillWhole' /\ OneTakenOut' /\ Narrowing' /\ Neighbours' /\ Walking'
    BY <1>1, <1>2 DEF StillWhole, OneTakenOut, Narrowing, Neighbours, Removing, Walking
<1> QED
    BY <1>4, <1>13, <1>14, <1>15 DEF ListInv

\* BalancedInsert: the call ends with the new entry after those that are not greater.
LEMMA BalancedInsertOrders ==
    ASSUME IInv, IInv', ListInv, BalancedInsert
    PROVE  /\ ListInv' /\ request # NULL /\ request[1] = "add" /\ request' = NULL
           /\ \E g \in 0 .. Len(NodesBefore) :
                /\ Belongs(NodesBefore, data, node, g, g)
                /\ Contents' = EntriesOf(Put(NodesBefore, g, node), data)
<1> DEFINE s == NodesBefore
<1>1. /\ pc = "balance" /\ request[1] = "add" /\ pc' = "idle" /\ request' = NULL
      /\ t' = t /\ data' = data
    BY DEF BalancedInsert, Return, IInv, TypeOK
<1>2. PICK g \in 0 .. Len(s) : Orders(t, NULL, Put(s, g, node)) /\ Belongs(s, data, node, g, g)
    BY <1>1 DEF ListInv, OnePutIn
<1>3. node \in Nodes /\ data[node] \in Nat
    BY <1>1, KeyOfNode
<1>4. s \in Seq(Nodes) /\ Sorted(s, data) /\ request # NULL
    BY <1>1 DEF ListInv, BeforeInOrder, Requested
<1>5. Sorted(Put(s, g, node), data)
    BY <1>2, <1>3, <1>4, PutSorted DEF Belongs
<1>6. ListInv' /\ Contents' = EntriesOf(Put(s, g, node), data')
    BY <1>1, <1>2, <1>5, CallEnds
<1> QED
    BY <1>1, <1>2, <1>4, <1>6

-----------------------------------------------------------------------------
(* balancing().                                                            *)

\* Balance: rotations turn the tree and not the order.
LEMMA BalanceOrders == ASSUME IInv, IInv', ListInv, Balance PROVE ListInv'
<1> DEFINE s == NodesBefore
<1>1. /\ pc = "balance" /\ iter \in Nodes /\ t' = BalanceAt(t, iter)
      /\ UNCHANGED <<data, pc, node, removing, request, before>>
    BY DEF Balance, IInv, TypeOK, Pointers
<1>2. Sound(t)
    BY <1>1 DEF IInv, InOrder, Excess, Sound
<1>3. \A w : Orders(t, NULL, w) => Orders(t', NULL, w)
    BY <1>1, <1>2, BalanceAtOrders
<1>4. NodesBefore' = s /\ BeforeInOrder' /\ IdleInOrder'
    BY <1>1, CallGoesOn
<1>5. OneTakenOut'
    BY <1>1, <1>3, <1>4 DEF ListInv, OneTakenOut
<1>6. OnePutIn'
    BY <1>1, <1>3, <1>4 DEF ListInv, OnePutIn
<1>7. Requested'
    BY <1>1 DEF ListInv, Requested, Removing, Entry
<1>8. Neighbours'
    BY <1>1, <1>4 DEF ListInv, Neighbours, Removing, Asked, Down, Up, Held, Depth
<1>9. StillWhole' /\ Narrowing' /\ Walking'
    BY <1>1 DEF StillWhole, Narrowing, Walking
<1> QED
    BY <1>4, <1>5, <1>6, <1>7, <1>8, <1>9 DEF ListInv

-----------------------------------------------------------------------------
(* remove().                                                               *)

\* The node whose removal is under way is the last of the stack.
LEMMA InnermostHeld ==
    ASSUME IInv, removing # <<>>
    PROVE  /\ Len(removing) \in Nat \ {0} /\ Innermost = Held(Len(removing))
           /\ Innermost \in Nodes /\ Innermost # NULL /\ InTree(t, Innermost)
           /\ Innermost \in Hanging(t, NULL)
           /\ Depth = IF node = NULL THEN Len(removing) ELSE Len(removing) + 1
<1>1. /\ Len(removing) \in Nat \ {0} /\ Innermost \in Nodes /\ InTree(t, Innermost)
    BY InnermostHangs
<1>2. Innermost = Held(Len(removing))
    BY <1>1 DEF Innermost, Held
<1> QED
    BY <1>1, <1>2, NodesAssumption DEF Hanging, Depth

\* FindReplacement: the way goes on in the direction it has come.
LEMMA FindReplacementOrders == ASSUME IInv, IInv', ListInv, FindReplacement PROVE ListInv'
<1> DEFINE s == NodesBefore
           x == Innermost
           l == t.left[x]
           r == t.right[x]
<1>1. /\ pc = "find" /\ node = NULL /\ removing # <<>> /\ node' = NULL
      /\ pc' = (IF l = NULL /\ r = NULL THEN "replace" ELSE "walk")
      /\ iter' = (IF l # NULL THEN l ELSE r)
      /\ UNCHANGED <<t, data, removing, request, before>>
    BY DEF FindReplacement, IInv, Phases
<1>2. NodesBefore' = s /\ BeforeInOrder' /\ IdleInOrder' /\ request # NULL
    BY <1>1, CallGoesOn
<1>3. Sound(t) /\ Orders(t, NULL, s)
    BY <1>1 DEF IInv, InOrder, Excess, Sound, ListInv, StillWhole
<1>4. /\ Len(removing) \in Nat \ {0} /\ x = Held(Len(removing)) /\ Depth = Len(removing)
      /\ x \in Hanging(t, NULL) /\ x \in Nodes
    BY <1>1, InnermostHeld
<1>5. Depth' = Depth /\ Innermost' = x
    BY <1>1 DEF Depth, Innermost
<1>6. \A c : (Down(c)' <=> Down(c)) /\ (Up(c)' <=> Up(c)) /\ (Asked(c)' <=> Asked(c))
    BY <1>1, <1>2 DEF Depth, Down, Up, Asked, Held
<1>7. PICK c \in 1 .. Len(s) :
            /\ Asked(c)
            /\ \/ Down(c) /\ (Len(removing) # 1 => r = NULL)
               \/ Up(c) /\ (Len(removing) # 1 => l = NULL)
    BY <1>1 DEF ListInv, Neighbours, Removing
<1>8. CASE pc' = "replace"
    <2>1. Neighbours'
        BY <1>2, <1>6, <1>7, <1>8 DEF Neighbours
    <2>2. Walking'
        BY <1>8 DEF Walking
    <2>3. StillWhole' /\ OneTakenOut'
        BY <1>1, <1>2, <1>3 DEF StillWhole, OneTakenOut
    <2> QED
        BY <1>1, <1>2, <1>8, <2>1, <2>2, <2>3
        DEF ListInv, Requested, Removing, OnePutIn, Narrowing
<1>9. CASE pc' = "walk"
    <2>1. ~(l = NULL /\ r = NULL)
        BY <1>1, <1>9
    <2>2. (l # NULL /\ Down(c)) \/ (l = NULL /\ Up(c))
        <3>1. CASE Len(removing) # 1
            BY <1>7, <2>1, <3>1
        <3>2. CASE Len(removing) = 1
            <4>1. Len(s) \in Nat
                BY <1>3, OrderedNodes
            <4>2. Depth = 1
                BY <1>4, <3>2
            <4>3. Down(c) <=> Up(c)
                <5>1. \A i \in 1 .. 1 : i = 1 /\ c + 1 - i = c /\ c + i - 1 = c
                                         /\ i <= c /\ c + i <= Len(s) + 1
                    BY <4>1
                <5> QED
                    BY <4>2, <5>1 DEF Down, Up
            <4> QED
                BY <1>7, <4>3
        <3> QED
            BY <3>1, <3>2
    <2>3. Neighbours'
        BY <1>1, <1>2, <1>5, <1>6, <1>7, <1>9, <2>2 DEF Neighbours
    <2>4. PICK lo, pos, hi : Spread(t, NULL, s, lo, pos, hi)
        BY <1>3 DEF Orders
    <2>5. IF l # NULL THEN hi[iter'] = pos[x] ELSE lo[iter'] = pos[x] + 1
        BY <1>1, <1>3, <1>4, <2>1, <2>4, Spans DEF Sound
    <2>6. Walking'
        BY <1>1, <1>2, <1>5, <2>4, <2>5 DEF Walking
    <2> QED
        BY <1>1, <1>2, <1>9, <2>3, <2>6
        DEF ListInv, Requested, Removing, OnePutIn, Narrowing, StillWhole, OneTakenOut
<1> QED
    BY <1>1, <1>8, <1>9

\* Walk: further down on the side of the node that is being removed.
LEMMA WalkOrders == ASSUME IInv, IInv', ListInv, Walk PROVE ListInv'
<1> DEFINE s == NodesBefore
           x == Innermost
<1>1. /\ pc = "walk" /\ Further # NULL /\ iter' = Further /\ removing # <<>>
      /\ UNCHANGED <<t, data, pc, node, removing, request, before>>
    BY DEF Walk, IInv, Phases
<1>2. NodesBefore' = s /\ BeforeInOrder' /\ IdleInOrder'
    BY <1>1, CallGoesOn
<1>3. Sound(t) /\ iter \in Nodes /\ iter \in Hanging(t, NULL)
    BY <1>1, NodesAssumption DEF IInv, InOrder, Excess, Sound, Downwards, Hanging, InTree
<1>4. PICK lo, pos, hi :
            /\ Spread(t, NULL, s, lo, pos, hi)
            /\ IF t.left[x] # NULL THEN hi[iter] = pos[x] ELSE lo[iter] = pos[x] + 1
    BY <1>1 DEF ListInv, Walking
<1>5. IF t.left[x] # NULL THEN hi[Further] = pos[x] ELSE lo[Further] = pos[x] + 1
    BY <1>1, <1>3, <1>4, Spans DEF Sound, Further
<1>6. Innermost' = x
    BY <1>1 DEF Innermost
<1>7. Walking'
    BY <1>1, <1>2, <1>4, <1>5, <1>6 DEF Walking
<1>8. Neighbours'
    BY <1>1, <1>2 DEF ListInv, Neighbours, Removing, Asked, Down, Up, Held, Depth, Innermost
<1> QED
    BY <1>1, <1>2, <1>7, <1>8
    DEF ListInv, Requested, Removing, OnePutIn, Narrowing, StillWhole, OneTakenOut, Entry

\* RemoveNeighbour: at the end of the way stands the neighbour in the order of the tree.
LEMMA RemoveNeighbourOrders == ASSUME IInv, IInv', ListInv, RemoveNeighbour PROVE ListInv'
<1> DEFINE s == NodesBefore
           x == Innermost
<1>1. /\ pc = "walk" /\ Further = NULL /\ pc' = "find" /\ removing' = Append(removing, iter)
      /\ removing # <<>> /\ node = NULL
      /\ UNCHANGED <<t, data, node, request, before>>
    BY DEF RemoveNeighbour, IInv, Phases
<1>2. /\ NodesBefore' = s /\ BeforeInOrder' /\ IdleInOrder' /\ Len(s) \in Nat
      /\ \A i, j \in 1 .. Len(s) : s[i] = s[j] => i = j
    BY <1>1, CallGoesOn
<1>3. Sound(t) /\ iter \in Nodes /\ iter # NULL /\ iter \in Hanging(t, NULL)
    BY <1>1, NodesAssumption DEF IInv, InOrder, Excess, Sound, Downwards, Hanging, InTree
<1>0. PICK k \in Nat \ {0} : k = Len(removing)
    BY <1>1, InnermostHeld
<1>4. /\ k \in Nat \ {0} /\ x = Held(k) /\ Depth = k
      /\ x \in Hanging(t, NULL) /\ x \in Nodes
    BY <1>0, <1>1, InnermostHeld
<1>5. PICK lo, pos, hi :
            /\ Spread(t, NULL, s, lo, pos, hi)
            /\ IF t.left[x] # NULL THEN hi[iter] = pos[x] ELSE lo[iter] = pos[x] + 1
    BY <1>1 DEF ListInv, Walking
<1>6. PICK c \in 1 .. Len(s) :
            /\ Asked(c)
            /\ (Down(c) /\ t.left[x] # NULL) \/ (Up(c) /\ t.left[x] = NULL)
    BY <1>1 DEF ListInv, Neighbours, Removing
<1>7. /\ Len(removing') = k + 1 /\ removing'[k + 1] = iter
      /\ \A i \in 1 .. k : removing'[i] = removing[i]
    BY <1>0, <1>1, <1>3, AppendProperties DEF IInv, TypeOK
<1>8. /\ Depth' = k + 1 /\ Held(k + 1)' = iter /\ Innermost' = iter
      /\ \A i \in 1 .. k : Held(i)' = Held(i)
    <2>1. Depth' = k + 1
        BY <1>1, <1>7 DEF Depth
    <2>2. Innermost' = iter
        BY <1>7 DEF Innermost
    <2>3. Held(k + 1)' = iter
        BY <1>0, <1>4, <1>7 DEF Held
    <2>4. ASSUME NEW i \in 1 .. k PROVE Held(i)' = Held(i)
        BY <1>0, <1>4, <1>7 DEF Held
    <2> QED
        BY <2>1, <2>2, <2>3, <2>4
<1>9. /\ pos[x] \in Nat /\ pos[x] + 1 \in 1 .. Len(s) /\ s[pos[x] + 1] = x
      /\ pos[iter] \in Nat /\ pos[iter] + 1 \in 1 .. Len(s) /\ s[pos[iter] + 1] = iter
    <2>1. /\ pos[x] \in Nat /\ hi[x] \in Nat /\ pos[x] < hi[x] /\ hi[x] <= Len(s)
          /\ s[pos[x] + 1] = x
        BY <1>3, <1>4, <1>5, Spans DEF Sound
    <2>2. /\ pos[iter] \in Nat /\ hi[iter] \in Nat /\ pos[iter] < hi[iter] /\ hi[iter] <= Len(s)
          /\ s[pos[iter] + 1] = iter
        BY <1>3, <1>5, Spans DEF Sound
    <2> QED
        BY <1>2, <2>1, <2>2
<1>10. Asked(c)'
    BY <1>1, <1>2, <1>6 DEF Asked
<1>11. Neighbours'
    <2>1. CASE t.left[x] # NULL
        <3>1. Down(c)
            BY <1>6, <2>1
        <3>2. t.right[iter] = NULL /\ hi[iter] = pos[iter] + 1
            BY <1>1, <1>3, <1>5, <2>1, Spans DEF Sound, Further
        <3>3. k \in 1 .. k
            BY <1>4
        <3>4. k <= c /\ x = s[c + 1 - k]
            BY <1>4, <3>1, <3>3 DEF Down
        <3>5. pos[iter] + 1 = pos[x]
            BY <1>5, <1>9, <2>1, <3>2
        <3>6. c + 1 - k \in 1 .. Len(s)
            BY <1>2, <1>4, <3>4
        <3>7. c + 1 - k = pos[x] + 1
            BY <1>2, <1>9, <3>4, <3>6
        <3>8. k + 1 <= c /\ c + 1 - (k + 1) = pos[iter] + 1
            BY <1>4, <1>9, <3>5, <3>7
        <3>9. ASSUME NEW i \in 1 .. k + 1 PROVE i <= c /\ Held(i)' = s[c + 1 - i]
            <4>1. CASE i = k + 1
                BY <1>8, <1>9, <3>8, <4>1
            <4>2. CASE i # k + 1
                <5>1. i \in 1 .. k
                    BY <1>4, <4>2
                <5> QED
                    BY <1>4, <1>8, <3>1, <5>1 DEF Down
            <4> QED
                BY <4>1, <4>2
        <3>10. Down(c)'
            BY <1>2, <1>8, <3>9 DEF Down
        <3>11. t'.right[Innermost'] = NULL
            BY <1>1, <1>8, <3>2
        <3> QED
            BY <1>2, <1>10, <1>1, <3>10, <3>11 DEF Neighbours
    <2>2. CASE t.left[x] = NULL
        <3>1. Up(c)
            BY <1>6, <2>2
        <3>2. t.left[iter] = NULL /\ lo[iter] = pos[iter]
            BY <1>1, <1>3, <1>5, <2>2, Spans DEF Sound, Further
        <3>3. k \in 1 .. k
            BY <1>4
        <3>4. c + k <= Len(s) + 1 /\ x = s[c + k - 1]
            BY <1>4, <3>1, <3>3 DEF Up
        <3>5. pos[iter] = pos[x] + 1
            BY <1>5, <1>9, <2>2, <3>2
        <3>6. c + k - 1 \in 1 .. Len(s)
            BY <1>2, <1>4, <3>4
        <3>7. c + k - 1 = pos[x] + 1
            BY <1>2, <1>9, <3>4, <3>6
        <3>8. c + (k + 1) <= Len(s) + 1 /\ c + (k + 1) - 1 = pos[iter] + 1
            BY <1>2, <1>4, <1>9, <3>5, <3>7
        <3>9. ASSUME NEW i \in 1 .. k + 1
              PROVE  c + i <= Len(s) + 1 /\ Held(i)' = s[c + i - 1]
            <4>1. CASE i = k + 1
                BY <1>8, <1>9, <3>8, <4>1
            <4>2. CASE i # k + 1
                <5>1. i \in 1 .. k
                    BY <1>4, <4>2
                <5> QED
                    BY <1>4, <1>8, <3>1, <5>1 DEF Up
            <4> QED
                BY <4>1, <4>2
        <3>10. Up(c)'
            BY <1>2, <1>8, <3>9 DEF Up
        <3>11. t'.left[Innermost'] = NULL
            BY <1>1, <1>8, <3>2
        <3> QED
            BY <1>2, <1>10, <1>1, <3>10, <3>11 DEF Neighbours
    <2> QED
        BY <2>1, <2>2
<1>12. StillWhole'
    BY <1>1, <1>2, <1>5 DEF StillWhole, Orders
<1> QED
    BY <1>1, <1>2, <1>11, <1>12
    DEF ListInv, Requested, Removing, OnePutIn, Narrowing, OneTakenOut, Walking

\* An element put in the place of its neighbour, which was taken out instead.
LEMMA DropNeighbour ==
    ASSUME NEW S, NEW s \in Seq(S), NEW g \in 1 .. Len(s), NEW j \in 1 .. Len(s),
           j = g + 1 \/ g = j + 1, NEW i, i = IF j = g + 1 THEN g ELSE j
    PROVE  /\ i \in 1 .. Len(Drop(s, g)) /\ Drop(s, g)[i] = s[j]
           /\ [Drop(s, g) EXCEPT ![i] = s[g]] = Drop(s, j)
<1> DEFINE w == Drop(s, g)
           v == Drop(s, j)
           N == Len(s)
<1>1. /\ N \in Nat /\ Len(w) = N - 1 /\ Len(v) = N - 1 /\ g \in Nat /\ j \in Nat
      /\ w \in Seq(S) /\ v \in Seq(S) /\ 1 <= g /\ g <= N /\ 1 <= j /\ j <= N
    BY DropSeq
<1>2. i \in 1 .. N - 1 /\ i \in Nat
    BY <1>1
<1>3. \A m \in 1 .. N - 1 : w[m] = IF m < g THEN s[m] ELSE s[m + 1]
    BY DEF Drop
<1>4. \A m \in 1 .. N - 1 : v[m] = IF m < j THEN s[m] ELSE s[m + 1]
    BY DEF Drop
<1>5. w = [m \in 1 .. N - 1 |-> w[m]] /\ v = [m \in 1 .. N - 1 |-> v[m]]
    BY <1>1
<1> HIDE DEF w, v, N
<1>6. w[i] = s[j]
    BY <1>1, <1>2, <1>3
<1>7. v[i] = s[g]
    BY <1>1, <1>2, <1>4
<1>8. \A m \in 1 .. N - 1 : m # i => v[m] = w[m]
    <2> SUFFICES ASSUME NEW m \in 1 .. N - 1, m # i PROVE v[m] = w[m]
        OBVIOUS
    <2>1. (m < j <=> m < g)
        BY <1>1
    <2> QED
        BY <1>3, <1>4, <2>1
<1>9. [w EXCEPT ![i] = s[g]] = [m \in 1 .. N - 1 |-> IF m = i THEN s[g] ELSE w[m]]
    BY <1>5
<1>10. [w EXCEPT ![i] = s[g]] = v
    BY <1>5, <1>7, <1>8, <1>9
<1> QED
    BY <1>1, <1>2, <1>6, <1>10 DEF w, v, N

\* ReplaceNode: a leaf is taken out, or the neighbour taken out comes back for another node.
LEMMA ReplaceNodeOrders == ASSUME IInv, IInv', ListInv, ReplaceNode PROVE ListInv'
<1> DEFINE s == NodesBefore
           x == Innermost
<1>1. /\ pc = "replace" /\ removing # <<>> /\ node' = x /\ t' = Replace(t, x, node)
      /\ pc' = (IF node = NULL THEN "count" ELSE "balance")
      /\ removing' = SubSeq(removing, 1, Len(removing) - 1) /\ request[1] # "add"
      /\ UNCHANGED <<data, request, before>>
    BY DEF ReplaceNode, IInv, Phases
<1>2. /\ NodesBefore' = s /\ BeforeInOrder' /\ IdleInOrder' /\ Len(s) \in Nat
      /\ s \in Seq(Nodes) /\ \A i, j \in 1 .. Len(s) : s[i] = s[j] => i = j
    BY <1>1, CallGoesOn
<1>3. PICK k \in Nat \ {0} : k = Len(removing)
    BY <1>1, InnermostHeld
<1>4. /\ x = Held(k) /\ Depth = (IF node = NULL THEN k ELSE k + 1)
      /\ x \in Nodes /\ x # NULL
    BY <1>1, <1>3, InnermostHeld
<1>5. Sound(t) /\ node \in Pointers
    BY <1>1 DEF IInv, InOrder, Excess, Sound, TypeOK
<1>6. PICK c \in 1 .. Len(s) : Asked(c) /\ (Down(c) \/ Up(c))
    BY <1>1 DEF ListInv, Neighbours, Removing
<1>7. Len(removing') = k - 1 /\ \A i \in 1 .. k - 1 : removing'[i] = removing[i]
    <2>1. \A i \in 1 .. k - 1 : removing[i] \in Nodes
        BY <1>1, <1>3, InnermostHangs
    <2>2. 1 \in Int /\ k - 1 \in Int
        BY <1>3
    <2> QED
        BY <1>1, <1>3, <2>1, <2>2, SubSeqProperties
<1>8. Depth' = k /\ \A i \in 1 .. k : Held(i)' = Held(i)
    <2>1. Depth' = k
        BY <1>1, <1>3, <1>4, <1>7 DEF Depth
    <2>2. Held(k)' = Held(k)
        BY <1>1, <1>3, <1>4, <1>7 DEF Held
    <2>3. ASSUME NEW i \in 1 .. k - 1 PROVE Held(i)' = Held(i)
        BY <1>3, <1>7 DEF Held
    <2>4. \A i \in 1 .. k : i = k \/ i \in 1 .. k - 1
        BY <1>3
    <2> QED
        BY <2>1, <2>2, <2>3, <2>4
<1>9. 1 .. k \subseteq 1 .. Depth /\ k \in 1 .. k
    BY <1>3, <1>4
<1>10. (Down(c) => Down(c)') /\ (Up(c) => Up(c)') /\ (Asked(c) => Asked(c)')
    BY <1>1, <1>2, <1>8, <1>9 DEF Down, Up, Asked
<1>11. Neighbours'
    BY <1>1, <1>2, <1>6, <1>10 DEF Neighbours
<1>12. PICK j \in 1 .. Len(s) : s[j] = x /\ ((Down(c) /\ j = c + 1 - k) \/ (Up(c) /\ j = c + k - 1))
    <2>1. CASE Down(c)
        <3>1. k <= c /\ x = s[c + 1 - k]
            BY <1>4, <1>9, <2>1 DEF Down
        <3> QED
            BY <1>2, <1>3, <2>1, <3>1
    <2>2. CASE Up(c)
        <3>1. c + k <= Len(s) + 1 /\ x = s[c + k - 1]
            BY <1>4, <1>9, <2>2 DEF Up
        <3> QED
            BY <1>2, <1>3, <2>2, <3>1
    <2> QED
        BY <1>6, <2>1, <2>2
<1>13. Orders(t', NULL, Drop(s, j))
    <2>1. CASE node = NULL
        <3>1. t.left[x] = NULL /\ t.right[x] = NULL /\ Orders(t, NULL, s)
            BY <1>1, <2>1 DEF IInv, Downwards, ListInv, StillWhole
        <3>2. Orders(Replace(t, x, NULL), NULL, Drop(s, j))
            BY <1>5, <1>12, <3>1, ReplaceLeafOrders
        <3> QED
            BY <1>1, <2>1, <3>2
    <2>2. CASE node # NULL
        <3>1. node \in Nodes /\ ~InTree(t, node)
            BY <1>1, <1>5, <2>2 DEF IInv, HangsWhenExists, Detached, Pointers
        <3>2. PICK g \in 1 .. Len(s) : s[g] = node /\ Orders(t, NULL, Drop(s, g))
            BY <1>1, <2>2 DEF ListInv, OneTakenOut
        <3>3. k + 1 \in 1 .. Depth /\ Held(k + 1) = node
            BY <1>3, <1>4, <2>2 DEF Held
        <3>4. j = g + 1 \/ g = j + 1
            <4>1. CASE Down(c) /\ j = c + 1 - k
                <5>1. k + 1 <= c /\ node = s[c + 1 - (k + 1)]
                    BY <3>3, <4>1 DEF Down
                <5>2. c + 1 - (k + 1) \in 1 .. Len(s)
                    BY <1>2, <1>3, <5>1
                <5>3. g = c + 1 - (k + 1)
                    BY <1>2, <3>2, <5>1, <5>2
                <5> QED
                    BY <1>3, <4>1, <5>3
            <4>2. CASE Up(c) /\ j = c + k - 1
                <5>1. c + (k + 1) <= Len(s) + 1 /\ node = s[c + (k + 1) - 1]
                    BY <3>3, <4>2 DEF Up
                <5>2. c + (k + 1) - 1 \in 1 .. Len(s)
                    BY <1>2, <1>3, <5>1
                <5>3. g = c + (k + 1) - 1
                    BY <1>2, <3>2, <5>1, <5>2
                <5> QED
                    BY <1>3, <4>2, <5>3
            <4> QED
                BY <1>12, <4>1, <4>2
        <3>7. PICK i : i = IF j = g + 1 THEN g ELSE j
            OBVIOUS
        <3>5. /\ i \in 1 .. Len(Drop(s, g)) /\ Drop(s, g)[i] = x
              /\ [Drop(s, g) EXCEPT ![i] = node] = Drop(s, j)
            BY <1>2, <1>12, <3>2, <3>4, <3>7, DropNeighbour
        <3>6. Orders(Replace(t, x, node), NULL, [Drop(s, g) EXCEPT ![i] = node])
            BY <1>5, <3>1, <3>2, <3>5, ReplaceOrders
        <3> QED
            BY <1>1, <3>5, <3>6
    <2> QED
        BY <2>1, <2>2
<1>14. OneTakenOut'
    BY <1>1, <1>2, <1>12, <1>13 DEF OneTakenOut
<1>15. StillWhole' /\ OnePutIn' /\ Narrowing' /\ Walking'
    BY <1>1 DEF StillWhole, OnePutIn, Narrowing, Walking
<1>16. Requested'
    BY <1>1 DEF ListInv, Requested, Removing
<1> QED
    BY <1>2, <1>11, <1>14, <1>15, <1>16 DEF ListInv

\* Count: sizes only.
LEMMA CountOrders == ASSUME IInv, IInv', ListInv, Count PROVE ListInv'
<1>1. /\ pc = "count" /\ t' = [t EXCEPT !.size[iter] = @ - 1]
      /\ UNCHANGED <<data, pc, node, removing, request, before>>
    BY DEF Count
<1>2. NodesBefore' = NodesBefore /\ BeforeInOrder' /\ IdleInOrder'
    BY <1>1, CallGoesOn
<1>3. /\ t'.root = t.root /\ t'.left = t.left /\ t'.right = t.right
      /\ \A n \in Nodes \ {NULL} : InTree(t', n) <=> InTree(t, n)
    BY <1>1 DEF IInv, TypeOK, Trees, InTree
<1>4. ASSUME NEW w, Orders(t, NULL, w) PROVE Orders(t', NULL, w)
    <2>1. PICK lo, pos, hi : Spread(t, NULL, w, lo, pos, hi)
        BY <1>4 DEF Orders
    <2>2. Spread(t', NULL, w, lo, pos, hi)
        BY <1>3, <2>1, SameLinksSpread
    <2> QED
        BY <2>2 DEF Orders
<1>5. OneTakenOut'
    BY <1>1, <1>2, <1>4 DEF ListInv, OneTakenOut
<1>6. Neighbours'
    BY <1>1, <1>2 DEF ListInv, Neighbours, Removing, Asked, Down, Up, Held, Depth
<1> QED
    BY <1>1, <1>2, <1>5, <1>6
    DEF ListInv, Requested, Removing, StillWhole, OnePutIn, Narrowing, Walking

\* Counted.
LEMMA CountedOrders == ASSUME IInv, IInv', ListInv, Counted PROVE ListInv'
<1>1. /\ pc = "count" /\ pc' = "balance" /\ request[1] # "add" /\ node # NULL
      /\ UNCHANGED <<t, data, node, removing, request, before>>
    BY NodesAssumption DEF Counted, IInv, Phases
<1>2. NodesBefore' = NodesBefore /\ BeforeInOrder' /\ IdleInOrder'
    BY <1>1, CallGoesOn
<1>3. OneTakenOut'
    BY <1>1, <1>2 DEF ListInv, OneTakenOut
<1>4. Neighbours'
    BY <1>1, <1>2 DEF ListInv, Neighbours, Removing, Asked, Down, Up, Held, Depth
<1> QED
    BY <1>1, <1>2, <1>3, <1>4
    DEF ListInv, Requested, Removing, StillWhole, OnePutIn, Narrowing, Walking

\* RemoveReturns: the replacement is the node just taken out.
LEMMA RemoveReturnsOrders == ASSUME IInv, IInv', ListInv, RemoveReturns PROVE ListInv'
<1>1. /\ pc = "balance" /\ pc' = "replace" /\ request[1] # "add" /\ node # NULL
      /\ UNCHANGED <<t, data, node, removing, request, before>>
    BY NodesAssumption DEF RemoveReturns, IInv, Phases
<1>2. NodesBefore' = NodesBefore /\ BeforeInOrder' /\ IdleInOrder'
    BY <1>1, CallGoesOn
<1>3. OneTakenOut'
    BY <1>1, <1>2 DEF ListInv, OneTakenOut
<1>4. Neighbours'
    BY <1>1, <1>2 DEF ListInv, Neighbours, Removing, Asked, Down, Up, Held, Depth
<1> QED
    BY <1>1, <1>2, <1>3, <1>4
    DEF ListInv, Requested, Removing, StillWhole, OnePutIn, Narrowing, Walking

\* DeleteNode: the call ends without the entry the client asked for.
LEMMA DeleteNodeOrders ==
    ASSUME IInv, IInv', ListInv, DeleteNode
    PROVE  /\ ListInv' /\ request # NULL /\ request[1] \in {"removeAt", "remove"}
           /\ request' = NULL
           /\ \E c \in 1 .. Len(NodesBefore) :
                Asked(c) /\ Contents' = EntriesOf(Drop(NodesBefore, c), data)
<1> DEFINE s == NodesBefore
<1>1. /\ pc = "balance" /\ removing = <<>> /\ request[1] # "add" /\ node \in Nodes /\ node # NULL
      /\ pc' = "idle" /\ request' = NULL /\ t' = t
      /\ data' = [n \in Nodes |-> IF n = node THEN NULL ELSE data[n]]
    BY NodesAssumption DEF DeleteNode, Return, IInv, Phases
<1>2. /\ request # NULL /\ request[1] \in {"removeAt", "remove"}
    BY <1>1 DEF ListInv, Requested, Removing
<1>3. /\ s \in Seq(Nodes) /\ Len(s) \in Nat /\ Sorted(s, data)
      /\ \A i, j \in 1 .. Len(s) : s[i] = s[j] => i = j
    BY <1>1 DEF ListInv, BeforeInOrder
<1>4. PICK g \in 1 .. Len(s) : s[g] = node /\ Orders(t, NULL, Drop(s, g))
    BY <1>1 DEF ListInv, OneTakenOut
<1>5. PICK c \in 1 .. Len(s) : Asked(c) /\ (Down(c) \/ Up(c))
    BY <1>1 DEF ListInv, Neighbours, Removing
<1>6. s[c] = node
    <2>1. Depth = 1 /\ Held(1) = node
        BY <1>1 DEF Depth, Held
    <2>2. c + 1 - 1 = c /\ 1 \in 1 .. 1
        OBVIOUS
    <2> QED
        BY <1>5, <2>1, <2>2 DEF Down, Up
<1>7. c = g
    BY <1>3, <1>4, <1>6
<1>8. \A i \in 1 .. Len(s) : s[i] \in Nodes
    BY <1>3
<1>9. \A i \in 1 .. Len(s) : i # g => data'[s[i]] = data[s[i]]
    BY <1>1, <1>3, <1>4, <1>8
<1>10. /\ Sorted(Drop(s, g), data')
       /\ EntriesOf(Drop(s, g), data') = EntriesOf(Drop(s, g), data)
    BY <1>3, <1>9, DropSorted
<1>11. ListInv' /\ Contents' = EntriesOf(Drop(s, g), data')
    BY <1>1, <1>4, <1>10, CallEnds
<1> QED
    BY <1>1, <1>2, <1>5, <1>7, <1>10, <1>11

\* The place of the node that removeAt() is asked for.
LEMMA RemoveAtPlace ==
    ASSUME IInv, ListInv, pc = "idle", NEW i \in 0 .. SizeOf(t, t.root) - 1
    PROVE  i \in Nat /\ i + 1 \in 1 .. Len(Iterated(t)) /\ QueryAt(t, i) = Iterated(t)[i + 1]
<1> DEFINE s == Iterated(t)
<1>1. /\ Sound(t) /\ Orders(t, NULL, s) /\ SizeOf(t, t.root) = Len(s) /\ Len(s) \in Nat
    BY IdleFacts
<1>2. \A j \in 1 .. Len(s) : QueryAt(t, j - 1) = s[j]
    BY <1>1, LookupsFind
<1>3. i \in Nat /\ i + 1 \in 1 .. Len(s) /\ (i + 1) - 1 = i
    BY <1>1
<1> QED
    BY <1>2, <1>3

\* A place of the node that remove() is to take away.
LEMMA RemoveKeyPlace ==
    ASSUME IInv, ListInv, pc = "idle", NEW k \in Keys, Query(t, data, k) \in Nodes
    PROVE  \E i \in 1 .. Len(Iterated(t)) :
                Iterated(t)[i] = Query(t, data, k) /\ data[Iterated(t)[i]] = k
<1> DEFINE s == Iterated(t)
<1>1. Sound(t) /\ Orders(t, NULL, s) /\ Sorted(s, data)
    BY IdleFacts
<1>2. k \in Nat /\ Query(t, data, k) # NULL
    BY KeysAssumption, NodesAssumption
<1> QED
    BY <1>1, <1>2, QueryIs

\* Every step preserves the invariant.
LEMMA NextListInv == IInv /\ IInv' /\ ListInv /\ [Next]_vars => ListInv'
<1> SUFFICES ASSUME IInv, IInv', ListInv, [Next]_vars PROVE ListInv'
    OBVIOUS
<1>1. CASE Calls
    <2>1. ASSUME NEW k \in Keys, RemoveKey(k) PROVE ListInv'
        <3>1. PICK n \in Nodes \ Free : n = Query(t, data, k) /\ Remove(n, <<"remove", k>>)
            BY <2>1 DEF RemoveKey
        <3>2. pc = "idle"
            BY <3>1 DEF Remove, Called
        <3>3. PICK c \in 1 .. Len(Iterated(t)) : Iterated(t)[c] = n /\ data[n] = k
            BY <3>1, <3>2, RemoveKeyPlace
        <3> DEFINE what == <<"remove", k>>
        <3>4. what # NULL /\ what[1] = "remove" /\ what[2] = k
            <4>1. what \in {"remove"} \X Keys
                OBVIOUS
            <4> QED
                BY <4>1, RequestAssumption
        <3>5. Remove(n, what)
            BY <3>1
        <3> HIDE DEF what
        <3> QED
            BY <3>3, <3>4, <3>5, RemoveOrders
    <2>2. ASSUME NEW i \in 0 .. SizeOf(t, t.root) - 1, RemoveAt(i) PROVE ListInv'
        <3>1. PICK n \in Nodes \ Free : n = QueryAt(t, i) /\ Remove(n, <<"removeAt", i>>)
            BY <2>2 DEF RemoveAt
        <3>2. pc = "idle"
            BY <3>1 DEF Remove, Called
        <3>3. i \in Nat /\ i + 1 \in 1 .. Len(Iterated(t)) /\ Iterated(t)[i + 1] = n
            BY <3>1, <3>2, RemoveAtPlace
        <3> DEFINE what == <<"removeAt", i>>
        <3>4. what # NULL /\ what[1] = "removeAt" /\ what[2] = i
            <4>1. what \in {"removeAt"} \X Nat
                BY <3>3
            <4> QED
                BY <4>1, RequestAssumption
        <3>5. Remove(n, what)
            BY <3>1
        <3> HIDE DEF what
        <3> QED
            BY <3>3, <3>4, <3>5, RemoveOrders
    <2> QED
        BY <1>1, <2>1, <2>2, AddOrders, ClearOrders DEF Calls
<1>2. CASE Steps
    BY <1>2, ClearAllOrders, InsertRootOrders, InsertDescendOrders, InsertAttachOrders,
       BalanceOrders, FindReplacementOrders, WalkOrders, RemoveNeighbourOrders,
       ReplaceNodeOrders, CountOrders, CountedOrders, BalancedInsertOrders,
       RemoveReturnsOrders, DeleteNodeOrders
    DEF Steps
<1>3. CASE UNCHANGED vars
    <2>1. NodesBefore' = NodesBefore /\ Iterated(t)' = Iterated(t)
        BY <1>3 DEF vars, NodesBefore
    <2> QED
        BY <1>3, <2>1
        DEF vars, ListInv, Requested, Removing, IdleInOrder, BeforeInOrder, StillWhole,
            OneTakenOut, OnePutIn, Narrowing, Neighbours, Walking, Asked, Down, Up, Held, Depth,
            Innermost, Entry
<1> QED
    BY <1>1, <1>2, <1>3 DEF Next

\* csjp_bintree.h insert(), remove() and their rotations: for any nodes, any keys and any
\* sequence of calls the tree holds after every step the nodes of before the call in order,
\* with the new one where it belongs, or without the one being removed.
THEOREM ListInvariance == Spec => []ListInv
<1> QED
    BY InitListInv, NextListInv, ContainerInvariance, PTL DEF Spec

\* csjp_bintree.h query(), index(), prev() and csjp_container.h operator[], has(): between
\* calls the look-ups agree with the order the iterators show, for any nodes, any keys and
\* any sequence of calls.
THEOREM LookupsAlwaysAgree == Spec => []LookupsAgree
<1>1. ASSUME IInv, ListInv PROVE LookupsAgree
    <2> SUFFICES ASSUME pc = "idle" PROVE LookupsAgree
        BY DEF LookupsAgree
    <2> DEFINE s == Iterated(t)
    <2>1. Sound(t) /\ Orders(t, NULL, s) /\ Sorted(s, data)
        BY <1>1, IdleFacts
    <2>2. /\ SizeOf(t, t.root) = Len(s)
          /\ \A i \in 1 .. Len(s) :
                /\ QueryAt(t, i - 1) = s[i]
                /\ Index(t, s[i]) = i - 1
                /\ PrevOf(t, s[i]) = IF i = 1 THEN NULL ELSE s[i - 1]
        BY <2>1, LookupsFind
    <2>3. ASSUME NEW k \in Keys
          PROVE  LET found == Query(t, data, k)
                 IN  IF \E i \in 1 .. Len(s) : data[s[i]] = k
                     THEN found # NULL /\ data[found] = k
                     ELSE found = NULL
        <3>1. k \in Nat
            BY KeysAssumption
        <3>2. /\ Query(t, data, k) # NULL =>
                    \E i \in 1 .. Len(s) : s[i] = Query(t, data, k) /\ data[s[i]] = k
              /\ (\E i \in 1 .. Len(s) : data[s[i]] = k) => Query(t, data, k) # NULL
            BY <2>1, <3>1, QueryIs
        <3> QED
            BY <3>2
    <2> QED
        BY <2>2, <2>3 DEF LookupsAgree
<1> QED
    BY <1>1, ContainerInvariance, ListInvariance, PTL

-----------------------------------------------------------------------------
(* The list that the container promises to be.                             *)

\* Putting in and dropping, as the promise has them: cut and joined again.
LEMMA PutJoins ==
    ASSUME NEW S, NEW w \in Seq(S), NEW g \in 0 .. Len(w), NEW e \in S
    PROVE  SubSeq(w, 1, g) \o <<e>> \o SubSeq(w, g + 1, Len(w)) = Put(w, g, e)
<1> DEFINE N == Len(w)
           a == SubSeq(w, 1, g)
           b == SubSeq(w, g + 1, N)
           u == a \o <<e>> \o b
<1>1. N \in Nat /\ g \in Nat /\ g <= N
    OBVIOUS
<1>2. a \in Seq(S) /\ Len(a) = g /\ \A i \in 1 .. g : a[i] = w[i]
    OBVIOUS
<1>3. b \in Seq(S) /\ Len(b) = N - g /\ \A i \in 1 .. N - g : b[i] = w[g + i]
    OBVIOUS
<1> HIDE DEF a, b, N
<1>4. u \in Seq(S) /\ Len(u) = N + 1
    BY <1>1, <1>2, <1>3
<1> HIDE DEF u
<1>5. ASSUME NEW i \in 1 .. N + 1 PROVE u[i] = Put(w, g, e)[i]
    <2>0. i \in Int
        OBVIOUS
    <2>1. Put(w, g, e)[i] = IF i <= g THEN w[i] ELSE IF i = g + 1 THEN e ELSE w[i - 1]
        BY DEF Put, N
    <2>2. CASE i <= g
        BY <1>1, <1>2, <1>3, <2>1, <2>2 DEF u
    <2>3. CASE i = g + 1
        BY <1>1, <1>2, <1>3, <2>1, <2>3 DEF u
    <2>4. CASE g + 1 < i
        <3>1. u[i] = b[i - (g + 1)]
            BY <1>1, <1>2, <1>3, <2>4 DEF u
        <3>2. i - (g + 1) \in 1 .. N - g /\ g + (i - (g + 1)) = i - 1
            BY <1>1, <2>4
        <3>3. b[i - (g + 1)] = w[g + (i - (g + 1))]
            BY <1>3, <3>2
        <3>4. ~(i <= g) /\ i # g + 1
            BY <1>1, <2>4
        <3> QED
            BY <2>1, <3>1, <3>2, <3>3, <3>4
    <2> QED
        BY <1>1, <2>0, <2>2, <2>3, <2>4
<1>6. Put(w, g, e) = [i \in 1 .. N + 1 |-> Put(w, g, e)[i]]
    BY DEF Put, N
<1>7. u = [i \in 1 .. N + 1 |-> u[i]]
    BY <1>4
<1> QED
    BY <1>5, <1>6, <1>7 DEF a, b, N, u

\* The same of dropping.
LEMMA DropJoins ==
    ASSUME NEW S, NEW w \in Seq(S), NEW g \in 1 .. Len(w)
    PROVE  SubSeq(w, 1, g - 1) \o SubSeq(w, g + 1, Len(w)) = Drop(w, g)
<1> DEFINE N == Len(w)
           a == SubSeq(w, 1, g - 1)
           b == SubSeq(w, g + 1, N)
           u == a \o b
<1>1. N \in Nat /\ g \in Nat /\ 1 <= g /\ g <= N
    OBVIOUS
<1>2. a \in Seq(S) /\ Len(a) = g - 1 /\ \A i \in 1 .. g - 1 : a[i] = w[i]
    OBVIOUS
<1>3. b \in Seq(S) /\ Len(b) = N - g /\ \A i \in 1 .. N - g : b[i] = w[g + i]
    OBVIOUS
<1> HIDE DEF a, b, N
<1>4. u \in Seq(S) /\ Len(u) = N - 1
    <2>1. u \in Seq(S) /\ Len(u) = Len(a) + Len(b)
        BY <1>2, <1>3, ConcatProperties
    <2>2. Len(a) + Len(b) = N - 1
        BY <1>1, <1>2, <1>3
    <2> QED
        BY <2>1, <2>2
<1> HIDE DEF u
<1>5. ASSUME NEW i \in 1 .. N - 1 PROVE u[i] = Drop(w, g)[i]
    <2>1. Drop(w, g)[i] = IF i < g THEN w[i] ELSE w[i + 1]
        BY DEF Drop, N
    <2>2. CASE i < g
        BY <1>1, <1>2, <1>3, <2>1, <2>2 DEF u
    <2>3. CASE g <= i
        <3>1. u[i] = b[i - (g - 1)]
            BY <1>1, <1>2, <1>3, <2>3 DEF u
        <3>2. i - (g - 1) \in 1 .. N - g /\ g + (i - (g - 1)) = i + 1
            BY <1>1, <2>3
        <3>3. b[i - (g - 1)] = w[g + (i - (g - 1))]
            BY <1>3, <3>2
        <3>4. ~(i < g)
            BY <1>1, <2>3
        <3> QED
            BY <2>1, <3>1, <3>2, <3>3, <3>4
    <2>0. i \in Int
        OBVIOUS
    <2> QED
        BY <1>1, <2>0, <2>2, <2>3
<1>6. Drop(w, g) = [i \in 1 .. N - 1 |-> Drop(w, g)[i]]
    BY DEF Drop, N
<1>7. u = [i \in 1 .. N - 1 |-> u[i]]
    <2>1. DOMAIN u = 1 .. N - 1 /\ u = [i \in DOMAIN u |-> u[i]]
        BY <1>4
    <2> QED
        BY <2>1
<1> QED
    BY <1>5, <1>6, <1>7 DEF a, b, N, u

\* The entries of the nodes with one put in, or one dropped.
LEMMA EntriesPutDrop ==
    ASSUME NEW s \in Seq(Nodes), NEW d
    PROVE  /\ \A g \in 0 .. Len(s) : \A n \in Nodes :
                EntriesOf(Put(s, g, n), d) = Put(EntriesOf(s, d), g, <<n, d[n]>>)
           /\ \A g \in 1 .. Len(s) : EntriesOf(Drop(s, g), d) = Drop(EntriesOf(s, d), g)
<1> DEFINE N == Len(s)
           w == EntriesOf(s, d)
<1>1. N \in Nat /\ Len(w) = N /\ \A i \in 1 .. N : w[i] = <<s[i], d[s[i]]>>
    BY EntriesSeq
<1>2. ASSUME NEW g \in 0 .. N, NEW n \in Nodes
      PROVE  EntriesOf(Put(s, g, n), d) = Put(w, g, <<n, d[n]>>)
    <2>1. Len(Put(s, g, n)) = N + 1
        BY PutSeq
    <2>2. Put(w, g, <<n, d[n]>>)
          = [i \in 1 .. N + 1 |-> IF i <= g THEN w[i] ELSE IF i = g + 1 THEN <<n, d[n]>> ELSE w[i - 1]]
        BY <1>1 DEF Put
    <2>3. \A i \in 1 .. N + 1 :
            Put(s, g, n)[i] = IF i <= g THEN s[i] ELSE IF i = g + 1 THEN n ELSE s[i - 1]
        BY DEF Put
    <2>4. EntriesOf(Put(s, g, n), d)
          = [i \in 1 .. N + 1 |-> <<Put(s, g, n)[i], d[Put(s, g, n)[i]]>>]
        BY <2>1 DEF EntriesOf
    <2> HIDE DEF w, N
    <2>5. ASSUME NEW i \in 1 .. N + 1
          PROVE  <<Put(s, g, n)[i], d[Put(s, g, n)[i]]>>
                 = IF i <= g THEN w[i] ELSE IF i = g + 1 THEN <<n, d[n]>> ELSE w[i - 1]
        <3>1. CASE i <= g
            <4>1. i \in 1 .. N
                BY <1>1, <3>1
            <4> QED
                BY <1>1, <2>3, <3>1, <4>1
        <3>2. CASE i = g + 1
            BY <1>1, <2>3, <3>2
        <3>3. CASE g + 1 < i
            <4>1. i - 1 \in 1 .. N /\ ~(i <= g) /\ i # g + 1
                BY <1>1, <3>3
            <4> QED
                BY <1>1, <2>3, <4>1
        <3> QED
            BY <1>1, <3>1, <3>2, <3>3
    <2> QED
        BY <2>2, <2>4, <2>5
<1>3. ASSUME NEW g \in 1 .. N
      PROVE  EntriesOf(Drop(s, g), d) = Drop(w, g)
    <2>1. Len(Drop(s, g)) = N - 1
        BY DropSeq
    <2>2. Drop(w, g) = [i \in 1 .. N - 1 |-> IF i < g THEN w[i] ELSE w[i + 1]]
        BY <1>1 DEF Drop
    <2>3. \A i \in 1 .. N - 1 : Drop(s, g)[i] = IF i < g THEN s[i] ELSE s[i + 1]
        BY DEF Drop
    <2>4. EntriesOf(Drop(s, g), d)
          = [i \in 1 .. N - 1 |-> <<Drop(s, g)[i], d[Drop(s, g)[i]]>>]
        BY <2>1 DEF EntriesOf
    <2> HIDE DEF w, N
    <2>5. ASSUME NEW i \in 1 .. N - 1
          PROVE  <<Drop(s, g)[i], d[Drop(s, g)[i]]>> = IF i < g THEN w[i] ELSE w[i + 1]
        <3>1. i \in 1 .. N /\ i + 1 \in 1 .. N
            BY <1>1
        <3> QED
            BY <1>1, <2>3, <3>1
    <2> QED
        BY <2>2, <2>4, <2>5
<1> QED
    BY <1>2, <1>3

(* What the promise adds it adds where the node belongs: there is one such  *)
(* place.                                                                  *)
LEMMA AddedIs ==
    ASSUME ListInv, pc # "idle", node \in Nodes, data[node] \in Nat,
           NEW g \in 0 .. Len(NodesBefore), Belongs(NodesBefore, data, node, g, g)
    PROVE  Promise!Added(Entry(node)) = EntriesOf(Put(NodesBefore, g, node), data)
<1> DEFINE s == NodesBefore
           w == before
           N == Len(s)
           e == Entry(node)
           notAfter(i) == ~ e[2] < w[i][2]
           Cut(m) == /\ \A i \in 1 .. m : notAfter(i)
                     /\ \A i \in m + 1 .. Len(w) : ~notAfter(i)
           n == CHOOSE m \in 0 .. Len(w) : Cut(m)
<1>1. /\ request # NULL /\ s \in Seq(Nodes) /\ N \in Nat /\ before = EntriesOf(s, data)
      /\ \A i \in 1 .. N : data[s[i]] \in Nat
    BY DEF ListInv, BeforeInOrder, Requested, Sorted, EntriesOf, Entry
<1>2. Len(w) = N /\ \A i \in 1 .. N : w[i] = <<s[i], data[s[i]]>>
    BY <1>1, EntriesSeq
<1>3. Promise!Added(e) = SubSeq(w, 1, n) \o <<e>> \o SubSeq(w, n + 1, Len(w))
    BY <1>1 DEF Promise!Added, KeyOf
<1>4. e[2] = data[node] /\ e = <<node, data[node]>>
    BY DEF Entry
<1>5. \A i \in 1 .. N : (i <= g => notAfter(i)) /\ (g < i => ~notAfter(i))
    BY <1>1, <1>2, <1>4 DEF Belongs
<1> HIDE DEF notAfter, N, w, e
<1>6. g \in 0 .. Len(w) /\ Cut(g)
    BY <1>1, <1>2, <1>5 DEF N
<1>7. ASSUME NEW m \in 0 .. Len(w), Cut(m) PROVE m = g
    <2>1. m \in Nat /\ g \in Nat /\ m <= N /\ g <= N
        BY <1>1, <1>2 DEF N
    <2>2. CASE m < g
        <3>1. g \in m + 1 .. Len(w) /\ g \in 1 .. N
            BY <1>1, <1>2, <2>1, <2>2
        <3> QED
            BY <1>5, <1>7, <2>1, <3>1
    <2>3. CASE g < m
        <3>1. m \in 1 .. m /\ m \in 1 .. N
            BY <2>1, <2>3
        <3> QED
            BY <1>5, <1>7, <2>3, <3>1
    <2> QED
        BY <2>1, <2>2, <2>3
<1> HIDE DEF Cut
<1>8. n = g
    BY <1>6, <1>7
<1> HIDE DEF n
<1>9. w \in Seq(Nodes \X Nat) /\ e \in Nodes \X Nat
    <2>1. \A i \in 1 .. N : s[i] \in Nodes
        BY <1>1 DEF N
    <2>2. \A i \in 1 .. N : <<s[i], data[s[i]]>> \in Nodes \X Nat
        BY <1>1, <2>1
    <2>3. w = [i \in 1 .. N |-> <<s[i], data[s[i]]>>]
        BY <1>1 DEF EntriesOf, w, N
    <2> QED
        BY <1>1, <1>4, <2>2, <2>3
<1>10. Promise!Added(e) = Put(w, g, e)
    BY <1>3, <1>6, <1>8, <1>9, PutJoins
<1>11. EntriesOf(Put(s, g, node), data) = Put(w, g, e)
    BY <1>1, <1>4, EntriesPutDrop DEF w
<1> QED
    BY <1>10, <1>11 DEF e

\* A call of the container is one that the promise allows.
LEMMA CallIsAsked ==
    ASSUME IInv, ListInv, pc = "idle", request' # NULL, before' = Contents,
           request' \in Promise!Requests
    PROVE  Promise!Call
<1>1. request = NULL
    BY IdleFacts
<1> QED
    BY <1>1 DEF Promise!Call

\* Add calls add() for an entry that is not in the list.
LEMMA AddPromised == ASSUME IInv, ListInv, NEW k \in Keys, Add(k) PROVE Promise!Call
<1> DEFINE n == CHOOSE m \in Free : TRUE
           s == Iterated(t)
           e == <<n, k>>
<1>1. pc = "idle" /\ request' = <<"add", e>> /\ before' = Contents /\ n \in Free
    BY DEF Add, Called
<1>2. n \in Nodes /\ data[n] = NULL /\ e \in Nodes \X Keys
    BY <1>1 DEF Free
<1> HIDE DEF n
<1>3. /\ request = NULL /\ Contents = EntriesOf(s, data) /\ s \in Seq(Nodes)
      /\ \A i \in 1 .. Len(s) : data[s[i]] # NULL
    BY <1>1, IdleFacts
<1>4. Len(Contents) = Len(s) /\ \A i \in 1 .. Len(s) : Contents[i] = <<s[i], data[s[i]]>>
    BY <1>3, EntriesSeq
<1>5. ~Promise!Holds(e)
    BY <1>2, <1>3, <1>4 DEF Promise!Holds
<1>6. request' \in Promise!Requests
    BY <1>1, <1>2, <1>5 DEF Promise!Requests
<1>7. request' # NULL
    <2>1. <<"add", e>> \in {"add"} \X (Nodes \X Keys)
        BY <1>2
    <2> QED
        BY <1>1, <2>1, RequestAssumption
<1> QED
    BY <1>1, <1>6, <1>7, CallIsAsked

\* RemoveAt calls removeAt() for a place in the list.
LEMMA RemoveAtPromised ==
    ASSUME IInv, ListInv, NEW i \in 0 .. SizeOf(t, t.root) - 1, RemoveAt(i)
    PROVE  Promise!Call
<1>1. pc = "idle" /\ request' = <<"removeAt", i>> /\ before' = Contents
    BY DEF RemoveAt, Remove, Called
<1>2. /\ request = NULL /\ Contents = EntriesOf(Iterated(t), data) /\ Iterated(t) \in Seq(Nodes)
      /\ SizeOf(t, t.root) = Len(Iterated(t))
    BY <1>1, IdleFacts
<1>3. i \in 0 .. Len(Contents) - 1 /\ i \in Nat
    BY <1>1, <1>2, EntriesSeq, RemoveAtPlace
<1>4. request' \in Promise!Requests
    BY <1>1, <1>2, <1>3 DEF Promise!Requests
<1>5. request' # NULL
    <2>1. <<"removeAt", i>> \in {"removeAt"} \X Nat
        BY <1>3
    <2> QED
        BY <1>1, <2>1, RequestAssumption
<1> QED
    BY <1>1, <1>4, <1>5, CallIsAsked

\* RemoveKey calls remove() for a key in the list.
LEMMA RemoveKeyPromised ==
    ASSUME IInv, ListInv, NEW k \in Keys, RemoveKey(k)
    PROVE  Promise!Call
<1> DEFINE s == Iterated(t)
<1>1. /\ pc = "idle" /\ request' = <<"remove", k>> /\ before' = Contents
      /\ Query(t, data, k) \in Nodes
    BY DEF RemoveKey, Remove, Called
<1>2. request = NULL /\ Contents = EntriesOf(s, data) /\ s \in Seq(Nodes)
    BY <1>1, IdleFacts
<1>3. PICK j \in 1 .. Len(s) : data[s[j]] = k
    BY <1>1, RemoveKeyPlace
<1>4. Len(Contents) = Len(s) /\ Contents[j] = <<s[j], data[s[j]]>>
    BY <1>2, EntriesSeq
<1>5. j \in 1 .. Len(Contents) /\ KeyOf(Contents[j]) = k
    BY <1>3, <1>4 DEF KeyOf
<1>6. request' \in Promise!Requests
    BY <1>1, <1>2, <1>5 DEF Promise!Requests
<1>7. request' # NULL
    <2>1. <<"remove", k>> \in {"remove"} \X Keys
        OBVIOUS
    <2> QED
        BY <1>1, <2>1, RequestAssumption
<1> QED
    BY <1>1, <1>6, <1>7, CallIsAsked

\* Clear calls clear().
LEMMA ClearPromised == ASSUME IInv, ListInv, Clear PROVE Promise!Call
<1>1. pc = "idle" /\ request' = <<"clear", NULL>> /\ before' = Contents
    BY DEF Clear, Called
<1>2. request' \in Promise!Requests
    BY <1>1 DEF Promise!Requests
<1>3. request' # NULL
    BY <1>1, RequestAssumption
<1> QED
    BY <1>1, <1>2, <1>3, CallIsAsked

\* What an insert() that returns has put in is what the promise adds.
LEMMA AddReturnPromised ==
    ASSUME IInv, ListInv, pc \in {"descend", "balance"}, request # NULL, request[1] = "add",
           request' = NULL, NEW g \in 0 .. Len(NodesBefore), Belongs(NodesBefore, data, node, g, g),
           Contents' = EntriesOf(Put(NodesBefore, g, node), data)
    PROVE  Promise!Return
<1>1. node \in Nodes /\ data[node] \in Nat
    BY KeyOfNode
<1>2. request[2] = Entry(node)
    BY DEF ListInv, Requested
<1>3. Contents' = Promise!Added(request[2])
    BY <1>1, <1>2, AddedIs
<1> QED
    BY <1>3 DEF Promise!Return

\* What a remove() that returns has dropped is an entry it was asked to remove.
LEMMA DeleteNodePromised == ASSUME IInv, IInv', ListInv, DeleteNode PROVE Promise!Return
<1> DEFINE s == NodesBefore
<1>1. PICK c \in 1 .. Len(s) : Asked(c) /\ Contents' = EntriesOf(Drop(s, c), data)
    BY DeleteNodeOrders
<1>2. /\ request # NULL /\ request[1] \in {"removeAt", "remove"} /\ request' = NULL
    BY DeleteNodeOrders
<1>3. pc # "idle"
    BY DEF DeleteNode
<1>4. /\ s \in Seq(Nodes) /\ Len(s) \in Nat /\ before = EntriesOf(s, data)
    BY <1>3 DEF ListInv, BeforeInOrder, EntriesOf, Entry
<1> HIDE DEF s
<1>5. /\ Len(before) = Len(s) /\ before[c] = <<s[c], data[s[c]]>>
      /\ \A i \in 1 .. Len(s) : before[i] = <<s[i], data[s[i]]>>
    BY <1>4, EntriesSeq
<1>6. Contents' = Drop(before, c)
    BY <1>1, <1>4, EntriesPutDrop
<1>7. before \in Seq({before[i] : i \in 1 .. Len(s)})
    <2>1. before = [i \in 1 .. Len(s) |-> before[i]]
        BY <1>4, <1>5 DEF EntriesOf
    <2> QED
        BY <1>4, <2>1
<1>8. Promise!Without(c) = Drop(before, c)
    <2>1. Promise!Without(c) = SubSeq(before, 1, c - 1) \o SubSeq(before, c + 1, Len(before))
        BY <1>2 DEF Promise!Without
    <2> QED
        BY <1>5, <1>7, <2>1, DropJoins
<1>9. CASE request[1] = "removeAt"
    <2>1. request[2] + 1 = c
        BY <1>1, <1>9 DEF Asked
    <2> QED
        BY <1>2, <1>6, <1>8, <1>9, <2>1 DEF Promise!Return
<1>10. CASE request[1] = "remove"
    <2>1. request[2] = data[s[c]]
        BY <1>1, <1>10 DEF Asked, s
    <2>2. c \in 1 .. Len(before) /\ KeyOf(before[c]) = request[2]
        BY <1>5, <2>1 DEF KeyOf
    <2> QED
        BY <1>2, <1>6, <1>8, <1>10, <2>2 DEF Promise!Return
<1> QED
    BY <1>2, <1>9, <1>10

\* The list of the promise: what the iterators show, or showed before the call.
Shown == IF request = NULL THEN Contents ELSE before

\* Every step is a call or a return of the promise, or leaves its list alone.
LEMMA NextPromised ==
    IInv /\ IInv' /\ ListInv /\ [Next]_vars => [Promise!Next]_<<Shown, request>>
<1> SUFFICES ASSUME IInv, IInv', ListInv, [Next]_vars
             PROVE  Promise!Next \/ UNCHANGED <<Shown, request>>
    OBVIOUS
<1>1. CASE Calls
    BY <1>1, AddPromised, RemoveAtPromised, RemoveKeyPromised, ClearPromised
    DEF Calls, Promise!Next
<1>2. ASSUME ClearAll PROVE Promise!Return
    <2>1. request # NULL /\ request[1] = "clear" /\ request' = NULL /\ Contents' = <<>>
        BY <1>2, ClearAllOrders
    <2> QED
        BY <2>1 DEF Promise!Return
<1>3. ASSUME InsertRoot PROVE Promise!Return
    <2>1. /\ NodesBefore = <<>> /\ request # NULL /\ request[1] = "add"
          /\ request' = NULL /\ Contents' = EntriesOf(Put(NodesBefore, 0, node), data)
        BY <1>3, InsertRootOrders
    <2>2. 0 \in 0 .. Len(NodesBefore) /\ Belongs(NodesBefore, data, node, 0, 0)
        BY <2>1 DEF Belongs
    <2>3. pc = "descend"
        BY <1>3 DEF InsertRoot
    <2> QED
        BY <2>1, <2>2, <2>3, AddReturnPromised
<1>4. ASSUME BalancedInsert PROVE Promise!Return
    <2>1. /\ request # NULL /\ request[1] = "add" /\ request' = NULL
          /\ \E g \in 0 .. Len(NodesBefore) :
                /\ Belongs(NodesBefore, data, node, g, g)
                /\ Contents' = EntriesOf(Put(NodesBefore, g, node), data)
        BY <1>4, BalancedInsertOrders
    <2>2. pc = "balance"
        BY <1>4 DEF BalancedInsert
    <2> QED
        BY <2>1, <2>2, AddReturnPromised
<1>5. ASSUME UNCHANGED <<request, before>>, pc # "idle" PROVE UNCHANGED <<Shown, request>>
    <2>1. request # NULL
        BY <1>5 DEF ListInv, Requested
    <2> QED
        BY <1>5, <2>1 DEF Shown
<1>6. CASE Steps
    <2>1. CASE ClearAll \/ InsertRoot \/ BalancedInsert \/ DeleteNode
        BY <2>1, <1>2, <1>3, <1>4, DeleteNodePromised DEF Promise!Next
    <2>2. CASE InsertDescend \/ InsertAttach \/ Balance
        BY <2>2, <1>5 DEF InsertDescend, InsertAttach, Balance
    <2>3. CASE FindReplacement \/ Walk \/ RemoveNeighbour \/ ReplaceNode
        BY <2>3, <1>5 DEF FindReplacement, Walk, RemoveNeighbour, ReplaceNode
    <2>4. CASE Count \/ Counted \/ RemoveReturns
        BY <2>4, <1>5 DEF Count, Counted, RemoveReturns
    <2> QED
        BY <1>6, <2>1, <2>2, <2>3, <2>4 DEF Steps
<1>7. CASE UNCHANGED vars
    BY <1>7 DEF vars, Shown, Contents, Entry
<1> QED
    BY <1>1, <1>6, <1>7 DEF Next

\* The list is empty at first.
LEMMA InitPromised == Init => Promise!Init
<1> SUFFICES ASSUME Init PROVE Promise!Init
    OBVIOUS
<1>1. IInv /\ ListInv /\ pc = "idle" /\ request = NULL
    BY InitIInv, InitListInv DEF Init
<1>2. t = EmptyTree /\ t.root = NULL
    BY DEF Init, EmptyTree
<1>3. SizeOf(t, t.root) = 0
    BY <1>2 DEF SizeOf
<1>4. /\ Len(Iterated(t)) = 0 /\ Contents = EntriesOf(Iterated(t), data)
    BY <1>1, <1>3, IdleFacts
<1>5. Contents = <<>>
    BY <1>4 DEF EntriesOf
<1> QED
    BY <1>1, <1>5 DEF Promise!Init

(* csjp_container.h, csjp_owner_container.h and csjp_bintree.h: for any     *)
(* nodes, any keys and any sequence of calls a container is the list it     *)
(* promises to be.  add() puts the entry after those with an equal key,     *)
(* removeAt() and remove() take away the entry asked for and no other, and  *)
(* every step in between leaves the list as it was.                         *)
THEOREM ContainerIsASortedList == Spec => ImplementsSortedList
<1>1. Promise!Spec <=> Promise!Init /\ [][Promise!Next]_<<Shown, request>>
    BY DEF Promise!Spec, Shown
<1> QED
    BY <1>1, InitPromised, NextPromised, ContainerInvariance, ListInvariance, PTL
    DEF Spec, ImplementsSortedList
==============================================================================

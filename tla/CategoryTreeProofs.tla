------------------------- MODULE CategoryTreeProofs -------------------------
(***************************************************************************)
(* The tree stays a tree: three levels, every node below one of its own    *)
(* type and of the level above, whatever is created, moved and deleted.    *)
(* And nothing is orphaned: what is entered hangs from leaves, what stops  *)
(* being a leaf gives what it had to a leaf below it, and the first load   *)
(* does the same with the pockets that older versions left with a journal  *)
(* or a plan and children.  The repairs go through the nodes in the order of*)
(* the grid: their result exists, and node after node has nothing left.    *)
(*                                                                         *)
(* Then the figures, as sums over the journal, the months and the nodes:   *)
(* every operation, every repair, sends what one node had to another of    *)
(* its type, or deletes a node that holds nothing; so no total moves, no   *)
(* closed month changes, and the grid adds up from the children.           *)
(***************************************************************************)
EXTENDS CategoryTree, FiniteInduction

USE DEF Group, Category, Sub, NoNode

\* Below a group there are categories, below these subcategories, and below
\* these nothing.
LEMMA LevelsBelow ==
  ASSUME NEW t, WellFormed(t), NEW n \in DOMAIN t
  PROVE  /\ \A c \in Children(t, n) : c \in DOMAIN t /\ t[c].level = t[n].level + 1
         /\ \A c \in Grandchildren(t, n) : c \in DOMAIN t /\ t[c].level = t[n].level + 2
  <1>1. \A x \in DOMAIN t : t[x].level \in 0..2
    BY DEF WellFormed, Nodes
  <1>2. ASSUME NEW x \in DOMAIN t, NEW c \in Children(t, x)
        PROVE  c \in DOMAIN t /\ t[c].level = t[x].level + 1
    <2>1. c \in DOMAIN t /\ t[c].parent = x
      BY DEF Children
    <2>2. t[c].level # Group
      BY <2>1 DEF WellFormed
    <2> QED
      BY <1>1, <2>1, <2>2 DEF WellFormed
  <1> QED
    BY <1>1, <1>2 DEF Grandchildren, Children

LEMMA SubtreeKept ==
  ASSUME NEW t, WellFormed(t), NEW n \in DOMAIN t
  PROVE  /\ n \in Subtree(t, n) /\ Subtree(t, n) \subseteq DOMAIN t
         /\ \A x \in DOMAIN t :
              /\ x \in Subtree(t, n) /\ x # n => t[x].parent \in Subtree(t, n)
              /\ x \notin Subtree(t, n) => t[x].parent \notin Subtree(t, n)
         /\ \A x \in Subtree(t, n) : t[x].level <= t[n].level + SubtreeDepth(t, n)
  <1>1. \A x \in DOMAIN t : t[x].level \in 0..2
    BY DEF WellFormed, Nodes
  <1>2. Subtree(t, n) \subseteq DOMAIN t
    BY LevelsBelow DEF Subtree
  <1>3. ASSUME NEW x \in DOMAIN t, x \in Subtree(t, n), x # n
        PROVE  t[x].parent \in Subtree(t, n)
    BY <1>3 DEF Subtree, Grandchildren, Children
  <1>4. ASSUME NEW x \in DOMAIN t, t[x].parent \in Subtree(t, n)
        PROVE  x \in Subtree(t, n)
    <2>1. CASE t[x].parent \in {n} \cup Children(t, n)
      BY <2>1 DEF Subtree, Grandchildren, Children
    <2>2. CASE t[x].parent \in Grandchildren(t, n)
      <3>1. t[x].parent \in DOMAIN t /\ t[t[x].parent].level = t[n].level + 2
        BY <2>2, LevelsBelow
      <3>2. t[x].level = t[n].level + 3
        BY <3>1, LevelsBelow, <1>1 DEF Children
      <3> QED
        BY <3>2, <1>1
    <2> QED
      BY <1>4, <2>1, <2>2 DEF Subtree
  <1>5. ASSUME NEW x \in Subtree(t, n)
        PROVE  t[x].level <= t[n].level + SubtreeDepth(t, n)
    <2>1. CASE x = n
      BY <2>1, <1>1 DEF SubtreeDepth
    <2>2. CASE x \in Children(t, n)
      <3>1. SubtreeDepth(t, n) \in {1, 2}
        BY <2>2 DEF SubtreeDepth, Childless
      <3> QED
        BY <2>2, <3>1, <1>1, LevelsBelow
    <2>3. CASE x \in Grandchildren(t, n)
      <3>1. SubtreeDepth(t, n) = 2
        BY <2>3 DEF SubtreeDepth, Childless, Grandchildren
      <3> QED
        BY <2>3, <3>1, <1>1, LevelsBelow
    <2> QED
      BY <1>5, <2>1, <2>2, <2>3 DEF Subtree
  <1> QED
    BY <1>2, <1>3, <1>4, <1>5 DEF Subtree

LEMMA Created ==
  ASSUME TreeOK, NEW parent \in DOMAIN tree \cup {NoNode}, NEW type \in Types(tree),
         CreateNode(parent, type)
  PROVE  TreeOK'
  <1> DEFINE id == created + 1
             level == IF parent = NoNode THEN Group ELSE tree[parent].level + 1
             node == [level |-> level, parent |-> parent, type |-> type]
             t == [n \in DOMAIN tree \cup {id} |-> IF n = id THEN node ELSE tree[n]]
  <1>1. tree' = t /\ created' = id /\ id \in 1..MaxNode
    BY DEF CreateNode, Adopt, Reorganise, Ids
  <1>2. parent # NoNode => tree[parent].level # Sub /\ tree[parent].type = type
    BY DEF CreateNode
  <1>3. WellFormed(tree) /\ DOMAIN tree \subseteq 1..created /\ created \in 0..MaxNode
    BY DEF TreeOK
  <1>4. id \notin DOMAIN tree /\ DOMAIN t = DOMAIN tree \cup {id}
    BY <1>3, TreeAssumption
  <1>5. node \in Nodes /\ (node.level = Group <=> node.parent = NoNode)
    <2>1. type \in {"income", "expense", "transfer"}
      BY <1>3 DEF Types, WellFormed, Nodes
    <2>2. parent # NoNode => tree[parent].level \in {Group, Category}
      BY <1>2, <1>3 DEF WellFormed, Nodes
    <2>3. parent \in Nat /\ level \in {Group, Category, Sub} /\ (level = Group <=> parent = NoNode)
      BY <1>3, <2>2, TreeAssumption DEF WellFormed
    <2> HIDE DEF level
    <2> QED
      BY <2>1, <2>3 DEF Nodes
  <1>6. t \in [DOMAIN t -> Nodes] /\ NoNode \notin DOMAIN t
    BY <1>3, <1>4, <1>5, TreeAssumption DEF WellFormed
  <1>7. ASSUME NEW n \in DOMAIN t
        PROVE  /\ (t[n].level = Group) <=> (t[n].parent = NoNode)
               /\ t[n].level # Group =>
                    /\ t[n].parent \in DOMAIN t
                    /\ t[t[n].parent].type = t[n].type
                    /\ t[t[n].parent].level = t[n].level - 1
    <2>1. CASE n = id
      <3>1. t[n] = node
        BY <2>1
      <3>2. CASE parent = NoNode
        BY <3>1, <3>2
      <3>3. CASE parent # NoNode
        <4>1. parent \in DOMAIN tree /\ t[parent] = tree[parent]
          BY <3>3, <1>4
        <4>2. tree[parent].level \in {Group, Category} /\ level = tree[parent].level + 1
          BY <3>3, <4>1, <1>2, <1>3 DEF WellFormed, Nodes
        <4>3. node.level = level /\ node.parent = parent /\ node.type = type
          OBVIOUS
        <4> HIDE DEF level, node, t
        <4> QED
          BY <3>1, <3>3, <4>1, <4>2, <4>3, <1>2, <1>4
      <3> QED
        BY <3>2, <3>3
    <2>2. CASE n # id
      BY <2>2, <1>3, <1>4 DEF WellFormed
    <2> QED
      BY <2>1, <2>2
  <1>8. WellFormed(t)
    <2> HIDE DEF t
    <2> QED
      BY <1>6, <1>7 DEF WellFormed
  <1> HIDE DEF t
  <1> QED
    BY <1>1, <1>3, <1>4, <1>8, TreeAssumption DEF TreeOK

\* What the moves have in common: the same nodes, each with a level and a parent.
LEMMA SameNodes ==
  ASSUME TreeOK, NEW t, WellFormed(t), DOMAIN t = DOMAIN tree, tree' = t, created' = created
  PROVE  TreeOK'
  BY DEF TreeOK

LEMMA MovedToRoot ==
  ASSUME TreeOK, NEW n \in DOMAIN tree, MoveToRoot(n)
  PROVE  TreeOK'
  <1> DEFINE t == [x \in DOMAIN tree |->
                     IF x = n THEN [tree[x] EXCEPT !.level = Group, !.parent = NoNode]
                     ELSE IF x \in Children(tree, n) THEN [tree[x] EXCEPT !.level = Category]
                     ELSE tree[x]]
  <1>1. tree' = t /\ created' = created
    BY DEF MoveToRoot, Reorganise
  <1>0. tree[n].level \in {Category, Sub}
    BY DEF MoveToRoot, TreeOK, WellFormed, Nodes
  <1>2. WellFormed(tree)
    BY DEF TreeOK
  <1>3. \A x \in DOMAIN tree : tree[x] \in Nodes
    BY <1>2 DEF WellFormed
  <1>4. DOMAIN t = DOMAIN tree
    OBVIOUS
  <1>5. ASSUME NEW x \in DOMAIN tree
        PROVE  /\ t[x] \in Nodes
               /\ t[x].type = tree[x].type
               /\ t[x].parent = IF x = n THEN NoNode ELSE tree[x].parent
               /\ t[x].level = IF x = n THEN Group
                               ELSE IF x \in Children(tree, n) THEN Category ELSE tree[x].level
    BY <1>3 DEF Nodes
  <1>6. n \notin Children(tree, n)
    BY <1>2, <1>3, LevelsBelow DEF Nodes
  <1>7. \A x \in Children(tree, n) : x \in DOMAIN tree /\ tree[x].parent = n
    BY DEF Children
  <1>levels. \A x \in DOMAIN tree : tree[x].level \in 0..2
    BY <1>3 DEF Nodes
  <1>8. \A x \in DOMAIN tree \ {n} : tree[x].parent \in Children(tree, n) => FALSE
    <2> SUFFICES ASSUME NEW x \in DOMAIN tree, tree[x].parent \in Children(tree, n) PROVE FALSE
      OBVIOUS
    <2>1. tree[tree[x].parent].level = tree[n].level + 1 /\ tree[x].parent \in DOMAIN tree
      BY <1>2, LevelsBelow
    <2>2. tree[x].level = tree[n].level + 2
      BY <2>1, <1>2, <1>3, LevelsBelow DEF Children, Nodes
    <2> QED
      BY <2>2, <1>0, <1>levels
  <1>9. \A x \in DOMAIN tree \ {n} : x \notin Children(tree, n) => tree[x].parent # n
    BY DEF Children
  <1>10. ASSUME NEW x \in DOMAIN tree
         PROVE  /\ (t[x].level = Group) <=> (t[x].parent = NoNode)
                /\ t[x].level # Group =>
                     /\ t[x].parent \in DOMAIN tree
                     /\ t[t[x].parent].type = t[x].type
                     /\ t[t[x].parent].level = t[x].level - 1
    <2> HIDE DEF t
    <2>0. NoNode \notin DOMAIN tree
      BY <1>2 DEF WellFormed
    <2>1. CASE x = n
      BY <2>1, <1>5
    <2>2. CASE x # n /\ x \in Children(tree, n)
      BY <2>2, <2>0, <1>2, <1>5, <1>7 DEF WellFormed
    <2>3. CASE x # n /\ x \notin Children(tree, n)
      <3>1. tree[x].level # Group => tree[x].parent \in DOMAIN tree \ ({n} \cup Children(tree, n))
        BY <2>3, <1>2, <1>8, <1>9 DEF WellFormed
      <3> QED
        BY <2>3, <3>1, <1>2, <1>5 DEF WellFormed
    <2> QED
      BY <2>1, <2>2, <2>3
  <1>11. WellFormed(t)
    <2>1. t \in [DOMAIN t -> Nodes]
      BY <1>4, <1>5
    <2> HIDE DEF t
    <2> QED
      BY <2>1, <1>2, <1>4, <1>10 DEF WellFormed
  <1> HIDE DEF t
  <1> QED
    BY <1>1, <1>4, <1>11, SameNodes

LEMMA MovedGroup ==
  ASSUME TreeOK, NEW n \in DOMAIN tree, NEW dest \in DOMAIN tree, MoveGroup(n, dest)
  PROVE  TreeOK'
  <1> DEFINE S == Subtree(tree, n)
             t == [x \in DOMAIN tree |->
                     IF x \notin S THEN tree[x]
                     ELSE [tree[x] EXCEPT !.level = @ + tree[dest].level + 1,
                                          !.parent = IF x = n THEN dest ELSE @]]
  <1>1. tree' = t /\ created' = created
    BY DEF MoveGroup, Adopt, Reorganise
  <1>0. /\ tree[n].level = Group
        /\ tree[n].type = tree[dest].type /\ dest \notin S
        /\ tree[dest].level + 1 + SubtreeDepth(tree, n) <= Sub
    BY DEF MoveGroup, Accepts, Fits
  <1>2. WellFormed(tree)
    BY DEF TreeOK
  <1>3. \A x \in DOMAIN tree : tree[x] \in Nodes
    BY <1>2 DEF WellFormed
  <1>4. DOMAIN t = DOMAIN tree
    OBVIOUS
  <1>5. /\ n \in S /\ S \subseteq DOMAIN tree
        /\ \A x \in DOMAIN tree :
             /\ x \in S /\ x # n => tree[x].parent \in S
             /\ x \notin S => tree[x].parent \notin S
        /\ \A x \in S : tree[x].level <= SubtreeDepth(tree, n)
    <2>1. SubtreeDepth(tree, n) \in 0..2
      BY DEF SubtreeDepth
    <2>2. \A x \in S : tree[x].level <= 0 + SubtreeDepth(tree, n)
      BY <1>0, <1>2, SubtreeKept
    <2>3. \A x \in S : tree[x].level <= SubtreeDepth(tree, n)
      BY <2>1, <2>2
    <2> QED
      BY <2>3, <1>2, SubtreeKept
  <1> HIDE DEF S
  <1>levels. \A x \in DOMAIN tree : tree[x].level \in 0..2
    BY <1>3 DEF Nodes
  <1>6. ASSUME NEW x \in S
        PROVE  tree[x].level + tree[dest].level + 1 \in {Group, Category, Sub}
    <2>1. tree[x].level \in 0..2 /\ tree[dest].level \in 0..2 /\ tree[x].level <= SubtreeDepth(tree, n)
      BY <1>5, <1>levels
    <2>2. tree[dest].level + 1 + SubtreeDepth(tree, n) <= 2 /\ SubtreeDepth(tree, n) \in 0..2
      BY <1>0 DEF SubtreeDepth
    <2> QED
      BY <2>1, <2>2
  <1>7. ASSUME NEW x \in DOMAIN tree
        PROVE  /\ t[x] \in Nodes
               /\ t[x].type = tree[x].type
               /\ t[x].parent = IF x = n THEN dest ELSE tree[x].parent
               /\ t[x].level = IF x \in S THEN tree[x].level + tree[dest].level + 1 ELSE tree[x].level
    <2>1. CASE x \notin S
      BY <2>1, <1>3, <1>5
    <2>2. CASE x \in S
      <3>1. dest \in Nat
        BY <1>2, TreeAssumption DEF TreeOK
      <3> QED
        BY <2>2, <3>1, <1>3, <1>6 DEF Nodes
    <2> QED
      BY <2>1, <2>2
  <1>8. ASSUME NEW x \in DOMAIN tree
        PROVE  /\ (t[x].level = Group) <=> (t[x].parent = NoNode)
               /\ t[x].level # Group =>
                    /\ t[x].parent \in DOMAIN tree
                    /\ t[t[x].parent].type = t[x].type
                    /\ t[t[x].parent].level = t[x].level - 1
    <2> HIDE DEF t
    <2>0. NoNode \notin DOMAIN tree /\ tree[dest].level \in 0..2 /\ tree[x].level \in 0..2
      BY <1>2, <1>3 DEF WellFormed, Nodes
    <2>1. CASE x = n
      BY <2>0, <2>1, <1>0, <1>5, <1>7
    <2>2. CASE x # n /\ x \in S
      <3>1. tree[x].level # Group
        BY <2>0, <2>2, <1>2, <1>5 DEF WellFormed
      <3>2. /\ tree[x].parent \in DOMAIN tree /\ tree[x].parent \in S
            /\ tree[tree[x].parent].type = tree[x].type
            /\ tree[tree[x].parent].level = tree[x].level - 1
        BY <2>2, <3>1, <1>2, <1>5 DEF WellFormed
      <3>3. t[x].level = tree[x].level + tree[dest].level + 1 /\ t[x].parent = tree[x].parent
        BY <2>2, <1>7
      <3>4. t[tree[x].parent].level = tree[x].level - 1 + tree[dest].level + 1
        BY <3>2, <1>7
      <3> QED
        BY <2>0, <3>1, <3>2, <3>3, <3>4, <1>7
    <2>3. CASE x \notin S
      <3>1. t[x].level = tree[x].level /\ t[x].parent = tree[x].parent /\ t[x].type = tree[x].type
        BY <2>3, <1>5, <1>7
      <3>2. tree[x].level # Group =>
              /\ tree[x].parent \in DOMAIN tree \ S
              /\ tree[tree[x].parent].type = tree[x].type
              /\ tree[tree[x].parent].level = tree[x].level - 1
        BY <2>3, <1>2, <1>5 DEF WellFormed
      <3>3. tree[x].level = Group <=> tree[x].parent = NoNode
        BY <1>2 DEF WellFormed
      <3> QED
        BY <3>1, <3>2, <3>3, <1>7
    <2> QED
      BY <2>1, <2>2, <2>3
  <1>9. WellFormed(t)
    <2>1. t \in [DOMAIN t -> Nodes]
      BY <1>4, <1>7
    <2> HIDE DEF t
    <2> QED
      BY <2>1, <1>2, <1>4, <1>8 DEF WellFormed
  <1> HIDE DEF t
  <1> QED
    BY <1>1, <1>4, <1>9, SameNodes

LEMMA MovedToCategory ==
  ASSUME TreeOK, NEW n \in DOMAIN tree, NEW dest \in DOMAIN tree, MoveToCategory(n, dest)
  PROVE  TreeOK'
  <1> DEFINE C == Children(tree, n)
             t == Flattened(n, dest)
  <1>1. /\ tree' = t /\ created' = created /\ tree[n].level # Group /\ tree[dest].level = Category
        /\ tree[n].type = tree[dest].type /\ dest \notin {n} \cup C
    BY DEF MoveToCategory, Adopt, Reorganise, Accepts, Subtree
  <1>2. WellFormed(tree)
    BY DEF TreeOK
  <1>3. \A x \in DOMAIN tree : tree[x] \in Nodes
    BY <1>2 DEF WellFormed
  <1>4. DOMAIN t = DOMAIN tree
    BY DEF Flattened
  <1>5. dest \in Nat
    BY <1>2, TreeAssumption DEF TreeOK
  <1>6. ASSUME NEW x \in DOMAIN tree
        PROVE  /\ t[x] \in Nodes
               /\ t[x].type = tree[x].type
               /\ t[x].parent = IF x \in {n} \cup C THEN dest ELSE tree[x].parent
               /\ t[x].level = IF x \in {n} \cup C THEN Sub ELSE tree[x].level
    BY <1>3, <1>5 DEF Flattened, Nodes
  <1>7. \A x \in C : x \in DOMAIN tree /\ tree[x].parent = n /\ tree[x].type = tree[n].type
    BY <1>2 DEF Children, WellFormed
  <1>8. ASSUME NEW x \in DOMAIN tree, x \notin C
        PROVE  tree[x].parent \notin {n} \cup C
    <2>1. tree[x].parent # n
      BY <1>8 DEF Children
    <2>2. ASSUME tree[x].parent \in C PROVE FALSE
      <3>1. tree[tree[x].parent].level = tree[n].level + 1 /\ tree[x].parent \in DOMAIN tree
        BY <2>2, <1>2, LevelsBelow
      <3>2. tree[x].level = tree[n].level + 2
        BY <3>1, <1>2, <1>3, LevelsBelow DEF Children, Nodes
      <3> QED
        BY <3>2, <1>1, <1>3 DEF Nodes
    <2> QED
      BY <2>1, <2>2
  <1>9. ASSUME NEW x \in DOMAIN tree
        PROVE  /\ (t[x].level = Group) <=> (t[x].parent = NoNode)
               /\ t[x].level # Group =>
                    /\ t[x].parent \in DOMAIN tree
                    /\ t[t[x].parent].type = t[x].type
                    /\ t[t[x].parent].level = t[x].level - 1
    <2> HIDE DEF t, C
    <2>1. CASE x \in {n} \cup C
      <3>1. t[dest].level = Category /\ t[dest].type = tree[n].type
        BY <1>1, <1>6
      <3>2. dest # NoNode
        BY <1>2 DEF WellFormed
      <3> QED
        BY <2>1, <3>1, <3>2, <1>6, <1>7
    <2>2. CASE x \notin {n} \cup C
      <3>1. tree[x].level # Group =>
              /\ tree[x].parent \in DOMAIN tree \ ({n} \cup C)
              /\ tree[tree[x].parent].type = tree[x].type
              /\ tree[tree[x].parent].level = tree[x].level - 1
        BY <2>2, <1>2, <1>8 DEF WellFormed
      <3>2. tree[x].level = Group <=> tree[x].parent = NoNode
        BY <1>2 DEF WellFormed
      <3> QED
        BY <2>2, <3>1, <3>2, <1>6
    <2> QED
      BY <2>1, <2>2
  <1>10. WellFormed(t)
    <2>1. t \in [DOMAIN t -> Nodes]
      BY <1>4, <1>6 DEF Flattened
    <2> HIDE DEF t
    <2> QED
      BY <2>1, <1>2, <1>4, <1>9 DEF WellFormed
  <1> HIDE DEF t
  <1> QED
    BY <1>1, <1>4, <1>10, SameNodes

LEMMA MovedToGroup ==
  ASSUME TreeOK, NEW n \in DOMAIN tree, NEW dest \in DOMAIN tree, MoveToGroup(n, dest)
  PROVE  TreeOK'
  <1> DEFINE t == [tree EXCEPT ![n].level = Category, ![n].parent = dest]
  <1>1. tree' = t /\ created' = created
    BY DEF MoveToGroup, Adopt, Reorganise
  <1>2. /\ tree[n].level # Group /\ tree[dest].level = Group
        /\ tree[n].type = tree[dest].type
    BY DEF MoveToGroup, Accepts
  <1>3. WellFormed(tree) /\ dest \in Nat /\ dest # NoNode /\ dest # n
    BY <1>2, TreeAssumption DEF TreeOK, WellFormed
  <1>4. \A x \in DOMAIN tree : tree[x] \in Nodes /\ tree[x].level \in 0..2
    BY <1>3 DEF WellFormed, Nodes
  <1>5. DOMAIN t = DOMAIN tree
    OBVIOUS
  <1>6. ASSUME NEW x \in DOMAIN tree
        PROVE  /\ t[x] \in Nodes
               /\ t[x].type = tree[x].type
               /\ t[x].parent = IF x = n THEN dest ELSE tree[x].parent
               /\ t[x].level = IF x = n THEN Category ELSE tree[x].level
    <2>1. CASE x = n
      BY <2>1, <1>3, <1>4 DEF Nodes
    <2>2. CASE x # n
      BY <2>2, <1>4
    <2> QED
      BY <2>1, <2>2
  <1> HIDE DEF t
  <1>7. PICK below \in {Category, Sub} : tree[n].level = below
    BY <1>2, <1>4
  <1>8. ASSUME NEW x \in DOMAIN tree
        PROVE  /\ (t[x].level = Group) <=> (t[x].parent = NoNode)
               /\ t[x].level # Group =>
                    /\ t[x].parent \in DOMAIN tree
                    /\ t[t[x].parent].type = t[x].type
                    /\ t[t[x].parent].level = t[x].level - 1
    <2>1. CASE x = n
      <3>1. t[dest].level = Group /\ t[dest].type = tree[n].type
        BY <1>2, <1>3, <1>6
      <3> QED
        BY <2>1, <3>1, <1>3, <1>6
    <2>2. CASE x # n /\ tree[x].parent # n
      <3>1. t[x].level = tree[x].level /\ t[x].parent = tree[x].parent /\ t[x].type = tree[x].type
        BY <2>2, <1>6
      <3>2. tree[x].level # Group =>
              /\ tree[x].parent \in DOMAIN tree \ {n}
              /\ tree[tree[x].parent].type = tree[x].type
              /\ tree[tree[x].parent].level = tree[x].level - 1
        BY <2>2, <1>3 DEF WellFormed
      <3>3. tree[x].level = Group <=> tree[x].parent = NoNode
        BY <1>3 DEF WellFormed
      <3> QED
        BY <3>1, <3>2, <3>3, <1>6
    <2>3. CASE x # n /\ tree[x].parent = n
      <3>1. tree[x].level = tree[n].level + 1
        BY <2>3, <1>3, LevelsBelow DEF Children
      <3>2. tree[n].level = Category /\ tree[x].level = Sub
        BY <3>1, <1>4, <1>7
      <3>3. t[n].level = Category /\ t[n].type = tree[n].type /\ tree[n].type = tree[x].type
        BY <2>3, <3>2, <1>3, <1>6 DEF WellFormed
      <3>4. n # NoNode
        BY <1>3 DEF WellFormed
      <3> QED
        BY <2>3, <3>2, <3>3, <3>4, <1>6
    <2> QED
      BY <2>1, <2>2, <2>3
  <1>9. WellFormed(t)
    <2>1. t \in [DOMAIN t -> Nodes]
      BY <1>5, <1>6 DEF t
    <2> QED
      BY <2>1, <1>3, <1>5, <1>8 DEF WellFormed
  <1> QED
    BY <1>1, <1>5, <1>9, SameNodes

LEMMA EntriesKeepTree ==
  ASSUME Entries
  PROVE  tree' = tree /\ created' = created /\ closed' = closed /\ healed' = healed
  <1> DEFINE Kept == tree' = tree /\ created' = created /\ closed' = closed /\ healed' = healed
  <1>1. ASSUME NEW kind, NEW n, NEW type, NEW m, Entry(kind, n, type, m) PROVE Kept
    BY <1>1 DEF Entry
  <1>2. ASSUME NEW n, NEW r, NEW m, NEW v,
               SetLeafAmount(n, m, v) \/ AdjustCell(n, m, v) \/ SetPocketAmount(n, r, m, v)
        PROVE  Kept
    BY <1>1, <1>2 DEF SetLeafAmount, AdjustCell, SetPocketAmount
  <1>3. ASSUME NEW n, NEW m,
               AddMovement(n, m) \/ SetAside(n, m) \/ TakeOut(n, m) \/ PlanRetiro(n, m)
        PROVE  Kept
    BY <1>1, <1>3 DEF AddMovement, SetAside, TakeOut, PlanRetiro
  <1>4. ASSUME NEW n, NEW r, NEW m, AddNote(n, r, m) PROVE Kept
    BY <1>4 DEF AddNote
  <1>5. ASSUME NEW p, NEW q, NEW m, MoveMoney(p, q, m) PROVE Kept
    BY <1>1, <1>5 DEF MoveMoney
  <1> HIDE DEF Kept
  <1>6. Kept
    BY <1>2, <1>3, <1>4, <1>5 DEF Entries
  <1> QED
    BY <1>6 DEF Kept

LEMMA Deleted ==
  ASSUME TreeOK, NEW n \in DOMAIN tree, DeleteNode(n)
  PROVE  TreeOK'
  <1> DEFINE t == [x \in DOMAIN tree \ {n} |-> tree[x]]
  <1>1. tree' = t /\ created' = created /\ Children(tree, n) = {}
    BY DEF DeleteNode, Childless
  <1>2. WellFormed(tree) /\ \A x \in DOMAIN tree : tree[x].parent # n
    BY <1>1 DEF TreeOK, Children
  <1>3. WellFormed(t)
    BY <1>2 DEF WellFormed
  <1> HIDE DEF t
  <1> QED
    BY <1>1, <1>3 DEF TreeOK, t

-----------------------------------------------------------------------------

LEMMA FrontierTyped ==
  ASSUME closed \in 0..MaxMonth, healed \in BOOLEAN, [Next]_vars
  PROVE  (closed \in 0..MaxMonth)' /\ (healed \in BOOLEAN)'
  <1> DEFINE Kept == closed' = closed /\ healed' = healed
  <1>1. CASE Structure
    <2>1. ASSUME NEW p, NEW type, CreateNode(p, type) PROVE Kept
      BY <2>1 DEF CreateNode
    <2>2. ASSUME NEW n, MoveToRoot(n) \/ DeleteNode(n) PROVE Kept
      BY <2>2 DEF MoveToRoot, DeleteNode
    <2>3. ASSUME NEW n, NEW dest, MoveGroup(n, dest) \/ MoveToCategory(n, dest) \/ MoveToGroup(n, dest)
          PROVE  Kept
      BY <2>3 DEF MoveGroup, MoveToCategory, MoveToGroup
    <2> HIDE DEF Kept
    <2>4. Kept
      BY <1>1, <2>1, <2>2, <2>3 DEF Structure
    <2> QED
      BY <2>4 DEF Kept
  <1>2. CASE Entries
    <2>1. Kept
      BY <1>2, EntriesKeepTree
    <2> QED
      BY <2>1
  <1>3. CASE Close
    BY <1>3, TreeAssumption DEF Close
  <1>4. CASE Load
    BY <1>4 DEF Load
  <1>5. CASE UNCHANGED vars
    BY <1>5 DEF vars
  <1> QED
    BY <1>1, <1>2, <1>3, <1>4, <1>5 DEF Next

LEMMA InitTyped ==
  ASSUME Init
  PROVE  TypeOK
  <1>1. PICK u \in Users : \E b \in u.books : tree = b.tree /\ created = b.created
    BY DEF Init
  <1>2. TreeOK
    BY <1>1, BooksAssumption DEF TreeOK
  <1>3. closed \in 0..MaxMonth
    <2>1. closed = 0
      BY DEF Init
    <2> QED
      BY <2>1, TreeAssumption
  <1>4. healed \in BOOLEAN
    BY DEF Init
  <1> QED
    BY <1>2, <1>3, <1>4 DEF TypeOK

\* Whatever is created, moved and deleted, in any order, the categories are a
\* tree of three levels, each node below one of its own type (FR-702, FR-703).
THEOREM TreeIsATree == Spec => []TypeOK
  <1>1. Init => TypeOK
    BY InitTyped
  <1>2. TreeOK /\ [Next]_vars => TreeOK'
    <2> SUFFICES ASSUME TreeOK, [Next]_vars PROVE TreeOK'
      OBVIOUS
    <2>1. CASE Structure
      BY <2>1, Created, MovedToRoot, MovedGroup, MovedToCategory, MovedToGroup, Deleted DEF Structure
    <2>2. CASE Entries
      <3>1. tree' = tree /\ created' = created
        BY <2>2, EntriesKeepTree
      <3> QED
        BY <3>1 DEF TreeOK
    <2>3. CASE Close
      BY <2>3 DEF Close, TreeOK
    <2>4. CASE Load
      BY <2>4 DEF Load, TreeOK
    <2>5. CASE UNCHANGED vars
      BY <2>5 DEF vars, TreeOK
    <2> QED
      BY <2>1, <2>2, <2>3, <2>4, <2>5 DEF Next
  <1>3. TypeOK /\ [Next]_vars => TypeOK'
    BY <1>2, FrontierTyped DEF TypeOK
  <1> QED
    BY <1>1, <1>3, PTL DEF Spec

-----------------------------------------------------------------------------
(* What hangs from the nodes.                                              *)

\* Where a movement may end: at a leaf or, until the repairs run, at an inner pocket.
Keepers(t, h) == Leaves(t) \cup (IF h THEN {} ELSE InnerPockets(t))

\* NothingOrphaned, and what of it holds before the repairs of a load.
Placed(t, rs, j, h) ==
  /\ \A r \in Figures, n \in Ids \ Leaves(t) : Nothing(rs, r, n) \/ (r = "plan" /\ n \in Keepers(t, h))
  /\ h => \A r \in Comments, n \in Ids \ Leaves(t) : Nothing(rs, r, n)
  /\ \A x \in j : Ends(x) \subseteq Keepers(t, h) /\ (x.from # x.to \/ x.from = NoEnd)
  /\ h => \A x \in j : x.cat = CatOf(t, x.target) /\ x.sub = SubOf(t, x.target)

RowsTyped(rs) == rs \in [Rows -> [Ids -> [Months -> Nat]]]

Movement(x) ==
  x \in [id : {x.id}, target : Ids, cat : {x.cat}, sub : {x.sub}, from : Ids \cup {Available, NoEnd},
         to : Ids \cup {Available, NoEnd}, month : {x.month}, amount : {x.amount}]

JournalTyped(j) == \A x \in j : Movement(x)

Hanging(t, rs, j, h) == RowsTyped(rs) /\ JournalTyped(j) /\ Placed(t, rs, j, h)

LEMMA IdsHave == Ids \subseteq Nat /\ Available \notin Ids /\ NoEnd \notin Ids /\ Available # NoEnd /\ 0 \notin Ids
BY TreeAssumption DEF Ids, Available, NoEnd

LEMMA LeavesHave ==
  ASSUME NEW t, DOMAIN t \subseteq Ids, NEW h
  PROVE  Leaves(t) \subseteq DOMAIN t /\ Keepers(t, h) \subseteq DOMAIN t /\ Keepers(t, TRUE) = Leaves(t)
BY DEF Leaves, Keepers, InnerPockets

LEMMA RowsHave == Figures \cup Comments = Rows /\ "plan" \in Figures
BY DEF Rows, Figures, Comments

LEMMA JoinedRows ==
  ASSUME NEW rs, RowsTyped(rs), NEW from \in Ids, NEW to \in Ids, NEW which
  PROVE  LET k == Joined(rs, from, to, which) IN
         /\ RowsTyped(k)
         /\ \A r \in Rows, n \in Ids : n \notin {from, to} \/ r \notin which => k[r][n] = rs[r][n]
         /\ \A r \in Rows \cap which : k[r][from] = Empty
<1> DEFINE k == Joined(rs, from, to, which)
           sum(r) == [m \in Months |-> rs[r][to][m] + rs[r][from][m]]
<1>1. Empty \in [Months -> Nat]
  BY DEF Empty
<1>2. ASSUME NEW r \in Rows
      PROVE  /\ k[r] \in [Ids -> [Months -> Nat]]
             /\ \A n \in Ids : n \notin {from, to} \/ r \notin which => k[r][n] = rs[r][n]
             /\ r \in which => k[r][from] = Empty
  <2>1. rs[r] \in [Ids -> [Months -> Nat]]
    BY DEF RowsTyped
  <2>2. CASE r \notin which
    <3>1. k[r] = rs[r]
      BY <2>2 DEF Joined
    <3> QED BY <2>1, <2>2, <3>1
  <2>3. CASE r \in which
    <3>1. k[r] = [rs[r] EXCEPT ![to] = sum(r), ![from] = Empty]
      BY <2>3 DEF Joined
    <3>2. sum(r) \in [Months -> Nat]
      BY <2>1
    <3> HIDE DEF k, sum
    <3> QED BY <1>1, <2>1, <2>3, <3>1, <3>2
  <2> QED BY <2>2, <2>3
<1>3. k = [r \in Rows |-> k[r]]
  BY DEF Joined
<1> HIDE DEF k
<1>4. RowsTyped(k)
  BY <1>2, <1>3 DEF RowsTyped
<1> QED BY <1>2, <1>4 DEF k

\* One movement that follows its cells from node a to node b.
Follows(t, x, y, a, b) ==
  LET now(n) == IF n = a THEN b ELSE n IN
  /\ Movement(y)
  /\ y.target = now(x.target) /\ y.from = now(x.from) /\ y.to = now(x.to)
  /\ y.cat = (IF x.target = a THEN CatOf(t, b) ELSE x.cat)
  /\ y.sub = (IF x.target = a THEN SubOf(t, b) ELSE x.sub)
  /\ y.from = NoEnd \/ y.from # y.to
  /\ y.id = x.id /\ y.month = x.month /\ y.amount = x.amount

LEMMA RepointedMoves ==
  ASSUME NEW t, NEW j, JournalTyped(j), NEW a \in Ids, NEW b \in Ids, NEW y \in Repointed(t, j, a, b)
  PROVE  \E x \in j : Follows(t, x, y, a, b)
<1> DEFINE now(n) == IF n = a THEN b ELSE n
           then(x) == [x EXCEPT !.from = now(@), !.to = now(@), !.target = now(@),
                                !.cat = IF x.target = a THEN CatOf(t, b) ELSE @,
                                !.sub = IF x.target = a THEN SubOf(t, b) ELSE @]
<1>1. PICK x \in j : y = then(x) /\ (y.from = NoEnd \/ y.from # y.to)
  BY DEF Repointed
<1>2. Movement(x)
  BY DEF JournalTyped
<1>3. /\ x = [id |-> x.id, target |-> x.target, cat |-> x.cat, sub |-> x.sub, from |-> x.from,
               to |-> x.to, month |-> x.month, amount |-> x.amount]
      /\ x.target \in Ids /\ x.from \in Ids \cup {Available, NoEnd} /\ x.to \in Ids \cup {Available, NoEnd}
  BY <1>2 DEF Movement
<1>4. y = [id |-> x.id, target |-> now(x.target), cat |-> IF x.target = a THEN CatOf(t, b) ELSE x.cat,
           sub |-> IF x.target = a THEN SubOf(t, b) ELSE x.sub, from |-> now(x.from),
           to |-> now(x.to), month |-> x.month, amount |-> x.amount]
  BY <1>1, <1>3
<1>5. now(x.target) \in Ids /\ now(x.from) \in Ids \cup {Available, NoEnd} /\ now(x.to) \in Ids \cup {Available, NoEnd}
  BY <1>3
<1> HIDE DEF now
<1>6. Movement(y)
  BY <1>4, <1>5 DEF Movement
<1>7. /\ y.target = now(x.target) /\ y.from = now(x.from) /\ y.to = now(x.to)
      /\ y.cat = (IF x.target = a THEN CatOf(t, b) ELSE x.cat)
      /\ y.sub = (IF x.target = a THEN SubOf(t, b) ELSE x.sub)
      /\ y.id = x.id /\ y.month = x.month /\ y.amount = x.amount
  BY <1>4
<1> QED BY <1>1, <1>6, <1>7 DEF Follows, now

\* Every end of it is one the movement had, but for b in the place of a.
LEMMA FollowsEnds ==
  ASSUME NEW t, NEW x, NEW y, NEW a \in Ids, NEW b \in Ids, Follows(t, x, y, a, b)
  PROVE  Ends(y) \subseteq (Ends(x) \ {a}) \cup {b}
BY DEF Follows, Ends

\* The labels are renewed and nothing else.
Renewed(t, x, y) ==
  /\ Movement(y) /\ y.target = x.target /\ y.from = x.from /\ y.to = x.to
  /\ x.target \in DOMAIN t => y.cat = CatOf(t, x.target) /\ y.sub = SubOf(t, x.target)

LEMMA RelabelledMoves ==
  ASSUME NEW t, NEW j, JournalTyped(j), NEW y \in Relabelled(t, j)
  PROVE  \E x \in j : Renewed(t, x, y)
<1> DEFINE then(x) == IF x.target \in DOMAIN t
                      THEN [x EXCEPT !.cat = CatOf(t, x.target), !.sub = SubOf(t, x.target)] ELSE x
<1>1. PICK x \in j : y = then(x)
  BY DEF Relabelled
<1>2. Movement(x)
  BY DEF JournalTyped
<1>3. CASE x.target \in DOMAIN t
  <2>1. /\ x = [id |-> x.id, target |-> x.target, cat |-> x.cat, sub |-> x.sub, from |-> x.from,
               to |-> x.to, month |-> x.month, amount |-> x.amount]
        /\ x.target \in Ids /\ x.from \in Ids \cup {Available, NoEnd} /\ x.to \in Ids \cup {Available, NoEnd}
    BY <1>2 DEF Movement
  <2>2. y = [id |-> x.id, target |-> x.target, cat |-> CatOf(t, x.target), sub |-> SubOf(t, x.target),
             from |-> x.from, to |-> x.to, month |-> x.month, amount |-> x.amount]
    BY <1>1, <1>3, <2>1
  <2>3. Movement(y)
    BY <2>1, <2>2 DEF Movement
  <2> QED BY <2>2, <2>3 DEF Renewed
<1>4. CASE x.target \notin DOMAIN t
  BY <1>1, <1>2, <1>4 DEF Renewed
<1> QED BY <1>3, <1>4

-----------------------------------------------------------------------------
(* Moving nodes.                                                           *)

LEMMA LeafChildless ==
  ASSUME NEW t, WellFormed(t), NEW n \in DOMAIN t
  PROVE  n \in Leaves(t) <=> Children(t, n) = {}
<1>1. ASSUME t[n].level = Sub, NEW c \in Children(t, n) PROVE FALSE
  <2>1. c \in DOMAIN t /\ t[c].level = t[n].level + 1
    BY LevelsBelow
  <2>2. t[c].level \in 0..2
    BY <2>1 DEF WellFormed, Nodes
  <2> QED BY <1>1, <2>1, <2>2
<1> QED BY <1>1 DEF Leaves, IsLeaf, Childless

LEMMA FirstLeafIsLeaf ==
  ASSUME NEW t, WellFormed(t), DOMAIN t \subseteq Ids, NEW n \in DOMAIN t
  PROVE  FirstLeaf(t, n) \in Leaves(t)
<1>1. ASSUME NEW x \in DOMAIN t, Children(t, x) # {} PROVE Min(Children(t, x)) \in Children(t, x)
  <2>1. Children(t, x) \in SUBSET Nat /\ MaxNode \in Nat /\ \A y \in Children(t, x) : y <= MaxNode
    BY TreeAssumption DEF Children, Ids
  <2> QED BY <1>1, <2>1, MinMax
<1>2. CASE Children(t, n) = {}
  BY <1>2, LeafChildless DEF FirstLeaf, Childless
<1>3. CASE Children(t, n) # {}
  <2> DEFINE c == Min(Children(t, n))
  <2>1. c \in Children(t, n)
    BY <1>1, <1>3
  <2>2. c \in DOMAIN t
    BY <2>1 DEF Children
  <2>3. FirstLeaf(t, n) = IF Children(t, c) = {} THEN c ELSE Min(Children(t, c))
    BY <1>3 DEF FirstLeaf, Childless
  <2> HIDE DEF c
  <2>4. CASE Children(t, c) = {}
    BY <2>2, <2>3, <2>4, LeafChildless
  <2>5. CASE Children(t, c) # {}
    <3> DEFINE d == Min(Children(t, c))
    <3>1. d \in Children(t, c)
      BY <1>1, <2>2, <2>5
    <3> HIDE DEF d
    <3>2. d \in DOMAIN t /\ t[d].level = t[n].level + 2
      BY <2>1, <3>1, LevelsBelow DEF Grandchildren
    <3>3. t[d].level \in 0..2 /\ t[n].level \in 0..2
      BY <3>2 DEF WellFormed, Nodes
    <3>4. t[d].level = Sub
      BY <3>2, <3>3
    <3> QED BY <2>3, <2>5, <3>2, <3>4 DEF Leaves, IsLeaf, d
  <2> QED BY <2>4, <2>5
<1> QED BY <1>2, <1>3

\* A tree that becomes t, every leaf of which stays one but for the one that cedes.
LEMMA ReorganiseHangs ==
  ASSUME TreeOK, Hanging(tree, rows, journal, healed), healed \in BOOLEAN,
         NEW t, NEW from, NEW to, NEW cedes \in BOOLEAN, NEW move \in BOOLEAN,
         rows' = (IF cedes THEN Joined(rows, from, to, Rows) ELSE rows),
         journal' = (LET j == IF cedes THEN Repointed(t, journal, from, to) ELSE journal
                     IN  IF move THEN Relabelled(t, j) ELSE j),
         DOMAIN tree \subseteq DOMAIN t, DOMAIN t \subseteq Ids,
         \A n \in DOMAIN tree : t[n].type = tree[n].type,
         \A n \in Leaves(tree) : n \in Leaves(t) \/ (cedes /\ n = from),
         cedes => from \in Ids /\ to \in Leaves(t),
         ~move => \A n \in DOMAIN tree : t[n] = tree[n]
  PROVE  Hanging(t, rows', journal', healed)
<1> DEFINE h == healed
           j == IF cedes THEN Repointed(t, journal, from, to) ELSE journal
<1>1. /\ RowsTyped(rows) /\ JournalTyped(journal) /\ Placed(tree, rows, journal, h)
      /\ DOMAIN tree \subseteq Ids
  BY DEF Hanging
<1>2. /\ Leaves(tree) \subseteq DOMAIN tree /\ Keepers(tree, h) \subseteq DOMAIN tree
      /\ Leaves(t) \subseteq DOMAIN t /\ Keepers(t, h) \subseteq DOMAIN t
  BY <1>1, LeavesHave
<1>3. ASSUME NEW n \in Keepers(tree, h) PROVE n \in Keepers(t, h) \/ (cedes /\ n = from)
  BY <1>3 DEF Keepers, InnerPockets
<1>4. Leaves(t) \subseteq Keepers(t, h)
  BY DEF Keepers
<1>5. cedes => to \in Ids /\ from \in Ids
  BY <1>2
<1>6. RowsTyped(rows')
  BY <1>1, <1>5, JoinedRows
<1>7. ASSUME NEW r \in Rows, NEW n \in Ids \ Leaves(t)
      PROVE  Nothing(rows', r, n) \/ (n \notin Leaves(tree) /\ rows'[r][n] = rows[r][n] /\ ~(cedes /\ n = from))
  <2>1. CASE cedes
    <3>1. n # to
      BY <2>1
    <3>2. n = from => rows'[r][n] = Empty
      BY <1>1, <1>5, <2>1, JoinedRows
    <3>3. n # from => rows'[r][n] = rows[r][n]
      BY <1>1, <1>5, <2>1, <3>1, JoinedRows
    <3> QED BY <3>2, <3>3 DEF Nothing
  <2>2. CASE ~cedes
    BY <2>2
  <2> QED BY <2>1, <2>2
<1>8. ASSUME NEW r \in Figures, NEW n \in Ids \ Leaves(t)
      PROVE  Nothing(rows', r, n) \/ (r = "plan" /\ n \in Keepers(t, h))
  <2>1. r \in Rows
    BY RowsHave
  <2>2. CASE Nothing(rows', r, n)
    BY <2>2
  <2>3. CASE ~Nothing(rows', r, n)
    <3>1. n \notin Leaves(tree) /\ rows'[r][n] = rows[r][n] /\ ~(cedes /\ n = from)
      BY <1>7, <2>1, <2>3
    <3>2. r = "plan" /\ n \in Keepers(tree, h)
      BY <1>1, <2>3, <3>1 DEF Placed, Nothing
    <3> QED BY <1>3, <3>1, <3>2
  <2> QED BY <2>2, <2>3
<1>9. ASSUME h, NEW r \in Comments, NEW n \in Ids \ Leaves(t) PROVE Nothing(rows', r, n)
  <2>1. r \in Rows
    BY RowsHave
  <2> QED BY <1>1, <1>7, <1>9, <2>1 DEF Placed, Nothing
<1>10. /\ JournalTyped(j)
       /\ \A y \in j : Ends(y) \subseteq Keepers(t, h) /\ (y.from # y.to \/ y.from = NoEnd)
       /\ h /\ ~move => \A y \in j : y.cat = CatOf(t, y.target) /\ y.sub = SubOf(t, y.target)
  <2>1. ASSUME NEW x \in journal, NEW n \in Ends(x) PROVE n \in Keepers(t, h) \/ (cedes /\ n = from)
    BY <1>1, <1>3, <2>1 DEF Placed
  <2>2. ASSUME NEW x \in journal PROVE x.target \in Ends(x) /\ x.target \in DOMAIN tree
    <3>1. x.target \in Ids
      BY <1>1 DEF JournalTyped, Movement
    <3> QED BY <1>1, <1>2, <3>1 DEF Placed, Ends
  <2>3. ASSUME h, ~move, NEW n \in DOMAIN tree PROVE CatOf(t, n) = CatOf(tree, n) /\ SubOf(t, n) = SubOf(tree, n)
    BY <2>3 DEF CatOf, SubOf
  <2>4. CASE cedes
    <3> SUFFICES ASSUME NEW y \in Repointed(t, journal, from, to)
                 PROVE  /\ Movement(y) /\ Ends(y) \subseteq Keepers(t, h) /\ (y.from # y.to \/ y.from = NoEnd)
                        /\ h /\ ~move => y.cat = CatOf(t, y.target) /\ y.sub = SubOf(t, y.target)
      BY <2>4 DEF JournalTyped
    <3>1. PICK x \in journal : Follows(t, x, y, from, to)
      BY <1>1, <1>5, <2>4, RepointedMoves
    <3>2. Ends(y) \subseteq (Ends(x) \ {from}) \cup {to}
      BY <1>5, <2>4, <3>1, FollowsEnds
    <3>3. to \in Keepers(t, h)
      BY <1>4, <2>4
    <3>4. Ends(y) \subseteq Keepers(t, h)
      BY <2>1, <3>2, <3>3
    <3>5. ASSUME h, ~move PROVE y.cat = CatOf(t, y.target) /\ y.sub = SubOf(t, y.target)
      <4>1. CASE x.target = from
        BY <3>1, <4>1 DEF Follows
      <4>2. CASE x.target # from
        <5>1. y.target = x.target /\ y.cat = x.cat /\ y.sub = x.sub
          BY <3>1, <4>2 DEF Follows
        <5>2. x.cat = CatOf(tree, x.target) /\ x.sub = SubOf(tree, x.target)
          BY <1>1, <3>5 DEF Placed
        <5> QED BY <2>2, <2>3, <3>5, <5>1, <5>2
      <4> QED BY <4>1, <4>2
    <3> QED BY <3>1, <3>4, <3>5 DEF Follows
  <2>5. CASE ~cedes
    <3>1. j = journal
      BY <2>5
    <3>2. \A x \in journal : Ends(x) \subseteq Keepers(t, h) /\ (x.from # x.to \/ x.from = NoEnd)
      BY <1>1, <2>1, <2>5 DEF Placed
    <3>3. h /\ ~move => \A x \in journal : x.cat = CatOf(t, x.target) /\ x.sub = SubOf(t, x.target)
      BY <1>1, <2>2, <2>3 DEF Placed
    <3> HIDE DEF j
    <3> QED BY <1>1, <3>1, <3>2, <3>3
  <2> QED BY <2>4, <2>5
<1> HIDE DEF j
<1>11. /\ JournalTyped(journal')
       /\ \A y \in journal' : Ends(y) \subseteq Keepers(t, h) /\ (y.from # y.to \/ y.from = NoEnd)
       /\ h => \A y \in journal' : y.cat = CatOf(t, y.target) /\ y.sub = SubOf(t, y.target)
  <2>1. CASE ~move
    <3>1. journal' = j
      BY <2>1 DEF j
    <3> QED BY <1>10, <2>1, <3>1
  <2>2. CASE move
    <3> SUFFICES ASSUME NEW y \in journal'
                 PROVE  /\ Movement(y) /\ Ends(y) \subseteq Keepers(t, h) /\ (y.from # y.to \/ y.from = NoEnd)
                        /\ h => y.cat = CatOf(t, y.target) /\ y.sub = SubOf(t, y.target)
      BY DEF JournalTyped
    <3>1. journal' = Relabelled(t, j)
      BY <2>2 DEF j
    <3>2. PICK x \in j : Renewed(t, x, y)
      BY <1>10, <3>1, RelabelledMoves
    <3>3. Ends(y) = Ends(x) /\ y.target = x.target /\ y.from = x.from /\ y.to = x.to /\ Movement(y)
      BY <3>2 DEF Renewed, Ends
    <3>4. y.target \in DOMAIN t
      <4>1. y.target \in Ids
        BY <3>3 DEF Movement
      <4> QED BY <1>2, <1>10, <3>3, <4>1 DEF Ends
    <3> QED BY <1>10, <3>2, <3>3, <3>4 DEF Renewed
  <2> QED BY <2>1, <2>2
<1> QED BY <1>6, <1>8, <1>9, <1>11 DEF Hanging, Placed

\* The invariant: nothing is out of place.
BookOK == TreeOK /\ healed \in BOOLEAN /\ Hanging(tree, rows, journal, healed)

LEMMA TreeIds ==
  ASSUME TreeOK
  PROVE  /\ DOMAIN tree \subseteq Ids /\ NoNode \notin DOMAIN tree /\ WellFormed(tree)
         /\ \A n \in DOMAIN tree : tree[n].parent \in DOMAIN tree \cup {NoNode}
BY TreeAssumption DEF TreeOK, WellFormed, Ids

\* A node that is childless in t is a leaf of t, and a leaf is childless.
LEMMA StillLeaves ==
  ASSUME TreeOK, NEW t, WellFormed(t), DOMAIN tree \subseteq DOMAIN t, NEW dest,
         \A n \in DOMAIN tree : n # dest => Children(t, n) \subseteq Children(tree, n)
  PROVE  \A n \in Leaves(tree) : n \in Leaves(t) \/ (Childless(tree, dest) /\ n = dest)
<1> SUFFICES ASSUME NEW n \in Leaves(tree) PROVE n \in Leaves(t) \/ (Childless(tree, dest) /\ n = dest)
  OBVIOUS
<1>1. n \in DOMAIN tree /\ WellFormed(tree)
  BY TreeIds DEF Leaves
<1>2. Children(tree, n) = {}
  BY <1>1, LeafChildless
<1>3. n # dest => n \in Leaves(t)
  BY <1>1, <1>2, LeafChildless
<1> QED BY <1>2, <1>3 DEF Childless

\* With Adopt, a move whose only new children are those of dest.
LEMMA AdoptHangs ==
  ASSUME BookOK, NEW t, NEW dest \in Ids, NEW receiver, NEW move \in BOOLEAN,
         Adopt(t, dest, receiver, move), WellFormed(t), healed' = healed,
         DOMAIN tree \subseteq DOMAIN t, DOMAIN t \subseteq Ids,
         \A n \in DOMAIN tree : t[n].type = tree[n].type,
         \A n \in DOMAIN tree : n # dest => Children(t, n) \subseteq Children(tree, n),
         receiver \in Leaves(t),
         ~move => \A n \in DOMAIN tree : t[n] = tree[n]
  PROVE  Hanging(tree', rows', journal', healed')
<1> DEFINE cedes == Childless(tree, dest)
<1>1. TreeOK /\ healed \in BOOLEAN /\ Hanging(tree, rows, journal, healed) /\ cedes \in BOOLEAN
  BY DEF BookOK, Childless
<1>2. /\ tree' = t
      /\ rows' = (IF cedes THEN Joined(rows, dest, receiver, Rows) ELSE rows)
      /\ journal' = (LET j == IF cedes THEN Repointed(t, journal, dest, receiver) ELSE journal
                     IN  IF move THEN Relabelled(t, j) ELSE j)
  BY DEF Adopt, Reorganise
<1>3. \A n \in Leaves(tree) : n \in Leaves(t) \/ (cedes /\ n = dest)
  BY <1>1, StillLeaves
<1> HIDE DEF cedes
<1>4. Hanging(t, rows', journal', healed)
  BY <1>1, <1>2, <1>3, ReorganiseHangs
<1> QED BY <1>2, <1>4

LEMMA CreatedHangs ==
  ASSUME BookOK, NEW parent \in DOMAIN tree \cup {NoNode}, NEW type \in Types(tree),
         CreateNode(parent, type)
  PROVE  Hanging(tree', rows', journal', healed')
<1> DEFINE id == created + 1
           level == IF parent = NoNode THEN Group ELSE tree[parent].level + 1
           node == [level |-> level, parent |-> parent, type |-> type]
           t == [n \in DOMAIN tree \cup {id} |-> IF n = id THEN node ELSE tree[n]]
<1>1. /\ TreeOK /\ healed \in BOOLEAN /\ Hanging(tree, rows, journal, healed)
      /\ DOMAIN tree \subseteq Ids /\ NoNode \notin DOMAIN tree
      /\ \A n \in DOMAIN tree : tree[n].parent \in DOMAIN tree \cup {NoNode}
  BY TreeIds DEF BookOK
<1>2. /\ id \in Ids /\ healed' = healed /\ tree' = t
      /\ IF parent = NoNode THEN UNCHANGED book
         ELSE tree[parent].level # Sub /\ tree[parent].type = type /\ Adopt(t, parent, id, FALSE)
  BY DEF CreateNode, Adopt, Reorganise
<1>3. id \notin DOMAIN tree /\ id # NoNode
  BY <1>1 DEF TreeOK
<1>4. TreeOK'
  BY <1>1, Created
<1>5. WellFormed(t)
  BY <1>2, <1>4 DEF TreeOK
<1>6. /\ DOMAIN t = DOMAIN tree \cup {id} /\ t[id] = node /\ node.parent = parent
      /\ \A n \in DOMAIN tree : t[n] = tree[n]
  BY <1>3
<1> HIDE DEF t, node, level
<1>7. \A n \in DOMAIN tree : n # parent => Children(t, n) \subseteq Children(tree, n)
  BY <1>6 DEF Children
<1>8. Children(t, id) = {}
  BY <1>1, <1>3, <1>6 DEF Children
<1>9. id \in Leaves(t)
  BY <1>5, <1>6, <1>8, LeafChildless
<1>10. DOMAIN tree \subseteq DOMAIN t /\ DOMAIN t \subseteq Ids
  BY <1>1, <1>2, <1>6
<1>11. \A n \in DOMAIN tree : t[n].type = tree[n].type
  BY <1>6
<1> HIDE DEF id
<1>12. CASE parent = NoNode
  <2>1. \A n \in Leaves(tree) : n \in Leaves(t)
    <3>1. \A n \in Leaves(tree) : n \in Leaves(t) \/ (Childless(tree, NoNode) /\ n = NoNode)
      BY <1>1, <1>5, <1>7, <1>10, <1>12, StillLeaves
    <3> QED BY <1>1, <3>1 DEF Leaves
  <2>2. rows' = rows /\ journal' = journal
    BY <1>2, <1>12 DEF book
  <2>3. Hanging(t, rows', journal', healed)
    BY <1>1, <1>6, <1>10, <1>11, <2>1, <2>2, ReorganiseHangs
  <2> QED BY <1>2, <2>3
<1>13. CASE parent # NoNode
  <2>1. Adopt(t, parent, id, FALSE) /\ parent \in Ids
    BY <1>1, <1>2, <1>13
  <2> QED BY <1>2, <1>5, <1>6, <1>7, <1>9, <1>10, <1>11, <2>1, AdoptHangs
<1> QED BY <1>12, <1>13

LEMMA ToRootHangs ==
  ASSUME BookOK, NEW n \in DOMAIN tree, MoveToRoot(n)
  PROVE  Hanging(tree', rows', journal', healed')
<1> DEFINE t == [x \in DOMAIN tree |->
                   IF x = n THEN [tree[x] EXCEPT !.level = Group, !.parent = NoNode]
                   ELSE IF x \in Children(tree, n) THEN [tree[x] EXCEPT !.level = Category]
                   ELSE tree[x]]
<1>1. /\ TreeOK /\ healed \in BOOLEAN /\ Hanging(tree, rows, journal, healed)
      /\ DOMAIN tree \subseteq Ids /\ NoNode \notin DOMAIN tree
      /\ tree \in [DOMAIN tree -> Nodes]
  BY TreeIds DEF BookOK, WellFormed
<1>2. /\ tree' = t /\ healed' = healed /\ rows' = rows /\ journal' = Relabelled(t, journal)
  BY DEF MoveToRoot, Reorganise
<1>3. WellFormed(t)
  BY <1>1, <1>2, MovedToRoot DEF TreeOK
<1>4. /\ DOMAIN t = DOMAIN tree
      /\ \A x \in DOMAIN tree : t[x].type = tree[x].type /\ t[x].parent = (IF x = n THEN NoNode ELSE tree[x].parent)
  BY <1>1 DEF Nodes
<1> HIDE DEF t
<1>5. \A x \in DOMAIN tree : Children(t, x) \subseteq Children(tree, x)
  BY <1>1, <1>4 DEF Children
<1>6. \A x \in Leaves(tree) : x \in Leaves(t)
  <2>1. \A x \in Leaves(tree) : x \in Leaves(t) \/ (Childless(tree, NoNode) /\ x = NoNode)
    BY <1>1, <1>3, <1>4, <1>5, StillLeaves
  <2> QED BY <1>1, <2>1 DEF Leaves
<1>7. Hanging(t, rows', journal', healed)
  BY <1>1, <1>2, <1>4, <1>6, ReorganiseHangs
<1> QED BY <1>2, <1>7

LEMMA GroupHangs ==
  ASSUME BookOK, NEW n \in DOMAIN tree, NEW dest \in DOMAIN tree, MoveGroup(n, dest)
  PROVE  Hanging(tree', rows', journal', healed')
<1> DEFINE t == [x \in DOMAIN tree |->
                   IF x \notin Subtree(tree, n) THEN tree[x]
                   ELSE [tree[x] EXCEPT !.level = @ + tree[dest].level + 1,
                                        !.parent = IF x = n THEN dest ELSE @]]
<1>1. /\ TreeOK /\ DOMAIN tree \subseteq Ids /\ tree \in [DOMAIN tree -> Nodes]
      /\ n \in Subtree(tree, n)
  BY TreeIds DEF BookOK, WellFormed, Subtree
<1>2. /\ tree' = t /\ healed' = healed /\ Adopt(t, dest, FirstLeaf(t, n), TRUE)
  BY DEF MoveGroup, Adopt, Reorganise
<1>3. WellFormed(t)
  BY <1>1, <1>2, MovedGroup DEF TreeOK
<1>4. /\ DOMAIN t = DOMAIN tree
      /\ \A x \in DOMAIN tree : t[x].type = tree[x].type /\ t[x].parent = (IF x = n THEN dest ELSE tree[x].parent)
  BY <1>1 DEF Nodes
<1> HIDE DEF t
<1>5. \A x \in DOMAIN tree : x # dest => Children(t, x) \subseteq Children(tree, x)
  BY <1>4 DEF Children
<1>6. FirstLeaf(t, n) \in Leaves(t)
  BY <1>1, <1>3, <1>4, FirstLeafIsLeaf
<1> QED BY <1>1, <1>2, <1>3, <1>4, <1>5, <1>6, AdoptHangs

LEMMA ToCategoryHangs ==
  ASSUME BookOK, NEW n \in DOMAIN tree, NEW dest \in DOMAIN tree, MoveToCategory(n, dest)
  PROVE  Hanging(tree', rows', journal', healed')
<1> DEFINE t == Flattened(n, dest)
           C == {n} \cup Children(tree, n)
<1>1. /\ TreeOK /\ DOMAIN tree \subseteq Ids /\ tree \in [DOMAIN tree -> Nodes]
  BY TreeIds DEF BookOK, WellFormed
<1>2. /\ tree' = t /\ healed' = healed /\ Adopt(t, dest, n, TRUE) /\ dest # n
  BY DEF MoveToCategory, Adopt, Reorganise, Accepts, Subtree
<1>3. WellFormed(t)
  BY <1>1, <1>2, MovedToCategory DEF TreeOK
<1>4. /\ DOMAIN t = DOMAIN tree
      /\ \A x \in DOMAIN tree : t[x].type = tree[x].type /\ t[x].parent = (IF x \in C THEN dest ELSE tree[x].parent)
  BY <1>1 DEF Nodes, Flattened
<1> HIDE DEF t
<1>5. \A x \in DOMAIN tree : x # dest => Children(t, x) \subseteq Children(tree, x)
  BY <1>4 DEF Children
<1>6. n \in Leaves(t)
  <2>1. Children(t, n) = {}
    BY <1>2, <1>4 DEF Children
  <2> QED BY <1>3, <1>4, <2>1, LeafChildless
<1> QED BY <1>1, <1>2, <1>3, <1>4, <1>5, <1>6, AdoptHangs

LEMMA ToGroupHangs ==
  ASSUME BookOK, NEW n \in DOMAIN tree, NEW dest \in DOMAIN tree, MoveToGroup(n, dest)
  PROVE  Hanging(tree', rows', journal', healed')
<1> DEFINE t == [tree EXCEPT ![n].level = Category, ![n].parent = dest]
<1>1. /\ TreeOK /\ DOMAIN tree \subseteq Ids /\ tree \in [DOMAIN tree -> Nodes]
  BY TreeIds DEF BookOK, WellFormed
<1>2. /\ tree' = t /\ healed' = healed /\ Adopt(t, dest, FirstLeaf(t, n), TRUE)
  BY DEF MoveToGroup, Adopt, Reorganise, Receiver
<1>3. WellFormed(t)
  BY <1>1, <1>2, MovedToGroup DEF TreeOK
<1>4. /\ DOMAIN t = DOMAIN tree
      /\ \A x \in DOMAIN tree : t[x].type = tree[x].type /\ t[x].parent = (IF x = n THEN dest ELSE tree[x].parent)
  BY <1>1 DEF Nodes
<1> HIDE DEF t
<1>5. \A x \in DOMAIN tree : x # dest => Children(t, x) \subseteq Children(tree, x)
  BY <1>4 DEF Children
<1>6. FirstLeaf(t, n) \in Leaves(t)
  BY <1>1, <1>3, <1>4, FirstLeafIsLeaf
<1> QED BY <1>1, <1>2, <1>3, <1>4, <1>5, <1>6, AdoptHangs

LEMMA WithoutMoves ==
  ASSUME NEW t, DOMAIN t \subseteq Ids, NEW j, JournalTyped(j), NEW n, NEW y \in WithoutNode(t, j, n)
  PROVE  \E x \in j :
           \/ y = x /\ n \notin {x.target, x.from, x.to}
           \/ /\ Movement(y) /\ x.from \in DOMAIN t
              /\ y.target = x.from /\ y.from = x.from /\ y.to = Available
              /\ y.cat = CatOf(t, x.from) /\ y.sub = SubOf(t, x.from)
<1> DEFINE then(x) == IF n \in {x.target, x.from, x.to}
                      THEN [x EXCEPT !.to = Available, !.target = x.from,
                                     !.cat = CatOf(t, x.from), !.sub = SubOf(t, x.from)] ELSE x
<1>1. PICK x \in j : /\ y = then(x)
                     /\ n \in {x.target, x.from, x.to} => x.from \in DOMAIN t
  BY DEF WithoutNode
<1>2. Movement(x)
  BY DEF JournalTyped
<1>3. CASE n \in {x.target, x.from, x.to}
  <2>1. /\ x = [id |-> x.id, target |-> x.target, cat |-> x.cat, sub |-> x.sub, from |-> x.from,
               to |-> x.to, month |-> x.month, amount |-> x.amount]
        /\ x.from \in DOMAIN t /\ x.from \in Ids
    BY <1>1, <1>2, <1>3 DEF Movement
  <2>2. y = [id |-> x.id, target |-> x.from, cat |-> CatOf(t, x.from), sub |-> SubOf(t, x.from),
             from |-> x.from, to |-> Available, month |-> x.month, amount |-> x.amount]
    BY <1>1, <1>3, <2>1
  <2>3. Movement(y)
    BY <2>1, <2>2 DEF Movement
  <2> QED BY <2>1, <2>2, <2>3
<1>4. CASE n \notin {x.target, x.from, x.to}
  BY <1>1, <1>4
<1> QED BY <1>3, <1>4

LEMMA DeletedHangs ==
  ASSUME BookOK, NEW n \in DOMAIN tree, DeleteNode(n)
  PROVE  Hanging(tree', rows', journal', healed')
<1> DEFINE t == [x \in DOMAIN tree \ {n} |-> tree[x]]
           h == healed
<1>1. /\ TreeOK /\ DOMAIN tree \subseteq Ids /\ WellFormed(tree)
      /\ RowsTyped(rows) /\ JournalTyped(journal) /\ Placed(tree, rows, journal, h)
  BY TreeIds DEF BookOK, Hanging
<1>2. /\ tree' = t /\ healed' = h /\ Children(tree, n) = {}
      /\ rows' = [r \in Rows |-> [rows[r] EXCEPT ![n] = Empty]]
      /\ journal' = WithoutNode(tree', journal, n)
  BY DEF DeleteNode, Childless
<1>3. WellFormed(t)
  BY <1>1, <1>2, Deleted DEF TreeOK
<1>4. DOMAIN t = DOMAIN tree \ {n} /\ \A x \in DOMAIN t : t[x] = tree[x]
  OBVIOUS
<1> HIDE DEF t
<1>5. ASSUME NEW x \in Leaves(tree), x # n PROVE x \in Leaves(t)
  <2>1. x \in DOMAIN tree /\ x \in DOMAIN t
    BY <1>4, <1>5 DEF Leaves
  <2>2. Children(tree, x) = {}
    BY <1>1, <2>1, LeafChildless
  <2>3. Children(t, x) = {}
    BY <1>4, <2>2 DEF Children
  <2> QED BY <1>3, <2>1, <2>3, LeafChildless
<1>6. ASSUME NEW x \in Keepers(tree, h), x # n PROVE x \in Keepers(t, h)
  <2>1. CASE x \in Leaves(tree)
    BY <1>5, <1>6, <2>1 DEF Keepers
  <2>2. CASE x \notin Leaves(tree)
    <3>1. ~h /\ x \in DOMAIN tree /\ tree[x].type = "transfer"
      BY <1>6, <2>2 DEF Keepers, InnerPockets
    <3>2. x \in DOMAIN t /\ t[x].type = "transfer"
      BY <1>4, <1>6, <3>1
    <3> QED BY <3>1, <3>2 DEF Keepers, InnerPockets
  <2> QED BY <2>1, <2>2
<1>7. Empty \in [Months -> Nat]
  BY DEF Empty
<1>8. ASSUME NEW r \in Rows
      PROVE  /\ rows'[r] \in [Ids -> [Months -> Nat]] /\ rows'[r][n] = Empty
             /\ \A x \in Ids : x # n => rows'[r][x] = rows[r][x]
  <2>1. rows[r] \in [Ids -> [Months -> Nat]] /\ n \in Ids
    BY <1>1 DEF RowsTyped
  <2>2. rows'[r] = [rows[r] EXCEPT ![n] = Empty]
    BY <1>2
  <2> QED BY <1>7, <2>1, <2>2
<1>9. RowsTyped(rows')
  BY <1>2, <1>8 DEF RowsTyped
<1>10. ASSUME NEW r \in Rows, NEW x \in Ids \ Leaves(t)
       PROVE  Nothing(rows', r, x) \/ (x \notin Leaves(tree) /\ x # n /\ rows'[r][x] = rows[r][x])
  BY <1>5, <1>8 DEF Nothing
<1>11. ASSUME NEW r \in Figures, NEW x \in Ids \ Leaves(t)
       PROVE  Nothing(rows', r, x) \/ (r = "plan" /\ x \in Keepers(t, h))
  <2>1. r \in Rows
    BY RowsHave
  <2> QED BY <1>1, <1>6, <1>10, <2>1 DEF Placed, Nothing
<1>12. ASSUME h, NEW r \in Comments, NEW x \in Ids \ Leaves(t) PROVE Nothing(rows', r, x)
  <2>1. r \in Rows
    BY RowsHave
  <2> QED BY <1>1, <1>10, <1>12, <2>1 DEF Placed, Nothing
<1>13. ASSUME NEW y \in journal'
       PROVE  /\ Movement(y) /\ Ends(y) \subseteq Keepers(t, h) /\ (y.from # y.to \/ y.from = NoEnd)
              /\ h => y.cat = CatOf(t, y.target) /\ y.sub = SubOf(t, y.target)
  <2>1. DOMAIN t \subseteq Ids /\ journal' = WithoutNode(t, journal, n)
    BY <1>1, <1>2, <1>4
  <2>2. PICK x \in journal :
           \/ y = x /\ n \notin {x.target, x.from, x.to}
           \/ /\ Movement(y) /\ x.from \in DOMAIN t
              /\ y.target = x.from /\ y.from = x.from /\ y.to = Available
              /\ y.cat = CatOf(t, x.from) /\ y.sub = SubOf(t, x.from)
    BY <1>1, <2>1, WithoutMoves
  <2>3. /\ Movement(x) /\ Ends(x) \subseteq Keepers(tree, h) /\ (x.from # x.to \/ x.from = NoEnd)
        /\ h => x.cat = CatOf(tree, x.target) /\ x.sub = SubOf(tree, x.target)
    BY <1>1 DEF JournalTyped, Placed
  <2>4. CASE y = x /\ n \notin {x.target, x.from, x.to}
    <3>1. Ends(x) \subseteq Keepers(t, h)
      BY <1>6, <2>3, <2>4 DEF Ends
    <3>2. x.target \in DOMAIN t
      <4>1. x.target \in Ends(x)
        BY <2>3 DEF Movement, Ends
      <4>2. Keepers(t, h) \subseteq DOMAIN t
        BY <2>1, LeavesHave
      <4> QED BY <3>1, <4>1, <4>2
    <3>3. CatOf(t, x.target) = CatOf(tree, x.target) /\ SubOf(t, x.target) = SubOf(tree, x.target)
      BY <1>4, <3>2 DEF CatOf, SubOf
    <3> QED BY <2>3, <2>4, <3>1, <3>3
  <2>5. CASE Movement(y) /\ x.from \in DOMAIN t
             /\ y.target = x.from /\ y.from = x.from /\ y.to = Available
             /\ y.cat = CatOf(t, x.from) /\ y.sub = SubOf(t, x.from)
    <3>1. x.from \in Ids /\ x.from # n
      BY <1>4, <2>1, <2>5
    <3>2. x.from \in Keepers(t, h)
      BY <1>6, <2>3, <3>1 DEF Ends
    <3>3. Ends(y) = {x.from}
      BY <2>5, <3>1, IdsHave DEF Ends
    <3> QED BY <2>5, <3>1, <3>2, <3>3, IdsHave
  <2> QED BY <2>2, <2>4, <2>5
<1>14. Hanging(t, rows', journal', h)
  BY <1>9, <1>11, <1>12, <1>13 DEF Hanging, Placed, JournalTyped
<1> QED BY <1>2, <1>14

-----------------------------------------------------------------------------
(* What is entered.                                                        *)

Written ==
  \/ rows' = rows
  \/ \E r \in Rows, n \in Leaves(tree), m \in Months, v \in Nat : Put(r, n, m, v)

Noted ==
  \/ journal' = journal
  \/ \E n \in Leaves(tree), from, to \in Leaves(tree) \cup {Available, NoEnd}, m \in Months :
       \E amount : Journaled(n, from, to, m, amount) /\ (from # to \/ from = NoEnd)

LEMMA EnteredHangs ==
  ASSUME BookOK, tree' = tree, healed' = healed, Written, Noted
  PROVE  Hanging(tree', rows', journal', healed')
<1> DEFINE h == healed
<1>1. /\ DOMAIN tree \subseteq Ids /\ RowsTyped(rows) /\ JournalTyped(journal)
      /\ Placed(tree, rows, journal, h)
  BY TreeIds DEF BookOK, Hanging
<1>2. Leaves(tree) \subseteq Ids /\ Leaves(tree) \subseteq Keepers(tree, h)
  BY <1>1, LeavesHave DEF Keepers
<1>3. /\ RowsTyped(rows')
      /\ \A r \in Rows, n \in Ids \ Leaves(tree) : rows'[r][n] = rows[r][n]
  <2>1. CASE rows' = rows
    BY <1>1, <2>1
  <2>2. ASSUME NEW r \in Rows, NEW n \in Leaves(tree), NEW m \in Months, NEW v \in Nat, Put(r, n, m, v)
        PROVE  /\ RowsTyped(rows')
               /\ \A q \in Rows, x \in Ids \ Leaves(tree) : rows'[q][x] = rows[q][x]
    <3>1. rows' = [rows EXCEPT ![r] = [rows[r] EXCEPT ![n] = [rows[r][n] EXCEPT ![m] = v]]]
      BY <2>2 DEF Put
    <3>2. rows[r] \in [Ids -> [Months -> Nat]] /\ rows[r][n] \in [Months -> Nat] /\ n \in Ids
      BY <1>1, <1>2 DEF RowsTyped
    <3> DEFINE a == [rows[r][n] EXCEPT ![m] = v]
               b == [rows[r] EXCEPT ![n] = a]
    <3>3. a \in [Months -> Nat]
      BY <3>2
    <3> HIDE DEF a
    <3>4. b \in [Ids -> [Months -> Nat]] /\ \A x \in Ids \ {n} : b[x] = rows[r][x]
      BY <3>2, <3>3
    <3>5. rows' = [rows EXCEPT ![r] = b]
      BY <3>1 DEF a
    <3> HIDE DEF b
    <3> QED BY <1>1, <3>4, <3>5 DEF RowsTyped
  <2> QED BY <2>1, <2>2 DEF Written
<1>4. /\ \A r \in Figures, n \in Ids \ Leaves(tree) : Nothing(rows', r, n) \/ (r = "plan" /\ n \in Keepers(tree, h))
      /\ h => \A r \in Comments, n \in Ids \ Leaves(tree) : Nothing(rows', r, n)
  BY <1>1, <1>3, RowsHave DEF Placed, Nothing
<1>5. ASSUME NEW y \in journal'
      PROVE  /\ Movement(y) /\ Ends(y) \subseteq Keepers(tree, h) /\ (y.from # y.to \/ y.from = NoEnd)
             /\ h => y.cat = CatOf(tree, y.target) /\ y.sub = SubOf(tree, y.target)
  <2>1. CASE y \in journal
    BY <1>1, <2>1 DEF JournalTyped, Placed
  <2>2. CASE y \notin journal
    <3>1. PICK n \in Leaves(tree), from, to \in Leaves(tree) \cup {Available, NoEnd}, m \in Months :
             \E amount : Journaled(n, from, to, m, amount) /\ (from # to \/ from = NoEnd)
      BY <1>5, <2>2 DEF Noted
    <3>2. PICK amount : Journaled(n, from, to, m, amount) /\ (from # to \/ from = NoEnd)
      BY <3>1
    <3>7. PICK id : y = [id |-> id, target |-> n, cat |-> CatOf(tree, n), sub |-> SubOf(tree, n),
                         from |-> from, to |-> to, month |-> m, amount |-> amount]
      BY <1>5, <2>2, <3>2 DEF Journaled
    <3>3. n \in Ids /\ from \in Ids \cup {Available, NoEnd} /\ to \in Ids \cup {Available, NoEnd}
      BY <1>2
    <3>4. Movement(y)
      BY <3>7, <3>3 DEF Movement
    <3>5. Ends(y) \subseteq Keepers(tree, h)
      BY <1>2, <3>7, IdsHave DEF Ends
    <3> QED BY <3>1, <3>2, <3>4, <3>5, <3>7
  <2> QED BY <2>1, <2>2
<1>6. Hanging(tree, rows', journal', h)
  BY <1>3, <1>4, <1>5 DEF Hanging, Placed, JournalTyped
<1> QED BY <1>6

LEMMA EntriesHang ==
  ASSUME BookOK, Entries
  PROVE  Hanging(tree', rows', journal', healed')
<1> DEFINE Entered == Written /\ Noted
<1>1. RowsTyped(rows) /\ Leaves(tree) \subseteq Ids
  BY TreeIds, LeavesHave DEF BookOK, Hanging
<1>2. ASSUME NEW r \in Rows, NEW n \in Leaves(tree), NEW m \in Months PROVE rows[r][n][m] + 1 \in Nat
  <2>1. rows[r][n][m] \in Nat
    BY <1>1 DEF RowsTyped
  <2> QED BY <2>1
<1>3. "budget" \in Rows /\ "actual" \in Rows /\ "plan" \in Rows /\ Comments \subseteq Rows /\ 0..1 \subseteq Nat
  BY DEF Rows, Comments
<1>4. ASSUME NEW n \in DOMAIN tree, NEW m \in Months, NEW v \in 0..1,
             \/ SetLeafAmount(n, m, v) \/ AdjustCell(n, m, v)
             \/ \E r \in {"budget", "actual"} : SetPocketAmount(n, r, m, v)
      PROVE  Entered
  <2>1. CASE SetLeafAmount(n, m, v)
    BY <1>3, <2>1 DEF SetLeafAmount, Entry, Written, Noted
  <2>2. CASE AdjustCell(n, m, v)
    <3>1. n \in Leaves(tree) /\ Put("actual", n, m, v) /\ v \in Nat
      BY <1>3, <2>2 DEF AdjustCell, Entry
    <3>2. \E amount : Journaled(n, NoEnd, NoEnd, m, amount)
      BY <2>2 DEF AdjustCell
    <3> QED BY <1>3, <3>1, <3>2 DEF Written, Noted
  <2>3. ASSUME NEW r \in {"budget", "actual"}, SetPocketAmount(n, r, m, v) PROVE Entered
    BY <1>3, <2>3 DEF SetPocketAmount, Entry, Written, Noted
  <2> QED BY <1>4, <2>1, <2>2, <2>3
<1>5. ASSUME NEW n \in DOMAIN tree, NEW m \in Months,
             AddMovement(n, m) \/ SetAside(n, m) \/ TakeOut(n, m) \/ PlanRetiro(n, m)
      PROVE  Entered
  <2>1. CASE AddMovement(n, m)
    <3>1. n \in Leaves(tree) /\ Put("actual", n, m, rows["actual"][n][m] + 1) /\ Journaled(n, NoEnd, NoEnd, m, 1)
      BY <2>1 DEF AddMovement, Entry
    <3>2. rows["actual"][n][m] + 1 \in Nat
      BY <1>2, <1>3, <3>1
    <3> QED BY <1>3, <3>1, <3>2 DEF Written, Noted
  <2>2. CASE SetAside(n, m)
    <3>1. n \in Leaves(tree) /\ Put("actual", n, m, rows["actual"][n][m] + 1) /\ Journaled(n, Available, n, m, 1)
      BY <2>2 DEF SetAside, Entry
    <3>2. rows["actual"][n][m] + 1 \in Nat /\ Available # n
      BY <1>1, <1>2, <1>3, <3>1, IdsHave
    <3> QED BY <1>3, <3>1, <3>2 DEF Written, Noted
  <2>3. CASE TakeOut(n, m)
    <3>1. n \in Leaves(tree) /\ rows' = rows /\ Journaled(n, n, Available, m, 1)
      BY <2>3 DEF TakeOut, Entry
    <3>2. Available # n
      BY <1>1, <3>1, IdsHave
    <3> QED BY <3>1, <3>2 DEF Written, Noted
  <2>4. CASE PlanRetiro(n, m)
    <3>1. n \in Leaves(tree) /\ Put("plan", n, m, rows["plan"][n][m] + 1) /\ journal' = journal
      BY <2>4 DEF PlanRetiro, Entry
    <3>2. rows["plan"][n][m] + 1 \in Nat
      BY <1>2, <1>3, <3>1
    <3> QED BY <1>3, <3>1, <3>2 DEF Written, Noted
  <2> QED BY <1>5, <2>1, <2>2, <2>3, <2>4
<1>6. ASSUME NEW n \in DOMAIN tree, NEW m \in Months, NEW r \in Comments, AddNote(n, r, m) PROVE Entered
  <2>1. n \in Leaves(tree) /\ Put(r, n, m, rows[r][n][m] + 1) /\ journal' = journal /\ r \in Rows
    BY <1>3, <1>6 DEF AddNote
  <2>2. rows[r][n][m] + 1 \in Nat
    BY <1>2, <2>1
  <2> QED BY <2>1, <2>2 DEF Written, Noted
<1>7. ASSUME NEW p \in DOMAIN tree, NEW q \in DOMAIN tree, NEW m \in Months, MoveMoney(p, q, m) PROVE Entered
  <2>1. p \in Leaves(tree) /\ q \in Leaves(tree) /\ p # q /\ rows' = rows /\ Journaled(q, p, q, m, 1)
    BY <1>7 DEF MoveMoney, Entry
  <2> QED BY <2>1 DEF Written, Noted
<1> HIDE DEF Entered
<1>8. Entered
  BY <1>4, <1>5, <1>6, <1>7 DEF Entries
<1> QED BY <1>8, EntriesKeepTree, EnteredHangs DEF Entered

-----------------------------------------------------------------------------
(* The repairs of a load.                                                  *)

\* c goes through the nodes, and repairs the pockets that cede.
MendsPockets(c) ==
  /\ c[0] = [rows |-> rows, journal |-> journal]
  /\ \A i \in Ids : c[i] = IF i \in Ceding THEN PocketRepaired(c[i - 1], i) ELSE c[i - 1]

\* c goes through the nodes, and repairs the comments, of rs at first.
MendsComments(c, rs) ==
  /\ c[0] = rs
  /\ \A i \in Ids : c[i] = NotesRepaired(c[i - 1], i)

LEMMA CedingHave ==
  ASSUME WellFormed(tree), DOMAIN tree \subseteq Ids, NEW n \in Ceding
  PROVE  /\ n \in DOMAIN tree /\ n \in Ids /\ n \notin Leaves(tree)
         /\ FirstLeaf(tree, n) \in Leaves(tree) /\ FirstLeaf(tree, n) \in Ids
         /\ FirstLeaf(tree, n) \in DOMAIN tree
<1>1. n \in DOMAIN tree /\ Children(tree, n) # {}
  BY DEF Ceding, Childless
<1> QED BY <1>1, LeafChildless, FirstLeafIsLeaf, LeavesHave

LEMMA PocketsMended ==
  ASSUME WellFormed(tree), DOMAIN tree \subseteq Ids, RowsTyped(rows), JournalTyped(journal)
  PROVE  \E c : MendsPockets(c) /\ PocketsRepaired(rows, journal) = c[MaxNode]
<1> DEFINE cats == {x.cat : x \in journal} \cup {CatOf(tree, n) : n \in DOMAIN tree}
           subs == {x.sub : x \in journal} \cup {SubOf(tree, n) : n \in DOMAIN tree}
           MV == [id : {x.id : x \in journal}, target : Ids, cat : cats, sub : subs,
                  from : Ids \cup {Available, NoEnd}, to : Ids \cup {Available, NoEnd},
                  month : {x.month : x \in journal}, amount : {x.amount : x \in journal}]
           V == [rows : [Rows -> [Ids -> [Months -> Nat]]], journal : SUBSET MV]
           v == [rows |-> rows, journal |-> journal]
           g == [x \in ((0 + 1) .. MaxNode) \X V |->
                   IF x[1] \in Ceding THEN PocketRepaired(x[2], x[1]) ELSE x[2]]
           Body(t) == [i \in 0 .. MaxNode |->
                         IF i = 0 THEN [rows |-> rows, journal |-> journal]
                         ELSE IF i \in Ceding THEN PocketRepaired(t[i - 1], i) ELSE t[i - 1]]
<1>1. v \in V
  <2>1. ASSUME NEW x \in journal PROVE x \in MV
    <3>1. x.cat \in cats /\ x.sub \in subs /\ x.id \in {z.id : z \in journal}
          /\ x.month \in {z.month : z \in journal} /\ x.amount \in {z.amount : z \in journal}
      OBVIOUS
    <3>2. x \in [id : {x.id}, target : Ids, cat : {x.cat}, sub : {x.sub},
                 from : Ids \cup {Available, NoEnd}, to : Ids \cup {Available, NoEnd},
                 month : {x.month}, amount : {x.amount}]
      BY DEF JournalTyped, Movement
    <3> HIDE DEF cats, subs
    <3> QED BY <3>1, <3>2
  <2> HIDE DEF MV
  <2> QED BY <2>1 DEF RowsTyped
<1>2. (0 + 1) .. MaxNode = Ids
  BY DEF Ids
<1>3. ASSUME NEW i \in Ids, NEW b \in V, i \in Ceding PROVE PocketRepaired(b, i) \in V
  <2> DEFINE to == FirstLeaf(tree, i)
             j == Repointed(tree, b.journal, i, to)
             rs == Joined(b.rows, i, to, {"plan"} \cup Comments)
  <2>1. to \in Ids /\ to \in DOMAIN tree
    BY <1>3, CedingHave
  <2>2. RowsTyped(b.rows) /\ \A x \in b.journal : x \in MV
    <3> HIDE DEF MV
    <3> QED BY DEF RowsTyped
  <2>3. JournalTyped(b.journal)
    <3> HIDE DEF cats, subs
    <3> SUFFICES ASSUME NEW x \in b.journal PROVE Movement(x)
      BY DEF JournalTyped
    <3>1. x \in MV
      BY <2>2
    <3> QED BY <3>1 DEF Movement
  <2> HIDE DEF to
  <2>4. RowsTyped(rs)
    BY <2>1, <2>2, JoinedRows
  <2>5. ASSUME NEW y \in j PROVE y \in MV
    <3>1. PICK x \in b.journal : Follows(tree, x, y, i, to)
      BY <2>1, <2>3, <2>5, RepointedMoves
    <3>2. x.id \in {z.id : z \in journal} /\ x.cat \in cats /\ x.sub \in subs
          /\ x.month \in {z.month : z \in journal} /\ x.amount \in {z.amount : z \in journal}
      <4> HIDE DEF cats, subs
      <4> QED BY <2>2
    <3>3. CatOf(tree, to) \in cats /\ SubOf(tree, to) \in subs
      BY <2>1
    <3> HIDE DEF cats, subs
    <3>4. y.id \in {z.id : z \in journal} /\ y.cat \in cats /\ y.sub \in subs
          /\ y.month \in {z.month : z \in journal} /\ y.amount \in {z.amount : z \in journal}
      BY <3>1, <3>2, <3>3 DEF Follows
    <3>5. y \in [id : {y.id}, target : Ids, cat : {y.cat}, sub : {y.sub},
                 from : Ids \cup {Available, NoEnd}, to : Ids \cup {Available, NoEnd},
                 month : {y.month}, amount : {y.amount}]
      BY <3>1 DEF Follows, Movement
    <3> QED BY <3>4, <3>5
  <2>6. PocketRepaired(b, i) = [rows |-> rs, journal |-> j]
    BY DEF PocketRepaired, to
  <2> HIDE DEF MV, rs, j
  <2> QED BY <2>4, <2>5, <2>6 DEF RowsTyped
<1>4. g \in [((0 + 1) .. MaxNode) \X V -> V]
  <2> HIDE DEF V
  <2> QED BY <1>2, <1>3
<1>5. \A i \in Ids, b \in V : g[<<i, b>>] = IF i \in Ceding THEN PocketRepaired(b, i) ELSE b
  BY <1>2
<1>6. 0 \in Int /\ MaxNode \in Int /\ 0 <= MaxNode /\ MaxNode \in Nat
  BY TreeAssumption
<1> HIDE DEF g, V, v
<1>7. PICK h \in [0 .. MaxNode -> V] : Steps(h, 0, MaxNode, v, g)
  BY <1>1, <1>4, <1>6, RecursionExists
<1>8. h[0] = v /\ \A i \in Ids : h[i] = IF i \in Ceding THEN PocketRepaired(h[i - 1], i) ELSE h[i - 1]
  <2>1. h[0] = v /\ \A i \in Ids : h[i] = g[<<i, h[i - 1]>>]
    BY <1>2, <1>7 DEF Steps
  <2>2. ASSUME NEW i \in Ids PROVE h[i - 1] \in V
    BY <1>6 DEF Ids
  <2> QED BY <1>5, <2>1, <2>2
<1>9. h = Body(h)
  <2>1. h = [i \in 0 .. MaxNode |-> h[i]]
    OBVIOUS
  <2>2. ASSUME NEW i \in 0 .. MaxNode
        PROVE  h[i] = IF i = 0 THEN [rows |-> rows, journal |-> journal]
                      ELSE IF i \in Ceding THEN PocketRepaired(h[i - 1], i) ELSE h[i - 1]
    BY <1>6, <1>8 DEF Ids, v
  <2> QED BY <2>1, <2>2, Zenon
<1> DEFINE c == CHOOSE u : u = Body(u)
<1>10. c = Body(c)
  BY <1>9
<1>11. PocketsRepaired(rows, journal) = c[MaxNode]
  BY DEF PocketsRepaired
<1> HIDE DEF c
<1>12. \A i \in 0 .. MaxNode : c[i] = IF i = 0 THEN [rows |-> rows, journal |-> journal]
                                     ELSE IF i \in Ceding THEN PocketRepaired(c[i - 1], i) ELSE c[i - 1]
  BY <1>10, Zenon
<1>13. MendsPockets(c)
  BY <1>6, <1>12 DEF MendsPockets, Ids
<1> QED BY <1>11, <1>13

LEMMA NotesRepairedRows ==
  ASSUME WellFormed(tree), DOMAIN tree \subseteq Ids, NEW rs, RowsTyped(rs), NEW i \in Ids
  PROVE  LET k == NotesRepaired(rs, i) IN
         /\ RowsTyped(k)
         /\ \A r \in Figures, n \in Ids : k[r][n] = rs[r][n]
         /\ \A r \in Comments, n \in Ids \ Leaves(tree) : IF n = i THEN k[r][n] = Empty ELSE k[r][n] = rs[r][n]
<1> DEFINE k == NotesRepaired(rs, i)
<1>1. Figures \subseteq Rows /\ Comments \subseteq Rows /\ Figures \cap Comments = {}
  BY DEF Rows, Figures, Comments
<1>2. CASE i \in Leaves(tree)
  <2>1. k = rs
    BY <1>2 DEF NotesRepaired
  <2> HIDE DEF k
  <2> QED BY <1>2, <2>1 DEF k
<1>3. CASE i \notin Leaves(tree) /\ i \in DOMAIN tree
  <2>1. FirstLeaf(tree, i) \in Leaves(tree) /\ FirstLeaf(tree, i) \in Ids
    BY <1>3, FirstLeafIsLeaf, LeavesHave
  <2>2. k = Joined(rs, i, FirstLeaf(tree, i), Comments)
    BY <1>3 DEF NotesRepaired
  <2> HIDE DEF k
  <2>3. /\ RowsTyped(k)
        /\ \A r \in Rows, n \in Ids : n \notin {i, FirstLeaf(tree, i)} \/ r \notin Comments => k[r][n] = rs[r][n]
        /\ \A r \in Rows \cap Comments : k[r][i] = Empty
    BY <2>1, <2>2, JoinedRows
  <2> QED BY <1>1, <2>1, <2>3 DEF k
<1>4. CASE i \notin Leaves(tree) /\ i \notin DOMAIN tree
  <2>1. k = [r \in Rows |-> IF r \in Comments THEN [rs[r] EXCEPT ![i] = Empty] ELSE rs[r]]
    BY <1>4 DEF NotesRepaired
  <2>2. Empty \in [Months -> Nat]
    BY DEF Empty
  <2> HIDE DEF k
  <2>3. ASSUME NEW r \in Rows
        PROVE  /\ k[r] \in [Ids -> [Months -> Nat]]
               /\ r \notin Comments => k[r] = rs[r]
               /\ r \in Comments => k[r][i] = Empty /\ \A n \in Ids : n # i => k[r][n] = rs[r][n]
    <3>1. rs[r] \in [Ids -> [Months -> Nat]]
      BY DEF RowsTyped
    <3>2. k[r] = IF r \in Comments THEN [rs[r] EXCEPT ![i] = Empty] ELSE rs[r]
      BY <2>1
    <3> QED BY <2>2, <3>1, <3>2
  <2>4. RowsTyped(k)
    BY <2>1, <2>3 DEF RowsTyped
  <2> QED BY <1>1, <2>3, <2>4 DEF k
<1> QED BY <1>2, <1>3, <1>4

LEMMA CommentsMended ==
  ASSUME WellFormed(tree), DOMAIN tree \subseteq Ids, NEW rs, RowsTyped(rs)
  PROVE  \E c : MendsComments(c, rs) /\ CommentsRepaired(rs) = c[MaxNode]
<1> DEFINE V == [Rows -> [Ids -> [Months -> Nat]]]
           g == [x \in ((0 + 1) .. MaxNode) \X V |-> NotesRepaired(x[2], x[1])]
           Body(t) == [i \in 0 .. MaxNode |-> IF i = 0 THEN rs ELSE NotesRepaired(t[i - 1], i)]
<1>1. rs \in V
  BY DEF RowsTyped
<1>2. (0 + 1) .. MaxNode = Ids
  BY DEF Ids
<1>3. ASSUME NEW i \in Ids, NEW b \in V PROVE NotesRepaired(b, i) \in V
  <2>1. RowsTyped(b)
    BY DEF RowsTyped
  <2> QED BY <2>1, NotesRepairedRows DEF RowsTyped
<1>4. g \in [((0 + 1) .. MaxNode) \X V -> V]
  <2> HIDE DEF V
  <2> QED BY <1>2, <1>3
<1>5. \A i \in Ids, b \in V : g[<<i, b>>] = NotesRepaired(b, i)
  BY <1>2
<1>6. 0 \in Int /\ MaxNode \in Int /\ 0 <= MaxNode /\ MaxNode \in Nat
  BY TreeAssumption
<1> HIDE DEF g, V
<1>7. PICK h \in [0 .. MaxNode -> V] : Steps(h, 0, MaxNode, rs, g)
  BY <1>1, <1>4, <1>6, RecursionExists
<1>8. h[0] = rs /\ \A i \in Ids : h[i] = NotesRepaired(h[i - 1], i)
  <2>1. h[0] = rs /\ \A i \in Ids : h[i] = g[<<i, h[i - 1]>>]
    BY <1>2, <1>7 DEF Steps
  <2>2. ASSUME NEW i \in Ids PROVE h[i - 1] \in V
    BY <1>6 DEF Ids
  <2> QED BY <1>5, <2>1, <2>2
<1>9. h = Body(h)
  <2>1. h = [i \in 0 .. MaxNode |-> h[i]]
    OBVIOUS
  <2>2. ASSUME NEW i \in 0 .. MaxNode PROVE h[i] = IF i = 0 THEN rs ELSE NotesRepaired(h[i - 1], i)
    BY <1>6, <1>8 DEF Ids
  <2> QED BY <2>1, <2>2, Zenon
<1> DEFINE c == CHOOSE u : u = Body(u)
<1>10. c = Body(c)
  BY <1>9
<1>11. CommentsRepaired(rs) = c[MaxNode]
  BY DEF CommentsRepaired
<1> HIDE DEF c
<1>12. \A i \in 0 .. MaxNode : c[i] = IF i = 0 THEN rs ELSE NotesRepaired(c[i - 1], i)
  BY <1>10, Zenon
<1>13. MendsComments(c, rs)
  BY <1>6, <1>12 DEF MendsComments, Ids
<1> QED BY <1>11, <1>13

\* The pockets up to i are repaired.
Mended(b, i) ==
  /\ RowsTyped(b.rows) /\ JournalTyped(b.journal)
  /\ \A r \in Figures, n \in Ids \ Leaves(tree) :
       Nothing(b.rows, r, n) \/ (r = "plan" /\ n \in Ceding /\ n > i)
  /\ \A x \in b.journal : /\ Ends(x) \subseteq Leaves(tree) \cup {n \in Ceding : n > i}
                          /\ x.from # x.to \/ x.from = NoEnd

LEMMA PocketRepairedMends ==
  ASSUME WellFormed(tree), DOMAIN tree \subseteq Ids, NEW i \in Ids, NEW b, Mended(b, i - 1), i \in Ceding
  PROVE  Mended(PocketRepaired(b, i), i)
<1> DEFINE to == FirstLeaf(tree, i)
           which == {"plan"} \cup Comments
           rs == Joined(b.rows, i, to, which)
           j == Repointed(tree, b.journal, i, to)
           k == PocketRepaired(b, i)
<1>1. i \notin Leaves(tree) /\ to \in Leaves(tree) /\ to \in Ids /\ \A n \in Ceding : n \in Ids
  BY CedingHave
<1>2. k.rows = rs /\ k.journal = j
  BY DEF PocketRepaired
<1> HIDE DEF k, to
<1>3. RowsTyped(b.rows) /\ JournalTyped(b.journal)
  BY DEF Mended
<1>4. /\ RowsTyped(rs)
      /\ \A r \in Rows, n \in Ids : n \notin {i, to} \/ r \notin which => rs[r][n] = b.rows[r][n]
      /\ \A r \in Rows \cap which : rs[r][i] = Empty
  BY <1>1, <1>3, JoinedRows
<1>5. Figures \subseteq Rows /\ "plan" \in Figures /\ Ids \subseteq Nat
  BY IdsHave DEF Figures, Rows
<1>6. ASSUME NEW r \in Figures, NEW n \in Ids \ Leaves(tree)
      PROVE  Nothing(rs, r, n) \/ (r = "plan" /\ n \in Ceding /\ n > i)
  <2> HIDE DEF rs
  <2>1. Nothing(b.rows, r, n) \/ (r = "plan" /\ n \in Ceding /\ n > i - 1)
    BY DEF Mended
  <2>2. r \in Rows /\ n # to
    BY <1>1, <1>5
  <2>3. CASE n # i
    <3>1. rs[r][n] = b.rows[r][n]
      BY <1>4, <2>2, <2>3
    <3>2. n > i - 1 => n > i
      BY <1>5, <2>3
    <3> QED BY <2>1, <3>1, <3>2 DEF Nothing
  <2>4. CASE n = i /\ r = "plan"
    BY <1>4, <2>2, <2>4 DEF Nothing
  <2>5. CASE n = i /\ r # "plan"
    <3>1. r \notin which
      BY <2>5 DEF Figures, Comments
    <3> QED BY <1>4, <2>1, <2>2, <2>5, <3>1 DEF Nothing
  <2> QED BY <2>3, <2>4, <2>5
<1>7. ASSUME NEW y \in j
      PROVE  /\ Movement(y) /\ Ends(y) \subseteq Leaves(tree) \cup {n \in Ceding : n > i}
             /\ y.from # y.to \/ y.from = NoEnd
  <2>1. PICK x \in b.journal : Follows(tree, x, y, i, to)
    BY <1>1, <1>3, <1>7, RepointedMoves
  <2>2. Ends(y) \subseteq (Ends(x) \ {i}) \cup {to}
    BY <1>1, <2>1, FollowsEnds
  <2>3. Ends(x) \subseteq Leaves(tree) \cup {n \in Ceding : n > i - 1}
    BY DEF Mended
  <2>4. \A n \in Ceding : n > i - 1 /\ n # i => n > i
    BY <1>1, <1>5
  <2> QED BY <1>1, <2>1, <2>2, <2>3, <2>4 DEF Follows
<1> HIDE DEF rs, j
<1>8. Mended(k, i)
  BY <1>2, <1>4, <1>6, <1>7 DEF Mended, JournalTyped
<1> QED BY <1>8 DEF k

\* A node that cedes nothing is no work for the repairs.
LEMMA MendedNext ==
  ASSUME WellFormed(tree), DOMAIN tree \subseteq Ids, NEW i \in Nat, NEW b, Mended(b, i), i + 1 \notin Ceding
  PROVE  Mended(b, i + 1)
<1>1. ASSUME NEW n \in Ceding, n > i PROVE n > i + 1
  <2>1. n \in Nat /\ n # i + 1
    BY CedingHave, IdsHave
  <2> QED BY <1>1, <2>1
<1> QED BY <1>1 DEF Mended

\* Before the repairs, what they look for is where they look for it.
LEMMA NothingMended ==
  ASSUME WellFormed(tree), DOMAIN tree \subseteq Ids, NEW h, Hanging(tree, rows, journal, h)
  PROVE  Mended([rows |-> rows, journal |-> journal], 0)
<1>1. RowsTyped(rows) /\ JournalTyped(journal) /\ Placed(tree, rows, journal, h)
  BY DEF Hanging
<1>2. \A n \in Ids : n > 0
  BY TreeAssumption DEF Ids
<1>3. ASSUME NEW n \in InnerPockets(tree)
      PROVE  /\ n \in Ids /\ n \in DOMAIN tree /\ tree[n].type = "transfer" /\ ~Childless(tree, n)
             /\ Nothing(rows, "budget", n) /\ Nothing(rows, "actual", n)
  <2>1. n \in DOMAIN tree /\ tree[n].type = "transfer" /\ n \notin Leaves(tree) /\ n \in Ids
    BY DEF InnerPockets
  <2>2. ~Childless(tree, n)
    BY <2>1, LeafChildless DEF Childless
  <2>3. "budget" \in Figures /\ "actual" \in Figures
    BY DEF Figures
  <2> QED BY <1>1, <2>1, <2>2, <2>3 DEF Placed
<1>4. ASSUME NEW n \in Keepers(tree, h), n \notin Leaves(tree) PROVE n \in InnerPockets(tree)
  BY <1>4 DEF Keepers
<1>5. ASSUME NEW r \in Figures, NEW n \in Ids \ Leaves(tree), ~Nothing(rows, r, n)
      PROVE  r = "plan" /\ n \in Ceding
  <2>1. r = "plan" /\ n \in InnerPockets(tree)
    BY <1>1, <1>4, <1>5 DEF Placed
  <2> QED BY <1>3, <1>5, <2>1 DEF Ceding
<1>6. ASSUME NEW x \in journal, NEW n \in Ends(x), n \notin Leaves(tree) PROVE n \in Ceding
  <2>1. n \in InnerPockets(tree)
    BY <1>1, <1>4, <1>6 DEF Placed
  <2>2. n \in {x.target, x.from, x.to}
    BY DEF Ends
  <2> QED BY <1>3, <2>1, <2>2 DEF Ceding
<1> DEFINE b == [rows |-> rows, journal |-> journal]
<1>7. b.rows = rows /\ b.journal = journal
  OBVIOUS
<1> HIDE DEF b
<1>8. \A n \in Ceding : n > 0
  BY <1>2, CedingHave
<1>9. \A x \in journal : x.from # x.to \/ x.from = NoEnd
  BY <1>1 DEF Placed
<1>10. Mended(b, 0)
  BY <1>1, <1>5, <1>6, <1>7, <1>8, <1>9 DEF Mended
<1> QED BY <1>10 DEF b

\* After the repairs nothing of a pocket that is no leaf is left.
LEMMA PocketsHang ==
  ASSUME WellFormed(tree), DOMAIN tree \subseteq Ids, NEW h, Hanging(tree, rows, journal, h)
  PROVE  Mended(PocketsRepaired(rows, journal), MaxNode)
<1>1. RowsTyped(rows) /\ JournalTyped(journal)
  BY DEF Hanging
<1>2. PICK c : MendsPockets(c) /\ PocketsRepaired(rows, journal) = c[MaxNode]
  BY <1>1, PocketsMended
<1>3. MaxNode \in Nat /\ Ids \subseteq Nat
  BY TreeAssumption DEF Ids
<1>4. Mended([rows |-> rows, journal |-> journal], 0)
  BY NothingMended
<1> DEFINE S == {i \in 0 .. MaxNode : Mended(c[i], i)}
<1>5. 0 \in S
  BY <1>2, <1>3, <1>4 DEF MendsPockets
<1>6. ASSUME NEW i \in 0 .. MaxNode, i \in S, i + 1 <= MaxNode PROVE i + 1 \in S
  <2>1. i + 1 \in Ids /\ (i + 1) - 1 = i /\ i + 1 \in 0 .. MaxNode
    BY <1>3, <1>6 DEF Ids
  <2>2. c[i + 1] = IF i + 1 \in Ceding THEN PocketRepaired(c[i], i + 1) ELSE c[i]
    BY <1>2, <2>1 DEF MendsPockets
  <2>3. Mended(c[i], i)
    BY <1>6
  <2>4. CASE i + 1 \in Ceding
    <3>1. Mended(PocketRepaired(c[i], i + 1), i + 1)
      BY <2>1, <2>3, <2>4, PocketRepairedMends
    <3> QED BY <2>1, <2>2, <2>4, <3>1
  <2>5. CASE i + 1 \notin Ceding
    <3>1. Mended(c[i], i + 1)
      BY <1>3, <2>3, <2>5, MendedNext
    <3> QED BY <2>1, <2>2, <2>5, <3>1
  <2> QED BY <2>4, <2>5
<1>7. \A i \in 0 .. MaxNode : i \in S
  <2> HIDE DEF S
  <2> QED BY <1>3, <1>5, <1>6, UpTo
<1> QED BY <1>2, <1>3, <1>7

LEMMA CommentsHang ==
  ASSUME WellFormed(tree), DOMAIN tree \subseteq Ids, NEW rs, RowsTyped(rs)
  PROVE  LET k == CommentsRepaired(rs) IN
         /\ RowsTyped(k)
         /\ \A r \in Figures, n \in Ids : k[r][n] = rs[r][n]
         /\ \A r \in Comments, n \in Ids \ Leaves(tree) : k[r][n] = Empty
<1>1. PICK c : MendsComments(c, rs) /\ CommentsRepaired(rs) = c[MaxNode]
  BY CommentsMended
<1>2. MaxNode \in Nat /\ Ids \subseteq Nat /\ \A n \in Ids : n > 0 /\ n <= MaxNode
  BY TreeAssumption DEF Ids
<1> DEFINE Good(k, i) ==
             /\ RowsTyped(k)
             /\ \A r \in Figures, n \in Ids : k[r][n] = rs[r][n]
             /\ \A r \in Comments, n \in Ids \ Leaves(tree) : n <= i => k[r][n] = Empty
           S == {i \in 0 .. MaxNode : Good(c[i], i)}
<1>3. 0 \in S
  <2>1. c[0] = rs /\ \A n \in Ids : ~(n <= 0)
    BY <1>1, <1>2 DEF MendsComments
  <2>2. Good(c[0], 0)
    BY <2>1
  <2> QED BY <1>2, <2>2
<1>4. ASSUME NEW i \in 0 .. MaxNode, i \in S, i + 1 <= MaxNode PROVE i + 1 \in S
  <2>1. i + 1 \in Ids /\ (i + 1) - 1 = i /\ i + 1 \in 0 .. MaxNode
    BY <1>2, <1>4 DEF Ids
  <2>2. c[i + 1] = NotesRepaired(c[i], i + 1)
    BY <1>1, <2>1 DEF MendsComments
  <2>3. Good(c[i], i)
    BY <1>4
  <2>4. /\ RowsTyped(c[i + 1])
        /\ \A r \in Figures, n \in Ids : c[i + 1][r][n] = c[i][r][n]
        /\ \A r \in Comments, n \in Ids \ Leaves(tree) :
             IF n = i + 1 THEN c[i + 1][r][n] = Empty ELSE c[i + 1][r][n] = c[i][r][n]
    BY <2>1, <2>2, <2>3, NotesRepairedRows
  <2>5. \A n \in Ids : n <= i + 1 /\ n # i + 1 => n <= i
    BY <1>2, <2>1
  <2>6. Good(c[i + 1], i + 1)
    BY <2>3, <2>4, <2>5
  <2> QED BY <2>1, <2>6
<1>5. \A i \in 0 .. MaxNode : i \in S
  <2> HIDE DEF S
  <2> QED BY <1>2, <1>3, <1>4, UpTo
<1>6. Good(c[MaxNode], MaxNode)
  BY <1>2, <1>5
<1> QED BY <1>1, <1>2, <1>6

LEMMA LoadHangs ==
  ASSUME BookOK, Load
  PROVE  Hanging(tree', rows', journal', healed')
<1> DEFINE b == PocketsRepaired(rows, journal)
<1>1. /\ WellFormed(tree) /\ DOMAIN tree \subseteq Ids /\ Hanging(tree, rows, journal, healed)
  BY TreeIds DEF BookOK, TreeOK
<1>2. /\ tree' = tree /\ healed' = TRUE /\ rows' = CommentsRepaired(b.rows)
      /\ journal' = Relabelled(tree, b.journal)
  BY DEF Load
<1>3. Mended(b, MaxNode)
  BY <1>1, PocketsHang
<1> HIDE DEF b
<1>4. \A n \in Ceding : ~(n > MaxNode)
  BY <1>1, CedingHave, TreeAssumption DEF Ids
<1>5. /\ RowsTyped(b.rows) /\ JournalTyped(b.journal)
      /\ \A r \in Figures, n \in Ids \ Leaves(tree) : Nothing(b.rows, r, n)
      /\ \A x \in b.journal : Ends(x) \subseteq Leaves(tree) /\ (x.from # x.to \/ x.from = NoEnd)
  BY <1>3, <1>4 DEF Mended
<1>6. /\ RowsTyped(rows')
      /\ \A r \in Figures, n \in Ids : rows'[r][n] = b.rows[r][n]
      /\ \A r \in Comments, n \in Ids \ Leaves(tree) : rows'[r][n] = Empty
  BY <1>1, <1>2, <1>5, CommentsHang
<1>7. Keepers(tree, TRUE) = Leaves(tree) /\ Leaves(tree) \subseteq DOMAIN tree
  BY <1>1, LeavesHave
<1>8. ASSUME NEW y \in journal'
      PROVE  /\ Movement(y) /\ Ends(y) \subseteq Leaves(tree) /\ (y.from # y.to \/ y.from = NoEnd)
             /\ y.cat = CatOf(tree, y.target) /\ y.sub = SubOf(tree, y.target)
  <2>1. PICK x \in b.journal : Renewed(tree, x, y)
    BY <1>2, <1>5, <1>8, RelabelledMoves
  <2>2. Ends(x) \subseteq Leaves(tree) /\ (x.from # x.to \/ x.from = NoEnd) /\ Movement(x)
    BY <1>5 DEF JournalTyped
  <2>3. Ends(y) = Ends(x)
    BY <2>1 DEF Renewed, Ends
  <2>4. x.target \in Ends(x)
    BY <2>2 DEF Movement, Ends
  <2> QED BY <1>7, <2>1, <2>2, <2>3, <2>4 DEF Renewed
<1>9. \A r \in Rows, n \in Ids \ Leaves(tree) : Nothing(rows', r, n)
  BY <1>5, <1>6, RowsHave DEF Nothing
<1>10. Placed(tree, rows', journal', TRUE)
  BY <1>7, <1>8, <1>9, RowsHave DEF Placed
<1>11. Hanging(tree, rows', journal', TRUE)
  BY <1>6, <1>8, <1>10 DEF Hanging, JournalTyped
<1> QED BY <1>2, <1>11

-----------------------------------------------------------------------------

LEMMA FoundHangs ==
  ASSUME Init
  PROVE  Hanging(tree, rows, journal, healed)
<1>1. PICK u \in Users : \E b \in u.books : tree = b.tree /\ rows = b.rows /\ journal = b.journal
  BY DEF Init
<1>6. PICK b \in u.books : tree = b.tree /\ rows = b.rows /\ journal = b.journal
  BY <1>1
<1>2. Legacy(b) /\ healed = FALSE
  BY LegacyAssumption DEF Init
<1>3. Keepers(tree, healed) = Leaves(tree) \cup InnerPockets(tree)
  BY <1>2 DEF Keepers
<1>4. /\ RowsTyped(rows) /\ journal \subseteq Movements
      /\ \A r \in Figures, n \in Ids \ Leaves(tree) :
           Nothing(rows, r, n) \/ (r = "plan" /\ n \in InnerPockets(tree))
      /\ \A x \in journal : /\ Ends(x) \subseteq Leaves(tree) \cup InnerPockets(tree)
                            /\ x.from # x.to \/ x.from = NoEnd
  BY <1>2, <1>6 DEF Legacy, RowsTyped
<1>5. JournalTyped(journal)
  <2> SUFFICES ASSUME NEW x \in journal PROVE Movement(x)
    BY DEF JournalTyped
  <2>1. x \in Movements
    BY <1>4
  <2> QED BY <2>1 DEF Movements, Movement
<1> QED BY <1>2, <1>3, <1>4, <1>5 DEF Hanging, Placed

LEMMA StructureHangs ==
  ASSUME BookOK, Structure
  PROVE  Hanging(tree', rows', journal', healed')
BY CreatedHangs, ToRootHangs, DeletedHangs, GroupHangs, ToCategoryHangs, ToGroupHangs DEF Structure

LEMMA BookKept ==
  ASSUME BookOK, TypeOK', [Next]_vars
  PROVE  BookOK'
<1> DEFINE H == Hanging(tree', rows', journal', healed')
<1>1. ASSUME Structure PROVE H
  BY <1>1, StructureHangs
<1>2. ASSUME Entries PROVE H
  BY <1>2, EntriesHang
<1>3. ASSUME Close PROVE H
  <2>1. tree' = tree /\ rows' = rows /\ journal' = journal /\ healed' = healed
    BY <1>3 DEF Close, book
  <2> QED BY <2>1 DEF BookOK, H
<1>4. ASSUME Load PROVE H
  BY <1>4, LoadHangs
<1>5. ASSUME UNCHANGED vars PROVE H
  <2>1. tree' = tree /\ rows' = rows /\ journal' = journal /\ healed' = healed
    BY <1>5 DEF vars
  <2> QED BY <2>1 DEF BookOK
<1> HIDE DEF H
<1>6. H
  BY <1>1, <1>2, <1>3, <1>4, <1>5 DEF Next
<1>7. Hanging(tree, rows, journal, healed)'
  BY <1>6 DEF H
<1> QED BY <1>7 DEF BookOK, TypeOK

\* From the first load on, whatever is entered, created, moved and deleted, every
\* amount, plan, comment and movement is of a leaf that lives, under its label
\* (BG-017, BG-039, BG-053, BG-077, BG-078).
THEOREM NothingIsOrphaned == Spec => []NothingOrphaned
<1>1. Init => BookOK
  <2> SUFFICES ASSUME Init PROVE BookOK
    OBVIOUS
  <2>1. TypeOK
    BY InitTyped
  <2> QED BY <2>1, FoundHangs DEF BookOK, TypeOK
<1>2. BookOK /\ TypeOK' /\ [Next]_vars => BookOK'
  BY BookKept
<1>3. BookOK => NothingOrphaned
  <2> SUFFICES ASSUME BookOK, healed PROVE NothingOrphaned
    BY DEF NothingOrphaned
  <2>1. DOMAIN tree \subseteq Ids /\ Placed(tree, rows, journal, healed)
    BY TreeIds DEF BookOK, Hanging
  <2>2. Keepers(tree, healed) = Leaves(tree)
    BY DEF Keepers
  <2>3. ASSUME NEW r \in Rows, NEW n \in Ids \ Leaves(tree) PROVE Nothing(rows, r, n)
    BY <2>1, <2>2, RowsHave DEF Placed
  <2> QED BY <2>1, <2>2, <2>3 DEF NothingOrphaned, Placed
<1> QED BY <1>1, <1>2, <1>3, TreeIsATree, PTL DEF Spec

-----------------------------------------------------------------------------
(* What a pocket holds, as sums over the journal and over the months.        *)

\* The movements have different numbers; each is of a month.
Numbered(j) ==
  /\ IsFiniteSet(j)
  /\ \A x, y \in j : x.id = y.id => x = y
  /\ \A x \in j : x.id \in Nat \ {0} /\ x.month \in Months /\ x.amount \in Int

\* Both ends of an operation of a reserve are pockets.
Paired(t, j) == \A x \in j : {x.from, x.to} = {NoEnd} \/ OfReserve(t, x)

Gains(x, p, m) == x.to = p /\ x.from \in Ids /\ x.month = m
Loses(x, p, m) == x.from = p /\ x.month = m

\* What a movement changes of pocket p in month m.
Effect(x, p, m) ==
  (IF Gains(x, p, m) THEN x.amount ELSE 0) - (IF Loses(x, p, m) THEN x.amount ELSE 0)
Effects(j, p, m) == [x \in j |-> Effect(x, p, m)]
Changes(rs, j, p) == [k \in Months |-> Change(rs, j, p, k)]

LEMMA MonthsFinite ==
  /\ IsFiniteSet(Months) /\ IsFiniteSet(Ids) /\ \A m \in Months : 1..m \subseteq Months
  /\ \A T \in SUBSET Months : IsFiniteSet(T)
  /\ \A T \in SUBSET Ids : IsFiniteSet(T)
<1>1. IsFiniteSet(1..MaxMonth) /\ IsFiniteSet(1..MaxNode)
  BY TreeAssumption, FS_Interval
<1>2. \A m \in Months : 1..m \subseteq Months
  BY TreeAssumption DEF Months
<1> QED BY <1>1, <1>2, FS_Subset DEF Months, Ids

\* The amounts of some of the movements.
LEMMA MovedIsTotal ==
  ASSUME NEW j, IsFiniteSet(j), \A x \in j : x.amount \in Int, NEW T \in SUBSET j,
         NEW g, \A x \in j : g[x] = IF x \in T THEN x.amount ELSE 0
  PROVE  Moved(T) = Total(g, j) /\ Moved(T) \in Int
<1> DEFINE f == [x \in j |-> x.amount]
           h == [x \in T |-> x.amount]
<1>1. IsFiniteSet(T)
  BY FS_Subset
<1>2. /\ \A x \in j : f[x] \in Int
      /\ \A x \in T : h[x] \in Int /\ h[x] = f[x] /\ f[x] \in Int
      /\ DOMAIN h = T
      /\ \A x \in j : g[x] = IF x \in T THEN f[x] ELSE 0
  OBVIOUS
<1>3. Moved(T) = SumFunctionOnSet(h, T)
  BY <1>2 DEF Moved, SumFunction
<1> HIDE DEF f, h
<1>4. SumFunctionOnSet(h, T) = Total(h, T) /\ Total(h, T) \in Int
  BY <1>1, <1>2, SumIsTotal
<1>5. Total(h, T) = Total(f, T)
  BY <1>1, <1>2, TotalSame
<1>6. Total(g, j) = Total(f, T)
  BY <1>2, TotalWithin
<1> QED BY <1>3, <1>4, <1>5, <1>6

LEMMA EffectsInt ==
  ASSUME NEW j, Numbered(j), NEW p, NEW m
  PROVE  (\A x \in j : Effects(j, p, m)[x] = Effect(x, p, m) /\ Effects(j, p, m)[x] \in Int)
         /\ Total(Effects(j, p, m), j) \in Int
<1>1. \A x \in j : Effects(j, p, m)[x] = Effect(x, p, m) /\ Effect(x, p, m) \in Int
  BY DEF Effects, Effect, Numbered
<1>2. IsFiniteSet(j)
  BY DEF Numbered
<1> QED BY <1>1, <1>2, TotalInt

LEMMA ChangeIs ==
  ASSUME NEW rs, RowsTyped(rs), NEW j, Numbered(j), NEW p \in Ids, NEW m \in Months
  PROVE  /\ Change(rs, j, p, m) = rs["actual"][p][m] + Total(Effects(j, p, m), j)
         /\ Change(rs, j, p, m) \in Int /\ rs["actual"][p][m] \in Nat
<1> DEFINE G == {x \in j : x.to = p /\ x.from \in Ids /\ x.month = m}
           L == {x \in j : x.from = p /\ x.month = m}
           gain == [x \in j |-> IF x \in G THEN x.amount ELSE 0]
           loss == [x \in j |-> IF x \in L THEN x.amount ELSE 0]
<1>1. IsFiniteSet(j) /\ \A x \in j : x.amount \in Int
  BY DEF Numbered
<1>2. G \in SUBSET j /\ L \in SUBSET j
  OBVIOUS
<1>3. (\A x \in j : gain[x] = IF x \in G THEN x.amount ELSE 0) /\ (\A x \in j : loss[x] = IF x \in L THEN x.amount ELSE 0)
  OBVIOUS
<1>4. \A x \in j : /\ Effects(j, p, m)[x] \in Int /\ loss[x] \in Int
                   /\ gain[x] = Effects(j, p, m)[x] + loss[x]
  BY <1>1 DEF Effects, Effect, Gains, Loses
<1>5. Change(rs, j, p, m) = rs["actual"][p][m] + Moved(G) - Moved(L)
  BY DEF Change
<1>6. rs["actual"][p][m] \in Nat
  BY DEF RowsTyped, Rows
<1> HIDE DEF G, L, gain, loss
<1>7. Moved(G) = Total(gain, j) /\ Moved(G) \in Int
  BY <1>1, <1>2, <1>3, MovedIsTotal
<1>8. Moved(L) = Total(loss, j) /\ Moved(L) \in Int
  BY <1>1, <1>2, <1>3, MovedIsTotal
<1>9. Total(gain, j) = Total(Effects(j, p, m), j) + Total(loss, j)
  BY <1>1, <1>4, TotalAdd
<1>10. Total(Effects(j, p, m), j) \in Int
  BY <1>1, <1>4, TotalInt
<1> QED BY <1>5, <1>6, <1>7, <1>8, <1>9, <1>10

\* A sum up to a month is the sum up to the one before and what the month adds.
LEMMA TotalUpTo ==
  ASSUME NEW f, \A k \in Months : f[k] \in Int, NEW m \in Months
  PROVE  Total(f, 1..m) = (IF m = 1 THEN 0 ELSE Total(f, 1..(m - 1))) + f[m] /\ Total(f, 1..m) \in Int
<1>1. IsFiniteSet(1..m) /\ 1..m \subseteq Months /\ m \in 1..m
  BY MonthsFinite, TreeAssumption DEF Months
<1>2. \A k \in 1..m : f[k] \in Int
  BY <1>1
<1>3. Total(f, 1..m) = f[m] + Total(f, (1..m) \ {m}) /\ Total(f, 1..m) \in Int
  BY <1>1, <1>2, TotalRemove, TotalInt
<1>4. CASE m = 1
  <2>1. (1..m) \ {m} = {}
    BY <1>4
  <2>2. Total(f, (1..m) \ {m}) = 0
    BY <2>1, TotalEmpty
  <2> QED BY <1>1, <1>2, <1>3, <1>4, <2>2
<1>5. CASE m # 1
  <2>1. (1..m) \ {m} = 1..(m - 1) /\ m \in Nat
    BY <1>5, TreeAssumption DEF Months
  <2>2. IsFiniteSet(1..(m - 1)) /\ \A k \in 1..(m - 1) : f[k] \in Int
    BY <1>2, <2>1, FS_Interval
  <2>3. Total(f, 1..(m - 1)) \in Int
    BY <2>2, TotalInt
  <2>4. f[m] \in Int /\ Total(f, 1..m) = f[m] + Total(f, 1..(m - 1))
    BY <1>3, <2>1
  <2> QED BY <1>3, <1>5, <2>3, <2>4
<1> QED BY <1>4, <1>5

\* What a pocket holds at the end of a month is what every month up to it changed.
LEMMA SeriesIs ==
  ASSUME NEW rs, RowsTyped(rs), NEW j, Numbered(j), NEW p \in Ids
  PROVE  /\ Series(rs, j, p) = [m \in Months |-> Total(Changes(rs, j, p), 1..m)]
         /\ \A m \in Months : /\ Series(rs, j, p)[m] = Total(Changes(rs, j, p), 1..m)
                              /\ Series(rs, j, p)[m] \in Int
<1> DEFINE f == Changes(rs, j, p)
           g == [x \in ((0 + 1) .. MaxMonth) \X Int |-> x[2] + Change(rs, j, p, x[1])]
           Body(t) == [m \in 0..MaxMonth |-> IF m = 0 THEN 0 ELSE t[m - 1] + Change(rs, j, p, m)]
           s == CHOOSE t : t = Body(t)
<1>0. 0 \in Int /\ 1 \in Int /\ MaxMonth \in Int /\ 0 <= MaxMonth
  BY TreeAssumption
<1>1. (0 + 1) .. MaxMonth = Months /\ 0 <= MaxMonth /\ MaxMonth \in Int
  BY TreeAssumption DEF Months
<1>2. \A k \in Months : f[k] = Change(rs, j, p, k) /\ f[k] \in Int
  BY ChangeIs DEF Changes
<1>3. g \in [((0 + 1) .. MaxMonth) \X Int -> Int]
  BY <1>1, <1>2
<1>4. PICK h \in [0 .. MaxMonth -> Int] : Steps(h, 0, MaxMonth, 0, g)
  <2> DEFINE V == Int
             v == 0
  <2>1. v \in V /\ g \in [((0 + 1) .. MaxMonth) \X V -> V]
    BY <1>3
  <2> HIDE DEF g, V, v
  <2>2. \E h \in [0 .. MaxMonth -> V] : Steps(h, 0, MaxMonth, v, g)
    BY <1>0, <2>1, RecursionExists
  <2> QED BY <2>2 DEF V, v
<1>5. h[0] = 0 /\ \A m \in Months : h[m] = h[m - 1] + Change(rs, j, p, m)
  <2>1. h[0] = 0 /\ \A m \in Months : h[m] = g[<<m, h[m - 1]>>]
    <3> HIDE DEF g
    <3> QED BY <1>1, <1>4 DEF Steps
  <2>2. \A m \in Months : h[m - 1] \in Int
    BY <1>1, <1>4 DEF Months
  <2> QED BY <1>1, <2>1, <2>2
<1>6. h = Body(h)
  <2>1. \A m \in 0..MaxMonth : m # 0 => m \in Months
    BY TreeAssumption DEF Months
  <2> QED BY <1>4, <1>5, <2>1
<1>7. s = Body(s)
  <2> HIDE DEF Body
  <2> QED BY <1>6
<1>8. s[0] = 0 /\ \A m \in Months : s[m] = s[m - 1] + f[m]
  <2>1. 0 \in 0..MaxMonth /\ \A m \in Months : m \in 0..MaxMonth /\ m # 0
    BY TreeAssumption DEF Months
  <2>2. s = [m \in 0..MaxMonth |-> IF m = 0 THEN 0 ELSE s[m - 1] + Change(rs, j, p, m)]
    BY <1>7
  <2> HIDE DEF s
  <2> QED BY <1>2, <2>1, <2>2
<1>9. Series(rs, j, p) = [m \in Months |-> s[m]]
  BY DEF Series
<1> HIDE DEF s, Body, f
<1>10. \A m \in 1..MaxMonth : m \in {k \in Months : s[k] = Total(f, 1..k)}
  <2> DEFINE T == {k \in Months : s[k] = Total(f, 1..k)}
  <2>1. 1 \in T
    <3>1. 1 \in Months
      BY TreeAssumption DEF Months
    <3>2. s[1] = s[0] + f[1] /\ f[1] \in Int
      BY <1>2, <1>8, <3>1
    <3>3. Total(f, 1..1) = 0 + f[1]
      BY <1>2, <3>1, TotalUpTo
    <3> QED BY <1>8, <3>1, <3>2, <3>3
  <2>2. ASSUME NEW k \in 1..MaxMonth, k \in T, k + 1 <= MaxMonth PROVE k + 1 \in T
    <3>1. k + 1 \in Months /\ (k + 1) - 1 = k /\ k + 1 # 1
      BY <2>2, TreeAssumption DEF Months
    <3>2. s[k + 1] = s[k] + f[k + 1] /\ s[k] = Total(f, 1..k)
      BY <1>8, <2>2, <3>1
    <3>3. Total(f, 1..(k + 1)) = Total(f, 1..k) + f[k + 1]
      BY <1>2, <3>1, TotalUpTo
    <3> QED BY <3>1, <3>2, <3>3
  <2>4. \A k \in 1..MaxMonth : (k \in T /\ k + 1 <= MaxMonth) => k + 1 \in T
    BY <2>2
  <2> HIDE DEF T
  <2>3. \A m \in 1..MaxMonth : m \in T
    BY <2>1, <2>4, <1>0, UpTo
  <2> QED BY <2>3 DEF T
<1>11. \A m \in Months : s[m] = Total(f, 1..m)
  BY <1>10 DEF Months
<1>12. \A m \in Months : Total(f, 1..m) \in Int
  BY <1>2, TotalUpTo
<1> QED BY <1>9, <1>11, <1>12 DEF f

\* What a movement takes from the reserves for good in month k.
Withdrawn(x, k) == IF x.to = Available /\ x.month = k THEN x.amount ELSE 0

\* The effects of a movement on all the pockets together.
LEMMA EffectTogether ==
  ASSUME NEW T \in SUBSET Ids, NEW x, x.amount \in Int, NEW k,
         \/ {x.from, x.to} = {NoEnd}
         \/ {x.from, x.to} \subseteq T \cup {Available} /\ x.from # x.to
  PROVE  Total([p \in T |-> Effect(x, p, k)], T) = -Withdrawn(x, k)
<1> DEFINE E == [p \in T |-> Effect(x, p, k)]
           G == [p \in T |-> IF Gains(x, p, k) THEN x.amount ELSE 0]
           L == [p \in T |-> IF Loses(x, p, k) THEN x.amount ELSE 0]
<1>1. IsFiniteSet(T)
  BY MonthsFinite
<1>2. \A p \in T : E[p] \in Int /\ G[p] \in Int /\ L[p] \in Int /\ G[p] = E[p] + L[p]
  BY DEF Effect
<1>3. Total(G, T) = Total(E, T) + Total(L, T) /\ Total(E, T) \in Int
  <2> HIDE DEF E, G, L
  <2> QED BY <1>1, <1>2, TotalAdd, TotalInt
<1>4. Total(G, T) = IF x.to \in T /\ x.from \in Ids /\ x.month = k THEN x.amount ELSE 0
  <2>1. CASE x.to \in T /\ x.from \in Ids /\ x.month = k
    <3>1. G[x.to] = x.amount /\ \A p \in T \ {x.to} : G[p] = 0
      BY <2>1 DEF Gains
    <3> HIDE DEF G
    <3> QED BY <1>1, <1>2, <2>1, <3>1, TotalAlone
  <2>2. CASE ~(x.to \in T /\ x.from \in Ids /\ x.month = k)
    <3>1. \A p \in T : G[p] = 0
      BY <2>2 DEF Gains
    <3>2. Total(G, T) = 0
      <4> HIDE DEF G
      <4> QED BY <1>1, <3>1, TotalZero
    <3> QED BY <2>2, <3>2
  <2> QED BY <2>1, <2>2
<1>5. Total(L, T) = IF x.from \in T /\ x.month = k THEN x.amount ELSE 0
  <2>1. CASE x.from \in T /\ x.month = k
    <3>1. L[x.from] = x.amount /\ \A p \in T \ {x.from} : L[p] = 0
      BY <2>1 DEF Loses
    <3> HIDE DEF L
    <3> QED BY <1>1, <1>2, <2>1, <3>1, TotalAlone
  <2>2. CASE ~(x.from \in T /\ x.month = k)
    <3>1. \A p \in T : L[p] = 0
      BY <2>2 DEF Loses
    <3>2. Total(L, T) = 0
      <4> HIDE DEF L
      <4> QED BY <1>1, <3>1, TotalZero
    <3> QED BY <2>2, <3>2
  <2> QED BY <2>1, <2>2
<1> HIDE DEF E, G, L
<1>6. Available \notin T /\ NoEnd \notin T /\ Available # NoEnd /\ Available \notin Ids /\ NoEnd \notin Ids
  BY IdsHave
<1>7. CASE {x.from, x.to} = {NoEnd}
  <2>1. x.from = NoEnd /\ x.to = NoEnd
    BY <1>7
  <2> QED BY <1>3, <1>4, <1>5, <1>6, <2>1 DEF Withdrawn, E
<1>8. CASE {x.from, x.to} \subseteq T \cup {Available} /\ x.from # x.to
  <2>1. CASE x.to = Available
    <3>1. x.from \in T
      BY <1>8, <2>1
    <3> QED BY <1>3, <1>4, <1>5, <1>6, <2>1, <3>1 DEF Withdrawn, E
  <2>2. CASE x.to # Available
    <3>1. x.to \in T /\ (x.from \in T \/ x.from = Available)
      BY <1>8, <2>2
    <3>2. x.from \in T <=> x.from \in Ids
      BY <1>6, <3>1
    <3> QED BY <1>3, <1>4, <1>5, <1>6, <2>2, <3>1, <3>2 DEF Withdrawn, E
  <2> QED BY <2>1, <2>2
<1> QED BY <1>7, <1>8

\* The movements are no operation of a reserve, or one between those of T.
Between(T, j) ==
  \A x \in j : \/ {x.from, x.to} = {NoEnd}
               \/ {x.from, x.to} \subseteq T \cup {Available} /\ x.from # x.to

\* The changes of a month, of all the pockets together.
LEMMA ChangesTogether ==
  ASSUME NEW T \in SUBSET Ids, NEW rs, RowsTyped(rs), NEW j, Numbered(j), NEW k \in Months,
         Between(T, j)
  PROVE  /\ Total([p \in T |-> rs["actual"][p][k]], T)
              = Total([p \in T |-> Change(rs, j, p, k)], T) + Total([x \in j |-> Withdrawn(x, k)], j)
         /\ Total([p \in T |-> rs["actual"][p][k]], T) \in Int
         /\ Total([p \in T |-> Change(rs, j, p, k)], T) \in Int
         /\ Total([x \in j |-> Withdrawn(x, k)], j) \in Int
<1> DEFINE A == [p \in T |-> rs["actual"][p][k]]
           C == [p \in T |-> Change(rs, j, p, k)]
           W == [x \in j |-> Withdrawn(x, k)]
           E == [p \in T |-> Effects(j, p, k)]
           perPocket == [p \in T |-> Total(E[p], j)]
           ofMove(x) == [p \in T |-> E[p][x]]
           perMove == [x \in j |-> Total(ofMove(x), T)]
<1>1. IsFiniteSet(T) /\ IsFiniteSet(j)
  BY MonthsFinite DEF Numbered
<1>2. \A p \in T, x \in j : E[p][x] \in Int /\ E[p][x] = Effect(x, p, k)
  <2> TAKE p \in T, x \in j
  <2>1. E[p] = Effects(j, p, k)
    OBVIOUS
  <2> HIDE DEF E
  <2> QED BY <2>1, EffectsInt
<1>3. \A p \in T : A[p] \in Int /\ C[p] \in Int /\ perPocket[p] \in Int /\ C[p] = A[p] + perPocket[p]
  <2> TAKE p \in T
  <2>1. p \in Ids /\ E[p] = Effects(j, p, k) /\ perPocket[p] = Total(E[p], j) /\ A[p] = rs["actual"][p][k]
        /\ C[p] = Change(rs, j, p, k)
    OBVIOUS
  <2> HIDE DEF E, perPocket, A, C
  <2>2. Total(Effects(j, p, k), j) \in Int
    BY EffectsInt
  <2>3. /\ Change(rs, j, p, k) = rs["actual"][p][k] + Total(Effects(j, p, k), j)
        /\ Change(rs, j, p, k) \in Int /\ rs["actual"][p][k] \in Nat
    BY <2>1, ChangeIs
  <2> QED BY <2>1, <2>2, <2>3
<1>4. Total(C, T) = Total(A, T) + Total(perPocket, T)
  <2> HIDE DEF A, C, perPocket
  <2> QED BY <1>1, <1>3, TotalAdd
<1>5. Total(perPocket, T) = Total(perMove, j)
  <2>1. \A p \in T, x \in j : E[p][x] \in Int
    BY <1>2
  <2> HIDE DEF E
  <2> QED BY <1>1, <2>1, TotalExchange
<1>6. \A x \in j : W[x] \in Int /\ perMove[x] \in Int /\ perMove[x] = -W[x]
  <2> TAKE x \in j
  <2>1. x.amount \in Int
    BY DEF Numbered
  <2>2. ofMove(x) = [p \in T |-> Effect(x, p, k)]
    <3>1. \A p \in T : ofMove(x)[p] = Effect(x, p, k)
      <4>1. \A p \in T : ofMove(x)[p] = E[p][x]
        OBVIOUS
      <4> HIDE DEF E, ofMove
      <4> QED BY <1>2, <4>1
    <3>2. ofMove(x) = [p \in T |-> ofMove(x)[p]]
      OBVIOUS
    <3> HIDE DEF ofMove
    <3> QED BY <3>1, <3>2
  <2>3. Total([p \in T |-> Effect(x, p, k)], T) = -Withdrawn(x, k)
    BY <2>1, EffectTogether DEF Between
  <2>4. W[x] = Withdrawn(x, k) /\ Withdrawn(x, k) \in Int
    BY <2>1 DEF Withdrawn
  <2>5. perMove[x] = Total(ofMove(x), T)
    OBVIOUS
  <2> HIDE DEF perMove, W, ofMove
  <2> QED BY <2>2, <2>3, <2>4, <2>5
<1>7. \A x \in j : 0 = W[x] + perMove[x]
  <2> HIDE DEF W, perMove
  <2> QED BY <1>6
<1>8. Total([x \in j |-> 0], j) = Total(W, j) + Total(perMove, j)
  <2> DEFINE Z == [x \in j |-> 0]
  <2>1. \A x \in j : W[x] \in Int /\ perMove[x] \in Int /\ Z[x] = W[x] + perMove[x]
    <3>1. \A x \in j : Z[x] = 0
      OBVIOUS
    <3> HIDE DEF Z, W, perMove
    <3> QED BY <1>6, <1>7, <3>1
  <2> HIDE DEF Z, W, perMove
  <2>2. Total(Z, j) = Total(W, j) + Total(perMove, j)
    BY <1>1, <2>1, TotalAdd
  <2> QED BY <2>2 DEF Z
<1>9. Total([x \in j |-> 0], j) = 0
  <2> DEFINE Z == [x \in j |-> 0]
  <2>1. \A x \in j : Z[x] = 0
    OBVIOUS
  <2> HIDE DEF Z
  <2>2. Total(Z, j) = 0
    BY <1>1, <2>1, TotalZero
  <2> QED BY <2>2 DEF Z
<1>10. Total(A, T) \in Int /\ Total(C, T) \in Int /\ Total(W, j) \in Int /\ Total(perMove, j) \in Int
  <2> HIDE DEF A, C, W, perMove
  <2> QED BY <1>1, <1>3, <1>6, TotalInt
<1> HIDE DEF A, C, W, perMove, perPocket
<1>11. Total(A, T) = Total(C, T) + Total(W, j)
  BY <1>4, <1>5, <1>8, <1>9, <1>10
<1> QED BY <1>10, <1>11 DEF A, C, W

\* What one movement withdrew up to month m.
LEMMA WithdrawnUpTo ==
  ASSUME NEW x, x.amount \in Int, x.month \in Months, NEW m \in Months
  PROVE  /\ Total([k \in Months |-> Withdrawn(x, k)], 1..m)
              = (IF x.to = Available /\ x.month <= m THEN x.amount ELSE 0)
         /\ \A k \in Months : Withdrawn(x, k) \in Int
<1> DEFINE f == [k \in Months |-> Withdrawn(x, k)]
<1>1. 1..m \subseteq Months /\ IsFiniteSet(1..m)
  BY MonthsFinite
<1>2. \A k \in Months : f[k] = Withdrawn(x, k) /\ Withdrawn(x, k) \in Int
  BY DEF Withdrawn
<1>3. CASE x.to = Available /\ x.month <= m
  <2>1. x.month \in 1..m /\ f[x.month] = x.amount /\ \A k \in (1..m) \ {x.month} : f[k] = 0
    BY <1>1, <1>3, TreeAssumption DEF Withdrawn, Months
  <2> HIDE DEF f
  <2>2. Total(f, 1..m) = f[x.month]
    BY <1>1, <2>1, TotalAlone
  <2> QED BY <1>2, <1>3, <2>1, <2>2 DEF f
<1>4. CASE ~(x.to = Available /\ x.month <= m)
  <2>1. \A k \in 1..m : f[k] = 0
    BY <1>1, <1>4, TreeAssumption DEF Withdrawn, Months
  <2> HIDE DEF f
  <2>2. Total(f, 1..m) = 0
    BY <1>1, <2>1, TotalZero
  <2> QED BY <1>2, <1>4, <2>2 DEF f
<1> QED BY <1>3, <1>4

\* The reserved balance is what the nodes of the reserves hold together: every
\* movement takes from one what it gives to another, or withdraws it.
LEMMA ReservedIs ==
  ASSUME NEW t, DOMAIN t \subseteq Ids, NEW rs, RowsTyped(rs), NEW j, Numbered(j), Paired(t, j),
         NEW m \in Months
  PROVE  /\ Reserved(t, rs, j, m)
              = Total([p \in OfType(t, "transfer") |-> Series(rs, j, p)[m]], OfType(t, "transfer"))
         /\ Reserved(t, rs, j, m) \in Int
<1> DEFINE T == OfType(t, "transfer")
           K == 1..m
           actual == [p \in T |-> rs["actual"][p]]
           change == [p \in T |-> Changes(rs, j, p)]
           with == [x \in j |-> [k \in Months |-> Withdrawn(x, k)]]
           A == [p \in T |-> Total(actual[p], K)]
           C == [p \in T |-> Total(change[p], K)]
           W == [x \in j |-> Total(with[x], K)]
           ofA(k) == [p \in T |-> actual[p][k]]
           ofC(k) == [p \in T |-> change[p][k]]
           ofW(k) == [x \in j |-> with[x][k]]
           byA == [k \in K |-> Total(ofA(k), T)]
           byC == [k \in K |-> Total(ofC(k), T)]
           byW == [k \in K |-> Total(ofW(k), j)]
<1>1. T \in SUBSET Ids /\ IsFiniteSet(T) /\ K \subseteq Months /\ IsFiniteSet(K) /\ IsFiniteSet(j)
  <2>1. T \in SUBSET Ids
    BY DEF OfType
  <2> QED BY <2>1, MonthsFinite DEF Numbered
<1>2. \A x \in j : x.amount \in Int /\ x.month \in Months
  BY DEF Numbered
<1>3. \A x \in j : \/ {x.from, x.to} = {NoEnd}
                   \/ {x.from, x.to} \subseteq T \cup {Available} /\ x.from # x.to
  BY DEF Paired, OfReserve
<1>4. \A p \in T, k \in Months : actual[p][k] = rs["actual"][p][k] /\ actual[p][k] \in Int
  <2> TAKE p \in T, k \in Months
  <2>1. rs["actual"][p][k] \in Nat
    BY <1>1 DEF RowsTyped, Rows
  <2> QED BY <2>1
<1>5. \A p \in T, k \in Months : change[p][k] = Change(rs, j, p, k) /\ change[p][k] \in Int
  <2> TAKE p \in T, k \in Months
  <2>1. Change(rs, j, p, k) \in Int
    BY <1>1, ChangeIs
  <2> QED BY <2>1 DEF Changes
<1>6. \A x \in j, k \in Months : with[x][k] = Withdrawn(x, k) /\ with[x][k] \in Int
  <2> TAKE x \in j, k \in Months
  <2> QED BY <1>2 DEF Withdrawn
<1> HIDE DEF T
<1>7. Total(A, T) = Total(byA, K)
  <2>1. \A p \in T, k \in K : actual[p][k] \in Int
    BY <1>1, <1>4
  <2> HIDE DEF actual, K
  <2> QED BY <1>1, <2>1, TotalExchange
<1>8. Total(C, T) = Total(byC, K)
  <2>1. \A p \in T, k \in K : change[p][k] \in Int
    BY <1>1, <1>5
  <2> HIDE DEF change, K
  <2> QED BY <1>1, <2>1, TotalExchange
<1>9. Total(W, j) = Total(byW, K)
  <2>1. \A x \in j, k \in K : with[x][k] \in Int
    BY <1>1, <1>6
  <2> HIDE DEF with, K
  <2> QED BY <1>1, <2>1, TotalExchange
<1>10. \A k \in K : byC[k] \in Int /\ byW[k] \in Int /\ byA[k] = byC[k] + byW[k]
  <2> TAKE k \in K
  <2>1. k \in Months
    BY <1>1
  <2>2. /\ ofA(k) = [p \in T |-> rs["actual"][p][k]]
        /\ ofC(k) = [p \in T |-> Change(rs, j, p, k)]
        /\ ofW(k) = [x \in j |-> Withdrawn(x, k)]
    <3> HIDE DEF actual, change, with
    <3> QED BY <1>4, <1>5, <1>6, <2>1
  <2>3. byA[k] = Total(ofA(k), T) /\ byC[k] = Total(ofC(k), T) /\ byW[k] = Total(ofW(k), j)
    OBVIOUS
  <2> HIDE DEF byA, byC, byW, ofA, ofC, ofW, K
  <2>4. /\ Total([p \in T |-> rs["actual"][p][k]], T)
              = Total([p \in T |-> Change(rs, j, p, k)], T) + Total([x \in j |-> Withdrawn(x, k)], j)
        /\ Total([p \in T |-> Change(rs, j, p, k)], T) \in Int
        /\ Total([x \in j |-> Withdrawn(x, k)], j) \in Int
    <3>1. T \in SUBSET Ids /\ Between(T, j)
      BY <1>1, <1>3 DEF Between
    <3> QED BY <2>1, <3>1, ChangesTogether
  <2> QED BY <2>2, <2>3, <2>4
<1>11. Total(byA, K) = Total(byC, K) + Total(byW, K)
  <2> HIDE DEF byA, byC, byW, K
  <2> QED BY <1>1, <1>10, TotalAdd
<1>12. SumFunction([n \in T |-> SumFunctionOnSet(rs["actual"][n], K)]) = Total(A, T) /\ Total(A, T) \in Int
  <2> DEFINE B == [n \in T |-> SumFunctionOnSet(rs["actual"][n], K)]
  <2>1. \A n \in T : B[n] = A[n] /\ A[n] \in Int
    <3> TAKE n \in T
    <3> DEFINE a == rs["actual"][n]
    <3>1. \A k \in K : a[k] \in Int
      <4>1. \A k \in K : actual[n][k] = a[k] /\ actual[n][k] \in Int
        BY <1>1, <1>4
      <4> QED BY <4>1
    <3>2. SumFunctionOnSet(a, K) = Total(a, K) /\ Total(a, K) \in Int
      <4> HIDE DEF a, K
      <4> QED BY <1>1, <3>1, SumIsTotal
    <3> QED BY <3>2
  <2>2. DOMAIN B = T
    OBVIOUS
  <2> HIDE DEF B, A
  <2>3. \A n \in T : B[n] \in Int
    BY <2>1
  <2>4. SumFunctionOnSet(B, T) = Total(B, T)
    BY <1>1, <2>3, SumIsTotal
  <2>5. Total(B, T) = Total(A, T) /\ Total(A, T) \in Int
    BY <1>1, <2>1, TotalSame, TotalInt
  <2>6. SumFunction(B) = Total(A, T)
    BY <2>2, <2>4, <2>5 DEF SumFunction
  <2> QED BY <2>5, <2>6 DEF B
<1>13. /\ Moved({x \in j : x.to = Available /\ x.month <= m}) = Total(W, j) /\ Total(W, j) \in Int
  <2> DEFINE S == {x \in j : x.to = Available /\ x.month <= m}
  <2>1. S \in SUBSET j
    OBVIOUS
  <2>2. \A x \in j : W[x] = (IF x \in S THEN x.amount ELSE 0) /\ W[x] \in Int
    <3> TAKE x \in j
    <3>1. W[x] = Total([k \in Months |-> Withdrawn(x, k)], 1..m)
      OBVIOUS
    <3>2. W[x] = IF x.to = Available /\ x.month <= m THEN x.amount ELSE 0
      <4> HIDE DEF W
      <4> QED BY <1>2, <3>1, WithdrawnUpTo
    <3> QED BY <1>2, <3>2
  <2> HIDE DEF W, S
  <2>3. Moved(S) = Total(W, j) /\ Moved(S) \in Int
    BY <1>1, <1>2, <2>1, <2>2, MovedIsTotal
  <2> QED BY <2>3 DEF S
<1>14. Total(byC, K) \in Int /\ Total(byW, K) \in Int
  <2> HIDE DEF byC, byW, K
  <2> QED BY <1>1, <1>10, TotalInt
<1>15. [p \in T |-> Series(rs, j, p)[m]] = C
  <2>1. \A p \in T : Series(rs, j, p)[m] = C[p]
    <3> TAKE p \in T
    <3>1. p \in Ids
      BY <1>1
    <3> QED BY <3>1, SeriesIs
  <2>2. C = [p \in T |-> C[p]]
    OBVIOUS
  <2> HIDE DEF C
  <2> QED BY <2>1, <2>2
<1>16. Reserved(t, rs, j, m) = Total(A, T) - Total(W, j)
  <2>1. Reserved(t, rs, j, m) = SumFunction([n \in T |-> SumFunctionOnSet(rs["actual"][n], K)])
                                  - Moved({x \in j : x.to = Available /\ x.month <= m})
    BY DEF Reserved, T
  <2> QED BY <1>12, <1>13, <2>1
<1>17. Total(A, T) \in Int /\ Total(W, j) \in Int
  BY <1>12, <1>13
<1> HIDE DEF A, C, W, byA, byC, byW
<1>18. Reserved(t, rs, j, m) = Total(C, T) /\ Reserved(t, rs, j, m) \in Int
  BY <1>7, <1>8, <1>9, <1>11, <1>14, <1>16, <1>17
<1> QED BY <1>15, <1>18 DEF T

-----------------------------------------------------------------------------
(* What one node had becomes another's: every operation on the tree, and     *)
(* every step of the repairs, is such a transfer, or none.                   *)

\* The numbers v once what a had is b's; none of them moves when a = b.
After(v, a, b) ==
  [n \in Ids |-> IF a = b THEN v[n] ELSE IF n = a THEN 0 ELSE IF n = b THEN v[a] + v[b] ELSE v[n]]

Now(n, a, b) == IF n = a THEN b ELSE n

\* Movement y is movement x, with b in the place of a.
Becomes(x, y, a, b) ==
  /\ y.id = x.id /\ y.month = x.month /\ y.amount = x.amount
  /\ y.target = Now(x.target, a, b) /\ y.from = Now(x.from, a, b) /\ y.to = Now(x.to, a, b)

\* A movement from a pocket to itself is left out.
Carried(j, k, a, b) ==
  /\ \A y \in k : (y.from = NoEnd \/ y.from # y.to) /\ \E x \in j : Becomes(x, y, a, b)
  /\ \A x \in j : \/ x.from # NoEnd /\ Now(x.from, a, b) = Now(x.to, a, b)
                  \/ \E y \in k : Becomes(x, y, a, b)

Combined(rs, ks, a, b) ==
  \A r \in Figures, m \in Months : Column(ks, r, m) = After(Column(rs, r, m), a, b)

LEMMA AfterHas ==
  ASSUME NEW v, NEW a \in Ids, NEW b \in Ids, NEW n \in Ids
  PROVE  /\ a = b => After(v, a, b)[n] = v[n]
         /\ a # b => /\ n = a => After(v, a, b)[n] = 0
                     /\ n = b => After(v, a, b)[n] = v[a] + v[b]
                     /\ n \notin {a, b} => After(v, a, b)[n] = v[n]
BY DEF After

LEMMA CarriedEffects ==
  ASSUME NEW j, Numbered(j), NEW k, Numbered(k), NEW a \in Ids, NEW b \in Ids, Carried(j, k, a, b),
         NEW p \in Ids, NEW m \in Months
  PROVE  /\ a = b \/ p \notin {a, b} => Total(Effects(k, p, m), k) = Total(Effects(j, p, m), j)
         /\ a # b /\ p = a => Total(Effects(k, p, m), k) = 0
         /\ a # b /\ p = b => Total(Effects(k, p, m), k)
                                = Total(Effects(j, a, m), j) + Total(Effects(j, b, m), j)
<1>1. /\ IsFiniteSet(j) /\ IsFiniteSet(k)
      /\ \A x, y \in j : x.id = y.id => x = y
      /\ \A x, y \in k : x.id = y.id => x = y
      /\ \A x \in j : x.amount \in Int
      /\ \A y \in k : y.amount \in Int
  BY DEF Numbered
<1>2. NoEnd \notin Ids /\ Available \notin Ids
  BY IdsHave
<1>3. ASSUME NEW q \in Ids PROVE \A x \in j : Effects(j, q, m)[x] = Effect(x, q, m) /\ Effects(j, q, m)[x] \in Int
  BY EffectsInt
<1>4. \A y \in k : Effects(k, p, m)[y] = Effect(y, p, m) /\ Effects(k, p, m)[y] \in Int
  BY EffectsInt
<1>5. ASSUME a = b \/ p \notin {a, b} PROVE Total(Effects(k, p, m), k) = Total(Effects(j, p, m), j)
  <2>1. ASSUME NEW x \in j, NEW y \in k, Becomes(x, y, a, b)
        PROVE  x.id = y.id /\ Effects(k, p, m)[y] = Effects(j, p, m)[x]
    BY <1>2, <1>3, <1>4, <1>5, <2>1 DEF Becomes, Now, Effect, Gains, Loses
  <2>2. \A y \in k : \E x \in j : x.id = y.id /\ Effects(k, p, m)[y] = Effects(j, p, m)[x]
    BY <2>1 DEF Carried
  <2>3. \A x \in j : Effects(j, p, m)[x] = 0 \/ \E y \in k : x.id = y.id
    <3> TAKE x \in j
    <3>1. CASE \E y \in k : Becomes(x, y, a, b)
      BY <3>1, <2>1
    <3>2. CASE x.from # NoEnd /\ Now(x.from, a, b) = Now(x.to, a, b)
      <4>1. Effect(x, p, m) = 0
        BY <1>1, <1>2, <1>5, <3>2 DEF Now, Effect, Gains, Loses
      <4> QED BY <1>3, <4>1
    <3> QED BY <3>1, <3>2 DEF Carried
  <2>4. \A x \in j : Effects(j, p, m)[x] \in Int
    BY <1>3
  <2> DEFINE f == Effects(j, p, m)
             g == Effects(k, p, m)
  <2> HIDE DEF f, g
  <2>5. Total(g, k) = Total(f, j)
    <3>1. /\ \A x \in j : f[x] \in Int
          /\ \A y \in k : \E x \in j : x.id = y.id /\ g[y] = f[x]
          /\ \A x \in j : f[x] = 0 \/ \E y \in k : x.id = y.id
      BY <2>2, <2>3, <2>4 DEF f, g
    <3> QED BY <1>1, <3>1, TotalMatched
  <2> QED BY <2>5 DEF f, g
<1>6. ASSUME a # b, p = a PROVE Total(Effects(k, p, m), k) = 0
  <2>1. \A y \in k : Effects(k, p, m)[y] = 0
    <3> TAKE y \in k
    <3>1. y.from # a /\ y.to # a
      BY <1>6 DEF Carried, Becomes, Now
    <3> QED BY <1>4, <1>6, <3>1 DEF Effect, Gains, Loses
  <2> DEFINE g == Effects(k, p, m)
  <2>2. \A y \in k : g[y] = 0
    BY <2>1
  <2> HIDE DEF g
  <2>3. Total(g, k) = 0
    BY <1>1, <2>2, TotalZero
  <2> QED BY <2>3 DEF g
<1>7. ASSUME a # b, p = b
      PROVE  Total(Effects(k, p, m), k) = Total(Effects(j, a, m), j) + Total(Effects(j, b, m), j)
  <2> DEFINE f == [x \in j |-> Effect(x, a, m) + Effect(x, b, m)]
             fa == Effects(j, a, m)
             fb == Effects(j, b, m)
             g == Effects(k, p, m)
  <2>1. \A x \in j : fa[x] \in Int /\ fb[x] \in Int /\ f[x] = fa[x] + fb[x]
    BY <1>3
  <2>2. \A x \in j : f[x] \in Int /\ f[x] = Effect(x, a, m) + Effect(x, b, m)
    BY <1>3
  <2>3. ASSUME NEW x \in j, NEW y \in k, Becomes(x, y, a, b)
        PROVE  x.id = y.id /\ g[y] = f[x]
    <3>1. f[x] = Effect(x, a, m) + Effect(x, b, m) /\ g[y] = Effect(y, b, m)
      BY <1>4, <1>7
    <3>2. y.from = NoEnd \/ y.from # y.to
      BY DEF Carried
    <3>3. Effect(y, b, m) = Effect(x, a, m) + Effect(x, b, m)
      BY <1>1, <1>2, <1>7, <2>3, <3>2 DEF Becomes, Now, Effect, Gains, Loses
    <3> QED BY <2>3, <3>1, <3>3 DEF Becomes
  <2>4. \A y \in k : \E x \in j : x.id = y.id /\ g[y] = f[x]
    <3> HIDE DEF f, g
    <3> QED BY <2>3 DEF Carried
  <2>5. \A x \in j : f[x] = 0 \/ \E y \in k : x.id = y.id
    <3> TAKE x \in j
    <3>1. CASE \E y \in k : Becomes(x, y, a, b)
      BY <3>1 DEF Becomes
    <3>2. CASE x.from # NoEnd /\ Now(x.from, a, b) = Now(x.to, a, b)
      <4>1. Effect(x, a, m) + Effect(x, b, m) = 0
        BY <1>1, <1>2, <1>7, <3>2 DEF Now, Effect, Gains, Loses
      <4> QED BY <2>2, <4>1
    <3> QED BY <3>1, <3>2 DEF Carried
  <2> HIDE DEF f, fa, fb, g
  <2>6. Total(g, k) = Total(f, j)
    <3>1. \A x \in j : f[x] \in Int
      BY <2>2
    <3> QED BY <1>1, <2>4, <2>5, <3>1, TotalMatched
  <2>7. Total(f, j) = Total(fa, j) + Total(fb, j)
    BY <1>1, <2>1, TotalAdd
  <2> QED BY <2>6, <2>7 DEF fa, fb, g
<1> QED BY <1>5, <1>6, <1>7

Changed(rs, j, m) == [q \in Ids |-> Change(rs, j, q, m)]
Held(rs, j, m) == [q \in Ids |-> Series(rs, j, q)[m]]

LEMMA CombinedChanges ==
  ASSUME NEW rs, RowsTyped(rs), NEW ks, RowsTyped(ks), NEW j, Numbered(j), NEW k, Numbered(k),
         NEW a \in Ids, NEW b \in Ids, Carried(j, k, a, b), Combined(rs, ks, a, b), NEW m \in Months
  PROVE  Changed(ks, k, m) = After(Changed(rs, j, m), a, b)
<1> DEFINE v == Column(rs, "actual", m)
           w == Column(ks, "actual", m)
           c == Changed(rs, j, m)
<1>1. w = After(v, a, b)
  BY DEF Combined, Figures
<1>2. \A n \in Ids : v[n] = rs["actual"][n][m] /\ w[n] = ks["actual"][n][m]
  BY DEF Column
<1>3. \A n \in Ids : /\ c[n] = rs["actual"][n][m] + Total(Effects(j, n, m), j)
                     /\ rs["actual"][n][m] \in Nat /\ Total(Effects(j, n, m), j) \in Int
  BY ChangeIs, EffectsInt DEF Changed
<1>4. \A n \in Ids : Change(ks, k, n, m) = ks["actual"][n][m] + Total(Effects(k, n, m), k)
  BY ChangeIs
<1>5. ASSUME NEW p \in Ids PROVE Change(ks, k, p, m) = After(c, a, b)[p]
  <2>1. /\ a = b \/ p \notin {a, b} => Total(Effects(k, p, m), k) = Total(Effects(j, p, m), j)
        /\ a # b /\ p = a => Total(Effects(k, p, m), k) = 0
        /\ a # b /\ p = b => Total(Effects(k, p, m), k)
                               = Total(Effects(j, a, m), j) + Total(Effects(j, b, m), j)
    BY CarriedEffects
  <2> HIDE DEF c, v, w
  <2>2. CASE a = b \/ p \notin {a, b}
    <3>1. w[p] = v[p] /\ After(c, a, b)[p] = c[p]
      BY <1>1, <2>2 DEF After
    <3> QED BY <1>2, <1>3, <1>4, <2>1, <2>2, <3>1
  <2>3. CASE a # b /\ p = a
    <3>1. w[p] = 0 /\ After(c, a, b)[p] = 0
      BY <1>1, <2>3 DEF After
    <3> QED BY <1>2, <1>3, <1>4, <2>1, <2>3, <3>1
  <2>4. CASE a # b /\ p = b
    <3>1. w[p] = v[a] + v[b] /\ After(c, a, b)[p] = c[a] + c[b]
      BY <1>1, <2>4 DEF After
    <3> QED BY <1>2, <1>3, <1>4, <2>1, <2>4, <3>1
  <2> QED BY <2>2, <2>3, <2>4
<1>6. Changed(ks, k, m) = [p \in Ids |-> After(c, a, b)[p]]
  BY <1>5 DEF Changed
<1>7. After(c, a, b) = [p \in Ids |-> After(c, a, b)[p]]
  BY DEF After
<1> QED BY <1>6, <1>7

LEMMA CombinedSeries ==
  ASSUME NEW rs, RowsTyped(rs), NEW ks, RowsTyped(ks), NEW j, Numbered(j), NEW k, Numbered(k),
         NEW a \in Ids, NEW b \in Ids, Carried(j, k, a, b), Combined(rs, ks, a, b), NEW m \in Months
  PROVE  Held(ks, k, m) = After(Held(rs, j, m), a, b)
<1> DEFINE h == Held(rs, j, m)
           before(p) == Changes(rs, j, p)
           after(p) == Changes(ks, k, p)
<1>1. 1..m \subseteq Months /\ IsFiniteSet(1..m)
  BY MonthsFinite
<1>2. ASSUME NEW p \in Ids
      PROVE  /\ Series(rs, j, p)[m] = Total(before(p), 1..m) /\ Series(ks, k, p)[m] = Total(after(p), 1..m)
             /\ h[p] = Series(rs, j, p)[m]
             /\ \A i \in Months : before(p)[i] \in Int /\ after(p)[i] \in Int
  <2>1. \A i \in Months : Change(rs, j, p, i) \in Int /\ Change(ks, k, p, i) \in Int
    BY ChangeIs
  <2> QED BY <2>1, SeriesIs DEF Changes, Held
<1>3. ASSUME NEW p \in Ids, NEW i \in 1..m
      PROVE  /\ a = b => after(p)[i] = before(p)[i]
             /\ a # b => /\ p = a => after(p)[i] = 0
                         /\ p = b => after(p)[i] = before(a)[i] + before(b)[i]
                         /\ p \notin {a, b} => after(p)[i] = before(p)[i]
  <2>1. i \in Months
    BY <1>1
  <2>2. Changed(ks, k, i) = After(Changed(rs, j, i), a, b)
    BY <2>1, CombinedChanges
  <2>3. \A n \in Ids : /\ Changed(ks, k, i)[n] = after(n)[i]
                       /\ Changed(rs, j, i)[n] = before(n)[i]
    BY <2>1 DEF Changed, Changes
  <2> HIDE DEF before, after
  <2> QED BY <2>2, <2>3 DEF After
<1>4. ASSUME NEW p \in Ids PROVE Series(ks, k, p)[m] = After(h, a, b)[p]
  <2> DEFINE f == before(p)
             fa == before(a)
             fb == before(b)
             g == after(p)
  <2>1. \A i \in 1..m : f[i] \in Int /\ fa[i] \in Int /\ fb[i] \in Int
    BY <1>1, <1>2
  <2>2. CASE a = b \/ p \notin {a, b}
    <3>1. \A i \in 1..m : g[i] = f[i]
      BY <1>3, <2>2
    <3>2. Total(g, 1..m) = Total(f, 1..m)
      <4> HIDE DEF f, g, fa, fb
      <4> QED BY <1>1, <2>1, <3>1, TotalSame
    <3>3. After(h, a, b)[p] = h[p]
      <4> HIDE DEF h
      <4> QED BY <2>2 DEF After
    <3> QED BY <1>2, <3>2, <3>3
  <2>3. CASE a # b /\ p = a
    <3>1. \A i \in 1..m : g[i] = 0
      BY <1>3, <2>3
    <3>2. Total(g, 1..m) = 0
      <4> HIDE DEF f, g, fa, fb
      <4> QED BY <1>1, <3>1, TotalZero
    <3>3. After(h, a, b)[p] = 0
      <4> HIDE DEF h
      <4> QED BY <2>3 DEF After
    <3> QED BY <1>2, <3>2, <3>3
  <2>4. CASE a # b /\ p = b
    <3>1. \A i \in 1..m : fa[i] \in Int /\ fb[i] \in Int /\ g[i] = fa[i] + fb[i]
      BY <1>3, <2>1, <2>4
    <3>2. Total(g, 1..m) = Total(fa, 1..m) + Total(fb, 1..m)
      <4> HIDE DEF f, g, fa, fb
      <4> QED BY <1>1, <3>1, TotalAdd
    <3>3. After(h, a, b)[p] = h[a] + h[b]
      <4> HIDE DEF h
      <4> QED BY <2>4 DEF After
    <3> QED BY <1>2, <3>2, <3>3
  <2> QED BY <2>2, <2>3, <2>4
<1>5. Held(ks, k, m) = [p \in Ids |-> After(h, a, b)[p]]
  <2> HIDE DEF h
  <2> QED BY <1>4 DEF Held
<1>6. After(h, a, b) = [p \in Ids |-> After(h, a, b)[p]]
  BY DEF After
<1> QED BY <1>5, <1>6

\* Where a and b are of the set, or neither is, its sum stays.
LEMMA AfterTotal ==
  ASSUME NEW v, \A n \in Ids : v[n] \in Int, NEW a \in Ids, NEW b \in Ids,
         NEW U \in SUBSET Ids, NEW T \in SUBSET U,
         \A n \in U \ T : v[n] = 0,
         a = b \/ (a \in U <=> b \in U)
  PROVE  Total(After(v, a, b), U) = Total(v, T) /\ Total(v, T) \in Int
<1> DEFINE w == After(v, a, b)
           z == [n \in Ids |-> IF n \in T THEN v[n] ELSE 0]
<1>1. IsFiniteSet(U) /\ IsFiniteSet(T)
  BY MonthsFinite
<1>2. \A n \in U : v[n] \in Int /\ v[n] = IF n \in T THEN v[n] ELSE 0
  OBVIOUS
<1>3. Total(v, U) = Total(v, T)
  BY <1>1, <1>2, TotalWithin
<1>4. Total(v, T) \in Int
  BY <1>1, TotalInt
<1>5. CASE a = b \/ (a \notin U /\ b \notin U)
  <2>1. \A n \in U : w[n] = v[n]
    BY <1>5, AfterHas
  <2>2. Total(w, U) = Total(v, U)
    <3> HIDE DEF w
    <3> QED BY <1>1, <1>2, <2>1, TotalSame
  <2> QED BY <1>3, <1>4, <2>2
<1>6. CASE a # b /\ a \in U /\ b \in U
  <2>1. w[b] = v[a] + v[b] /\ w[a] = 0 /\ \A n \in U \ {a, b} : w[n] = v[n]
    BY <1>6, AfterHas
  <2>2. Total(w, U) = Total(v, U)
    <3> HIDE DEF w
    <3> QED BY <1>1, <1>2, <1>6, <2>1, TotalMoved
  <2> QED BY <1>3, <1>4, <2>2
<1> QED BY <1>5, <1>6

\* A journal every movement of which goes where F sends it keeps its numbers.
LEMMA SentNumbered ==
  ASSUME NEW j, Numbered(j), NEW F, NEW k, \A y \in k : \E x \in j : F[x] = y,
         \A x \in j : F[x].id = x.id /\ F[x].month = x.month /\ F[x].amount = x.amount
  PROVE  Numbered(k)
<1> DEFINE all == {F[x] : x \in j}
<1>1. IsFiniteSet(all)
  <2>1. (\A x \in j : F[x] \in all) /\ (\A y \in all : \E x \in j : F[x] = y)
    OBVIOUS
  <2>2. IsFiniteSet(j)
    BY DEF Numbered
  <2> HIDE DEF all
  <2> QED BY <2>1, <2>2, FiniteImage
<1>2. k \subseteq all
  OBVIOUS
<1>3. IsFiniteSet(k)
  <2> HIDE DEF all
  <2> QED BY <1>1, <1>2, FS_Subset
<1>4. \A x, y \in k : x.id = y.id => x = y
  BY DEF Numbered
<1>5. \A y \in k : y.id \in Nat \ {0} /\ y.month \in Months /\ y.amount \in Int
  BY DEF Numbered
<1> QED BY <1>3, <1>4, <1>5 DEF Numbered

LEMMA RepointedCarries ==
  ASSUME NEW t, NEW j, JournalTyped(j), Numbered(j), NEW a \in Ids, NEW b \in Ids
  PROVE  Numbered(Repointed(t, j, a, b)) /\ Carried(j, Repointed(t, j, a, b), a, b)
<1> DEFINE now(n) == IF n = a THEN b ELSE n
           then(x) == [x EXCEPT !.from = now(@), !.to = now(@), !.target = now(@),
                                !.cat = IF x.target = a THEN CatOf(t, b) ELSE @,
                                !.sub = IF x.target = a THEN SubOf(t, b) ELSE @]
           F == [x \in j |-> then(x)]
           k == Repointed(t, j, a, b)
<1>1. ASSUME NEW x \in j PROVE F[x] = then(x) /\ Becomes(x, then(x), a, b)
  <2>1. Movement(x)
    BY DEF JournalTyped
  <2>2. x = [id |-> x.id, target |-> x.target, cat |-> x.cat, sub |-> x.sub, from |-> x.from,
             to |-> x.to, month |-> x.month, amount |-> x.amount]
    BY <2>1 DEF Movement
  <2> PICK y : y = then(x)
    OBVIOUS
  <2>3. y = [id |-> x.id, target |-> now(x.target), cat |-> IF x.target = a THEN CatOf(t, b) ELSE x.cat,
             sub |-> IF x.target = a THEN SubOf(t, b) ELSE x.sub, from |-> now(x.from),
             to |-> now(x.to), month |-> x.month, amount |-> x.amount]
    BY <2>2
  <2>4. /\ y.target = now(x.target) /\ y.from = now(x.from) /\ y.to = now(x.to)
        /\ y.id = x.id /\ y.month = x.month /\ y.amount = x.amount
    <3> HIDE DEF now
    <3> QED BY <2>3
  <2>5. F[x] = then(x)
    OBVIOUS
  <2> HIDE DEF F, then
  <2> QED BY <2>4, <2>5 DEF Becomes, Now
<1>2. k = {y \in {then(x) : x \in j} : y.from = NoEnd \/ y.from # y.to}
  BY DEF Repointed
<1> HIDE DEF then, F, now, k
<1>3. \A y \in k : \E x \in j : F[x] = y
  BY <1>1, <1>2
<1>4. \A x \in j : F[x].id = x.id /\ F[x].month = x.month /\ F[x].amount = x.amount
  BY <1>1 DEF Becomes
<1>5. Numbered(k)
  BY <1>3, <1>4, SentNumbered
<1>6. \A y \in k : (y.from = NoEnd \/ y.from # y.to) /\ \E x \in j : Becomes(x, y, a, b)
  BY <1>1, <1>2
<1>7. ASSUME NEW x \in j
      PROVE  \/ x.from # NoEnd /\ Now(x.from, a, b) = Now(x.to, a, b)
             \/ \E y \in k : Becomes(x, y, a, b)
  <2> DEFINE y == then(x)
  <2>1. Becomes(x, y, a, b)
    BY <1>1
  <2>2. CASE y.from = NoEnd \/ y.from # y.to
    <3>1. y \in k
      BY <1>2, <2>2
    <3> HIDE DEF y
    <3> QED BY <2>1, <3>1
  <2>3. CASE y.from # NoEnd /\ y.from = y.to
    <3> HIDE DEF y
    <3>1. Now(x.from, a, b) = Now(x.to, a, b)
      BY <2>1, <2>3 DEF Becomes
    <3>2. CASE x.from = NoEnd
      <4>1. y.from = NoEnd
        BY <2>1, <3>2, IdsHave DEF Becomes, Now
      <4> QED BY <2>3, <4>1
    <3> QED BY <3>1, <3>2
  <2> QED BY <2>2, <2>3
<1> QED BY <1>5, <1>6, <1>7 DEF Carried, k

LEMMA RelabelledCarries ==
  ASSUME NEW t, NEW j, NEW k, JournalTyped(k), Numbered(k), NEW a \in Ids, NEW b \in Ids,
         Carried(j, k, a, b)
  PROVE  Numbered(Relabelled(t, k)) /\ Carried(j, Relabelled(t, k), a, b)
<1> DEFINE then(x) == IF x.target \in DOMAIN t
                      THEN [x EXCEPT !.cat = CatOf(t, x.target), !.sub = SubOf(t, x.target)] ELSE x
           F == [x \in k |-> then(x)]
           l == Relabelled(t, k)
<1>1. ASSUME NEW x \in k
      PROVE  /\ F[x] = then(x) /\ then(x).id = x.id /\ then(x).month = x.month
             /\ then(x).amount = x.amount /\ then(x).target = x.target
             /\ then(x).from = x.from /\ then(x).to = x.to
  <2>1. Movement(x)
    BY DEF JournalTyped
  <2>2. x = [id |-> x.id, target |-> x.target, cat |-> x.cat, sub |-> x.sub, from |-> x.from,
             to |-> x.to, month |-> x.month, amount |-> x.amount]
    BY <2>1 DEF Movement
  <2>3. CASE x.target \in DOMAIN t
    <3>1. then(x) = [id |-> x.id, target |-> x.target, cat |-> CatOf(t, x.target),
                     sub |-> SubOf(t, x.target), from |-> x.from,
                     to |-> x.to, month |-> x.month, amount |-> x.amount]
      BY <2>2, <2>3
    <3> QED BY <3>1
  <2>4. CASE x.target \notin DOMAIN t
    BY <2>4
  <2> QED BY <2>3, <2>4
<1>2. l = {then(x) : x \in k}
  BY DEF Relabelled
<1> HIDE DEF then, F, l
<1>3. \A y \in l : \E x \in k : F[x] = y
  BY <1>1, <1>2
<1>4. \A x \in k : F[x].id = x.id /\ F[x].month = x.month /\ F[x].amount = x.amount
  BY <1>1
<1>5. Numbered(l)
  BY <1>3, <1>4, SentNumbered
<1>6. ASSUME NEW z \in l PROVE (z.from = NoEnd \/ z.from # z.to) /\ \E x \in j : Becomes(x, z, a, b)
  <2>1. PICK y \in k : z = then(y)
    BY <1>2
  <2>2. PICK x \in j : Becomes(x, y, a, b)
    BY DEF Carried
  <2>3. Becomes(x, z, a, b)
    BY <1>1, <2>1, <2>2 DEF Becomes
  <2>4. y.from = NoEnd \/ y.from # y.to
    BY DEF Carried
  <2> QED BY <1>1, <2>1, <2>3, <2>4
<1>7. ASSUME NEW x \in j
      PROVE  \/ x.from # NoEnd /\ Now(x.from, a, b) = Now(x.to, a, b)
             \/ \E z \in l : Becomes(x, z, a, b)
  <2>1. CASE \E y \in k : Becomes(x, y, a, b)
    <3>1. PICK y \in k : Becomes(x, y, a, b)
      BY <2>1
    <3>2. then(y) \in l /\ Becomes(x, then(y), a, b)
      BY <1>1, <1>2, <3>1 DEF Becomes
    <3> QED BY <3>2
  <2> QED BY <2>1 DEF Carried
<1> QED BY <1>5, <1>6, <1>7 DEF Carried, l

LEMMA SameCarried ==
  ASSUME NEW j, \A x \in j : x.from = NoEnd \/ x.from # x.to, NEW a
  PROVE  Carried(j, j, a, a)
BY DEF Carried, Becomes, Now

\* The rows of a are added to those of b, or were nothing.
LEMMA JoinedCombined ==
  ASSUME NEW rs, RowsTyped(rs), NEW a \in Ids, NEW b \in Ids, a # b, NEW which,
         \A r \in Figures : r \in which \/ rs[r][a] = Empty
  PROVE  Combined(rs, Joined(rs, a, b, which), a, b)
<1> SUFFICES ASSUME NEW r \in Figures, NEW m \in Months
             PROVE  Column(Joined(rs, a, b, which), r, m) = After(Column(rs, r, m), a, b)
  BY DEF Combined
<1>1. r \in Rows /\ rs \in [Rows -> [Ids -> [Months -> Nat]]] /\ Empty[m] = 0
  BY RowsHave DEF RowsTyped, Empty
<1>2. rs[r] \in [Ids -> [Months -> Nat]]
  BY <1>1
<1>3. CASE r \in which
  <2>1. Joined(rs, a, b, which)[r]
          = [rs[r] EXCEPT ![b] = [i \in Months |-> rs[r][b][i] + rs[r][a][i]], ![a] = Empty]
    BY <1>1, <1>3 DEF Joined
  <2>2. /\ Joined(rs, a, b, which)[r][a] = Empty
        /\ Joined(rs, a, b, which)[r][b][m] = rs[r][b][m] + rs[r][a][m]
        /\ \A n \in Ids \ {a, b} : Joined(rs, a, b, which)[r][n] = rs[r][n]
    BY <1>2, <2>1
  <2>3. \A n \in Ids : rs[r][n][m] \in Nat
    BY <1>2
  <2>4. ASSUME NEW n \in Ids
        PROVE  Joined(rs, a, b, which)[r][n][m] = After(Column(rs, r, m), a, b)[n]
    BY <1>1, <2>2, <2>3 DEF After, Column
  <2> QED BY <2>4 DEF Column, After
<1>4. CASE r \notin which
  <2>1. Joined(rs, a, b, which)[r] = rs[r] /\ rs[r][a] = Empty
    BY <1>1, <1>4 DEF Joined
  <2>2. \A n \in Ids : rs[r][n][m] \in Nat
    BY <1>2
  <2>3. ASSUME NEW n \in Ids
        PROVE  Joined(rs, a, b, which)[r][n][m] = After(Column(rs, r, m), a, b)[n]
    BY <1>1, <2>1, <2>2 DEF After, Column
  <2> QED BY <2>3 DEF Column, After
<1> QED BY <1>3, <1>4

LEMMA SameCombined ==
  ASSUME NEW rs, NEW ks, \A r \in Figures, n \in Ids : ks[r][n] = rs[r][n], NEW a
  PROVE  Combined(rs, ks, a, a)
BY DEF Combined, After, Column

\* The tree t grows into u, and b is of the type of a.
Regrown(t, u, a, b) ==
  /\ DOMAIN t \subseteq DOMAIN u /\ DOMAIN u \subseteq Ids
  /\ \A n \in DOMAIN t : u[n].type = t[n].type
  /\ a # b => a \in DOMAIN t /\ b \in DOMAIN u /\ u[b].type = u[a].type

LEMMA PairedKept ==
  ASSUME NEW t, NEW u, NEW a \in Ids, NEW b \in Ids, Regrown(t, u, a, b),
         NEW j, NEW k, Carried(j, k, a, b), Paired(t, j)
  PROVE  Paired(u, k)
<1> SUFFICES ASSUME NEW y \in k PROVE {y.from, y.to} = {NoEnd} \/ OfReserve(u, y)
  BY DEF Paired
<1>1. PICK x \in j : Becomes(x, y, a, b)
  BY DEF Carried
<1>2. a # NoEnd /\ b # NoEnd /\ a # Available /\ b # Available /\ NoEnd # Available
  BY IdsHave
<1>3. CASE {x.from, x.to} = {NoEnd}
  <2>1. x.from = NoEnd /\ x.to = NoEnd
    BY <1>3
  <2>2. y.from = NoEnd /\ y.to = NoEnd
    BY <1>1, <1>2, <2>1 DEF Becomes, Now
  <2> QED BY <2>2
<1>4. CASE OfReserve(t, x)
  <2>1. \A n \in OfType(t, "transfer") : Now(n, a, b) \in OfType(u, "transfer")
    BY DEF Regrown, OfType, Now
  <2>2. Now(Available, a, b) = Available /\ (Now(x.to, a, b) = Available <=> x.to = Available)
    BY <1>2 DEF Now
  <2>3. {y.from, y.to} \subseteq OfType(u, "transfer") \cup {Available}
    BY <1>1, <1>4, <2>1, <2>2 DEF Becomes, OfReserve
  <2>4. NoEnd \notin OfType(u, "transfer") \cup {Available}
    BY IdsHave DEF Regrown, OfType
  <2>5. y.from # y.to
    BY <2>3, <2>4 DEF Carried
  <2>6. y.target = IF y.to = Available THEN y.from ELSE y.to
    BY <1>1, <1>4, <2>2 DEF Becomes, OfReserve
  <2> QED BY <2>3, <2>5, <2>6 DEF OfReserve
<1> QED BY <1>3, <1>4 DEF Paired

LEMMA FirstLeafType ==
  ASSUME NEW t, WellFormed(t), DOMAIN t \subseteq Ids, NEW n \in DOMAIN t
  PROVE  t[FirstLeaf(t, n)].type = t[n].type
<1>1. ASSUME NEW x \in DOMAIN t, Children(t, x) # {}
      PROVE  /\ Min(Children(t, x)) \in DOMAIN t
             /\ t[Min(Children(t, x))].type = t[x].type
  <2>1. Children(t, x) \in SUBSET Nat /\ MaxNode \in Nat /\ \A y \in Children(t, x) : y <= MaxNode
    BY TreeAssumption DEF Children, Ids
  <2>2. Min(Children(t, x)) \in Children(t, x)
    BY <1>1, <2>1, MinMax
  <2> DEFINE c == Min(Children(t, x))
  <2>3. c \in DOMAIN t /\ t[c].parent = x
    BY <2>2 DEF Children
  <2> HIDE DEF c
  <2>4. t[c].parent # NoNode
    BY <2>3 DEF WellFormed
  <2>5. t[c].type = t[x].type
    BY <2>3, <2>4 DEF WellFormed
  <2> QED BY <2>3, <2>5 DEF c
<1>2. CASE Children(t, n) = {}
  BY <1>2 DEF FirstLeaf, Childless
<1>3. CASE Children(t, n) # {}
  <2> DEFINE c == Min(Children(t, n))
  <2>1. c \in DOMAIN t /\ t[c].type = t[n].type
    BY <1>1, <1>3
  <2>2. FirstLeaf(t, n) = IF Children(t, c) = {} THEN c ELSE Min(Children(t, c))
    BY <1>3 DEF FirstLeaf, Childless
  <2> HIDE DEF c
  <2> QED BY <1>1, <2>1, <2>2
<1> QED BY <1>2, <1>3

\* A step that reorganises the tree: what some node had, that is no leaf any more,
\* is of a leaf of its type; or nothing moves.
HandedOver ==
  \E a, b \in Ids :
    /\ Regrown(tree, tree', a, b)
    /\ a # b => a \notin Leaves(tree') /\ b \in Leaves(tree')
    /\ Combined(rows, rows', a, b)
    /\ Carried(journal, journal', a, b)
    /\ Numbered(journal')

LEMMA ReorganiseHands ==
  ASSUME Hanging(tree, rows, journal, healed), Numbered(journal),
         NEW t, NEW from, NEW to, NEW cedes \in BOOLEAN, NEW move \in BOOLEAN,
         tree' = t,
         rows' = (IF cedes THEN Joined(rows, from, to, Rows) ELSE rows),
         journal' = (LET j == IF cedes THEN Repointed(t, journal, from, to) ELSE journal
                     IN  IF move THEN Relabelled(t, j) ELSE j),
         DOMAIN tree \subseteq DOMAIN t, DOMAIN t \subseteq Ids,
         \A n \in DOMAIN tree : t[n].type = tree[n].type,
         cedes => /\ from \in DOMAIN tree /\ from \notin Leaves(t)
                  /\ to \in Leaves(t) /\ t[to].type = t[from].type,
         NEW z \in Ids
  PROVE  HandedOver
<1> DEFINE a == IF cedes THEN from ELSE z
           b == IF cedes THEN to ELSE z
           j == IF cedes THEN Repointed(t, journal, from, to) ELSE journal
<1>1. /\ RowsTyped(rows) /\ JournalTyped(journal)
      /\ \A x \in journal : x.from # x.to \/ x.from = NoEnd
  BY DEF Hanging, Placed
<1>2. Leaves(t) \subseteq DOMAIN t
  BY DEF Leaves
<1>3. a \in Ids /\ b \in Ids
  BY <1>2
<1>4. Regrown(tree, tree', a, b)
  BY <1>2 DEF Regrown
<1>5. a # b => a \notin Leaves(tree') /\ b \in Leaves(tree')
  OBVIOUS
<1>6. cedes => a # b /\ a = from /\ b = to
  OBVIOUS
<1>7. Combined(rows, rows', a, b)
  <2>1. CASE cedes
    <3>1. \A r \in Figures : r \in Rows
      BY RowsHave
    <3>2. rows' = Joined(rows, a, b, Rows) /\ a # b
      BY <1>6, <2>1
    <3> HIDE DEF a, b
    <3> QED BY <1>1, <1>3, <3>1, <3>2, JoinedCombined
  <2>2. CASE ~cedes
    <3>1. \A r \in Figures, n \in Ids : rows'[r][n] = rows[r][n]
      BY <2>2
    <3> HIDE DEF j
    <3>2. Combined(rows, rows', z, z)
      BY <3>1, SameCombined
    <3> QED BY <2>2, <3>2
  <2> QED BY <2>1, <2>2
<1>8. Numbered(j) /\ Carried(journal, j, a, b) /\ JournalTyped(j)
  <2>1. CASE cedes
    <3>1. j = Repointed(t, journal, a, b)
      BY <1>6, <2>1
    <3> HIDE DEF a, b, j
    <3>2. Numbered(j) /\ Carried(journal, j, a, b)
      BY <1>1, <1>3, <3>1, RepointedCarries
    <3>3. \A y \in j : Movement(y)
      BY <1>1, <1>3, <3>1, RepointedMoves DEF Follows
    <3> QED BY <3>2, <3>3 DEF JournalTyped
  <2>2. CASE ~cedes
    <3>1. j = journal /\ a = z /\ b = z
      BY <2>2
    <3>2. Carried(journal, journal, z, z)
      BY <1>1, SameCarried
    <3> QED BY <1>1, <3>1, <3>2
  <2> QED BY <2>1, <2>2
<1>9. Numbered(journal') /\ Carried(journal, journal', a, b)
  <2>1. journal' = IF move THEN Relabelled(t, j) ELSE j
    OBVIOUS
  <2> HIDE DEF a, b, j
  <2>2. Numbered(Relabelled(t, j)) /\ Carried(journal, Relabelled(t, j), a, b)
    BY <1>3, <1>8, RelabelledCarries
  <2> QED BY <1>8, <2>1, <2>2
<1> HIDE DEF a, b, j
<1> QED BY <1>3, <1>4, <1>5, <1>7, <1>9 DEF HandedOver

LEMMA AdoptHands ==
  ASSUME BookOK, Numbered(journal), NEW t, NEW dest \in DOMAIN tree, NEW receiver, NEW move \in BOOLEAN,
         Adopt(t, dest, receiver, move), WellFormed(t),
         DOMAIN tree \subseteq DOMAIN t, DOMAIN t \subseteq Ids,
         \A n \in DOMAIN tree : t[n].type = tree[n].type,
         Children(t, dest) # {},
         receiver \in Leaves(t), t[receiver].type = t[dest].type
  PROVE  HandedOver
<1> DEFINE cedes == Childless(tree, dest)
<1>1. Hanging(tree, rows, journal, healed) /\ cedes \in BOOLEAN
  BY DEF BookOK, Childless
<1>2. /\ tree' = t
      /\ rows' = (IF cedes THEN Joined(rows, dest, receiver, Rows) ELSE rows)
      /\ journal' = (LET j == IF cedes THEN Repointed(t, journal, dest, receiver) ELSE journal
                     IN  IF move THEN Relabelled(t, j) ELSE j)
  BY DEF Adopt, Reorganise
<1>3. dest \notin Leaves(t) /\ dest \in Ids
  BY LeafChildless
<1> HIDE DEF cedes
<1> QED BY <1>1, <1>2, <1>3, ReorganiseHands

LEMMA CreatedHands ==
  ASSUME BookOK, Numbered(journal), NEW parent \in DOMAIN tree \cup {NoNode}, NEW type \in Types(tree),
         CreateNode(parent, type)
  PROVE  HandedOver
<1> DEFINE id == created + 1
           level == IF parent = NoNode THEN Group ELSE tree[parent].level + 1
           node == [level |-> level, parent |-> parent, type |-> type]
           t == [n \in DOMAIN tree \cup {id} |-> IF n = id THEN node ELSE tree[n]]
<1>1. /\ TreeOK /\ Hanging(tree, rows, journal, healed)
      /\ DOMAIN tree \subseteq Ids /\ NoNode \notin DOMAIN tree
      /\ \A n \in DOMAIN tree : tree[n].parent \in DOMAIN tree \cup {NoNode}
  BY TreeIds DEF BookOK
<1>2. /\ id \in Ids /\ tree' = t
      /\ IF parent = NoNode THEN UNCHANGED book
         ELSE tree[parent].level # Sub /\ tree[parent].type = type /\ Adopt(t, parent, id, FALSE)
  BY DEF CreateNode, Adopt, Reorganise
<1>3. id \notin DOMAIN tree /\ id # NoNode
  BY <1>1 DEF TreeOK
<1>4. TreeOK'
  BY <1>1, Created
<1>5. WellFormed(t)
  BY <1>2, <1>4 DEF TreeOK
<1>6. /\ DOMAIN t = DOMAIN tree \cup {id} /\ t[id] = node /\ node.parent = parent /\ node.type = type
      /\ \A n \in DOMAIN tree : t[n] = tree[n]
  BY <1>3
<1> HIDE DEF t, node, level
<1>8. Children(t, id) = {}
  BY <1>1, <1>3, <1>6 DEF Children
<1>9. id \in Leaves(t)
  BY <1>5, <1>6, <1>8, LeafChildless
<1>10. DOMAIN tree \subseteq DOMAIN t /\ DOMAIN t \subseteq Ids
  BY <1>1, <1>2, <1>6
<1>11. \A n \in DOMAIN tree : t[n].type = tree[n].type
  BY <1>6
<1> HIDE DEF id
<1>12. CASE parent = NoNode
  <2>1. rows' = rows /\ journal' = journal
    BY <1>2, <1>12 DEF book
  <2>2. \A F, T \in BOOLEAN : F = FALSE /\ T = FALSE =>
          /\ rows' = (IF F THEN Joined(rows, id, id, Rows) ELSE rows)
          /\ journal' = (LET j == IF F THEN Repointed(t, journal, id, id) ELSE journal
                         IN  IF T THEN Relabelled(t, j) ELSE j)
    BY <2>1
  <2>3. id \in Ids /\ tree' = t /\ Hanging(tree, rows, journal, healed)
    BY <1>1, <1>2
  <2> QED BY <1>10, <1>11, <2>2, <2>3, ReorganiseHands
<1>13. CASE parent # NoNode
  <2>1. Adopt(t, parent, id, FALSE) /\ parent \in DOMAIN tree /\ tree[parent].type = type
    BY <1>1, <1>2, <1>13
  <2>2. id \in Children(t, parent)
    BY <1>6 DEF Children
  <2>3. t[id].type = t[parent].type
    BY <1>6, <2>1
  <2> QED BY <1>2, <1>5, <1>9, <1>10, <1>11, <2>1, <2>2, <2>3, AdoptHands
<1> QED BY <1>12, <1>13

LEMMA ToRootHands ==
  ASSUME BookOK, Numbered(journal), NEW n \in DOMAIN tree, MoveToRoot(n)
  PROVE  HandedOver
<1> DEFINE t == [x \in DOMAIN tree |->
                   IF x = n THEN [tree[x] EXCEPT !.level = Group, !.parent = NoNode]
                   ELSE IF x \in Children(tree, n) THEN [tree[x] EXCEPT !.level = Category]
                   ELSE tree[x]]
<1>1. /\ Hanging(tree, rows, journal, healed) /\ DOMAIN tree \subseteq Ids
      /\ tree \in [DOMAIN tree -> Nodes]
  BY TreeIds DEF BookOK, WellFormed
<1>2. /\ tree' = t /\ rows' = rows /\ journal' = Relabelled(t, journal)
  BY DEF MoveToRoot, Reorganise
<1>4. /\ DOMAIN t = DOMAIN tree
      /\ \A x \in DOMAIN tree : t[x].type = tree[x].type
  BY <1>1 DEF Nodes
<1> HIDE DEF t
<1>5. \A F, T \in BOOLEAN : F = FALSE /\ T = TRUE =>
        /\ rows' = (IF F THEN Joined(rows, n, n, Rows) ELSE rows)
        /\ journal' = (LET j == IF F THEN Repointed(t, journal, n, n) ELSE journal
                       IN  IF T THEN Relabelled(t, j) ELSE j)
  BY <1>2
<1>6. n \in Ids
  BY <1>1
<1> QED BY <1>1, <1>2, <1>4, <1>5, <1>6, ReorganiseHands

LEMMA GroupHands ==
  ASSUME BookOK, Numbered(journal), NEW n \in DOMAIN tree, NEW dest \in DOMAIN tree, MoveGroup(n, dest)
  PROVE  HandedOver
<1> DEFINE t == [x \in DOMAIN tree |->
                   IF x \notin Subtree(tree, n) THEN tree[x]
                   ELSE [tree[x] EXCEPT !.level = @ + tree[dest].level + 1,
                                        !.parent = IF x = n THEN dest ELSE @]]
<1>1. /\ TreeOK /\ DOMAIN tree \subseteq Ids /\ tree \in [DOMAIN tree -> Nodes]
      /\ n \in Subtree(tree, n)
  BY TreeIds DEF BookOK, WellFormed, Subtree
<1>2. /\ tree' = t /\ Adopt(t, dest, FirstLeaf(t, n), TRUE) /\ tree[n].type = tree[dest].type
  BY DEF MoveGroup, Adopt, Reorganise, Accepts
<1>3. WellFormed(t)
  BY <1>1, <1>2, MovedGroup DEF TreeOK
<1>4. /\ DOMAIN t = DOMAIN tree
      /\ \A x \in DOMAIN tree : t[x].type = tree[x].type /\ t[x].parent = (IF x = n THEN dest ELSE tree[x].parent)
  BY <1>1 DEF Nodes
<1> HIDE DEF t
<1>5. n \in Children(t, dest)
  BY <1>4 DEF Children
<1>6. FirstLeaf(t, n) \in Leaves(t) /\ t[FirstLeaf(t, n)].type = t[n].type
  BY <1>1, <1>3, <1>4, FirstLeafIsLeaf, FirstLeafType
<1>7. t[FirstLeaf(t, n)].type = t[dest].type
  BY <1>2, <1>4, <1>6
<1> QED BY <1>1, <1>2, <1>3, <1>4, <1>5, <1>6, <1>7, AdoptHands

LEMMA ToCategoryHands ==
  ASSUME BookOK, Numbered(journal), NEW n \in DOMAIN tree, NEW dest \in DOMAIN tree, MoveToCategory(n, dest)
  PROVE  HandedOver
<1> DEFINE t == Flattened(n, dest)
           C == {n} \cup Children(tree, n)
<1>1. /\ TreeOK /\ DOMAIN tree \subseteq Ids /\ tree \in [DOMAIN tree -> Nodes]
  BY TreeIds DEF BookOK, WellFormed
<1>2. /\ tree' = t /\ Adopt(t, dest, n, TRUE) /\ dest # n /\ tree[n].type = tree[dest].type
  BY DEF MoveToCategory, Adopt, Reorganise, Accepts, Subtree
<1>3. WellFormed(t)
  BY <1>1, <1>2, MovedToCategory DEF TreeOK
<1>4. /\ DOMAIN t = DOMAIN tree
      /\ \A x \in DOMAIN tree : t[x].type = tree[x].type /\ t[x].parent = (IF x \in C THEN dest ELSE tree[x].parent)
  BY <1>1 DEF Nodes, Flattened
<1> HIDE DEF t
<1>5. n \in Children(t, dest)
  BY <1>4 DEF Children
<1>6. n \in Leaves(t)
  <2>1. Children(t, n) = {}
    BY <1>2, <1>4 DEF Children
  <2> QED BY <1>3, <1>4, <2>1, LeafChildless
<1>7. t[n].type = t[dest].type
  BY <1>2, <1>4
<1> QED BY <1>1, <1>2, <1>3, <1>4, <1>5, <1>6, <1>7, AdoptHands

LEMMA ToGroupHands ==
  ASSUME BookOK, Numbered(journal), NEW n \in DOMAIN tree, NEW dest \in DOMAIN tree, MoveToGroup(n, dest)
  PROVE  HandedOver
<1> DEFINE t == [tree EXCEPT ![n].level = Category, ![n].parent = dest]
<1>1. /\ TreeOK /\ DOMAIN tree \subseteq Ids /\ tree \in [DOMAIN tree -> Nodes]
  BY TreeIds DEF BookOK, WellFormed
<1>2. /\ tree' = t /\ Adopt(t, dest, FirstLeaf(t, n), TRUE) /\ tree[n].type = tree[dest].type
  BY DEF MoveToGroup, Adopt, Reorganise, Receiver, Accepts
<1>3. WellFormed(t)
  BY <1>1, <1>2, MovedToGroup DEF TreeOK
<1>4. /\ DOMAIN t = DOMAIN tree
      /\ \A x \in DOMAIN tree : t[x].type = tree[x].type /\ t[x].parent = (IF x = n THEN dest ELSE tree[x].parent)
  BY <1>1 DEF Nodes
<1> HIDE DEF t
<1>5. n \in Children(t, dest)
  BY <1>4 DEF Children
<1>6. FirstLeaf(t, n) \in Leaves(t) /\ t[FirstLeaf(t, n)].type = t[n].type
  BY <1>1, <1>3, <1>4, FirstLeafIsLeaf, FirstLeafType
<1>7. t[FirstLeaf(t, n)].type = t[dest].type
  BY <1>2, <1>4, <1>6
<1> QED BY <1>1, <1>2, <1>3, <1>4, <1>5, <1>6, <1>7, AdoptHands

\* A node without contributions that no movement touches holds nothing.
LEMMA NothingMoved ==
  ASSUME NEW rs, RowsTyped(rs), NEW j, Numbered(j), NEW n \in Ids, rs["actual"][n] = Empty,
         \A x \in j : n \notin {x.from, x.to}
  PROVE  \A m \in Months : Series(rs, j, n)[m] = 0
<1>6. ASSUME NEW m \in Months PROVE Change(rs, j, n, m) = 0
  <2>1. Change(rs, j, n, m) = rs["actual"][n][m] + Total(Effects(j, n, m), j)
    BY ChangeIs
  <2>2. rs["actual"][n][m] = 0
    BY DEF Empty
  <2>3. \A x \in j : Effects(j, n, m)[x] = 0
    BY DEF Effects, Effect, Gains, Loses
  <2>4. IsFiniteSet(j)
    BY DEF Numbered
  <2> DEFINE f == Effects(j, n, m)
  <2>5. \A x \in j : f[x] = 0
    BY <2>3
  <2> HIDE DEF f
  <2>6. Total(f, j) = 0
    BY <2>4, <2>5, TotalZero
  <2> QED BY <2>1, <2>2, <2>6 DEF f
<1>7. ASSUME NEW m \in Months PROVE Series(rs, j, n)[m] = 0
  <2> DEFINE f == Changes(rs, j, n)
  <2>1. \A i \in Months : f[i] = 0
    BY <1>6 DEF Changes
  <2>2. 1..m \subseteq Months /\ IsFiniteSet(1..m)
    BY MonthsFinite
  <2>3. \A i \in 1..m : f[i] = 0
    BY <2>1, <2>2
  <2>4. Series(rs, j, n)[m] = Total(f, 1..m)
    BY SeriesIs
  <2> HIDE DEF f
  <2>5. Total(f, 1..m) = 0
    BY <2>2, <2>3, TotalZero
  <2> QED BY <2>4, <2>5
<1> QED BY <1>7

\* A node that keeps nothing: no figure is its own, and it holds nothing.
LEMMA NothingOf ==
  ASSUME NEW t, DOMAIN t \subseteq Ids, NEW rs, NEW j, NEW h, Hanging(t, rs, j, h), Numbered(j),
         NEW n \in Ids, n \notin Keepers(t, h)
  PROVE  /\ \A r \in Figures, m \in Months : Column(rs, r, m)[n] = 0
         /\ \A m \in Months : Held(rs, j, m)[n] = 0
         /\ \A m \in Months : Series(rs, j, n)[m] = 0
         /\ \A x \in j : n \notin {x.target, x.from, x.to}
<1>1. RowsTyped(rs) /\ JournalTyped(j) /\ Placed(t, rs, j, h)
  BY DEF Hanging
<1>2. n \notin Leaves(t)
  BY DEF Keepers
<1>3. \A r \in Figures : rs[r][n] = Empty
  BY <1>1, <1>2 DEF Placed, Nothing
<1>4. \A r \in Figures, m \in Months : Column(rs, r, m)[n] = 0
  BY <1>3 DEF Column, Empty
<1>5. \A x \in j : n \notin {x.target, x.from, x.to}
  BY <1>1 DEF Placed, Ends
<1>7. \A m \in Months : Series(rs, j, n)[m] = 0
  BY <1>1, <1>3, <1>5, NothingMoved DEF Figures
<1> QED BY <1>4, <1>5, <1>7 DEF Held

LEMMA ColumnTyped ==
  ASSUME NEW rs, RowsTyped(rs), NEW r \in Figures, NEW m \in Months
  PROVE  \A n \in Ids : Column(rs, r, m)[n] = rs[r][n][m] /\ Column(rs, r, m)[n] \in Nat
BY RowsHave DEF RowsTyped, Column

LEMMA HeldTyped ==
  ASSUME NEW rs, RowsTyped(rs), NEW j, Numbered(j), NEW m \in Months
  PROVE  \A n \in Ids : Held(rs, j, m)[n] = Series(rs, j, n)[m] /\ Held(rs, j, m)[n] \in Int
BY SeriesIs DEF Held

\* Every figure of a type is added, as what hangs from no leaf is nothing.
LEMMA TotalsAre ==
  ASSUME NEW t, DOMAIN t \subseteq Ids, NEW rs, NEW j, NEW h, Hanging(t, rs, j, h),
         NEW type, NEW m \in Months
  PROVE  TypeTotals(t, rs, type, m)
           = << Total(Column(rs, "budget", m), OfType(t, type)),
                Total(Column(rs, "actual", m), OfType(t, type)),
                Total(Column(rs, "plan", m), OfType(t, type)) >>
<1> DEFINE T == OfType(t, type)
           L == T \cap Leaves(t)
<1>1. RowsTyped(rs) /\ Placed(t, rs, j, h)
  BY DEF Hanging
<1>2. T \in SUBSET Ids /\ L \in SUBSET T /\ IsFiniteSet(T) /\ IsFiniteSet(L)
  <2>1. T \in SUBSET Ids
    BY DEF OfType
  <2> QED BY <2>1, MonthsFinite
<1>3. ASSUME NEW r \in Figures, NEW S \in SUBSET Ids
      PROVE  SumFunctionOnSet(Column(rs, r, m), S) = Total(Column(rs, r, m), S)
  <2> DEFINE f == Column(rs, r, m)
  <2>1. \A n \in S : f[n] \in Int
    BY <1>1, ColumnTyped
  <2>2. IsFiniteSet(S)
    BY MonthsFinite
  <2> HIDE DEF f
  <2>3. SumFunctionOnSet(f, S) = Total(f, S)
    BY <2>1, <2>2, SumIsTotal
  <2> QED BY <2>3 DEF f
<1>4. Total(Column(rs, "budget", m), L) = Total(Column(rs, "budget", m), T)
  <2> DEFINE f == Column(rs, "budget", m)
  <2>1. \A n \in T : f[n] \in Int
    BY <1>1, <1>2, ColumnTyped DEF Figures
  <2>2. \A n \in T : n \notin L => f[n] = 0
    BY <1>1, <1>2 DEF Placed, Nothing, Figures, Column, Empty
  <2> HIDE DEF f, T, L
  <2>3. \A n \in T : f[n] = IF n \in L THEN f[n] ELSE 0
    BY <2>2
  <2>4. Total(f, T) = Total(f, L)
    BY <1>2, <2>1, <2>3, TotalWithin
  <2> QED BY <2>4 DEF f
<1>5. TypeTotals(t, rs, type, m)
        = << SumFunctionOnSet(Column(rs, "budget", m), L),
             SumFunctionOnSet(Column(rs, "actual", m), T),
             SumFunctionOnSet(Column(rs, "plan", m), T) >>
  BY DEF TypeTotals
<1>6. L \in SUBSET Ids
  BY <1>2
<1> HIDE DEF T, L
<1>7. /\ SumFunctionOnSet(Column(rs, "budget", m), L) = Total(Column(rs, "budget", m), L)
      /\ SumFunctionOnSet(Column(rs, "actual", m), T) = Total(Column(rs, "actual", m), T)
      /\ SumFunctionOnSet(Column(rs, "plan", m), T) = Total(Column(rs, "plan", m), T)
  BY <1>2, <1>3, <1>6 DEF Figures
<1> QED BY <1>4, <1>5, <1>7 DEF T

\* What goes from a to b leaves every sum over a type as it was.
LEMMA HandedSum ==
  ASSUME NEW t, NEW u, NEW a \in Ids, NEW b \in Ids, Regrown(t, u, a, b),
         NEW v, \A n \in Ids : v[n] \in Int, \A n \in DOMAIN u \ DOMAIN t : v[n] = 0, NEW type
  PROVE  Total(After(v, a, b), OfType(u, type)) = Total(v, OfType(t, type))
<1> DEFINE U == OfType(u, type)
           T == OfType(t, type)
<1>1. U \in SUBSET Ids /\ T \in SUBSET U
  BY DEF Regrown, OfType
<1>2. \A n \in U \ T : v[n] = 0
  BY DEF Regrown, OfType
<1>3. a = b \/ (a \in U <=> b \in U)
  BY DEF Regrown, OfType
<1> HIDE DEF U, T
<1> QED BY <1>1, <1>2, <1>3, AfterTotal DEF U, T

LEMMA HandedTotals ==
  ASSUME NEW t, NEW u, NEW rs, NEW ks, NEW j, NEW k, NEW h, NEW g,
         Hanging(t, rs, j, h), Hanging(u, ks, k, g), Numbered(j),
         NEW a \in Ids, NEW b \in Ids, Regrown(t, u, a, b), Combined(rs, ks, a, b),
         NEW type, NEW m \in Months
  PROVE  TypeTotals(u, ks, type, m) = TypeTotals(t, rs, type, m)
<1>1. DOMAIN t \subseteq Ids /\ DOMAIN u \subseteq Ids /\ RowsTyped(rs)
  BY DEF Regrown, Hanging
<1>2. ASSUME NEW r \in Figures
      PROVE  Total(Column(ks, r, m), OfType(u, type)) = Total(Column(rs, r, m), OfType(t, type))
  <2> DEFINE v == Column(rs, r, m)
             w == Column(ks, r, m)
  <2>1. w = After(v, a, b)
    BY DEF Combined
  <2>2. \A n \in Ids : v[n] \in Int
    BY <1>1, ColumnTyped
  <2>3. \A n \in DOMAIN u \ DOMAIN t : v[n] = 0
    <3> TAKE n \in DOMAIN u \ DOMAIN t
    <3>1. n \in Ids /\ n \notin Keepers(t, h)
      BY <1>1, LeavesHave
    <3> QED BY <1>1, <3>1, NothingOf
  <2> HIDE DEF v, w
  <2>4. Total(After(v, a, b), OfType(u, type)) = Total(v, OfType(t, type))
    BY <2>2, <2>3, HandedSum
  <2> QED BY <2>1, <2>4 DEF v, w
<1>3. /\ TypeTotals(t, rs, type, m)
           = << Total(Column(rs, "budget", m), OfType(t, type)),
                Total(Column(rs, "actual", m), OfType(t, type)),
                Total(Column(rs, "plan", m), OfType(t, type)) >>
  BY <1>1, TotalsAre
<1>4. TypeTotals(u, ks, type, m)
           = << Total(Column(ks, "budget", m), OfType(u, type)),
                Total(Column(ks, "actual", m), OfType(u, type)),
                Total(Column(ks, "plan", m), OfType(u, type)) >>
  BY <1>1, TotalsAre
<1> QED BY <1>2, <1>3, <1>4 DEF Figures

LEMMA ReservedHeld ==
  ASSUME NEW t, DOMAIN t \subseteq Ids, NEW rs, RowsTyped(rs), NEW j, Numbered(j), Paired(t, j),
         NEW m \in Months
  PROVE  Reserved(t, rs, j, m) = Total(Held(rs, j, m), OfType(t, "transfer"))
         /\ Reserved(t, rs, j, m) \in Int
<1> DEFINE T == OfType(t, "transfer")
           f == [p \in T |-> Series(rs, j, p)[m]]
           v == Held(rs, j, m)
<1>1. T \in SUBSET Ids
  BY DEF OfType
<1>2. \A p \in T : f[p] = v[p] /\ v[p] \in Int
  BY <1>1, HeldTyped
<1>3. IsFiniteSet(T)
  BY <1>1, MonthsFinite
<1>4. Reserved(t, rs, j, m) = Total(f, T) /\ Reserved(t, rs, j, m) \in Int
  BY ReservedIs
<1> HIDE DEF f, v, T
<1>5. Total(f, T) = Total(v, T)
  BY <1>2, <1>3, TotalSame
<1> QED BY <1>4, <1>5 DEF v, T

LEMMA HandedReserved ==
  ASSUME NEW t, NEW u, NEW rs, NEW ks, NEW j, NEW k, NEW h, NEW g,
         Hanging(t, rs, j, h), Hanging(u, ks, k, g), Numbered(j), Numbered(k),
         Paired(t, j), Paired(u, k),
         NEW a \in Ids, NEW b \in Ids, Regrown(t, u, a, b), Combined(rs, ks, a, b), Carried(j, k, a, b),
         NEW m \in Months
  PROVE  Reserved(u, ks, k, m) = Reserved(t, rs, j, m)
<1> DEFINE v == Held(rs, j, m)
           w == Held(ks, k, m)
<1>1. DOMAIN t \subseteq Ids /\ DOMAIN u \subseteq Ids /\ RowsTyped(rs) /\ RowsTyped(ks)
  BY DEF Regrown, Hanging
<1>2. w = After(v, a, b)
  BY <1>1, CombinedSeries
<1>3. \A n \in Ids : v[n] \in Int
  BY <1>1, HeldTyped
<1>4. \A n \in DOMAIN u \ DOMAIN t : v[n] = 0
  <2> TAKE n \in DOMAIN u \ DOMAIN t
  <2>1. n \in Ids /\ n \notin Keepers(t, h)
    BY <1>1, LeavesHave
  <2> QED BY <1>1, <2>1, NothingOf
<1>5. Reserved(t, rs, j, m) = Total(v, OfType(t, "transfer"))
  BY <1>1, ReservedHeld
<1>6. Reserved(u, ks, k, m) = Total(w, OfType(u, "transfer"))
  BY <1>1, ReservedHeld
<1> HIDE DEF v, w
<1>7. Total(After(v, a, b), OfType(u, "transfer")) = Total(v, OfType(t, "transfer"))
  BY <1>3, <1>4, HandedSum
<1> QED BY <1>2, <1>5, <1>6, <1>7

\* No pocket is below zero in any month.
Floor(t, rs, j) == \A p \in OfType(t, "transfer"), m \in Months : Series(rs, j, p)[m] >= 0

LEMMA HandedFloor ==
  ASSUME NEW t, NEW u, NEW rs, NEW ks, NEW j, NEW k, NEW h, NEW g,
         Hanging(t, rs, j, h), Hanging(u, ks, k, g), Numbered(j), Numbered(k),
         NEW a \in Ids, NEW b \in Ids, Regrown(t, u, a, b), Combined(rs, ks, a, b), Carried(j, k, a, b),
         Floor(t, rs, j)
  PROVE  Floor(u, ks, k)
<1> SUFFICES ASSUME NEW p \in OfType(u, "transfer"), NEW m \in Months
             PROVE  Series(ks, k, p)[m] >= 0
  BY DEF Floor
<1> DEFINE v == Held(rs, j, m)
           w == Held(ks, k, m)
<1>1. /\ DOMAIN t \subseteq Ids /\ DOMAIN u \subseteq Ids /\ RowsTyped(rs) /\ RowsTyped(ks)
      /\ p \in DOMAIN u /\ p \in Ids
  BY DEF Regrown, Hanging, OfType
<1>2. w = After(v, a, b) /\ w[p] = Series(ks, k, p)[m]
  BY <1>1, CombinedSeries, HeldTyped
<1>3. \A n \in Ids : v[n] \in Int
  BY <1>1, HeldTyped
<1>4. ASSUME NEW n \in OfType(u, "transfer") PROVE v[n] >= 0
  <2>1. n \in DOMAIN u /\ n \in Ids
    BY <1>1 DEF OfType
  <2>2. CASE n \in DOMAIN t
    <3>1. n \in OfType(t, "transfer")
      BY <2>2 DEF Regrown, OfType
    <3>2. v[n] = Series(rs, j, n)[m]
      BY <1>1, <2>1, HeldTyped
    <3> QED BY <3>1, <3>2 DEF Floor
  <2>3. CASE n \notin DOMAIN t
    <3>1. n \notin Keepers(t, h)
      BY <1>1, <2>3, LeavesHave
    <3>2. v[n] = 0
      BY <1>1, <2>1, <3>1, NothingOf
    <3> QED BY <3>2
  <2> QED BY <2>2, <2>3
<1>5. a # b /\ p = b => a \in OfType(u, "transfer")
  BY <1>1 DEF Regrown, OfType
<1> HIDE DEF v, w
<1>6. w[p] >= 0
  <2>1. CASE a = b \/ p \notin {a, b}
    <3>1. w[p] = v[p]
      BY <1>1, <1>2, <2>1 DEF After
    <3> QED BY <1>4, <3>1
  <2>2. CASE a # b /\ p = a
    <3>1. w[p] = 0
      BY <1>1, <1>2, <2>2 DEF After
    <3> QED BY <3>1
  <2>3. CASE a # b /\ p = b
    <3>1. w[p] = v[a] + v[b]
      BY <1>1, <1>2, <2>3 DEF After
    <3>2. v[a] >= 0 /\ v[b] >= 0
      BY <1>4, <1>5, <2>3
    <3> QED BY <1>3, <3>1, <3>2
  <2> QED BY <2>1, <2>2, <2>3
<1> QED BY <1>2, <1>6

\* The amounts a movement gives the cell of node n in month m.
Targeted(j, n, m) == [x \in j |-> IF x.target = n /\ x.month = m THEN x.amount ELSE 0]

LEMMA TargetedIs ==
  ASSUME NEW j, Numbered(j), NEW n, NEW m
  PROVE  /\ Moved({x \in j : x.target = n /\ x.month = m}) = Total(Targeted(j, n, m), j)
         /\ \A x \in j : Targeted(j, n, m)[x] \in Int
<1> DEFINE S == {x \in j : x.target = n /\ x.month = m}
           g == Targeted(j, n, m)
<1>1. IsFiniteSet(j) /\ (\A x \in j : x.amount \in Int) /\ S \in SUBSET j
  BY DEF Numbered
<1>2. \A x \in j : g[x] = (IF x \in S THEN x.amount ELSE 0) /\ g[x] \in Int
  BY <1>1 DEF Targeted
<1> HIDE DEF g, S
<1>3. Moved(S) = Total(g, j)
  BY <1>1, <1>2, MovedIsTotal
<1> QED BY <1>2, <1>3 DEF S, g

\* What the journal says of a cell that is of no pocket follows the transfer.
LEMMA CarriedTargets ==
  ASSUME NEW t, DOMAIN t \subseteq Ids, NEW j, Numbered(j), NEW k, Numbered(k), Paired(t, j),
         NEW a \in Ids, NEW b \in Ids, Carried(j, k, a, b), NEW p \in Ids, NEW m \in Months,
         p \notin OfType(t, "transfer"), p = a \/ p = b => a \notin OfType(t, "transfer")
  PROVE  /\ a = b \/ p \notin {a, b} => Total(Targeted(k, p, m), k) = Total(Targeted(j, p, m), j)
         /\ a # b /\ p = b => Total(Targeted(k, p, m), k)
                                = Total(Targeted(j, a, m), j) + Total(Targeted(j, b, m), j)
<1>1. /\ IsFiniteSet(j) /\ IsFiniteSet(k)
      /\ \A x, y \in j : x.id = y.id => x = y
      /\ \A x, y \in k : x.id = y.id => x = y
      /\ \A x \in j : x.amount \in Int
      /\ \A y \in k : y.amount \in Int
  BY DEF Numbered
<1>2. ASSUME NEW x \in j, x.from # NoEnd, Now(x.from, a, b) = Now(x.to, a, b)
      PROVE  x.target \in OfType(t, "transfer")
  <2>1. OfReserve(t, x)
    BY <1>2 DEF Paired
  <2>2. x.from # x.to
    BY <2>1 DEF OfReserve
  <2>3. Available \notin {a, b}
    BY IdsHave
  <2>4. x.to # Available
    BY <1>2, <2>2, <2>3 DEF Now
  <2> QED BY <2>1, <2>4 DEF OfReserve
<1>3. ASSUME a = b \/ p \notin {a, b} PROVE Total(Targeted(k, p, m), k) = Total(Targeted(j, p, m), j)
  <2> DEFINE f == Targeted(j, p, m)
             g == Targeted(k, p, m)
  <2>1. ASSUME NEW x \in j, NEW y \in k, Becomes(x, y, a, b) PROVE x.id = y.id /\ g[y] = f[x]
    BY <1>3, <2>1 DEF Becomes, Now, Targeted
  <2>2. \A y \in k : \E x \in j : x.id = y.id /\ g[y] = f[x]
    <3> HIDE DEF f, g
    <3> QED BY <2>1 DEF Carried
  <2>3. \A x \in j : f[x] = 0 \/ \E y \in k : x.id = y.id
    <3> TAKE x \in j
    <3>1. CASE \E y \in k : Becomes(x, y, a, b)
      BY <3>1, <2>1
    <3>2. CASE x.from # NoEnd /\ Now(x.from, a, b) = Now(x.to, a, b)
      <4>1. x.target # p
        BY <1>2, <3>2
      <4> QED BY <4>1 DEF Targeted
    <3> QED BY <3>1, <3>2 DEF Carried
  <2>4. \A x \in j : f[x] \in Int
    BY <1>1 DEF Targeted
  <2> HIDE DEF f, g
  <2>5. Total(g, k) = Total(f, j)
    BY <1>1, <2>2, <2>3, <2>4, TotalMatched
  <2> QED BY <2>5 DEF f, g
<1>4. ASSUME a # b, p = b
      PROVE  Total(Targeted(k, p, m), k) = Total(Targeted(j, a, m), j) + Total(Targeted(j, b, m), j)
  <2> DEFINE fa == Targeted(j, a, m)
             fb == Targeted(j, b, m)
             f == [x \in j |-> fa[x] + fb[x]]
             g == Targeted(k, p, m)
  <2>1. \A x \in j : fa[x] \in Int /\ fb[x] \in Int
    BY <1>1 DEF Targeted
  <2>2. \A x \in j : f[x] = fa[x] + fb[x] /\ f[x] \in Int
    <3> HIDE DEF fa, fb
    <3> QED BY <2>1
  <2>3. ASSUME NEW x \in j, NEW y \in k, Becomes(x, y, a, b) PROVE x.id = y.id /\ g[y] = f[x]
    <3>1. g[y] = fa[x] + fb[x]
      BY <1>1, <1>4, <2>3 DEF Becomes, Now, Targeted
    <3> HIDE DEF fa, fb, f, g
    <3> QED BY <2>2, <2>3, <3>1 DEF Becomes
  <2>4. \A y \in k : \E x \in j : x.id = y.id /\ g[y] = f[x]
    <3> HIDE DEF f, g
    <3> QED BY <2>3 DEF Carried
  <2>5. \A x \in j : f[x] = 0 \/ \E y \in k : x.id = y.id
    <3> TAKE x \in j
    <3>1. CASE \E y \in k : Becomes(x, y, a, b)
      <4> HIDE DEF f, g
      <4> QED BY <3>1, <2>3
    <3>2. CASE x.from # NoEnd /\ Now(x.from, a, b) = Now(x.to, a, b)
      <4>1. x.target \in OfType(t, "transfer") /\ a \notin OfType(t, "transfer") /\ b \notin OfType(t, "transfer")
        BY <1>2, <1>4, <3>2
      <4>2. x.target # a /\ x.target # b
        BY <4>1
      <4>3. fa[x] = 0 /\ fb[x] = 0
        BY <4>2 DEF Targeted
      <4> HIDE DEF fa, fb, f
      <4> QED BY <2>2, <4>3
    <3> QED BY <3>1, <3>2 DEF Carried
  <2> HIDE DEF f, fa, fb, g
  <2>6. Total(g, k) = Total(f, j)
    BY <1>1, <2>2, <2>4, <2>5, TotalMatched
  <2>7. Total(f, j) = Total(fa, j) + Total(fb, j)
    BY <1>1, <2>1, <2>2, TotalAdd
  <2> QED BY <2>6, <2>7 DEF fa, fb, g
<1> QED BY <1>3, <1>4

\* The journal of every leaf explains its cell.
AllExplained(t, rs, j) == \A n \in Leaves(t) : Explained(t, rs, j, n)

\* In a book whose leaves the journal explains and nothing hangs elsewhere, it
\* explains every cell of the expenses, that of a node yet to come included.
LEMMA ExplainedAll ==
  ASSUME NEW t, DOMAIN t \subseteq Ids, NEW rs, NEW j, NEW h, Keepers(t, h) = Leaves(t), Hanging(t, rs, j, h), Numbered(j),
         AllExplained(t, rs, j),
         NEW p \in Ids, p \in DOMAIN t => t[p].type = "expense", NEW m \in Months
  PROVE  rs["actual"][p][m] = Total(Targeted(j, p, m), j)
<1>1. CASE p \in Leaves(t)
  <2>1. p \in DOMAIN t
    BY <1>1 DEF Leaves
  <2>2. rs["actual"][p][m] = Moved({x \in j : x.target = p /\ x.month = m})
    BY <1>1, <2>1 DEF Explained, AllExplained
  <2> QED BY <2>2, TargetedIs
<1>2. CASE p \notin Leaves(t)
  <2>1. p \notin Keepers(t, h)
    BY <1>2
  <2>5. "actual" \in Figures
    BY DEF Figures
  <2>2. Column(rs, "actual", m)[p] = 0 /\ \A x \in j : p \notin {x.target, x.from, x.to}
    BY <2>1, <2>5, NothingOf
  <2> DEFINE f == Targeted(j, p, m)
  <2>3. \A x \in j : f[x] = 0
    BY <2>2 DEF Targeted
  <2>4. IsFiniteSet(j)
    BY DEF Numbered
  <2> HIDE DEF f
  <2>6. Total(f, j) = 0
    BY <2>3, <2>4, TotalZero
  <2> QED BY <2>2, <2>6 DEF f, Column
<1> QED BY <1>1, <1>2

LEMMA HandedExplained ==
  ASSUME NEW t, NEW u, NEW rs, NEW ks, NEW j, NEW k,
         NEW h, Keepers(t, h) = Leaves(t), DOMAIN t \subseteq Ids, Hanging(t, rs, j, h), RowsTyped(ks),
         Numbered(j), Numbered(k), Paired(t, j),
         NEW a \in Ids, NEW b \in Ids, Regrown(t, u, a, b), Combined(rs, ks, a, b), Carried(j, k, a, b),
         a # b => a \notin Leaves(u),
         AllExplained(t, rs, j),
         NEW p \in Leaves(u)
  PROVE  Explained(u, ks, k, p)
<1> SUFFICES ASSUME u[p].type = "expense", NEW m \in Months
             PROVE  ks["actual"][p][m] = Moved({x \in k : x.target = p /\ x.month = m})
  BY DEF Explained
<1> DEFINE v == Column(rs, "actual", m)
           w == Column(ks, "actual", m)
<1>1. p \in DOMAIN u /\ p \in Ids
  BY DEF Leaves, Regrown
<1>2. w = After(v, a, b) /\ w[p] = ks["actual"][p][m] /\ \A n \in Ids : v[n] = rs["actual"][n][m]
  BY <1>1 DEF Combined, Figures, Column
<1>3. Moved({x \in k : x.target = p /\ x.month = m}) = Total(Targeted(k, p, m), k)
  BY TargetedIs
<1>4. p \in DOMAIN t => t[p].type = "expense"
  BY DEF Regrown
<1>5. p \notin OfType(t, "transfer")
  BY <1>4 DEF OfType
<1>6. v[p] = Total(Targeted(j, p, m), j)
  <2>1. rs["actual"][p][m] = Total(Targeted(j, p, m), j)
    BY <1>1, <1>4, ExplainedAll
  <2> QED BY <1>1, <1>2, <2>1
<1> HIDE DEF v, w
<1>7. CASE a = b \/ p \notin {a, b}
  <2>1. w[p] = v[p]
    BY <1>1, <1>2, <1>7 DEF After
  <2>2. p = a \/ p = b => a \notin OfType(t, "transfer")
    BY <1>5, <1>7
  <2>3. Total(Targeted(k, p, m), k) = Total(Targeted(j, p, m), j)
    BY <1>1, <1>5, <1>7, <2>2, CarriedTargets
  <2> QED BY <1>2, <1>3, <1>6, <2>1, <2>3
<1>8. CASE a # b /\ p = b
  <2>1. a \in DOMAIN t /\ t[a].type = "expense"
    BY <1>8 DEF Regrown
  <2>2. a \notin OfType(t, "transfer")
    BY <2>1 DEF OfType
  <2>3. v[a] = Total(Targeted(j, a, m), j)
    <3>1. rs["actual"][a][m] = Total(Targeted(j, a, m), j)
      BY <2>1, ExplainedAll
    <3> QED BY <1>2, <3>1
  <2>4. w[p] = v[a] + v[b]
    BY <1>1, <1>2, <1>8 DEF After
  <2>5. Total(Targeted(k, p, m), k) = Total(Targeted(j, a, m), j) + Total(Targeted(j, b, m), j)
    BY <1>1, <1>5, <1>8, <2>2, CarriedTargets
  <2> QED BY <1>2, <1>3, <1>6, <1>8, <2>3, <2>4, <2>5
<1> QED BY <1>7, <1>8

\* What is of closed months alike, amounts and movements, is held alike in them.
LEMMA FrozenSeries ==
  ASSUME NEW rs, RowsTyped(rs), NEW ks, RowsTyped(ks), NEW j, Numbered(j), NEW k, Numbered(k),
         Frozen(ks, k) = Frozen(rs, j), closed \in Nat, NEW p \in Ids, NEW m \in Months, m <= closed
  PROVE  Series(ks, k, p)[m] = Series(rs, j, p)[m]
<1> DEFINE T(x) == <<x.id, x.target, x.from, x.to, x.month, x.amount>>
           S(l) == {T(x) : x \in {y \in l : y.month <= closed}}
           F(l) == [r \in Figures |-> [n \in Ids |-> [i \in 1..closed |-> l[r][n][i]]]]
<1>1. S(k) = S(j) /\ F(ks) = F(rs)
  <2>1. /\ Frozen(ks, k).moves = S(k) /\ Frozen(rs, j).moves = S(j)
        /\ Frozen(ks, k).amounts = F(ks) /\ Frozen(rs, j).amounts = F(rs)
    BY DEF Frozen
  <2> HIDE DEF S, F
  <2> QED BY <2>1
<1>2. 1..m \subseteq Months /\ IsFiniteSet(1..m) /\ m \in Nat
  BY MonthsFinite DEF Months
<1>3. ASSUME NEW i \in 1..m PROVE Change(ks, k, p, i) = Change(rs, j, p, i) /\ Change(rs, j, p, i) \in Int
  <2>1. i \in Months /\ i <= closed /\ closed >= i
    BY <1>2
  <2>2. ks["actual"][p][i] = rs["actual"][p][i]
    <3>1. i \in 1..closed
      BY <1>2, <2>1
    <3>2. "actual" \in Figures
      BY DEF Figures
    <3>3. F(ks)["actual"][p][i] = ks["actual"][p][i] /\ F(rs)["actual"][p][i] = rs["actual"][p][i]
      BY <3>1, <3>2
    <3> HIDE DEF F
    <3> QED BY <1>1, <3>3
  <2> DEFINE f == Effects(j, p, i)
             g == Effects(k, p, i)
  <2>3. ASSUME NEW x, NEW y, T(x) = T(y) PROVE x.id = y.id /\ Effect(x, p, i) = Effect(y, p, i)
    <3>1. x.id = y.id /\ x.from = y.from /\ x.to = y.to /\ x.month = y.month /\ x.amount = y.amount
      BY <2>3
    <3> QED BY <3>1 DEF Effect, Gains, Loses
  <2>4. \A l, x : x \in l /\ x.month <= closed => T(x) \in S(l)
    OBVIOUS
  <2>5. \A l, z : z \in S(l) => \E x \in l : x.month <= closed /\ z = T(x)
    OBVIOUS
  <2> HIDE DEF T, S
  <2>6. \A x \in j : f[x] = Effect(x, p, i) /\ f[x] \in Int
    BY EffectsInt
  <2>7. \A y \in k : g[y] = Effect(y, p, i) /\ g[y] \in Int
    BY EffectsInt
  <2>8. ASSUME NEW x, ~(x.month <= closed), x.month \in Months PROVE Effect(x, p, i) = 0
    <3>1. x.month # i
      BY <2>1, <2>8
    <3> QED BY <3>1 DEF Effect, Gains, Loses
  <2> DEFINE kk == {y \in k : y.month <= closed}
             gk == [y \in k |-> IF y \in kk THEN g[y] ELSE 0]
  <2>9. \A y \in k : g[y] = IF y \in kk THEN g[y] ELSE 0
    <3> TAKE y \in k
    <3>1. y.month \in Months
      BY DEF Numbered
    <3> QED BY <2>7, <2>8, <3>1
  <2>10. IsFiniteSet(j) /\ IsFiniteSet(k) /\ kk \in SUBSET k /\ IsFiniteSet(kk)
    <3>1. IsFiniteSet(k) /\ IsFiniteSet(j)
      BY DEF Numbered
    <3>2. kk \in SUBSET k
      OBVIOUS
    <3> QED BY <3>1, <3>2, FS_Subset
  <2>11. Total(g, k) = Total(g, kk)
    <3> HIDE DEF g, kk
    <3> QED BY <2>7, <2>9, <2>10, TotalWithin
  <2>12. \A y \in kk : \E x \in j : x.id = y.id /\ g[y] = f[x]
    <3> TAKE y \in kk
    <3>1. T(y) \in S(j) /\ y \in k
      BY <1>1, <2>4
    <3>2. PICK x \in j : T(y) = T(x)
      BY <2>5, <3>1
    <3> HIDE DEF f, g
    <3> QED BY <2>3, <2>6, <2>7, <3>1, <3>2
  <2>13. \A x \in j : f[x] = 0 \/ \E y \in kk : x.id = y.id
    <3> TAKE x \in j
    <3>1. CASE x.month <= closed
      <4>1. T(x) \in S(k)
        BY <1>1, <2>4, <3>1
      <4>2. PICK y \in k : y.month <= closed /\ T(x) = T(y)
        BY <2>5, <4>1
      <4> QED BY <2>3, <4>2
    <3>2. CASE ~(x.month <= closed)
      <4>1. x.month \in Months
        BY DEF Numbered
      <4> QED BY <2>6, <2>8, <3>2, <4>1
    <3> QED BY <3>1, <3>2
  <2>14. (\A x, y \in j : x.id = y.id => x = y) /\ (\A x, y \in kk : x.id = y.id => x = y)
    BY DEF Numbered
  <2>15. \A x \in j : f[x] \in Int
    BY <2>6
  <2>16. Total(g, kk) = Total(f, j)
    <3> HIDE DEF f, g, kk
    <3> QED BY <2>10, <2>12, <2>13, <2>14, <2>15, TotalMatched
  <2>17. /\ Change(ks, k, p, i) = ks["actual"][p][i] + Total(g, k)
         /\ Change(rs, j, p, i) = rs["actual"][p][i] + Total(f, j) /\ Change(rs, j, p, i) \in Int
    BY <2>1, ChangeIs
  <2> QED BY <2>2, <2>11, <2>16, <2>17
<1> DEFINE cj == Changes(rs, j, p)
           ck == Changes(ks, k, p)
<1>4. \A i \in 1..m : ck[i] = cj[i] /\ cj[i] \in Int
  BY <1>2, <1>3 DEF Changes
<1>5. Series(ks, k, p)[m] = Total(ck, 1..m) /\ Series(rs, j, p)[m] = Total(cj, 1..m)
  BY SeriesIs
<1> HIDE DEF cj, ck
<1>6. Total(ck, 1..m) = Total(cj, 1..m)
  BY <1>2, <1>4, TotalSame
<1> QED BY <1>5, <1>6

-----------------------------------------------------------------------------
(* Deleting a node.                                                          *)

\* Movement x, of the deleted node or not, and what it becomes.
Cut(t, n, x, y) ==
  /\ y.id = x.id /\ y.month = x.month /\ y.amount = x.amount
  /\ \/ n \notin {x.target, x.from, x.to} /\ y = x
     \/ /\ n \in {x.target, x.from, x.to} /\ x.from \in DOMAIN t
        /\ y.target = x.from /\ y.from = x.from /\ y.to = Available

LEMMA WithoutCuts ==
  ASSUME NEW t, DOMAIN t \subseteq Ids, NEW j, JournalTyped(j), Numbered(j), NEW n
  PROVE  LET k == WithoutNode(t, j, n) IN
         /\ Numbered(k)
         /\ \A y \in k : \E x \in j : Cut(t, n, x, y)
         /\ \A x \in j : n \notin {x.target, x.from, x.to} => x \in k
<1> DEFINE then(x) == IF n \in {x.target, x.from, x.to}
                      THEN [x EXCEPT !.to = Available, !.target = x.from,
                                     !.cat = CatOf(t, x.from), !.sub = SubOf(t, x.from)] ELSE x
           F == [x \in j |-> then(x)]
           k == WithoutNode(t, j, n)
           stays(x) == n \in {x.target, x.from, x.to} => x.from \in DOMAIN t
<1>1. ASSUME NEW x \in j
      PROVE  /\ F[x] = then(x) /\ then(x).id = x.id /\ then(x).month = x.month
             /\ then(x).amount = x.amount
             /\ n \notin {x.target, x.from, x.to} => then(x) = x
             /\ n \in {x.target, x.from, x.to} =>
                  then(x).target = x.from /\ then(x).from = x.from /\ then(x).to = Available
  <2>1. Movement(x)
    BY DEF JournalTyped
  <2>2. x = [id |-> x.id, target |-> x.target, cat |-> x.cat, sub |-> x.sub, from |-> x.from,
             to |-> x.to, month |-> x.month, amount |-> x.amount]
    BY <2>1 DEF Movement
  <2>3. CASE n \in {x.target, x.from, x.to}
    <3>1. then(x) = [id |-> x.id, target |-> x.from, cat |-> CatOf(t, x.from),
                     sub |-> SubOf(t, x.from), from |-> x.from,
                     to |-> Available, month |-> x.month, amount |-> x.amount]
      BY <2>2, <2>3
    <3> QED BY <2>3, <3>1
  <2>4. CASE n \notin {x.target, x.from, x.to}
    BY <2>4
  <2> QED BY <2>3, <2>4
<1>2. k = {then(x) : x \in {y \in j : stays(y)}}
  BY DEF WithoutNode
<1>3. \A x \in j : n \notin {x.target, x.from, x.to} => stays(x)
  OBVIOUS
<1>4. \A x : stays(x) /\ n \in {x.target, x.from, x.to} => x.from \in DOMAIN t
  OBVIOUS
<1> HIDE DEF then, F, k, stays
<1>5. \A y \in k : \E x \in j : F[x] = y
  BY <1>1, <1>2
<1>6. \A x \in j : F[x].id = x.id /\ F[x].month = x.month /\ F[x].amount = x.amount
  BY <1>1
<1>7. Numbered(k)
  BY <1>5, <1>6, SentNumbered
<1>8. ASSUME NEW y \in k PROVE \E x \in j : Cut(t, n, x, y)
  <2>1. PICK x \in j : stays(x) /\ y = then(x)
    BY <1>2
  <2> QED BY <1>1, <1>4, <2>1 DEF Cut
<1>9. ASSUME NEW x \in j, n \notin {x.target, x.from, x.to} PROVE x \in k
  <2>1. stays(x) /\ then(x) = x
    BY <1>1, <1>3, <1>9
  <2> QED BY <1>2, <2>1
<1> QED BY <1>7, <1>8, <1>9 DEF k

\* The invariant of the sums: numbers of their own, and reserves between pockets.
Balanced == Numbered(journal) /\ Paired(tree, journal)

LEMMA DeletedBook ==
  ASSUME BookOK, Balanced, NEW n \in DOMAIN tree, DeleteNode(n)
  PROVE  /\ DOMAIN tree' = DOMAIN tree \ {n} /\ \A x \in DOMAIN tree' : tree'[x] = tree[x]
         /\ RowsTyped(rows) /\ RowsTyped(rows') /\ DOMAIN tree \subseteq Ids
         /\ \A r \in Figures : \A x \in Ids : rows'[r][x] = rows[r][x]
         /\ \A r \in Figures : rows[r][n] = Empty
         /\ Numbered(journal') /\ Paired(tree', journal')
         /\ \A y \in journal' : \E x \in journal : Cut(tree', n, x, y)
         /\ \A x \in journal : n \notin {x.target, x.from, x.to} => x \in journal'
         /\ \A y \in journal' : n \notin {y.target, y.from, y.to}
         /\ \A p \in DOMAIN tree' : p \in Leaves(tree) => p \in Leaves(tree')
<1> DEFINE t == [x \in DOMAIN tree \ {n} |-> tree[x]]
<1>1. /\ DOMAIN tree \subseteq Ids /\ RowsTyped(rows) /\ JournalTyped(journal) /\ WellFormed(tree)
  BY TreeIds DEF BookOK, Hanging
<1>2. /\ tree' = t
      /\ rows' = [r \in Rows |-> [rows[r] EXCEPT ![n] = Empty]]
      /\ journal' = WithoutNode(tree', journal, n)
      /\ ~HasData(n)
  BY DEF DeleteNode
<1>3. DOMAIN tree' = DOMAIN tree \ {n} /\ \A x \in DOMAIN tree' : tree'[x] = tree[x]
  BY <1>2
<1>4. ASSUME NEW r \in Figures PROVE rows[r][n] = Empty
  <2>1. rows[r] \in [Ids -> [Months -> Nat]] /\ n \in Ids
    BY <1>1, RowsHave DEF RowsTyped
  <2>2. \A m \in Months : ~(rows[r][n][m] > 0)
    BY <1>2 DEF HasData
  <2>3. rows[r][n] \in [Months -> Nat]
    BY <2>1
  <2> QED BY <2>2, <2>3 DEF Empty
<1>5. \A r \in Figures : \A x \in Ids : rows'[r][x] = rows[r][x]
  <2> TAKE r \in Figures
  <2>1. rows[r] \in [Ids -> [Months -> Nat]] /\ n \in Ids /\ r \in Rows
    BY <1>1, RowsHave DEF RowsTyped
  <2>2. rows'[r] = [rows[r] EXCEPT ![n] = Empty]
    BY <1>2, <2>1
  <2> QED BY <1>4, <2>1, <2>2
<1>6. RowsTyped(rows')
  <2>1. Hanging(tree', rows', journal', healed')
    BY DeletedHangs
  <2> QED BY <2>1 DEF Hanging
<1>7. DOMAIN tree' \subseteq Ids
  BY <1>1, <1>3
<1> HIDE DEF t
<1>8. /\ Numbered(journal')
      /\ \A y \in journal' : \E x \in journal : Cut(tree', n, x, y)
      /\ \A x \in journal : n \notin {x.target, x.from, x.to} => x \in journal'
  BY <1>1, <1>2, <1>7, WithoutCuts DEF Balanced
<1>9. n \in Ids /\ n # Available
  BY <1>1, IdsHave
<1>10. ASSUME NEW y \in journal' PROVE n \notin {y.target, y.from, y.to}
  <2>1. PICK x \in journal : Cut(tree', n, x, y)
    BY <1>8
  <2> QED BY <1>3, <1>9, <2>1 DEF Cut
<1>11. Paired(tree', journal')
  <2> SUFFICES ASSUME NEW y \in journal', {y.from, y.to} # {NoEnd} PROVE OfReserve(tree', y)
    BY DEF Paired
  <2>1. PICK x \in journal : Cut(tree', n, x, y)
    BY <1>8
  <2>2. n \notin {y.target, y.from, y.to}
    BY <1>10
  <2>3. \A p : p \in OfType(tree', "transfer") <=> p \in OfType(tree, "transfer") /\ p # n
    BY <1>3 DEF OfType
  <2>4. CASE y = x
    <3>1. OfReserve(tree, y)
      BY <2>4 DEF Balanced, Paired
    <3> QED BY <2>2, <2>3, <3>1 DEF OfReserve
  <2>5. CASE y # x
    <3>1. /\ x.from \in DOMAIN tree' /\ y.target = x.from /\ y.from = x.from /\ y.to = Available
      BY <2>1, <2>5 DEF Cut
    <3>2. x.from # NoEnd /\ x.from # Available
      BY <1>7, <3>1, IdsHave
    <3>3. OfReserve(tree, x)
      BY <3>2 DEF Balanced, Paired
    <3>4. x.from \in OfType(tree, "transfer")
      BY <3>2, <3>3 DEF OfReserve
    <3>5. y.from \in OfType(tree', "transfer")
      BY <1>3, <2>3, <3>1, <3>4
    <3> QED BY <3>1, <3>2, <3>5 DEF OfReserve
  <2> QED BY <2>4, <2>5
<1>12. ASSUME NEW p \in DOMAIN tree', p \in Leaves(tree) PROVE p \in Leaves(tree')
  BY <1>3, <1>12 DEF Leaves, IsLeaf, Childless, Children
<1> QED BY <1>1, <1>3, <1>4, <1>5, <1>6, <1>8, <1>10, <1>11, <1>12

\* A sum without what is nothing.
LEMMA TotalLess ==
  ASSUME NEW S, IsFiniteSet(S), NEW f, \A x \in S : f[x] \in Int, NEW T \in SUBSET S,
         \A x \in S \ T : f[x] = 0, NEW g, \A x \in T : g[x] = f[x]
  PROVE  Total(g, T) = Total(f, S)
<1> DEFINE z == [x \in S |-> IF x \in T THEN f[x] ELSE 0]
<1>1. /\ \A x \in S : z[x] = (IF x \in T THEN f[x] ELSE 0)
      /\ \A x \in S : z[x] = f[x]
  OBVIOUS
<1>2. IsFiniteSet(T) /\ \A x \in T : f[x] \in Int
  BY FS_Subset
<1> HIDE DEF z
<1>3. Total(z, S) = Total(f, T)
  BY <1>1, TotalWithin
<1>4. Total(z, S) = Total(f, S)
  BY <1>1, TotalSame
<1>5. Total(g, T) = Total(f, T)
  BY <1>2, TotalSame
<1> QED BY <1>3, <1>4, <1>5

LEMMA DeletedTotals ==
  ASSUME BookOK, Balanced, NEW n \in DOMAIN tree, DeleteNode(n), NEW type, NEW m \in Months
  PROVE  TypeTotals(tree', rows', type, m) = TypeTotals(tree, rows, type, m)
<1> DEFINE T == OfType(tree, type)
           U == OfType(tree', type)
<1>1. /\ DOMAIN tree' = DOMAIN tree \ {n} /\ \A x \in DOMAIN tree' : tree'[x] = tree[x]
      /\ RowsTyped(rows) /\ RowsTyped(rows') /\ DOMAIN tree \subseteq Ids
      /\ \A r \in Figures : \A x \in Ids : rows'[r][x] = rows[r][x]
      /\ \A r \in Figures : rows[r][n] = Empty
  BY DeletedBook
<1>2. U \in SUBSET T /\ T \subseteq Ids /\ T \ U \subseteq {n}
  BY <1>1 DEF OfType
<1>3. IsFiniteSet(T)
  BY <1>2, MonthsFinite
<1> HIDE DEF T, U
<1>4. ASSUME NEW r \in Figures PROVE Total(Column(rows', r, m), U) = Total(Column(rows, r, m), T)
  <2> DEFINE v == Column(rows, r, m)
             w == Column(rows', r, m)
  <2>1. \A x \in Ids : v[x] = rows[r][x][m] /\ v[x] \in Int
    BY <1>1, ColumnTyped
  <2>2. \A x \in Ids : w[x] = v[x]
    BY <1>1 DEF Column
  <2>3. v[n] = 0
    BY <1>1, <2>1 DEF Empty
  <2> HIDE DEF v, w
  <2>4. (\A x \in T : v[x] \in Int) /\ (\A x \in T \ U : v[x] = 0) /\ (\A x \in U : w[x] = v[x])
    BY <1>2, <2>1, <2>2, <2>3
  <2>5. Total(w, U) = Total(v, T)
    BY <1>2, <1>3, <2>4, TotalLess
  <2> QED BY <2>5 DEF v, w
<1>5. Hanging(tree, rows, journal, healed) /\ Hanging(tree', rows', journal', healed') /\ DOMAIN tree' \subseteq Ids
  BY <1>1, DeletedHangs DEF BookOK
<1>6. TypeTotals(tree, rows, type, m)
        = << Total(Column(rows, "budget", m), T), Total(Column(rows, "actual", m), T),
             Total(Column(rows, "plan", m), T) >>
  BY <1>1, <1>5, TotalsAre DEF T
<1>7. TypeTotals(tree', rows', type, m)
        = << Total(Column(rows', "budget", m), U), Total(Column(rows', "actual", m), U),
             Total(Column(rows', "plan", m), U) >>
  BY <1>5, TotalsAre DEF U
<1> QED BY <1>4, <1>6, <1>7 DEF Figures

\* Of a node that is no pocket the pockets had nothing.
LEMMA DeletedOther ==
  ASSUME BookOK, Balanced, NEW n \in DOMAIN tree, DeleteNode(n), tree[n].type # "transfer",
         NEW p \in Ids, NEW m \in Months
  PROVE  Series(rows', journal', p)[m] = Series(rows, journal, p)[m]
<1>1. /\ RowsTyped(rows) /\ RowsTyped(rows')
      /\ \A r \in Figures : \A x \in Ids : rows'[r][x] = rows[r][x]
      /\ Numbered(journal') /\ Numbered(journal)
      /\ \A y \in journal' : \E x \in journal : Cut(tree', n, x, y)
      /\ \A x \in journal : n \notin {x.target, x.from, x.to} => x \in journal'
  BY DeletedBook DEF Balanced
<1>2. ASSUME NEW x \in journal, n \in {x.target, x.from, x.to} PROVE x.from = NoEnd
  <2>1. n \notin OfType(tree, "transfer") /\ n # Available
    BY TreeIds, IdsHave DEF OfType, BookOK
  <2> QED BY <1>2, <2>1 DEF Balanced, Paired, OfReserve
<1>3. \A x \in journal : n \in {x.target, x.from, x.to} => {x.from, x.to} = {NoEnd}
  <2>1. n \notin OfType(tree, "transfer") /\ n # Available
    BY TreeIds, IdsHave DEF OfType, BookOK
  <2> QED BY <2>1 DEF Balanced, Paired, OfReserve
<1>4. NoEnd \notin DOMAIN tree'
  BY DeletedBook, IdsHave
<1>5. \A y \in journal' : y \in journal
  BY <1>1, <1>2, <1>4 DEF Cut
<1>6. ASSUME NEW i \in Months PROVE Change(rows', journal', p, i) = Change(rows, journal, p, i)
  <2> DEFINE f == Effects(journal, p, i)
             g == Effects(journal', p, i)
  <2>1. \A x \in journal : f[x] = Effect(x, p, i) /\ f[x] \in Int
    BY <1>1, EffectsInt
  <2>2. \A y \in journal' : g[y] = Effect(y, p, i)
    BY <1>1, EffectsInt
  <2>3. /\ Change(rows', journal', p, i) = rows'["actual"][p][i] + Total(g, journal')
        /\ Change(rows, journal, p, i) = rows["actual"][p][i] + Total(f, journal)
    BY <1>1, ChangeIs
  <2>4. p # NoEnd
    BY IdsHave
  <2>5. \A x \in journal \ journal' : Effect(x, p, i) = 0
    BY <1>1, <1>3, <2>4 DEF Effect, Gains, Loses
  <2> HIDE DEF f, g
  <2>6. \A x \in journal \ journal' : f[x] = 0
    BY <2>1, <2>5
  <2>7. (\A x \in journal' : g[x] = f[x]) /\ journal' \in SUBSET journal /\ IsFiniteSet(journal)
    BY <1>1, <1>5, <2>1, <2>2 DEF Numbered
  <2>8. Total(g, journal') = Total(f, journal)
    BY <2>1, <2>6, <2>7, TotalLess
  <2> QED BY <1>1, <2>3, <2>8 DEF Figures
<1>7. Changes(rows', journal', p) = Changes(rows, journal, p)
  BY <1>6 DEF Changes
<1> QED BY <1>1, <1>7, SeriesIs

\* After the repairs of a load, and before them where the deleted node is no pocket,
\* every pocket that stays holds what it held.
LEMMA DeletedHolds ==
  ASSUME BookOK, Balanced, NEW n \in DOMAIN tree, DeleteNode(n),
         Keepers(tree, healed) = Leaves(tree) \/ tree[n].type # "transfer",
         NEW p \in OfType(tree', "transfer"), NEW m \in Months
  PROVE  Series(rows', journal', p)[m] = Series(rows, journal, p)[m]
<1>1. /\ DOMAIN tree' = DOMAIN tree \ {n} /\ \A x \in DOMAIN tree' : tree'[x] = tree[x]
      /\ RowsTyped(rows) /\ RowsTyped(rows') /\ DOMAIN tree \subseteq Ids
      /\ \A r \in Figures : \A x \in Ids : rows'[r][x] = rows[r][x]
      /\ Numbered(journal') /\ Numbered(journal)
      /\ \A y \in journal' : \E x \in journal : Cut(tree', n, x, y)
  BY DeletedBook DEF Balanced
<1>2. p \in DOMAIN tree /\ p # n /\ p \in Ids /\ tree[p].type = "transfer"
  BY <1>1 DEF OfType
<1>3. CASE tree[n].type # "transfer"
  BY <1>2, <1>3, DeletedOther
<1>4. CASE p \in Leaves(tree)
  <2>1. Series(rows', journal', p) = Series(rows, journal, p)
    BY <1>2, <1>4 DEF DeleteNode, WouldCorrupt
  <2> QED BY <2>1
<1>5. CASE Keepers(tree, healed) = Leaves(tree) /\ p \notin Leaves(tree)
  <2>1. Hanging(tree, rows, journal, healed) /\ p \notin Keepers(tree, healed)
    BY <1>5 DEF BookOK
  <2>2. /\ Series(rows, journal, p)[m] = 0
        /\ \A x \in journal : p \notin {x.target, x.from, x.to}
    BY <1>1, <1>2, <2>1, NothingOf
  <2>3. rows["actual"][p] = Empty
    <3>1. "actual" \in Figures
      BY DEF Figures
    <3>2. \A i \in Months : Column(rows, "actual", i)[p] = 0
      BY <1>1, <1>2, <2>1, <3>1, NothingOf
    <3>3. \A i \in Months : rows["actual"][p][i] = 0
      BY <1>2, <3>2 DEF Column
    <3>4. rows["actual"][p] \in [Months -> Nat]
      BY <1>1, <1>2 DEF RowsTyped, Rows
    <3> QED BY <3>3, <3>4 DEF Empty
  <2>4. rows'["actual"][p] = Empty
    BY <1>1, <1>2, <2>3 DEF Figures
  <2>5. \A y \in journal' : p \notin {y.from, y.to}
    <3> TAKE y \in journal'
    <3>1. PICK x \in journal : Cut(tree', n, x, y)
      BY <1>1
    <3>2. p # Available
      BY <1>2, IdsHave
    <3> QED BY <2>2, <3>1, <3>2 DEF Cut
  <2>6. Series(rows', journal', p)[m] = 0
    BY <1>1, <1>2, <2>4, <2>5, NothingMoved
  <2> QED BY <2>2, <2>6
<1> QED BY <1>3, <1>4, <1>5

LEMMA DeletedReserved ==
  ASSUME BookOK, Balanced, NEW n \in DOMAIN tree, DeleteNode(n), NEW m \in Months,
         \A p \in OfType(tree', "transfer") : Series(rows', journal', p)[m] = Series(rows, journal, p)[m],
         tree[n].type = "transfer" => Series(rows, journal, n)[m] = 0
  PROVE  Reserved(tree', rows', journal', m) = Reserved(tree, rows, journal, m)
<1> DEFINE T == OfType(tree, "transfer")
           U == OfType(tree', "transfer")
           v == Held(rows, journal, m)
           w == Held(rows', journal', m)
<1>1. /\ DOMAIN tree' = DOMAIN tree \ {n} /\ \A x \in DOMAIN tree' : tree'[x] = tree[x]
      /\ RowsTyped(rows) /\ RowsTyped(rows') /\ DOMAIN tree \subseteq Ids /\ DOMAIN tree' \subseteq Ids
      /\ Numbered(journal') /\ Paired(tree', journal') /\ Numbered(journal) /\ Paired(tree, journal)
  BY DeletedBook DEF Balanced
<1>2. U \in SUBSET T /\ T \subseteq Ids /\ T \ U \subseteq {n} /\ \A x \in T \ U : tree[n].type = "transfer"
  BY <1>1 DEF OfType
<1>3. IsFiniteSet(T)
  BY <1>2, MonthsFinite
<1>4. (\A x \in Ids : v[x] = Series(rows, journal, x)[m] /\ v[x] \in Int) /\ (\A x \in Ids : w[x] = Series(rows', journal', x)[m])
  BY <1>1, HeldTyped
<1>5. Reserved(tree, rows, journal, m) = Total(v, T) /\ Reserved(tree', rows', journal', m) = Total(w, U)
  BY <1>1, ReservedHeld
<1>6. \A x \in U : w[x] = v[x]
  <2> HIDE DEF v, w
  <2> QED BY <1>2, <1>4
<1> HIDE DEF v, w, T, U
<1>7. (\A x \in T : v[x] \in Int) /\ (\A x \in T \ U : v[x] = 0)
  BY <1>2, <1>4
<1>8. Total(w, U) = Total(v, T)
  BY <1>2, <1>3, <1>6, <1>7, TotalLess
<1> QED BY <1>5, <1>8

LEMMA DeletedExplained ==
  ASSUME BookOK, Balanced, NEW n \in DOMAIN tree, DeleteNode(n), Keepers(tree, healed) = Leaves(tree),
         AllExplained(tree, rows, journal)
  PROVE  AllExplained(tree', rows', journal')
<1>1. /\ DOMAIN tree' = DOMAIN tree \ {n} /\ \A x \in DOMAIN tree' : tree'[x] = tree[x]
      /\ RowsTyped(rows) /\ RowsTyped(rows') /\ DOMAIN tree \subseteq Ids
      /\ \A r \in Figures : \A x \in Ids : rows'[r][x] = rows[r][x]
      /\ Numbered(journal') /\ Numbered(journal)
      /\ \A y \in journal' : \E x \in journal : Cut(tree', n, x, y)
      /\ \A x \in journal : n \notin {x.target, x.from, x.to} => x \in journal'
  BY DeletedBook DEF Balanced
<1> SUFFICES ASSUME NEW p \in Leaves(tree'), tree'[p].type = "expense", NEW m \in Months
             PROVE  rows'["actual"][p][m] = Moved({x \in journal' : x.target = p /\ x.month = m})
  BY DEF AllExplained, Explained
<1>2. p \in DOMAIN tree /\ p # n /\ p \in Ids /\ tree[p].type = "expense"
  BY <1>1 DEF Leaves
<1>3. Hanging(tree, rows, journal, healed)
  BY DEF BookOK
<1> DEFINE f == Targeted(journal, p, m)
           g == Targeted(journal', p, m)
<1>4. rows["actual"][p][m] = Total(f, journal)
  BY <1>1, <1>2, <1>3, ExplainedAll
<1>5. Moved({x \in journal' : x.target = p /\ x.month = m}) = Total(g, journal')
  BY <1>1, TargetedIs
<1>6. p \notin OfType(tree, "transfer")
  BY <1>2 DEF OfType
<1>7. ASSUME NEW x \in journal, x.from # NoEnd PROVE x.target # p /\ x.from # p
  <2>1. OfReserve(tree, x)
    BY <1>7 DEF Balanced, Paired
  <2>2. p # Available
    BY <1>2, IdsHave
  <2> QED BY <1>6, <2>1, <2>2 DEF OfReserve
<1>8. \A y \in journal' : \E x \in journal : x.id = y.id /\ g[y] = f[x]
  <2> TAKE y \in journal'
  <2>1. PICK x \in journal : Cut(tree', n, x, y)
    BY <1>1
  <2>2. CASE y = x
    BY <2>2 DEF Targeted
  <2>3. CASE y # x
    <3>1. x.from \in DOMAIN tree' /\ y.target = x.from
      BY <2>1, <2>3 DEF Cut
    <3>2. x.from # NoEnd
      BY <1>1, <3>1, IdsHave
    <3>3. x.target # p /\ y.target # p
      BY <1>7, <3>1, <3>2
    <3>4. f[x] = 0 /\ g[y] = 0
      BY <3>3 DEF Targeted
    <3> HIDE DEF f, g
    <3> QED BY <2>1, <3>4 DEF Cut
  <2> QED BY <2>2, <2>3
<1>9. \A x \in journal : f[x] = 0 \/ \E y \in journal' : x.id = y.id
  <2> TAKE x \in journal
  <2>1. CASE n \notin {x.target, x.from, x.to}
    BY <1>1, <2>1
  <2>2. CASE x.target = n
    BY <1>2, <2>2 DEF Targeted
  <2>3. CASE x.target # n /\ n \in {x.from, x.to}
    <3>1. x.from # NoEnd
      <4>1. n # NoEnd
        BY <1>1, IdsHave
      <4>2. {x.from, x.to} # {NoEnd}
        BY <2>3, <4>1
      <4>3. OfReserve(tree, x)
        BY <4>2 DEF Balanced, Paired
      <4>4. NoEnd \notin OfType(tree, "transfer") \cup {Available}
        BY <1>1, IdsHave DEF OfType
      <4> QED BY <4>3, <4>4 DEF OfReserve
    <3>2. x.target # p
      BY <1>7, <3>1
    <3> QED BY <3>2 DEF Targeted
  <2> QED BY <2>1, <2>2, <2>3
<1>10. \A x \in journal : f[x] \in Int
  BY <1>1, TargetedIs
<1>11. /\ IsFiniteSet(journal) /\ IsFiniteSet(journal')
       /\ \A x, y \in journal : x.id = y.id => x = y
       /\ \A x, y \in journal' : x.id = y.id => x = y
  BY <1>1 DEF Numbered
<1> HIDE DEF f, g
<1>12. Total(g, journal') = Total(f, journal)
  BY <1>8, <1>9, <1>10, <1>11, TotalMatched
<1> QED BY <1>1, <1>2, <1>4, <1>5, <1>12 DEF Figures

-----------------------------------------------------------------------------
(* The repairs of a load keep every sum.                                     *)

\* The nodes up to i whose journal the repairs gave to p, and p itself.
Givers(i, p) ==
  IF p \in Ceding /\ p <= i THEN {}
  ELSE {p} \cup {q \in Ceding : q <= i /\ FirstLeaf(tree, q) = p}

\* A repaired book b: what it adds up to, and of whom each node has what it holds.
AddsUp(b, type) ==
  \A m \in Months : \A r \in Figures :
    Total(Column(b.rows, r, m), OfType(tree, type)) = Total(Column(rows, r, m), OfType(tree, type))

HeldBy(b, i, m) ==
  /\ Total(Held(b.rows, b.journal, m), OfType(tree, "transfer"))
       = Total(Held(rows, journal, m), OfType(tree, "transfer"))
  /\ \A p \in Ids : Held(b.rows, b.journal, m)[p] = Total(Held(rows, journal, m), Givers(i, p))

Kept(b, i) ==
  /\ Mended(b, i) /\ Numbered(b.journal) /\ Paired(tree, b.journal)
  /\ \A type : AddsUp(b, type)
  /\ \A m \in Months : HeldBy(b, i, m)

LEMMA GiversNext ==
  ASSUME WellFormed(tree), DOMAIN tree \subseteq Ids, NEW i \in Ids, NEW p \in Ids
  PROVE  /\ i \notin Ceding => Givers(i, p) = Givers(i - 1, p)
         /\ i \in Ceding =>
              /\ p = i => Givers(i, p) = {}
              /\ p = FirstLeaf(tree, i) => /\ Givers(i, p) \ {i} = Givers(i - 1, p) /\ i \in Givers(i, p)
              /\ p # i /\ p # FirstLeaf(tree, i) => Givers(i, p) = Givers(i - 1, p)
              /\ Givers(i - 1, i) = {i}
         /\ \A k \in Nat : Givers(k, p) \subseteq Ids /\ IsFiniteSet(Givers(k, p))
<1>1. \A q \in Ceding : /\ q \in DOMAIN tree /\ q \in Ids /\ q \notin Leaves(tree)
                        /\ FirstLeaf(tree, q) \in Leaves(tree) /\ FirstLeaf(tree, q) \notin Ceding
  BY CedingHave
<1>2. i \in Nat /\ p \in Nat /\ \A q \in Ceding : q \in Nat
  BY <1>1, IdsHave
<1>3. \A q \in Nat : q <= i <=> q <= i - 1 \/ q = i
  BY <1>2
<1>4. ~(i <= i - 1)
  BY <1>2
<1>5. ASSUME i \notin Ceding PROVE Givers(i, p) = Givers(i - 1, p)
  <2>1. \A q \in Ceding : q <= i <=> q <= i - 1
    BY <1>2, <1>3, <1>5
  <2>2. p \in Ceding => (p <= i <=> p <= i - 1)
    BY <2>1
  <2> QED BY <2>1, <2>2 DEF Givers
<1>6. ASSUME i \in Ceding, p = i PROVE Givers(i, p) = {}
  BY <1>2, <1>6 DEF Givers
<1>7. ASSUME i \in Ceding, p = FirstLeaf(tree, i)
      PROVE  Givers(i, p) \ {i} = Givers(i - 1, p) /\ i \in Givers(i, p)
  <2>1. p \notin Ceding /\ p # i
    BY <1>1, <1>7
  <2>2. Givers(i, p) = {p} \cup {q \in Ceding : q <= i /\ FirstLeaf(tree, q) = p}
    BY <2>1 DEF Givers
  <2>3. Givers(i - 1, p) = {p} \cup {q \in Ceding : q <= i - 1 /\ FirstLeaf(tree, q) = p}
    BY <2>1 DEF Givers
  <2>4. \A q \in Ceding : q <= i /\ q # i <=> q <= i - 1
    BY <1>2, <1>3, <1>4
  <2>5. i <= i
    BY <1>2
  <2> QED BY <1>7, <2>1, <2>2, <2>3, <2>4, <2>5
<1>8. ASSUME i \in Ceding, p # i, p # FirstLeaf(tree, i) PROVE Givers(i, p) = Givers(i - 1, p)
  <2>1. \A q \in Ceding : q # i => (q <= i <=> q <= i - 1)
    BY <1>2, <1>3
  <2>2. p \in Ceding => (p <= i <=> p <= i - 1)
    BY <1>8, <2>1
  <2>3. {q \in Ceding : q <= i /\ FirstLeaf(tree, q) = p} = {q \in Ceding : q <= i - 1 /\ FirstLeaf(tree, q) = p}
    BY <1>4, <1>8, <2>1
  <2> QED BY <2>2, <2>3 DEF Givers
<1>9. ASSUME i \in Ceding PROVE Givers(i - 1, i) = {i}
  <2>1. \A q \in Ceding : FirstLeaf(tree, q) # i
    BY <1>1, <1>9
  <2> QED BY <1>4, <2>1 DEF Givers
<1>10. ASSUME NEW k \in Nat PROVE Givers(k, p) \subseteq Ids /\ IsFiniteSet(Givers(k, p))
  <2>1. Givers(k, p) \subseteq Ids
    BY <1>1 DEF Givers
  <2> QED BY <2>1, MonthsFinite
<1> QED BY <1>5, <1>6, <1>7, <1>8, <1>9, <1>10

LEMMA PocketRepairedKeeps ==
  ASSUME WellFormed(tree), DOMAIN tree \subseteq Ids, RowsTyped(rows), Numbered(journal),
         NEW i \in Ids, i \in Ceding, NEW b, Kept(b, i - 1)
  PROVE  Kept(PocketRepaired(b, i), i)
<1> DEFINE to == FirstLeaf(tree, i)
           which == {"plan"} \cup Comments
           rs == Joined(b.rows, i, to, which)
           j == Repointed(tree, b.journal, i, to)
           k == PocketRepaired(b, i)
<1>1. k.rows = rs /\ k.journal = j
  BY DEF PocketRepaired
<1>2. /\ i \in DOMAIN tree /\ i \notin Leaves(tree) /\ to \in Leaves(tree) /\ to \in Ids
      /\ to \in DOMAIN tree /\ i # to
  BY CedingHave
<1>3. tree[to].type = tree[i].type
  BY <1>2, FirstLeafType
<1>4. Mended(k, i)
  BY PocketRepairedMends DEF Kept
<1>5. RowsTyped(b.rows) /\ JournalTyped(b.journal) /\ Numbered(b.journal) /\ Paired(tree, b.journal)
  BY DEF Kept, Mended
<1> HIDE DEF k, to
<1>6. Combined(b.rows, rs, i, to)
  <2>1. ASSUME NEW r \in Figures PROVE r \in which \/ b.rows[r][i] = Empty
    BY <1>2 DEF Kept, Mended, Nothing
  <2> HIDE DEF which, rs
  <2>2. Combined(b.rows, Joined(b.rows, i, to, which), i, to)
    BY <1>2, <1>5, <2>1, JoinedCombined
  <2> QED BY <2>2 DEF rs
<1>7. Numbered(j) /\ Carried(b.journal, j, i, to)
  BY <1>2, <1>5, RepointedCarries
<1>8. Regrown(tree, tree, i, to)
  BY <1>2, <1>3 DEF Regrown
<1> HIDE DEF rs, j
<1>9. Paired(tree, j)
  BY <1>2, <1>5, <1>7, <1>8, PairedKept
<1>10. RowsTyped(rs)
  BY <1>1, <1>4 DEF Mended
<1>11. ASSUME NEW type PROVE AddsUp(k, type)
  <2> SUFFICES ASSUME NEW m \in Months, NEW r \in Figures
               PROVE  Total(Column(rs, r, m), OfType(tree, type)) = Total(Column(rows, r, m), OfType(tree, type))
    BY <1>1 DEF AddsUp
  <2> DEFINE v == Column(b.rows, r, m)
  <2>1. Column(rs, r, m) = After(v, i, to)
    BY <1>6 DEF Combined
  <2>2. \A n \in Ids : v[n] \in Int
    BY <1>5, ColumnTyped
  <2>3. Total(v, OfType(tree, type)) = Total(Column(rows, r, m), OfType(tree, type))
    BY DEF Kept, AddsUp
  <2> HIDE DEF v
  <2>4. \A n \in DOMAIN tree \ DOMAIN tree : v[n] = 0
    OBVIOUS
  <2>5. Total(After(v, i, to), OfType(tree, type)) = Total(v, OfType(tree, type))
    BY <1>2, <1>8, <2>2, <2>4, HandedSum
  <2> QED BY <2>1, <2>3, <2>5
<1>12. ASSUME NEW m \in Months PROVE HeldBy(k, i, m)
  <2> DEFINE f == Held(rows, journal, m)
             v == Held(b.rows, b.journal, m)
             w == Held(rs, j, m)
             T == OfType(tree, "transfer")
  <2>1. w = After(v, i, to)
    BY <1>2, <1>5, <1>6, <1>7, <1>10, CombinedSeries
  <2>2. (\A n \in Ids : v[n] \in Int) /\ (\A n \in Ids : f[n] \in Int)
    BY <1>5, HeldTyped
  <2>3. Total(v, T) = Total(f, T) /\ \A p \in Ids : v[p] = Total(f, Givers(i - 1, p))
    BY DEF Kept, HeldBy
  <2>4. Held(k.rows, k.journal, m) = w
    BY <1>1
  <2> HIDE DEF v, w, f
  <2>5. Total(w, T) = Total(v, T)
    <3>1. \A n \in DOMAIN tree \ DOMAIN tree : v[n] = 0
      OBVIOUS
    <3> QED BY <1>2, <1>8, <2>1, <2>2, <3>1, HandedSum
  <2>6. ASSUME NEW p \in Ids PROVE w[p] = Total(f, Givers(i, p))
    <3>1. CASE p = i
      <4>1. w[p] = 0
        BY <1>2, <2>1, <3>1 DEF After
      <4>2. Givers(i, p) = {}
        BY <3>1, GiversNext
      <4> QED BY <4>1, <4>2, TotalEmpty
    <3>2. CASE p = to
      <4>1. w[p] = v[i] + v[p]
        BY <1>2, <2>1, <3>2 DEF After
      <4>2. /\ Givers(i, p) \ {i} = Givers(i - 1, p) /\ i \in Givers(i, p)
            /\ Givers(i - 1, i) = {i}
        BY <3>2, GiversNext DEF to
      <4>3. Givers(i, p) \subseteq Ids /\ IsFiniteSet(Givers(i, p))
        <5>1. i \in Nat
          BY IdsHave
        <5> QED BY <5>1, GiversNext
      <4>4. v[i] = f[i]
        <5>1. v[i] = Total(f, {i})
          BY <2>3, <4>2
        <5> QED BY <2>2, <5>1, TotalSingle
      <4>5. \A x \in Givers(i, p) : f[x] \in Int
        BY <2>2, <4>3
      <4>6. Total(f, Givers(i, p)) = f[i] + Total(f, Givers(i, p) \ {i})
        BY <4>2, <4>3, <4>5, TotalRemove
      <4> QED BY <2>3, <4>1, <4>2, <4>4, <4>6
    <3>3. CASE p # i /\ p # to
      <4>1. w[p] = v[p]
        BY <1>2, <2>1, <3>3 DEF After
      <4>2. Givers(i, p) = Givers(i - 1, p)
        BY <3>3, GiversNext DEF to
      <4> QED BY <2>3, <4>1, <4>2
    <3> QED BY <3>1, <3>2, <3>3
  <2> QED BY <2>3, <2>4, <2>5, <2>6 DEF HeldBy, f
<1> QED BY <1>1, <1>4, <1>7, <1>9, <1>11, <1>12 DEF Kept, k

LEMMA NothingKept ==
  ASSUME WellFormed(tree), DOMAIN tree \subseteq Ids, NEW h, Hanging(tree, rows, journal, h),
         Numbered(journal), Paired(tree, journal)
  PROVE  Kept([rows |-> rows, journal |-> journal], 0)
<1> DEFINE b == [rows |-> rows, journal |-> journal]
<1>1. b.rows = rows /\ b.journal = journal
  OBVIOUS
<1>2. Mended(b, 0)
  BY NothingMended
<1> HIDE DEF b
<1>3. \A type : AddsUp(b, type)
  BY <1>1 DEF AddsUp
<1>4. RowsTyped(rows)
  BY DEF Hanging
<1>5. ASSUME NEW p \in Ids PROVE Givers(0, p) = {p}
  <2>1. \A q \in Ceding : q \in Ids
    BY CedingHave
  <2>2. \A q \in Ids : ~(q <= 0)
    BY TreeAssumption DEF Ids
  <2> QED BY <2>1, <2>2 DEF Givers
<1>6. ASSUME NEW m \in Months PROVE HeldBy(b, 0, m)
  <2> DEFINE f == Held(rows, journal, m)
  <2>1. \A p \in Ids : f[p] \in Int
    BY <1>4, HeldTyped
  <2> HIDE DEF f
  <2>2. \A p \in Ids : f[p] = Total(f, {p})
    BY <2>1, TotalSingle
  <2>3. \A p \in Ids : f[p] = Total(f, Givers(0, p))
    BY <1>5, <2>2
  <2> QED BY <1>1, <2>3 DEF HeldBy, f
<1>7. Kept(b, 0)
  BY <1>1, <1>2, <1>3, <1>6 DEF Kept
<1> QED BY <1>7 DEF b

LEMMA PocketsKept ==
  ASSUME WellFormed(tree), DOMAIN tree \subseteq Ids, NEW h, Hanging(tree, rows, journal, h),
         Numbered(journal), Paired(tree, journal)
  PROVE  Kept(PocketsRepaired(rows, journal), MaxNode)
<1>1. RowsTyped(rows) /\ JournalTyped(journal)
  BY DEF Hanging
<1>2. PICK c : MendsPockets(c) /\ PocketsRepaired(rows, journal) = c[MaxNode]
  BY <1>1, PocketsMended
<1>3. MaxNode \in Nat /\ Ids \subseteq Nat
  BY TreeAssumption DEF Ids
<1>4. Kept([rows |-> rows, journal |-> journal], 0)
  BY NothingKept
<1> DEFINE S == {i \in 0 .. MaxNode : Kept(c[i], i)}
<1>5. 0 \in S
  BY <1>2, <1>3, <1>4 DEF MendsPockets
<1>6. ASSUME NEW i \in 0 .. MaxNode, i \in S, i + 1 <= MaxNode PROVE i + 1 \in S
  <2>1. i + 1 \in Ids /\ (i + 1) - 1 = i /\ i + 1 \in 0 .. MaxNode /\ i \in Nat
    BY <1>3, <1>6 DEF Ids
  <2>2. c[i + 1] = IF i + 1 \in Ceding THEN PocketRepaired(c[i], i + 1) ELSE c[i]
    BY <1>2, <2>1 DEF MendsPockets
  <2>3. Kept(c[i], i)
    BY <1>6
  <2>4. CASE i + 1 \in Ceding
    <3>1. Kept(PocketRepaired(c[i], i + 1), i + 1)
      BY <1>1, <2>1, <2>3, <2>4, PocketRepairedKeeps
    <3> QED BY <2>1, <2>2, <2>4, <3>1
  <2>5. CASE i + 1 \notin Ceding
    <3>1. Mended(c[i], i + 1)
      BY <2>1, <2>3, <2>5, MendedNext DEF Kept
    <3>2. \A p \in Ids : Givers(i + 1, p) = Givers(i, p)
      BY <2>1, <2>5, GiversNext
    <3>3. \A m \in Months : HeldBy(c[i], i + 1, m)
      BY <2>3, <3>2 DEF Kept, HeldBy
    <3>4. Kept(c[i], i + 1)
      BY <2>3, <3>1, <3>3 DEF Kept
    <3> QED BY <2>1, <2>2, <2>5, <3>4
  <2> QED BY <2>4, <2>5
<1>7. \A i \in 0 .. MaxNode : i \in S
  <2> HIDE DEF S
  <2> QED BY <1>3, <1>5, <1>6, UpTo
<1> QED BY <1>2, <1>3, <1>7

\* After a load every type adds up to what it did, the reserves too, and each node
\* holds what it and its givers held.
LEMMA LoadKeeps ==
  ASSUME BookOK, Balanced, Load
  PROVE  /\ Numbered(journal') /\ Paired(tree', journal')
         /\ \A m \in Months :
              /\ \A type : \A r \in Figures :
                   Total(Column(rows', r, m), OfType(tree, type)) = Total(Column(rows, r, m), OfType(tree, type))
              /\ Total(Held(rows', journal', m), OfType(tree, "transfer"))
                   = Total(Held(rows, journal, m), OfType(tree, "transfer"))
              /\ \A p \in Ids : Series(rows', journal', p)[m]
                                  = Total(Held(rows, journal, m), Givers(MaxNode, p))
<1> DEFINE b == PocketsRepaired(rows, journal)
           j == Relabelled(tree, b.journal)
<1>1. /\ WellFormed(tree) /\ DOMAIN tree \subseteq Ids /\ Hanging(tree, rows, journal, healed)
  BY TreeIds DEF BookOK, TreeOK
<1>2. /\ tree' = tree /\ rows' = CommentsRepaired(b.rows) /\ journal' = j
  BY DEF Load
<1>3. Kept(b, MaxNode)
  BY <1>1, PocketsKept DEF Balanced
<1> HIDE DEF b
<1>4. /\ RowsTyped(b.rows) /\ JournalTyped(b.journal) /\ Numbered(b.journal) /\ Paired(tree, b.journal)
      /\ \A x \in b.journal : x.from = NoEnd \/ x.from # x.to
  BY <1>3 DEF Kept, Mended
<1>5. RowsTyped(rows') /\ \A r \in Figures, n \in Ids : rows'[r][n] = b.rows[r][n]
  BY <1>1, <1>2, <1>4, CommentsHang
<1>6. PICK z : z \in Ids
  BY TreeAssumption DEF Ids
<1>7. Carried(b.journal, b.journal, z, z)
  BY <1>4, SameCarried
<1>8. Numbered(j) /\ Carried(b.journal, j, z, z)
  BY <1>4, <1>6, <1>7, RelabelledCarries
<1>9. Combined(b.rows, rows', z, z)
  BY <1>5, SameCombined
<1>10. Regrown(tree, tree, z, z)
  BY <1>1 DEF Regrown
<1> HIDE DEF j
<1>11. Paired(tree, j)
  BY <1>4, <1>6, <1>8, <1>10, PairedKept
<1>12. ASSUME NEW m \in Months, NEW type, NEW r \in Figures
       PROVE  Total(Column(rows', r, m), OfType(tree, type)) = Total(Column(rows, r, m), OfType(tree, type))
  <2> DEFINE v == Column(b.rows, r, m)
             w == Column(rows', r, m)
             T == OfType(tree, type)
  <2>1. \A n \in Ids : v[n] \in Int /\ w[n] = v[n]
    BY <1>4, <1>5, ColumnTyped DEF Column
  <2>2. T \subseteq Ids /\ IsFiniteSet(T)
    BY <1>1, MonthsFinite DEF OfType
  <2>3. Total(v, T) = Total(Column(rows, r, m), T)
    BY <1>3 DEF Kept, AddsUp
  <2> HIDE DEF v, w, T
  <2>4. (\A n \in T : v[n] \in Int) /\ (\A n \in T : w[n] = v[n])
    BY <2>1, <2>2
  <2>5. Total(w, T) = Total(v, T)
    BY <2>2, <2>4, TotalSame
  <2> QED BY <2>3, <2>5 DEF v, w, T
<1>13. ASSUME NEW m \in Months
       PROVE  /\ Total(Held(rows', journal', m), OfType(tree, "transfer"))
                   = Total(Held(rows, journal, m), OfType(tree, "transfer"))
              /\ \A p \in Ids : Series(rows', journal', p)[m]
                                  = Total(Held(rows, journal, m), Givers(MaxNode, p))
  <2> DEFINE f == Held(rows, journal, m)
             v == Held(b.rows, b.journal, m)
             w == Held(rows', journal', m)
             T == OfType(tree, "transfer")
  <2>1. w = After(v, z, z)
    BY <1>2, <1>4, <1>5, <1>6, <1>8, <1>9, CombinedSeries
  <2>2. \A n \in Ids : v[n] \in Int
    BY <1>4, HeldTyped
  <2>3. \A n \in Ids : w[n] = Series(rows', journal', n)[m]
    BY DEF Held
  <2>4. Total(v, T) = Total(f, T) /\ \A p \in Ids : v[p] = Total(f, Givers(MaxNode, p))
    BY <1>3 DEF Kept, HeldBy
  <2>5. T \subseteq Ids /\ IsFiniteSet(T)
    BY <1>1, MonthsFinite DEF OfType
  <2> HIDE DEF v, w, T, f
  <2>6. \A n \in Ids : w[n] = v[n]
    BY <2>1 DEF After
  <2>7. (\A n \in T : v[n] \in Int) /\ (\A n \in T : w[n] = v[n])
    BY <2>2, <2>5, <2>6
  <2>8. Total(w, T) = Total(v, T)
    BY <2>5, <2>7, TotalSame
  <2> QED BY <2>3, <2>4, <2>6, <2>8 DEF v, w, T, f
<1> QED BY <1>2, <1>8, <1>11, <1>12, <1>13

-----------------------------------------------------------------------------
(* What is entered leaves no pocket below zero.                              *)

\* A movement has a number that no other has.
LEMMA FreshNumber ==
  ASSUME Numbered(journal)
  PROVE  LET id == Min((1..Cardinality(journal) + 1) \ {x.id : x \in journal})
         IN  id \in Nat \ {0} /\ \A x \in journal : x.id # id
<1> DEFINE c == Cardinality(journal)
           taken == {x.id : x \in journal}
           free == (1..c + 1) \ taken
           f == [x \in journal |-> x.id]
<1>1. IsFiniteSet(journal) /\ c \in Nat
  BY FS_CardinalityType DEF Numbered
<1>2. f \in Surjection(journal, taken)
  BY DEF Surjection
<1>3. IsFiniteSet(taken) /\ Cardinality(taken) <= c /\ Cardinality(taken) \in Nat
  <2> HIDE DEF f, taken
  <2> QED BY <1>1, <1>2, FS_Surjection, FS_CardinalityType
<1>4. free # {}
  <2> SUFFICES ASSUME free = {} PROVE FALSE
    OBVIOUS
  <2>1. (1..c + 1) \in SUBSET taken
    <3> HIDE DEF taken
    <3> QED OBVIOUS
  <2> HIDE DEF c, taken
  <2>2. Cardinality(1..c + 1) <= Cardinality(taken)
    BY <1>3, <2>1, FS_Subset
  <2>3. Cardinality(1..c + 1) = c + 1
    <3>1. 1 \in Int /\ c + 1 \in Int /\ ~(1 > c + 1) /\ c + 1 - 1 + 1 = c + 1
      BY <1>1
    <3> QED BY <3>1, FS_Interval
  <2> QED BY <1>1, <1>3, <2>2, <2>3
<1>5. free \subseteq Nat \ {0}
  BY <1>1
<1>6. Min(free) \in free
  <2> HIDE DEF free
  <2>1. \E x \in free : \A y \in free : x <= y
    BY <1>4, <1>5, Least
  <2> QED BY <2>1 DEF Min
<1> QED BY <1>5, <1>6 DEF free, taken, c

\* One movement more.
OneAdded(n, from, to, m, amount) ==
  \E x : /\ x \notin journal /\ journal' = journal \cup {x}
         /\ x.target = n /\ x.from = from /\ x.to = to /\ x.month = m /\ x.amount = amount

LEMMA JournaledAdds ==
  ASSUME Numbered(journal), NEW n, NEW from, NEW to, NEW m \in Months, NEW amount \in Int,
         Journaled(n, from, to, m, amount)
  PROVE  Numbered(journal') /\ OneAdded(n, from, to, m, amount)
<1> DEFINE id == Min((1..Cardinality(journal) + 1) \ {x.id : x \in journal})
<1>1. id \in Nat \ {0} /\ \A x \in journal : x.id # id
  BY FreshNumber
<1>2. journal' = journal \cup {[id |-> id, target |-> n, cat |-> CatOf(tree, n), sub |-> SubOf(tree, n),
                                from |-> from, to |-> to, month |-> m, amount |-> amount]}
  BY DEF Journaled
<1> HIDE DEF id
<1>3. PICK x : x = [id |-> id, target |-> n, cat |-> CatOf(tree, n), sub |-> SubOf(tree, n),
                    from |-> from, to |-> to, month |-> m, amount |-> amount]
  OBVIOUS
<1>4. /\ x.id = id /\ x.target = n /\ x.from = from /\ x.to = to /\ x.month = m /\ x.amount = amount
      /\ journal' = journal \cup {x}
  BY <1>2, <1>3
<1>5. x \notin journal
  BY <1>1, <1>4
<1>6. IsFiniteSet(journal')
  BY <1>4, FS_AddElement DEF Numbered
<1>7. \A y, z \in journal' : y.id = z.id => y = z
  BY <1>1, <1>4 DEF Numbered
<1>8. \A y \in journal' : y.id \in Nat \ {0} /\ y.month \in Months /\ y.amount \in Int
  BY <1>1, <1>4 DEF Numbered
<1>9. Numbered(journal')
  BY <1>6, <1>7, <1>8 DEF Numbered
<1> QED BY <1>4, <1>5, <1>9 DEF OneAdded

\* No month changes pocket p by less than before.
Raised(p) == \A i \in Months : Change(rows, journal, p, i) <= Change(rows', journal', p, i)

LEMMA RaisedHolds ==
  ASSUME RowsTyped(rows), Numbered(journal), RowsTyped(rows'), Numbered(journal'), NEW p \in Ids, Raised(p),
         NEW m \in Months
  PROVE  Series(rows, journal, p)[m] <= Series(rows', journal', p)[m]
<1> DEFINE f == Changes(rows, journal, p)
           g == Changes(rows', journal', p)
<1>1. \A i \in Months : f[i] \in Int /\ g[i] \in Int /\ f[i] <= g[i]
  BY ChangeIs DEF Changes, Raised
<1>2. Series(rows, journal, p)[m] = Total(f, 1..m) /\ Series(rows', journal', p)[m] = Total(g, 1..m)
  BY SeriesIs
<1>3. IsFiniteSet(1..m) /\ 1..m \subseteq Months
  BY MonthsFinite
<1> HIDE DEF f, g
<1>4. (\A i \in 1..m : f[i] \in Int) /\ (\A i \in 1..m : g[i] \in Int /\ f[i] <= g[i])
  BY <1>1, <1>3
<1>5. Total(f, 1..m) <= Total(g, 1..m)
  BY <1>3, <1>4, TotalMonotone
<1> QED BY <1>2, <1>5

LEMMA RaisedCells ==
  ASSUME RowsTyped(rows), Numbered(journal), RowsTyped(rows'), NEW p \in Ids, journal' = journal,
         \A i \in Months : rows["actual"][p][i] <= rows'["actual"][p][i]
  PROVE  Raised(p)
<1> SUFFICES ASSUME NEW i \in Months PROVE Change(rows, journal, p, i) <= Change(rows', journal, p, i)
  BY DEF Raised
<1>1. /\ Change(rows, journal, p, i) = rows["actual"][p][i] + Total(Effects(journal, p, i), journal)
      /\ Change(rows', journal, p, i) = rows'["actual"][p][i] + Total(Effects(journal, p, i), journal)
      /\ rows["actual"][p][i] \in Nat /\ rows'["actual"][p][i] \in Nat
  BY ChangeIs
<1>2. Total(Effects(journal, p, i), journal) \in Int
  BY EffectsInt
<1>3. rows["actual"][p][i] <= rows'["actual"][p][i]
  OBVIOUS
<1> QED BY <1>1, <1>2, <1>3

LEMMA RaisedBy ==
  ASSUME RowsTyped(rows), Numbered(journal), RowsTyped(rows'), Numbered(journal'), NEW p \in Ids,
         NEW x, x \notin journal, journal' = journal \cup {x},
         \A i \in Months : rows["actual"][p][i] <= rows'["actual"][p][i] + Effect(x, p, i)
  PROVE  Raised(p)
<1> SUFFICES ASSUME NEW i \in Months PROVE Change(rows, journal, p, i) <= Change(rows', journal', p, i)
  BY DEF Raised
<1> DEFINE f == Effects(journal, p, i)
           g == Effects(journal', p, i)
<1>1. /\ Change(rows, journal, p, i) = rows["actual"][p][i] + Total(f, journal)
      /\ Change(rows', journal', p, i) = rows'["actual"][p][i] + Total(g, journal')
      /\ rows["actual"][p][i] \in Nat /\ rows'["actual"][p][i] \in Nat
  BY ChangeIs
<1>2. /\ Total(f, journal) \in Int
      /\ \A y \in journal : f[y] = Effect(y, p, i) /\ f[y] \in Int
      /\ \A y \in journal' : g[y] = Effect(y, p, i) /\ g[y] \in Int
  BY EffectsInt
<1>3. rows["actual"][p][i] <= rows'["actual"][p][i] + Effect(x, p, i)
  OBVIOUS
<1>4. IsFiniteSet(journal) /\ IsFiniteSet(journal') /\ x \in journal' /\ journal' \ {x} = journal
  BY DEF Numbered
<1>5. g[x] = Effect(x, p, i) /\ g[x] \in Int
  BY <1>2, <1>4
<1> HIDE DEF f, g
<1>6. Total(g, journal') = g[x] + Total(g, journal' \ {x})
  BY <1>2, <1>4, TotalRemove
<1>7. Total(g, journal) = Total(f, journal)
  BY <1>2, <1>4, TotalSame
<1>8. Total(g, journal') = Effect(x, p, i) + Total(f, journal) /\ Effect(x, p, i) \in Int
  BY <1>4, <1>5, <1>6, <1>7
<1> QED BY <1>1, <1>2, <1>3, <1>8

LEMMA PutHas ==
  ASSUME RowsTyped(rows), NEW r \in Rows, NEW n \in Ids, NEW m \in Months, NEW v, Put(r, n, m, v)
  PROVE  \A p \in Ids, i \in Months :
           rows'["actual"][p][i] = IF r = "actual" /\ p = n /\ i = m THEN v ELSE rows["actual"][p][i]
<1>1. rows \in [Rows -> [Ids -> [Months -> Nat]]] /\ "actual" \in Rows
  BY DEF RowsTyped, Rows
<1>2. rows' = [rows EXCEPT ![r] = [rows[r] EXCEPT ![n] = [rows[r][n] EXCEPT ![m] = v]]]
  BY DEF Put
<1>3. rows'["actual"] = IF r = "actual" THEN [rows["actual"] EXCEPT ![n] = [rows["actual"][n] EXCEPT ![m] = v]] ELSE rows["actual"]
  BY <1>1, <1>2
<1>4. CASE r = "actual"
  <2>1. rows["actual"] \in [Ids -> [Months -> Nat]]
    BY <1>1
  <2>2. \A p \in Ids : rows'["actual"][p] = IF p = n THEN [rows["actual"][n] EXCEPT ![m] = v] ELSE rows["actual"][p]
    BY <1>3, <1>4, <2>1
  <2>3. rows["actual"][n] \in [Months -> Nat]
    BY <2>1
  <2> QED BY <1>4, <2>2, <2>3
<1>5. CASE r # "actual"
  BY <1>3, <1>5
<1> QED BY <1>4, <1>5

\* An entry keeps the journal in order; a pocket is checked, or no month of it falls.
EntryKeeps ==
  /\ Numbered(journal') /\ Paired(tree, journal')
  /\ \A p \in OfType(tree, "transfer") : NotBelow(rows', journal', p) \/ Raised(p)

LEMMA SameJournal ==
  ASSUME BookOK, RowsTyped(rows'), Balanced, journal' = journal,
         \A p \in OfType(tree, "transfer") :
           \/ NotBelow(rows', journal', p)
           \/ \A i \in Months : rows["actual"][p][i] <= rows'["actual"][p][i]
  PROVE  EntryKeeps
<1>1. RowsTyped(rows) /\ OfType(tree, "transfer") \subseteq Ids
  BY TreeIds DEF BookOK, Hanging, OfType
<1>2. ASSUME NEW p \in OfType(tree, "transfer"), \A i \in Months : rows["actual"][p][i] <= rows'["actual"][p][i]
      PROVE  Raised(p)
  BY <1>1, <1>2, RaisedCells DEF Balanced
<1> QED BY <1>2 DEF EntryKeeps, Balanced

\* The ends of a movement entered on node n: none, or those of a pocket's operation.
Booked(n, from, to) ==
  \/ from = NoEnd /\ to = NoEnd
  \/ /\ {from, to} \subseteq OfType(tree, "transfer") \cup {Available} /\ from # to
     /\ (to = Available => n = from) /\ (to # Available => n = to)

LEMMA OneMore ==
  ASSUME BookOK, RowsTyped(rows'), Balanced,
         NEW n \in Ids, NEW from, NEW to, NEW m \in Months, NEW amount \in Int, Journaled(n, from, to, m, amount),
         Booked(n, from, to),
         \A p \in OfType(tree, "transfer") :
           \/ NotBelow(rows', journal', p)
           \/ \A i \in Months :
                rows["actual"][p][i] - (IF from = p /\ i = m THEN amount ELSE 0)
                  + (IF to = p /\ from \in Ids /\ i = m THEN amount ELSE 0) >= rows["actual"][p][i]
              /\ rows["actual"][p][i] <= rows'["actual"][p][i]
  PROVE  EntryKeeps
<1>1. RowsTyped(rows) /\ OfType(tree, "transfer") \subseteq Ids /\ Numbered(journal)
  BY TreeIds DEF BookOK, Hanging, OfType, Balanced
<1>7. OneAdded(n, from, to, m, amount)
  BY <1>1, JournaledAdds
<1>2. PICK x : /\ x \notin journal /\ journal' = journal \cup {x}
               /\ x.target = n /\ x.from = from /\ x.to = to /\ x.month = m /\ x.amount = amount
  BY <1>7 DEF OneAdded
<1>3. Numbered(journal')
  BY <1>1, JournaledAdds
<1>4. {x.from, x.to} = {NoEnd} \/ OfReserve(tree, x)
  BY <1>2 DEF OfReserve, Booked
<1>5. Paired(tree, journal')
  BY <1>2, <1>4 DEF Balanced, Paired
<1>6. ASSUME NEW p \in OfType(tree, "transfer"), ~NotBelow(rows', journal', p) PROVE Raised(p)
  <2>1. p \in Ids
    BY <1>1
  <2>2. ASSUME NEW i \in Months PROVE rows["actual"][p][i] <= rows'["actual"][p][i] + Effect(x, p, i)
    <3>1. rows["actual"][p][i] \in Nat /\ rows'["actual"][p][i] \in Nat
      BY <1>1, <2>1 DEF RowsTyped, Rows
    <3>2. Effect(x, p, i) = (IF to = p /\ from \in Ids /\ i = m THEN amount ELSE 0)
                              - (IF from = p /\ i = m THEN amount ELSE 0)
      BY <1>2 DEF Effect, Gains, Loses
    <3>3. /\ rows["actual"][p][i] - (IF from = p /\ i = m THEN amount ELSE 0)
               + (IF to = p /\ from \in Ids /\ i = m THEN amount ELSE 0) >= rows["actual"][p][i]
          /\ rows["actual"][p][i] <= rows'["actual"][p][i]
      BY <1>6
    <3> QED BY <3>1, <3>2, <3>3
  <2> QED BY <1>1, <1>2, <1>3, <2>1, <2>2, RaisedBy DEF Balanced
<1> QED BY <1>3, <1>5, <1>6 DEF EntryKeeps

LEMMA EntriesKeep ==
  ASSUME BookOK, Balanced, Entries
  PROVE  EntryKeeps
<1> DEFINE P == OfType(tree, "transfer")
<1>1. /\ RowsTyped(rows) /\ RowsTyped(rows') /\ Leaves(tree) \subseteq Ids /\ P \subseteq Ids
      /\ \A n : n \in Leaves(tree) => n \in DOMAIN tree
  BY TreeIds, LeavesHave, EntriesHang DEF BookOK, Hanging, OfType
<1>2. "budget" \in Rows /\ "actual" \in Rows /\ "plan" \in Rows /\ Comments \subseteq Rows /\ "actual" \notin Comments
  BY DEF Rows, Comments
<1>3. \A p \in Ids, i \in Months : rows["actual"][p][i] \in Nat
  BY <1>1 DEF RowsTyped, Rows
<1>4. \A p \in P : p # NoEnd /\ p # Available /\ tree[p].type = "transfer"
  BY <1>1, IdsHave DEF OfType
<1>5. 1 \in Int /\ 0..1 \subseteq Int
  OBVIOUS
<1>6. NoEnd \notin Ids /\ Available \notin Ids /\ NoEnd # Available
  BY IdsHave
<1> HIDE DEF P
\* A cell that is none of the real ones.
<1>7. ASSUME NEW r \in Rows, r # "actual", NEW n \in Ids, NEW m \in Months, NEW v, Put(r, n, m, v), journal' = journal
      PROVE  EntryKeeps
  <2>1. \A p \in Ids, i \in Months : rows'["actual"][p][i] = rows["actual"][p][i]
    BY <1>1, <1>7, PutHas
  <2>2. \A p \in P : \A i \in Months : rows["actual"][p][i] <= rows'["actual"][p][i]
    BY <1>1, <1>3, <2>1
  <2> QED BY <1>1, <1>7, <2>2, SameJournal DEF P
<1>8. ASSUME NEW n \in DOMAIN tree, NEW m \in Months, NEW v \in 0..1, SetLeafAmount(n, m, v) PROVE EntryKeeps
  BY <1>1, <1>2, <1>7, <1>8 DEF SetLeafAmount, Entry
<1>9. ASSUME NEW n \in DOMAIN tree, NEW m \in Months, PlanRetiro(n, m) PROVE EntryKeeps
  BY <1>1, <1>2, <1>7, <1>9 DEF PlanRetiro, Entry
<1>10. ASSUME NEW n \in DOMAIN tree, NEW m \in Months, NEW r \in Comments, AddNote(n, r, m) PROVE EntryKeeps
  <2>1. n \in Leaves(tree) /\ Put(r, n, m, rows[r][n][m] + 1) /\ journal' = journal
    BY <1>10 DEF AddNote
  <2> QED BY <1>1, <1>2, <1>7, <2>1
\* Expenses: no pocket is touched.
<1>11. ASSUME NEW n \in Ids, tree[n].type = "expense", NEW m \in Months, NEW v, Put("actual", n, m, v),
              NEW amount \in Int, Journaled(n, NoEnd, NoEnd, m, amount)
       PROVE  EntryKeeps
  <2>1. \A p \in P : p # n
    BY <1>4, <1>11
  <2>2. \A p \in P, i \in Months : rows'["actual"][p][i] = rows["actual"][p][i]
    BY <1>1, <1>2, <1>11, <2>1, PutHas
  <2>3. ASSUME NEW p \in P, NEW i \in Months
        PROVE  rows["actual"][p][i] - (IF NoEnd = p /\ i = m THEN amount ELSE 0)
                 + (IF NoEnd = p /\ NoEnd \in Ids /\ i = m THEN amount ELSE 0) >= rows["actual"][p][i]
               /\ rows["actual"][p][i] <= rows'["actual"][p][i]
    <3>1. rows["actual"][p][i] \in Nat /\ NoEnd # p
      BY <1>1, <1>3, <1>4
    <3> QED BY <2>2, <3>1
  <2>4. Booked(n, NoEnd, NoEnd)
    BY DEF Booked
  <2> QED BY <1>1, <1>11, <2>3, <2>4, OneMore DEF P
<1>12. ASSUME NEW n \in DOMAIN tree, NEW m \in Months, NEW v \in 0..1, AdjustCell(n, m, v) PROVE EntryKeeps
  <2> DEFINE diff == v - Moved({x \in journal : x.target = n /\ x.month = m})
  <2>1. /\ n \in Leaves(tree) /\ tree[n].type = "expense" /\ Put("actual", n, m, v)
        /\ Journaled(n, NoEnd, NoEnd, m, diff)
    BY <1>12 DEF AdjustCell, Entry
  <2>2. diff \in Int
    <3>1. Moved({x \in journal : x.target = n /\ x.month = m}) = Total(Targeted(journal, n, m), journal)
      BY TargetedIs DEF Balanced
    <3>2. Total(Targeted(journal, n, m), journal) \in Int
      BY TargetedIs, TotalInt DEF Balanced, Numbered
    <3> QED BY <1>5, <3>1, <3>2
  <2> HIDE DEF diff
  <2> QED BY <1>1, <1>11, <2>1, <2>2
<1>13. ASSUME NEW n \in DOMAIN tree, NEW m \in Months, AddMovement(n, m) PROVE EntryKeeps
  <2>1. /\ n \in Leaves(tree) /\ tree[n].type = "expense" /\ Put("actual", n, m, rows["actual"][n][m] + 1)
        /\ Journaled(n, NoEnd, NoEnd, m, 1)
    BY <1>13 DEF AddMovement, Entry
  <2> QED BY <1>1, <1>5, <1>11, <2>1
\* Pockets.
<1>14. ASSUME NEW n \in DOMAIN tree, NEW m \in Months, NEW v \in 0..1, NEW r \in {"budget", "actual"},
              SetPocketAmount(n, r, m, v)
       PROVE  EntryKeeps
  <2>1. /\ n \in Ids /\ Put(r, n, m, v) /\ journal' = journal /\ (r = "actual" => NotBelow(rows', journal', n))
    BY <1>1, <1>14 DEF SetPocketAmount, Entry
  <2>2. CASE r # "actual"
    BY <1>2, <1>7, <2>1, <2>2
  <2>3. CASE r = "actual"
    <3>1. ASSUME NEW p \in P, p # n, NEW i \in Months PROVE rows["actual"][p][i] <= rows'["actual"][p][i]
      <4>1. p \in Ids /\ rows["actual"][p][i] \in Nat
        BY <1>1, <1>3
      <4>2. rows'["actual"][p][i] = rows["actual"][p][i]
        BY <1>1, <1>2, <2>1, <2>3, <3>1, <4>1, PutHas
      <4> QED BY <4>1, <4>2
    <3>2. \A p \in P : NotBelow(rows', journal', p) \/ \A i \in Months : rows["actual"][p][i] <= rows'["actual"][p][i]
      BY <2>1, <2>3, <3>1
    <3> QED BY <1>1, <2>1, <3>2, SameJournal DEF P
  <2> QED BY <2>2, <2>3
<1>15. ASSUME NEW n \in DOMAIN tree, NEW m \in Months, SetAside(n, m) PROVE EntryKeeps
  <2>1. /\ n \in Ids /\ n \in P /\ Put("actual", n, m, rows["actual"][n][m] + 1)
        /\ Journaled(n, Available, n, m, 1)
    BY <1>1, <1>15 DEF SetAside, Entry, P, OfType
  <2>2. ASSUME NEW p \in P, NEW i \in Months
        PROVE  rows["actual"][p][i] - (IF Available = p /\ i = m THEN 1 ELSE 0)
                 + (IF n = p /\ Available \in Ids /\ i = m THEN 1 ELSE 0) >= rows["actual"][p][i]
               /\ rows["actual"][p][i] <= rows'["actual"][p][i]
    <3>1. rows["actual"][p][i] \in Nat /\ Available # p /\ p \in Ids
      BY <1>1, <1>3, <1>4
    <3>2. rows'["actual"][p][i] = IF p = n /\ i = m THEN rows["actual"][n][m] + 1 ELSE rows["actual"][p][i]
      BY <1>1, <1>2, <2>1, <3>1, PutHas
    <3> QED BY <1>6, <3>1, <3>2
  <2>3. Booked(n, Available, n)
    BY <1>4, <2>1 DEF Booked, P
  <2> QED BY <1>1, <1>5, <2>1, <2>2, <2>3, OneMore DEF P
<1>16. ASSUME NEW n \in DOMAIN tree, NEW m \in Months, TakeOut(n, m) PROVE EntryKeeps
  <2>1. /\ n \in Ids /\ n \in P /\ rows' = rows /\ Journaled(n, n, Available, m, 1) /\ NotBelow(rows', journal', n)
    BY <1>1, <1>16 DEF TakeOut, Entry, P, OfType
  <2>2. ASSUME NEW p \in P, p # n, NEW i \in Months
        PROVE  rows["actual"][p][i] - (IF n = p /\ i = m THEN 1 ELSE 0)
                 + (IF Available = p /\ n \in Ids /\ i = m THEN 1 ELSE 0) >= rows["actual"][p][i]
               /\ rows["actual"][p][i] <= rows'["actual"][p][i]
    <3>1. rows["actual"][p][i] \in Nat /\ Available # p
      BY <1>1, <1>3, <1>4
    <3> QED BY <2>1, <2>2, <3>1
  <2>3. Booked(n, n, Available)
    BY <1>4, <2>1 DEF Booked, P
  <2>4. \A p \in P :
           \/ NotBelow(rows', journal', p)
           \/ \A i \in Months :
                rows["actual"][p][i] - (IF n = p /\ i = m THEN 1 ELSE 0)
                  + (IF Available = p /\ n \in Ids /\ i = m THEN 1 ELSE 0) >= rows["actual"][p][i]
              /\ rows["actual"][p][i] <= rows'["actual"][p][i]
    BY <2>1, <2>2
  <2> QED BY <1>1, <1>5, <2>1, <2>3, <2>4, OneMore DEF P
<1>17. ASSUME NEW p \in DOMAIN tree, NEW q \in DOMAIN tree, NEW m \in Months, MoveMoney(p, q, m) PROVE EntryKeeps
  <2>1. /\ p \in Ids /\ p \in P /\ q \in P /\ q # p /\ q \in Ids /\ rows' = rows
        /\ Journaled(q, p, q, m, 1) /\ NotBelow(rows', journal', p)
    BY <1>1, <1>17 DEF MoveMoney, Entry, P, OfType
  <2>2. ASSUME NEW o \in P, o # p, NEW i \in Months
        PROVE  rows["actual"][o][i] - (IF p = o /\ i = m THEN 1 ELSE 0)
                 + (IF q = o /\ p \in Ids /\ i = m THEN 1 ELSE 0) >= rows["actual"][o][i]
               /\ rows["actual"][o][i] <= rows'["actual"][o][i]
    <3>1. rows["actual"][o][i] \in Nat
      BY <1>1, <1>3
    <3> QED BY <2>1, <2>2, <3>1
  <2>3. Booked(q, p, q)
    BY <1>4, <2>1 DEF Booked, P
  <2>4. \A o \in P :
           \/ NotBelow(rows', journal', o)
           \/ \A i \in Months :
                rows["actual"][o][i] - (IF p = o /\ i = m THEN 1 ELSE 0)
                  + (IF q = o /\ p \in Ids /\ i = m THEN 1 ELSE 0) >= rows["actual"][o][i]
              /\ rows["actual"][o][i] <= rows'["actual"][o][i]
    BY <2>1, <2>2
  <2> QED BY <1>1, <1>5, <2>1, <2>3, <2>4, OneMore DEF P
<1> QED BY <1>8, <1>9, <1>10, <1>12, <1>13, <1>14, <1>15, <1>16, <1>17 DEF Entries

-----------------------------------------------------------------------------
(* What a step that reorganises the tree keeps.                              *)

\* What pocket p holds after the step is what it held, and all that Q did.
HoldsOf(p, Q) ==
  Series(rows', journal', p)
    = [m \in Months |-> SumFunction([q \in {p} \cup Q |-> Series(rows, journal, q)[m]])]

LEMMA HoldsOfIs ==
  ASSUME RowsTyped(rows), Numbered(journal), RowsTyped(rows'), Numbered(journal'),
         NEW p \in Ids, NEW Q \in SUBSET Ids,
         \A m \in Months : Series(rows', journal', p)[m] = Total(Held(rows, journal, m), {p} \cup Q)
  PROVE  HoldsOf(p, Q)
<1> DEFINE S == {p} \cup Q
<1>1. S \subseteq Ids /\ IsFiniteSet(S)
  BY MonthsFinite
<1> HIDE DEF S
<1>2. ASSUME NEW m \in Months
      PROVE  SumFunction([q \in S |-> Series(rows, journal, q)[m]]) = Total(Held(rows, journal, m), S)
  <2> DEFINE h == [q \in S |-> Series(rows, journal, q)[m]]
             f == Held(rows, journal, m)
  <2>1. \A q \in Ids : f[q] = Series(rows, journal, q)[m] /\ f[q] \in Int
    BY HeldTyped
  <2>2. SumFunction(h) = SumFunctionOnSet(h, S)
    BY DEF SumFunction
  <2>3. \A q \in S : h[q] = f[q] /\ h[q] \in Int /\ f[q] \in Int
    <3> HIDE DEF f
    <3> QED BY <1>1, <2>1
  <2> HIDE DEF h, f
  <2>4. SumFunctionOnSet(h, S) = Total(h, S)
    BY <1>1, <2>3, SumIsTotal
  <2>5. Total(h, S) = Total(f, S)
    BY <1>1, <2>3, TotalSame
  <2> QED BY <2>2, <2>4, <2>5 DEF h, f
<1>3. [m \in Months |-> SumFunction([q \in S |-> Series(rows, journal, q)[m]])]
        = [m \in Months |-> Total(Held(rows, journal, m), S)]
  BY <1>2
<1>4. Series(rows', journal', p) = [m \in Months |-> Total(Held(rows, journal, m), S)]
  <2> DEFINE g == Changes(rows', journal', p)
  <2>1. Series(rows', journal', p) = [m \in Months |-> Total(g, 1..m)]
    BY SeriesIs
  <2>2. \A m \in Months : Series(rows', journal', p)[m] = Total(Held(rows, journal, m), S)
    BY DEF S
  <2> HIDE DEF g
  <2> QED BY <2>1, <2>2
<1> QED BY <1>3, <1>4 DEF HoldsOf, S

\* Every pocket that stays one holds what it held and what nodes that are no pockets did.
PocketsStay ==
  \A p \in Pockets(tree') \cap Pockets(tree) : \E Q \in SUBSET (DOMAIN tree \ Pockets(tree')) : HoldsOf(p, Q)

TotalsStay == \A m \in Months, type \in Types(tree) :
                TypeTotals(tree', rows', type, m) = TypeTotals(tree, rows, type, m)
ReservedStays(m) == Reserved(tree', rows', journal', m) = Reserved(tree, rows, journal, m)

LEMMA HandedKeeps ==
  ASSUME BookOK, Balanced, HandedOver, Hanging(tree', rows', journal', healed')
  PROVE  /\ Numbered(journal') /\ Paired(tree', journal')
         /\ TotalsStay /\ PocketsStay /\ \A m \in Months : ReservedStays(m)
         /\ Floor(tree, rows, journal) => Floor(tree', rows', journal')
         /\ Keepers(tree, healed) = Leaves(tree) /\ AllExplained(tree, rows, journal)
              => AllExplained(tree', rows', journal')
<1>1. PICK a \in Ids, b \in Ids :
         /\ Regrown(tree, tree', a, b) /\ (a # b => a \notin Leaves(tree') /\ b \in Leaves(tree'))
         /\ Combined(rows, rows', a, b) /\ Carried(journal, journal', a, b) /\ Numbered(journal')
  BY DEF HandedOver
<1>2. /\ Hanging(tree, rows, journal, healed) /\ Numbered(journal) /\ Paired(tree, journal)
      /\ RowsTyped(rows) /\ RowsTyped(rows') /\ DOMAIN tree \subseteq Ids /\ DOMAIN tree' \subseteq Ids
  BY <1>1, TreeIds DEF BookOK, Balanced, Hanging, Regrown
<1>3. Paired(tree', journal')
  BY <1>1, <1>2, PairedKept
<1>4. TotalsStay
  BY <1>1, <1>2, HandedTotals DEF TotalsStay
<1>5. \A m \in Months : ReservedStays(m)
  BY <1>1, <1>2, <1>3, HandedReserved DEF ReservedStays
<1>6. Floor(tree, rows, journal) => Floor(tree', rows', journal')
  BY <1>1, <1>2, HandedFloor
<1>7. ASSUME Keepers(tree, healed) = Leaves(tree), AllExplained(tree, rows, journal)
      PROVE  AllExplained(tree', rows', journal')
  <2>1. a # b => a \notin Leaves(tree')
    BY <1>1
  <2>2. \A p \in Leaves(tree') : Explained(tree', rows', journal', p)
    BY <1>1, <1>2, <1>7, <2>1, HandedExplained
  <2> QED BY <2>2 DEF AllExplained
<1>8. PocketsStay
  <2> SUFFICES ASSUME NEW p \in Pockets(tree') \cap Pockets(tree)
               PROVE  \E Q \in SUBSET (DOMAIN tree \ Pockets(tree')) : HoldsOf(p, Q)
    BY DEF PocketsStay
  <2>1. p \in Ids /\ p \in Leaves(tree') /\ a # b => p # a
    BY <1>1, <1>2 DEF Pockets, OfType
  <2>0. p \in Ids /\ p \in Leaves(tree')
    BY <1>2 DEF Pockets, OfType
  <2> DEFINE Q == IF a # b /\ p = b THEN {a} ELSE {}
  <2>2. Q \in SUBSET (DOMAIN tree \ Pockets(tree')) /\ Q \in SUBSET Ids
    BY <1>1, <1>2 DEF Regrown, Pockets
  <2>3. ASSUME NEW m \in Months
        PROVE  Series(rows', journal', p)[m] = Total(Held(rows, journal, m), {p} \cup Q)
    <3> DEFINE f == Held(rows, journal, m)
               g == Held(rows', journal', m)
    <3>1. g = After(f, a, b)
      BY <1>1, <1>2, CombinedSeries
    <3>2. (\A n \in Ids : f[n] \in Int) /\ g[p] = Series(rows', journal', p)[m]
      BY <1>1, <1>2, <2>0, HeldTyped
    <3> HIDE DEF f, g
    <3>3. CASE a # b /\ p = b
      <4>1. g[p] = f[a] + f[p]
        BY <2>0, <3>1, <3>3 DEF After
      <4>2. {p} \cup Q = {p, a} /\ {p, a} \ {a} = {p} /\ a # p
        BY <3>3
      <4>3. IsFiniteSet({p, a})
        BY <2>0, MonthsFinite
      <4>4. Total(f, {p, a}) = f[a] + Total(f, {p, a} \ {a})
        BY <2>0, <3>2, <4>3, TotalRemove
      <4>5. Total(f, {p}) = f[p]
        BY <2>0, <3>2, TotalSingle
      <4> QED BY <3>2, <4>1, <4>2, <4>4, <4>5 DEF f
    <3>4. CASE a = b \/ p # b
      <4>1. g[p] = f[p]
        BY <2>0, <2>1, <3>1, <3>4 DEF After
      <4>2. {p} \cup Q = {p}
        BY <3>4
      <4>3. Total(f, {p}) = f[p]
        BY <2>0, <3>2, TotalSingle
      <4> QED BY <3>2, <4>1, <4>2, <4>3 DEF f
    <3> QED BY <3>3, <3>4
  <2> HIDE DEF Q
  <2>4. HoldsOf(p, Q)
    BY <1>1, <1>2, <2>0, <2>2, <2>3, HoldsOfIs
  <2> QED BY <2>2, <2>4
<1> QED BY <1>1, <1>3, <1>4, <1>5, <1>6, <1>7, <1>8

\* The pockets that no step touches hold what they held.
LEMMA HoldsSame ==
  ASSUME RowsTyped(rows), Numbered(journal), RowsTyped(rows'), Numbered(journal'), DOMAIN tree \subseteq Ids,
         \A p \in Pockets(tree') \cap Pockets(tree) : \A m \in Months :
           Series(rows', journal', p)[m] = Series(rows, journal, p)[m]
  PROVE  PocketsStay
<1> SUFFICES ASSUME NEW p \in Pockets(tree') \cap Pockets(tree)
             PROVE  \E Q \in SUBSET (DOMAIN tree \ Pockets(tree')) : HoldsOf(p, Q)
  BY DEF PocketsStay
<1>1. p \in Ids
  BY DEF Pockets, OfType
<1>2. ASSUME NEW m \in Months PROVE Series(rows', journal', p)[m] = Total(Held(rows, journal, m), {p} \cup {})
  <2> DEFINE f == Held(rows, journal, m)
  <2>1. f[p] = Series(rows, journal, p)[m] /\ f[p] \in Int
    BY <1>1, HeldTyped
  <2> HIDE DEF f
  <2>2. Total(f, {p}) = f[p] /\ {p} \cup {} = {p}
    BY <2>1, TotalSingle
  <2> QED BY <2>1, <2>2 DEF f
<1>3. {} \in SUBSET Ids /\ {} \in SUBSET (DOMAIN tree \ Pockets(tree'))
  OBVIOUS
<1>4. HoldsOf(p, {})
  BY <1>1, <1>2, <1>3, HoldsOfIs
<1> QED BY <1>3, <1>4

LEMMA DeletedKeeps ==
  ASSUME BookOK, Balanced, NEW n \in DOMAIN tree, DeleteNode(n),
         Keepers(tree, healed) = Leaves(tree) \/ tree[n].type # "transfer"
  PROVE  /\ PocketsStay /\ ReservedStays(MaxMonth)
         /\ Floor(tree, rows, journal) => Floor(tree', rows', journal')
<1>1. /\ DOMAIN tree' = DOMAIN tree \ {n} /\ \A x \in DOMAIN tree' : tree'[x] = tree[x]
      /\ RowsTyped(rows) /\ RowsTyped(rows') /\ DOMAIN tree \subseteq Ids
      /\ Numbered(journal') /\ Numbered(journal)
  BY DeletedBook DEF Balanced
<1>2. \A p \in OfType(tree', "transfer"), m \in Months : Series(rows', journal', p)[m] = Series(rows, journal, p)[m]
  BY DeletedHolds
<1>3. PocketsStay
  BY <1>1, <1>2, HoldsSame DEF Pockets
<1>4. ReservedStays(MaxMonth)
  <2>1. MaxMonth \in Months
    BY TreeAssumption DEF Months
  <2>2. tree[n].type = "transfer" => Series(rows, journal, n)[MaxMonth] = 0
    BY DEF DeleteNode, HoldsBalance
  <2>3. \A p \in OfType(tree', "transfer") :
          Series(rows', journal', p)[MaxMonth] = Series(rows, journal, p)[MaxMonth]
    BY <1>2, <2>1
  <2> QED BY <2>1, <2>2, <2>3, DeletedReserved DEF ReservedStays
<1>5. OfType(tree', "transfer") \subseteq OfType(tree, "transfer")
  BY <1>1 DEF OfType
<1> QED BY <1>2, <1>3, <1>4, <1>5 DEF Floor

\* Nothing of a closed month, amount or movement, is touched by reorganising.
LEMMA StructureFrozen ==
  ASSUME Structure
  PROVE  Frozen(rows', journal') = Frozen(rows, journal)
<1>1. ASSUME TouchesClosed(rows', journal') = FALSE PROVE Frozen(rows', journal') = Frozen(rows, journal)
  BY <1>1 DEF TouchesClosed
<1>2. ASSUME NEW p \in DOMAIN tree \cup {NoNode}, NEW type \in Types(tree), CreateNode(p, type)
      PROVE  Frozen(rows', journal') = Frozen(rows, journal)
  <2>1. CASE p = NoNode
    <3>1. rows' = rows /\ journal' = journal
      BY <1>2, <2>1 DEF CreateNode, book
    <3> QED BY <3>1
  <2>2. CASE p # NoNode
    BY <1>2, <2>2 DEF CreateNode, Adopt, Reorganise, TouchesClosed
  <2> QED BY <2>1, <2>2
<1>3. ASSUME NEW n \in DOMAIN tree, MoveToRoot(n) \/ DeleteNode(n)
      PROVE  Frozen(rows', journal') = Frozen(rows, journal)
  BY <1>3 DEF MoveToRoot, DeleteNode, Reorganise, TouchesClosed
<1>4. ASSUME NEW n \in DOMAIN tree, NEW dest \in DOMAIN tree,
             MoveGroup(n, dest) \/ MoveToCategory(n, dest) \/ MoveToGroup(n, dest)
      PROVE  Frozen(rows', journal') = Frozen(rows, journal)
  BY <1>4 DEF MoveGroup, MoveToCategory, MoveToGroup, Adopt, Reorganise, TouchesClosed
<1> QED BY <1>2, <1>3, <1>4 DEF Structure

LEMMA StructureStaysHealed ==
  ASSUME Structure
  PROVE  healed' = healed
<1>1. ASSUME NEW p \in DOMAIN tree \cup {NoNode}, NEW type \in Types(tree), CreateNode(p, type)
      PROVE  healed' = healed
  BY <1>1, Zenon DEF CreateNode
<1>2. ASSUME NEW n \in DOMAIN tree, MoveToRoot(n) \/ DeleteNode(n) PROVE healed' = healed
  BY <1>2, Zenon DEF MoveToRoot, DeleteNode
<1>3. ASSUME NEW n \in DOMAIN tree, NEW dest \in DOMAIN tree, MoveGroup(n, dest) \/ MoveToCategory(n, dest)
      PROVE  healed' = healed
  BY <1>3, Zenon DEF MoveGroup, MoveToCategory
<1>4. ASSUME NEW n \in DOMAIN tree, NEW dest \in DOMAIN tree, MoveToGroup(n, dest)
      PROVE  healed' = healed
  BY <1>4, Zenon DEF MoveToGroup
<1> QED BY <1>1, <1>2, <1>3, <1>4 DEF Structure

LEMMA StructureHands ==
  ASSUME BookOK, Balanced, Structure
  PROVE  HandedOver \/ \E n \in DOMAIN tree : DeleteNode(n)
BY CreatedHands, ToRootHands, GroupHands, ToCategoryHands, ToGroupHands DEF Structure, Balanced

\* In a closed month a deleted node held nothing, and the others hold what they held.
LEMMA DeletedClosed ==
  ASSUME BookOK, Balanced, closed \in Nat, NEW n \in DOMAIN tree, DeleteNode(n),
         Frozen(rows', journal') = Frozen(rows, journal), NEW m \in Months, m <= closed
  PROVE  ReservedStays(m)
<1>1. /\ RowsTyped(rows) /\ RowsTyped(rows') /\ DOMAIN tree \subseteq Ids /\ DOMAIN tree' = DOMAIN tree \ {n}
      /\ Numbered(journal') /\ Numbered(journal)
      /\ \A r \in Figures : \A x \in Ids : rows'[r][x] = rows[r][x]
      /\ \A r \in Figures : rows[r][n] = Empty
      /\ \A y \in journal' : n \notin {y.target, y.from, y.to}
  BY DeletedBook DEF Balanced
<1>2. \A p \in Ids : Series(rows', journal', p)[m] = Series(rows, journal, p)[m]
  BY <1>1, FrozenSeries
<1>3. n \in Ids /\ OfType(tree', "transfer") \subseteq Ids
  BY <1>1 DEF OfType
<1>4. rows'["actual"][n] = Empty /\ \A y \in journal' : n \notin {y.from, y.to}
  BY <1>1, <1>3 DEF Figures
<1>5. Series(rows', journal', n)[m] = 0
  BY <1>1, <1>3, <1>4, NothingMoved
<1>6. Series(rows, journal, n)[m] = 0
  BY <1>2, <1>3, <1>5
<1> QED BY <1>2, <1>3, <1>6, DeletedReserved DEF ReservedStays

LEMMA StructureTotals ==
  ASSUME BookOK, Balanced, Structure
  PROVE  TotalsStay /\ Numbered(journal') /\ Paired(tree', journal')
<1>1. CASE HandedOver
  BY <1>1, StructureHangs, HandedKeeps
<1>2. ASSUME NEW n \in DOMAIN tree, DeleteNode(n) PROVE TotalsStay /\ Numbered(journal') /\ Paired(tree', journal')
  BY <1>2, DeletedTotals, DeletedBook DEF TotalsStay
<1> QED BY <1>1, <1>2, StructureHands

\* What the first load keeps.
LEMMA LoadedKeeps ==
  ASSUME BookOK, Balanced, Load
  PROVE  /\ TotalsStay /\ PocketsStay /\ \A m \in Months : ReservedStays(m)
         /\ Floor(tree, rows, journal) => Floor(tree', rows', journal')
<1>1. /\ WellFormed(tree) /\ DOMAIN tree \subseteq Ids /\ tree' = tree
      /\ Hanging(tree, rows, journal, healed) /\ Hanging(tree', rows', journal', healed')
      /\ RowsTyped(rows) /\ RowsTyped(rows') /\ Numbered(journal) /\ Paired(tree, journal)
  BY TreeIds, LoadHangs DEF BookOK, Balanced, Load, Hanging
<1>2. /\ Numbered(journal') /\ Paired(tree', journal')
      /\ \A m \in Months :
           /\ \A type : \A r \in Figures :
                Total(Column(rows', r, m), OfType(tree, type)) = Total(Column(rows, r, m), OfType(tree, type))
           /\ Total(Held(rows', journal', m), OfType(tree, "transfer"))
                = Total(Held(rows, journal, m), OfType(tree, "transfer"))
           /\ \A p \in Ids : Series(rows', journal', p)[m]
                               = Total(Held(rows, journal, m), Givers(MaxNode, p))
  BY LoadKeeps
<1>3. TotalsStay
  <2> SUFFICES ASSUME NEW m \in Months, NEW type \in Types(tree)
               PROVE  TypeTotals(tree', rows', type, m) = TypeTotals(tree, rows, type, m)
    BY DEF TotalsStay
  <2>1. TypeTotals(tree, rows, type, m)
          = << Total(Column(rows, "budget", m), OfType(tree, type)), Total(Column(rows, "actual", m), OfType(tree, type)),
               Total(Column(rows, "plan", m), OfType(tree, type)) >>
    BY <1>1, TotalsAre
  <2>2. TypeTotals(tree', rows', type, m)
          = << Total(Column(rows', "budget", m), OfType(tree', type)), Total(Column(rows', "actual", m), OfType(tree', type)),
               Total(Column(rows', "plan", m), OfType(tree', type)) >>
    BY <1>1, TotalsAre
  <2>3. "budget" \in Figures /\ "actual" \in Figures /\ "plan" \in Figures
    BY DEF Figures
  <2>4. /\ Total(Column(rows', "budget", m), OfType(tree, type)) = Total(Column(rows, "budget", m), OfType(tree, type))
        /\ Total(Column(rows', "actual", m), OfType(tree, type)) = Total(Column(rows, "actual", m), OfType(tree, type))
        /\ Total(Column(rows', "plan", m), OfType(tree, type)) = Total(Column(rows, "plan", m), OfType(tree, type))
    BY <1>2, <2>3
  <2>5. OfType(tree', type) = OfType(tree, type)
    BY <1>1
  <2> QED BY <2>1, <2>2, <2>4, <2>5
<1>4. ASSUME NEW m \in Months PROVE ReservedStays(m)
  <2>1. /\ Reserved(tree, rows, journal, m) = Total(Held(rows, journal, m), OfType(tree, "transfer"))
        /\ Reserved(tree', rows', journal', m) = Total(Held(rows', journal', m), OfType(tree', "transfer"))
    BY <1>1, <1>2, ReservedHeld
  <2> QED BY <1>1, <1>2, <2>1 DEF ReservedStays
<1>5. PocketsStay
  <2> SUFFICES ASSUME NEW p \in Pockets(tree') \cap Pockets(tree)
               PROVE  \E Q \in SUBSET (DOMAIN tree \ Pockets(tree')) : HoldsOf(p, Q)
    BY DEF PocketsStay
  <2> DEFINE Q == {q \in Ceding : q <= MaxNode /\ FirstLeaf(tree, q) = p}
  <2>1. p \in Ids /\ p \in Leaves(tree)
    BY <1>1 DEF Pockets, OfType
  <2>2. \A q \in Ceding : q \in DOMAIN tree /\ q \in Ids /\ q \notin Leaves(tree)
    BY <1>1, CedingHave
  <2>3. Givers(MaxNode, p) = {p} \cup Q
    BY <2>1, <2>2 DEF Givers
  <2>4. Q \in SUBSET (DOMAIN tree \ Pockets(tree')) /\ Q \in SUBSET Ids
    BY <1>1, <2>2 DEF Pockets
  <2> HIDE DEF Q
  <2>5. \A m \in Months : Series(rows', journal', p)[m] = Total(Held(rows, journal, m), {p} \cup Q)
    BY <1>2, <2>1, <2>3
  <2>6. HoldsOf(p, Q)
    BY <1>1, <1>2, <2>1, <2>4, <2>5, HoldsOfIs
  <2> QED BY <2>4, <2>6
<1>6. ASSUME Floor(tree, rows, journal), NEW p \in OfType(tree, "transfer"), NEW m \in Months
      PROVE  Series(rows', journal', p)[m] >= 0
  <2> DEFINE f == Held(rows, journal, m)
             z == [q \in Ids |-> 0]
             G == Givers(MaxNode, p)
  <2>1. p \in Ids /\ p \in DOMAIN tree /\ tree[p].type = "transfer"
    BY <1>1 DEF OfType
  <2>2. \A q \in Ids : f[q] = Series(rows, journal, q)[m] /\ f[q] \in Int
    BY <1>1, HeldTyped
  <2>3. ASSUME NEW q \in G PROVE q \in OfType(tree, "transfer") /\ q \in Ids
    <3>1. \A x \in Ceding : x \in DOMAIN tree /\ x \in Ids /\ tree[x].type = "transfer"
      BY <1>1, CedingHave DEF Ceding
    <3> QED BY <2>1, <2>3, <3>1 DEF Givers, OfType
  <2>4. IsFiniteSet(G)
    <3>1. G \subseteq Ids
      BY <2>3
    <3> QED BY <3>1, MonthsFinite
  <2>5. Series(rows', journal', p)[m] = Total(f, G)
    BY <1>2, <2>1
  <2> HIDE DEF f, G
  <2>6. (\A q \in G : z[q] \in Int) /\ (\A q \in G : f[q] \in Int /\ z[q] <= f[q])
    BY <1>6, <2>2, <2>3 DEF Floor
  <2>7. \A q \in G : z[q] = 0
    BY <2>3
  <2> HIDE DEF z
  <2>8. Total(z, G) <= Total(f, G) /\ Total(z, G) = 0
    BY <2>4, <2>6, <2>7, TotalMonotone, TotalZero
  <2>9. Total(f, G) \in Int
    BY <2>4, <2>6, TotalInt
  <2> QED BY <2>5, <2>8, <2>9
<1> QED BY <1>1, <1>3, <1>4, <1>5, <1>6 DEF Floor

-----------------------------------------------------------------------------
(* The book stays balanced, and what follows for every step.                 *)

\* The invariant: the tree, what hangs from it, and a journal that is in order.
Sound == TypeOK /\ BookOK /\ Balanced

LEMMA FoundSound ==
  ASSUME Init
  PROVE  Sound /\ Floor(tree, rows, journal)
<1>1. TypeOK /\ BookOK
  <2>1. TypeOK
    BY InitTyped
  <2> QED BY <2>1, FoundHangs DEF BookOK, TypeOK
<1>2. PICK u \in Users : \E b \in u.books : tree = b.tree /\ rows = b.rows /\ journal = b.journal
  BY DEF Init
<1>3. PICK b \in u.books : tree = b.tree /\ rows = b.rows /\ journal = b.journal
  BY <1>2
<1>4. Legacy(b)
  BY LegacyAssumption
<1>5. /\ IsFiniteSet(journal) /\ journal \subseteq Movements
      /\ \A x, y \in journal : x.id = y.id => x = y
      /\ \A x \in journal : {x.from, x.to} = {NoEnd} \/ OfReserve(tree, x)
      /\ \A p \in OfType(tree, "transfer"), m \in Months : Series(rows, journal, p)[m] >= 0
  BY <1>3, <1>4 DEF Legacy
<1>6. \A x \in journal : x.id \in Nat \ {0} /\ x.month \in Months /\ x.amount \in Int
  <2> TAKE x \in journal
  <2>1. x \in Movements
    BY <1>5
  <2> QED BY <2>1 DEF Movements
<1> QED BY <1>1, <1>5, <1>6 DEF Sound, Balanced, Numbered, Paired, Floor

\* A step that leaves the tree, the amounts and the movements leaves the book.
Still == tree' = tree /\ rows' = rows /\ journal' = journal

LEMMA StillStays ==
  ASSUME Still
  PROVE  /\ Balanced => Numbered(journal') /\ Paired(tree', journal')
         /\ Floor(tree, rows, journal) => Floor(tree', rows', journal')
BY DEF Still, Balanced

LEMMA ClosingStays ==
  ASSUME Close \/ UNCHANGED vars
  PROVE  Still /\ healed' = healed
BY DEF Still, Close, book, vars

LEMMA StepBalanced ==
  ASSUME BookOK, Balanced, [Next]_vars
  PROVE  Balanced'
<1>1. ASSUME Structure PROVE Numbered(journal') /\ Paired(tree', journal')
  BY <1>1, StructureTotals
<1>2. ASSUME Entries PROVE Numbered(journal') /\ Paired(tree', journal')
  BY <1>2, EntriesKeep, EntriesKeepTree DEF EntryKeeps
<1>3. ASSUME Load PROVE Numbered(journal') /\ Paired(tree', journal')
  BY <1>3, LoadKeeps
<1>4. ASSUME Close \/ UNCHANGED vars PROVE Numbered(journal') /\ Paired(tree', journal')
  BY <1>4, ClosingStays, StillStays
<1> QED BY <1>1, <1>2, <1>3, <1>4 DEF Next, Balanced

LEMMA StepSound ==
  ASSUME Sound, TypeOK', [Next]_vars
  PROVE  Sound'
BY BookKept, StepBalanced DEF Sound

THEOREM AlwaysSound == Spec => []Sound
<1>1. Init => Sound
  BY FoundSound
<1>2. Sound /\ TypeOK' /\ [Next]_vars => Sound'
  BY StepSound
<1> QED BY <1>1, <1>2, TreeIsATree, PTL DEF Spec

\* Which steps reorganise: those on the tree, and the first load.
LEMMA Reorganisers ==
  ASSUME BookOK, [Next]_vars, Reorganised
  PROVE  Structure \/ (Load /\ ~healed)
<1>1. ASSUME Entries \/ Close \/ UNCHANGED vars PROVE ~Reorganised
  BY <1>1, EntriesKeepTree, ClosingStays DEF Reorganised, Still
<1>2. ASSUME Load, healed PROVE ~Reorganised
  <2>1. healed = TRUE
    BY <1>2 DEF BookOK
  <2> QED BY <1>2, <2>1 DEF Load, Reorganised
<1> QED BY <1>1, <1>2 DEF Next

-----------------------------------------------------------------------------
(* The closed months                                                         *)

\* What a month has of a node, a leaf or not.
MovesOf(j, n, m) == {<<x.id, x.amount>> : x \in {y \in j : n \in Ends(y) /\ y.month = m}}
Had(rs, j, n, m) == [figures |-> [r \in Figures |-> rs[r][n][m]], moves |-> MovesOf(j, n, m)]

\* Once repaired a month has nothing of a node that is no leaf: it lists all it has.
LEMMA ListsAllItHas ==
  ASSUME NEW t, DOMAIN t \subseteq Ids, NEW rs, NEW j, Hanging(t, rs, j, TRUE),
         NEW n \in Ids, NEW m \in Months
  PROVE  Listed(t, rs, j, n, m) = Had(rs, j, n, m)
<1>1. CASE n \in Leaves(t)
  BY <1>1 DEF Listed, Had, MovesOf
<1>2. CASE n \notin Leaves(t)
  <2>1. Placed(t, rs, j, TRUE) /\ Keepers(t, TRUE) = Leaves(t)
    BY LeavesHave DEF Hanging
  <2>2. \A r \in Figures : rs[r][n][m] = 0
    <3>1. \A r \in Figures : rs[r][n] = Empty
      BY <1>2, <2>1 DEF Placed, Nothing
    <3> QED BY <3>1 DEF Empty
  <2>3. MovesOf(j, n, m) = {}
    BY <1>2, <2>1 DEF MovesOf, Placed
  <2>4. [r \in Figures |-> rs[r][n][m]] = [r \in Figures |-> 0]
    BY <2>2
  <2> QED BY <1>2, <2>3, <2>4 DEF Listed, Had
<1> QED BY <1>1, <1>2

\* What is of closed months alike, amounts and movements, they have alike of each node.
LEMMA FrozenHad ==
  ASSUME NEW rs, NEW ks, NEW j, NEW k, Frozen(ks, k) = Frozen(rs, j), closed \in Nat,
         NEW n \in Ids, NEW m \in 1..closed
  PROVE  Had(ks, k, n, m) = Had(rs, j, n, m)
<1> DEFINE T(x) == <<x.id, x.target, x.from, x.to, x.month, x.amount>>
           S(l) == {T(x) : x \in {y \in l : y.month <= closed}}
           F(l) == [r \in Figures |-> [i \in Ids |-> [c \in 1..closed |-> l[r][i][c]]]]
<1>1. S(k) = S(j) /\ F(ks) = F(rs)
  <2>1. /\ Frozen(ks, k).moves = S(k) /\ Frozen(rs, j).moves = S(j)
        /\ Frozen(ks, k).amounts = F(ks) /\ Frozen(rs, j).amounts = F(rs)
    BY DEF Frozen
  <2> HIDE DEF S, F
  <2> QED BY <2>1
<1>2. \A r \in Figures : ks[r][n][m] = rs[r][n][m]
  <2> TAKE r \in Figures
  <2>1. F(ks)[r][n][m] = ks[r][n][m] /\ F(rs)[r][n][m] = rs[r][n][m]
    OBVIOUS
  <2> HIDE DEF F
  <2> QED BY <1>1, <2>1
<1>3. ASSUME NEW l, NEW o, S(l) = S(o) PROVE MovesOf(l, n, m) \subseteq MovesOf(o, n, m)
  <2> SUFFICES ASSUME NEW x \in l, n \in Ends(x), x.month = m
               PROVE  <<x.id, x.amount>> \in MovesOf(o, n, m)
    BY DEF MovesOf
  <2>1. T(x) \in S(l)
    OBVIOUS
  <2>2. \A z : z \in S(o) => \E y \in o : z = T(y)
    OBVIOUS
  <2>3. PICK y \in o : T(x) = T(y)
    <3> HIDE DEF T, S
    <3> QED BY <1>3, <2>1, <2>2
  <2>4. /\ y.id = x.id /\ y.target = x.target /\ y.from = x.from /\ y.to = x.to
        /\ y.month = x.month /\ y.amount = x.amount
    BY <2>3
  <2>5. n \in Ends(y) /\ y.month = m
    BY <2>4 DEF Ends
  <2> QED BY <2>4, <2>5 DEF MovesOf
<1> HIDE DEF S, F, T
<1>4. MovesOf(k, n, m) = MovesOf(j, n, m)
  <2>1. S(k) = S(j) /\ S(j) = S(k)
    BY ONLY <1>1
  <2>2. MovesOf(k, n, m) \subseteq MovesOf(j, n, m)
    BY ONLY <1>3, <2>1
  <2>3. MovesOf(j, n, m) \subseteq MovesOf(k, n, m)
    BY ONLY <1>3, <2>1
  <2> QED BY ONLY <2>2, <2>3
<1> QED BY <1>2, <1>4 DEF Had

ClosedStep ==
  Reorganised => \A m \in 1..closed :
    /\ \A type \in Types(tree) : TypeTotals(tree', rows', type, m) = TypeTotals(tree, rows, type, m)
    /\ Reserved(tree', rows', journal', m) = Reserved(tree, rows, journal, m)
    /\ healed =>
         /\ \A n \in Ids : Listed(tree', rows', journal', n, m) = Listed(tree, rows, journal, n, m)
         /\ \A p \in Pockets(tree) \cap Pockets(tree') :
              Series(rows', journal', p)[m] = Series(rows, journal, p)[m]

LEMMA StepKeepsClosed ==
  ASSUME Sound, Sound', [Next]_vars
  PROVE  ClosedStep
<1> SUFFICES ASSUME Reorganised, NEW m \in 1..closed
             PROVE  /\ \A type \in Types(tree) : TypeTotals(tree', rows', type, m) = TypeTotals(tree, rows, type, m)
                    /\ ReservedStays(m)
                    /\ healed =>
                         /\ \A n \in Ids : Listed(tree', rows', journal', n, m) = Listed(tree, rows, journal, n, m)
                         /\ \A p \in Pockets(tree) \cap Pockets(tree') :
                              Series(rows', journal', p)[m] = Series(rows, journal, p)[m]
  BY DEF ClosedStep, ReservedStays
<1>1. BookOK /\ Balanced /\ closed \in Nat /\ closed \in 0..MaxMonth
  BY DEF Sound, TypeOK
<1>2. m \in Months /\ m <= closed
  BY <1>1, TreeAssumption DEF Months
<1>3. CASE Structure
  <2>1. /\ TotalsStay /\ Numbered(journal') /\ Paired(tree', journal')
        /\ Hanging(tree', rows', journal', healed')
    BY <1>1, <1>3, StructureTotals, StructureHangs
  <2>2. Frozen(rows', journal') = Frozen(rows, journal)
    BY <1>3, StructureFrozen
  <2>3. ReservedStays(m)
    <3>1. CASE HandedOver
      BY <1>1, <1>2, <2>1, <3>1, HandedKeeps
    <3>2. ASSUME NEW n \in DOMAIN tree, DeleteNode(n) PROVE ReservedStays(m)
      BY <1>1, <1>2, <2>2, <3>2, DeletedClosed
    <3> QED BY <1>1, <1>3, <3>1, <3>2, StructureHands
  <2>4. ASSUME NEW p \in Pockets(tree) PROVE Series(rows', journal', p)[m] = Series(rows, journal, p)[m]
    <3>1. RowsTyped(rows) /\ RowsTyped(rows') /\ Numbered(journal) /\ p \in Ids
      BY <1>1, <2>1, TreeIds DEF BookOK, Balanced, Hanging, Pockets, OfType
    <3> QED BY <1>1, <1>2, <2>1, <2>2, <3>1, FrozenSeries
  <2>5. ASSUME healed, NEW n \in Ids
        PROVE  Listed(tree', rows', journal', n, m) = Listed(tree, rows, journal, n, m)
    <3>1. healed = TRUE /\ Hanging(tree, rows, journal, TRUE) /\ DOMAIN tree \subseteq Ids
      BY <1>1, <2>5, TreeIds DEF BookOK
    <3>2. healed' = TRUE
      BY <1>3, <3>1, StructureStaysHealed
    <3>3. Hanging(tree', rows', journal', TRUE)
      BY <2>1, <3>2
    <3>4. DOMAIN tree' \subseteq Ids
      BY TreeAssumption DEF Sound, TypeOK, TreeOK, Ids
    <3>5. /\ Listed(tree, rows, journal, n, m) = Had(rows, journal, n, m)
          /\ Listed(tree', rows', journal', n, m) = Had(rows', journal', n, m)
      BY <1>2, <3>1, <3>3, <3>4, ListsAllItHas, Zenon
    <3> QED BY <1>1, <2>2, <3>5, FrozenHad
  <2> QED BY <1>2, <2>1, <2>3, <2>4, <2>5 DEF TotalsStay
<1>4. CASE Load /\ ~healed
  BY <1>1, <1>2, <1>4, LoadedKeeps DEF TotalsStay
<1> QED BY <1>1, <1>3, <1>4, Reorganisers

\* Reorganising the tree, deleting from it and repairing it leave of every closed
\* month the totals of each type and what is reserved; once repaired, also the figures
\* and movements it lists of each leaf, and what each pocket held (BG-095).
THEOREM ClosedMonthsKept == Spec => ClosedKept
<1>1. Sound /\ Sound' /\ [Next]_vars => [ClosedStep]_vars
  BY StepKeepsClosed
<1>2. Spec => [][ClosedStep]_vars
  BY <1>1, AlwaysSound, PTL DEF Spec
<1> QED BY <1>2 DEF ClosedStep, ClosedKept

-----------------------------------------------------------------------------
(* The figures                                                               *)

\* Before the repairs of a first load, the tree is rid of no pocket.
RepairsFirst == ~healed => \A n \in DOMAIN tree \ DOMAIN tree' : tree[n].type # "transfer"
RepairedFirst == [][RepairsFirst]_vars

LEMMA DeletedRepaired ==
  ASSUME BookOK, RepairsFirst, NEW n \in DOMAIN tree, DeleteNode(n)
  PROVE  Keepers(tree, healed) = Leaves(tree) \/ tree[n].type # "transfer"
<1>1. CASE healed
  BY <1>1 DEF Keepers
<1>2. CASE ~healed
  BY <1>2 DEF RepairsFirst, DeleteNode
<1> QED BY <1>1, <1>2

\* What the journal explained.
ExplainedStays ==
  healed /\ AllExplained(tree, rows, journal) => AllExplained(tree', rows', journal')

LEMMA StructureKeeps ==
  ASSUME BookOK, Balanced, Structure, RepairsFirst
  PROVE  /\ TotalsStay /\ ReservedStays(MaxMonth) /\ PocketsStay /\ ExplainedStays
         /\ Floor(tree, rows, journal) => Floor(tree', rows', journal')
<1>1. MaxMonth \in Months
  BY TreeAssumption DEF Months
<1>2. healed => Keepers(tree, healed) = Leaves(tree)
  BY DEF Keepers
<1>3. CASE HandedOver
  BY <1>1, <1>2, <1>3, StructureHangs, HandedKeeps DEF ExplainedStays
<1>4. ASSUME NEW n \in DOMAIN tree, DeleteNode(n)
      PROVE  /\ ReservedStays(MaxMonth) /\ PocketsStay /\ ExplainedStays
             /\ Floor(tree, rows, journal) => Floor(tree', rows', journal')
  <2>1. Keepers(tree, healed) = Leaves(tree) \/ tree[n].type # "transfer"
    BY <1>4, DeletedRepaired
  <2>2. /\ ReservedStays(MaxMonth) /\ PocketsStay
        /\ Floor(tree, rows, journal) => Floor(tree', rows', journal')
    BY <1>4, <2>1, DeletedKeeps
  <2>3. ExplainedStays
    BY <1>2, <1>4, DeletedExplained DEF ExplainedStays
  <2> QED BY <2>2, <2>3
<1>5. TotalsStay
  BY StructureTotals
<1> QED BY <1>3, <1>4, <1>5, StructureHands

FiguresStep ==
  Reorganised =>
    /\ \A m \in Months, type \in Types(tree) :
         TypeTotals(tree', rows', type, m) = TypeTotals(tree, rows, type, m)
    /\ Reserved(tree', rows', journal', MaxMonth) = Reserved(tree, rows, journal, MaxMonth)
    /\ \A p \in Pockets(tree') \cap Pockets(tree) :
         \E Q \in SUBSET (DOMAIN tree \ Pockets(tree')) :
           Series(rows', journal', p)
             = [m \in Months |-> SumFunction([q \in {p} \cup Q |-> Series(rows, journal, q)[m]])]
    /\ healed /\ (\A n \in Leaves(tree) : Explained(tree, rows, journal, n))
         => \A n \in Leaves(tree') : Explained(tree', rows', journal', n)

LEMMA StepKeepsFigures ==
  ASSUME Sound, [Next]_vars, RepairsFirst
  PROVE  FiguresStep
<1>1. BookOK /\ Balanced /\ MaxMonth \in Months
  BY TreeAssumption DEF Sound, Months
<1>2. ASSUME Reorganised PROVE TotalsStay /\ ReservedStays(MaxMonth) /\ PocketsStay /\ ExplainedStays
  <2>1. CASE Structure
    BY <1>1, <2>1, StructureKeeps
  <2>2. CASE Load /\ ~healed
    BY <1>1, <2>2, LoadedKeeps DEF ExplainedStays
  <2> QED BY <1>1, <1>2, <2>1, <2>2, Reorganisers
<1>3. PocketsStay => \A p \in Pockets(tree') \cap Pockets(tree) :
         \E Q \in SUBSET (DOMAIN tree \ Pockets(tree')) :
           Series(rows', journal', p)
             = [m \in Months |-> SumFunction([q \in {p} \cup Q |-> Series(rows, journal, q)[m]])]
  BY DEF PocketsStay, HoldsOf
<1>4. ExplainedStays => (healed /\ (\A n \in Leaves(tree) : Explained(tree, rows, journal, n))
         => \A n \in Leaves(tree') : Explained(tree', rows', journal', n))
  BY DEF ExplainedStays, AllExplained
<1> QED BY <1>2, <1>3, <1>4 DEF FiguresStep, TotalsStay, ReservedStays

\* As long as no pocket is deleted before the repairs of a first load ran,
\* reorganising the tree, deleting from it and repairing it move no figure: the
\* totals of every type in every month, what is reserved when the range ends, what
\* a pocket holds but for what ceased to be one, and what the journal explains
\* (BG-001, BG-019, BG-023, BG-053).
THEOREM NoFigureMoves == Spec /\ RepairedFirst => FiguresKept
<1>1. Sound /\ [Next]_vars /\ [RepairsFirst]_vars => [FiguresStep]_vars
  BY StepKeepsFigures
<1>2. Spec /\ RepairedFirst => [][FiguresStep]_vars
  BY <1>1, AlwaysSound, PTL DEF Spec, RepairedFirst
<1> QED BY <1>2, PTL DEF FiguresStep, FiguresKept

\* No pocket goes below zero.
LEMMA StepKeepsFloor ==
  ASSUME Sound, Sound', Floor(tree, rows, journal), [Next]_vars, [RepairsFirst]_vars
  PROVE  Floor(tree', rows', journal')
<1>1. /\ BookOK /\ Balanced /\ RowsTyped(rows) /\ Numbered(journal) /\ DOMAIN tree \subseteq Ids
  BY TreeIds DEF Sound, BookOK, Balanced, Hanging
<1>2. RowsTyped(rows') /\ Numbered(journal')
  BY DEF Sound, BookOK, Balanced, Hanging
<1>3. CASE Structure /\ RepairsFirst
  BY <1>1, <1>3, StructureKeeps
<1>4. CASE Entries
  <2> SUFFICES ASSUME NEW p \in OfType(tree', "transfer"), NEW m \in Months
               PROVE  Series(rows', journal', p)[m] >= 0
    BY DEF Floor
  <2>1. tree' = tree /\ EntryKeeps
    BY <1>1, <1>4, EntriesKeep, EntriesKeepTree
  <2>2. p \in OfType(tree, "transfer") /\ p \in Ids
    BY <1>1, <2>1 DEF OfType
  <2>3. CASE NotBelow(rows', journal', p)
    BY <2>3 DEF NotBelow
  <2>4. CASE Raised(p)
    <3>1. Series(rows, journal, p)[m] <= Series(rows', journal', p)[m]
      BY <1>1, <1>2, <2>2, <2>4, RaisedHolds
    <3>2. Series(rows, journal, p)[m] >= 0
      BY <2>2 DEF Floor
    <3>3. Series(rows, journal, p)[m] \in Int /\ Series(rows', journal', p)[m] \in Int
      BY <1>1, <1>2, <2>2, SeriesIs
    <3> QED BY <3>1, <3>2, <3>3
  <2> QED BY <2>1, <2>2, <2>3, <2>4 DEF EntryKeeps
<1>5. CASE Load
  BY <1>1, <1>5, LoadedKeeps
<1>6. CASE Close \/ UNCHANGED vars
  BY <1>6, ClosingStays, StillStays
<1> QED BY <1>3, <1>4, <1>5, <1>6 DEF Next

FloorKept == Floor(tree, rows, journal)

LEMMA AlwaysFloor == Spec /\ RepairedFirst => []FloorKept
<1>1. Init => FloorKept
  BY FoundSound DEF FloorKept
<1>2. Sound /\ Sound' /\ FloorKept /\ [Next]_vars /\ [RepairsFirst]_vars => FloorKept'
  BY StepKeepsFloor DEF FloorKept
<1> QED BY <1>1, <1>2, AlwaysSound, PTL DEF Spec, RepairedFirst

-----------------------------------------------------------------------------
(* The grid, from the children up.                                           *)

\* The child of n that x, below n, is of.
Branch(t, n, x) == IF t[x].parent = n THEN x ELSE t[x].parent

LEMMA Branches ==
  ASSUME NEW t, WellFormed(t), NEW n \in DOMAIN t
  PROVE  /\ n \notin Children(t, n) /\ Children(t, n) \subseteq DOMAIN t
         /\ \A x \in Subtree(t, n) \ {n} : Branch(t, n, x) \in Children(t, n)
         /\ \A c \in Children(t, n) :
              {x \in Subtree(t, n) \ {n} : Branch(t, n, x) = c} = Subtree(t, c)
<1>1. \A x \in DOMAIN t : t[x].level \in 0..2
  BY DEF WellFormed, Nodes
<1>2. ASSUME NEW x \in DOMAIN t PROVE \A c \in Children(t, x) : c \in DOMAIN t /\ t[c].level = t[x].level + 1
  BY LevelsBelow
<1>3. n \notin Children(t, n) /\ Children(t, n) \subseteq DOMAIN t
  BY <1>1, <1>2
<1>4. ASSUME NEW x \in Subtree(t, n) \ {n} PROVE Branch(t, n, x) \in Children(t, n)
  BY <1>4 DEF Subtree, Grandchildren, Children, Branch
<1>5. ASSUME NEW c \in Children(t, n), NEW x
      PROVE  x \in Subtree(t, c) <=> x \in Subtree(t, n) \ {n} /\ Branch(t, n, x) = c
  <2>1. /\ c \in DOMAIN t /\ t[c].parent = n /\ c # n /\ t[c].level = t[n].level + 1
        /\ t[c].level \in 0..2 /\ t[n].level \in 0..2
    BY <1>1, <1>2, <1>3, <1>5 DEF Children
  <2>2. Grandchildren(t, c) = {}
    <3> SUFFICES ASSUME NEW y \in Grandchildren(t, c) PROVE FALSE
      OBVIOUS
    <3>1. y \in DOMAIN t /\ t[y].level = t[c].level + 2
      BY <2>1, LevelsBelow
    <3> QED BY <1>1, <2>1, <3>1
  <2>3. Subtree(t, c) = {c} \cup Children(t, c)
    BY <2>2 DEF Subtree
  <2>4. n \notin Children(t, c)
    <3>1. n \in Children(t, c) => t[n].level = t[c].level + 1
      BY <1>2, <2>1
    <3> QED BY <2>1, <3>1
  <2>5. ASSUME x \in Subtree(t, c) PROVE x \in Subtree(t, n) \ {n} /\ Branch(t, n, x) = c
    BY <2>1, <2>3, <2>4, <2>5, <1>5 DEF Subtree, Grandchildren, Children, Branch
  <2>6. ASSUME x \in Subtree(t, n) \ {n}, Branch(t, n, x) = c PROVE x \in Subtree(t, c)
    BY <2>1, <2>3, <2>6 DEF Subtree, Grandchildren, Children, Branch
  <2> QED BY <2>5, <2>6
<1>6. ASSUME NEW c \in Children(t, n)
      PROVE  {x \in Subtree(t, n) \ {n} : Branch(t, n, x) = c} = Subtree(t, c)
  BY <1>5, <1>6
<1> QED BY <1>3, <1>4, <1>6

\* What a set of nodes has below n is what it has below its children.
LEMMA BranchTotals ==
  ASSUME NEW t, WellFormed(t), DOMAIN t \subseteq Ids, NEW v, \A x \in Ids : v[x] \in Int,
         NEW n \in DOMAIN t, NEW S \in SUBSET DOMAIN t
  PROVE  Total(v, S \cap (Subtree(t, n) \ {n}))
           = Total([c \in Children(t, n) |-> Total(v, S \cap Subtree(t, c))], Children(t, n))
<1> DEFINE T == S \cap (Subtree(t, n) \ {n})
           R == Children(t, n)
           g == [x \in T |-> Branch(t, n, x)]
           f == [y \in R |-> Total(v, {x \in T : g[x] = y})]
           h == [c \in R |-> Total(v, S \cap Subtree(t, c))]
<1>1. T \subseteq Ids /\ R \subseteq Ids /\ IsFiniteSet(T) /\ IsFiniteSet(R)
  <2>1. T \subseteq Ids /\ R \subseteq Ids
    BY Branches
  <2> QED BY <2>1, MonthsFinite
<1>2. \A x \in T : g[x] \in R
  BY Branches
<1>3. ASSUME NEW c \in R PROVE {x \in T : g[x] = c} = S \cap Subtree(t, c)
  <2>1. {x \in Subtree(t, n) \ {n} : Branch(t, n, x) = c} = Subtree(t, c)
    BY Branches
  <2> QED BY <2>1
<1>4. f = h
  BY <1>3
<1> HIDE DEF T, R, g, h
<1>5. \A x \in T : v[x] \in Int
  BY <1>1
<1>6. Total(f, R) = Total(v, T)
  BY <1>1, <1>2, <1>5, TotalGrouped
<1> QED BY <1>4, <1>6 DEF T, R, h

\* What is below a node, in its leaves and in all of it.
LeafSums(t, v) == [n \in DOMAIN t |-> Total(v, Leaves(t) \cap Subtree(t, n))]
TreeSums(t, v) == [n \in DOMAIN t |-> Total(v, Subtree(t, n))]

\* One step of the recursions of rollupTable.
LeafStep(t, v, f) ==
  [n \in DOMAIN t |-> IF Childless(t, n) THEN v[n] ELSE SumFunctionOnSet(f, Children(t, n))]
TreeStep(t, v, f) == [n \in DOMAIN t |-> v[n] + SumFunctionOnSet(f, Children(t, n))]

\* Function f has what the nodes of S add up to below each child of n.
SumsBelow(t, v, n, S, f) == \A c \in Children(t, n) : f[c] = Total(v, S \cap Subtree(t, c))

LEMMA SummedChildren ==
  ASSUME NEW t, WellFormed(t), DOMAIN t \subseteq Ids, NEW v, \A x \in Ids : v[x] \in Int,
         NEW n \in DOMAIN t, NEW S \in SUBSET DOMAIN t,
         NEW f, SumsBelow(t, v, n, S, f)
  PROVE  /\ SumFunctionOnSet(f, Children(t, n)) = Total(v, S \cap (Subtree(t, n) \ {n}))
         /\ SumFunctionOnSet(f, Children(t, n)) \in Int
<1> DEFINE R == Children(t, n)
           h == [c \in R |-> Total(v, S \cap Subtree(t, c))]
<1>1. R \subseteq Ids /\ IsFiniteSet(R)
  <2>1. R \subseteq Ids
    BY Branches
  <2> QED BY <2>1, MonthsFinite
<1>2. ASSUME NEW c \in R PROVE h[c] = f[c] /\ f[c] \in Int
  <2> DEFINE T == S \cap Subtree(t, c)
  <2>1. T \subseteq Ids /\ IsFiniteSet(T)
    <3>1. T \subseteq Ids
      OBVIOUS
    <3> QED BY <3>1, MonthsFinite
  <2>2. f[c] = Total(v, T) /\ h[c] = Total(v, T)
    BY DEF SumsBelow
  <2> HIDE DEF T
  <2>3. \A x \in T : v[x] \in Int
    BY <2>1
  <2>4. Total(v, T) \in Int
    BY <2>1, <2>3, TotalInt
  <2> QED BY <2>2, <2>4
<1>3. Total(v, S \cap (Subtree(t, n) \ {n})) = Total(h, R)
  BY BranchTotals
<1> HIDE DEF R, h
<1>4. (\A c \in R : f[c] \in Int) /\ (\A c \in R : h[c] = f[c])
  BY <1>2
<1>5. SumFunctionOnSet(f, R) = Total(f, R) /\ Total(f, R) \in Int
  BY <1>1, <1>4, SumIsTotal
<1>6. Total(h, R) = Total(f, R)
  BY <1>1, <1>4, TotalSame
<1> QED BY <1>3, <1>5, <1>6 DEF R

LEMMA StepsSum ==
  ASSUME NEW t, WellFormed(t), DOMAIN t \subseteq Ids, NEW v, \A x \in Ids : v[x] \in Int,
         NEW n \in DOMAIN t, NEW f
  PROVE  /\ (\A c \in Children(t, n) : f[c] = LeafSums(t, v)[c]) => LeafStep(t, v, f)[n] = LeafSums(t, v)[n]
         /\ (\A c \in Children(t, n) : f[c] = TreeSums(t, v)[c]) => TreeStep(t, v, f)[n] = TreeSums(t, v)[n]
<1>1. Children(t, n) \subseteq DOMAIN t /\ n \in Subtree(t, n) /\ Subtree(t, n) \subseteq DOMAIN t
  BY Branches, SubtreeKept
<1>2. n \in Ids /\ v[n] \in Int
  OBVIOUS
<1>3. ASSUME \A c \in Children(t, n) : f[c] = LeafSums(t, v)[c]
      PROVE  LeafStep(t, v, f)[n] = LeafSums(t, v)[n]
  <2> DEFINE L == Leaves(t)
  <2>1. L \in SUBSET DOMAIN t
    BY DEF Leaves
  <2>2. CASE Childless(t, n)
    <3>1. L \cap Subtree(t, n) = {n}
      BY <2>2, LeafChildless DEF Childless, Subtree, Grandchildren
    <3>2. Total(v, {n}) = v[n]
      BY <1>2, TotalSingle
    <3> QED BY <2>2, <3>1, <3>2 DEF LeafStep, LeafSums
  <2>3. CASE ~Childless(t, n)
    <3>1. n \notin L
      BY <2>3, LeafChildless DEF Childless
    <3>2. L \cap (Subtree(t, n) \ {n}) = L \cap Subtree(t, n)
      BY <3>1
    <3>3. SumsBelow(t, v, n, L, f)
      BY <1>1, <1>3 DEF LeafSums, SumsBelow
    <3> HIDE DEF L
    <3>4. SumFunctionOnSet(f, Children(t, n)) = Total(v, L \cap (Subtree(t, n) \ {n}))
      BY <2>1, <3>3, SummedChildren
    <3> QED BY <2>3, <3>2, <3>4 DEF LeafStep, LeafSums, L
  <2> QED BY <2>2, <2>3
<1>4. ASSUME \A c \in Children(t, n) : f[c] = TreeSums(t, v)[c]
      PROVE  TreeStep(t, v, f)[n] = TreeSums(t, v)[n]
  <2> DEFINE S == DOMAIN t
             T == Subtree(t, n)
  <2>1. S \in SUBSET DOMAIN t
    OBVIOUS
  <2>2. \A c \in Children(t, n) : S \cap Subtree(t, c) = Subtree(t, c)
    BY <1>1, SubtreeKept
  <2>3. SumsBelow(t, v, n, S, f)
    BY <1>1, <1>4, <2>2 DEF TreeSums, SumsBelow
  <2>4. S \cap (T \ {n}) = T \ {n} /\ IsFiniteSet(T) /\ n \in T /\ T \subseteq Ids
    <3>1. T \subseteq Ids /\ n \in T
      BY <1>1
    <3> QED BY <1>1, <3>1, MonthsFinite
  <2>5. SumFunctionOnSet(f, Children(t, n)) = Total(v, S \cap (T \ {n}))
    <3>1. SumFunctionOnSet(f, Children(t, n)) = Total(v, S \cap (Subtree(t, n) \ {n}))
      <4> HIDE DEF S
      <4> QED BY <2>1, <2>3, SummedChildren
    <3> QED BY <3>1
  <2> HIDE DEF S, T
  <2>6. \A x \in T : v[x] \in Int
    BY <2>4
  <2>7. Total(v, T) = v[n] + Total(v, T \ {n})
    BY <2>4, <2>6, TotalRemove
  <2>8. TreeStep(t, v, f)[n] = v[n] + SumFunctionOnSet(f, Children(t, n)) /\ TreeSums(t, v)[n] = Total(v, T)
    BY DEF TreeStep, TreeSums, T
  <2> QED BY <2>4, <2>5, <2>7, <2>8
<1> QED BY <1>3, <1>4

\* The recursions of rollupTable have one solution: the sums.
LEMMA SumsAreFixed ==
  ASSUME NEW t, WellFormed(t), DOMAIN t \subseteq Ids, NEW v, \A x \in Ids : v[x] \in Int
  PROVE  /\ LeafSums(t, v) = LeafStep(t, v, LeafSums(t, v))
         /\ TreeSums(t, v) = TreeStep(t, v, TreeSums(t, v))
<1> DEFINE f == LeafSums(t, v)
           g == TreeSums(t, v)
<1>1. ASSUME NEW n \in DOMAIN t PROVE LeafStep(t, v, f)[n] = f[n] /\ TreeStep(t, v, g)[n] = g[n]
  <2>1. (\A c \in Children(t, n) : f[c] = LeafSums(t, v)[c]) => LeafStep(t, v, f)[n] = LeafSums(t, v)[n]
    BY StepsSum
  <2>2. (\A c \in Children(t, n) : g[c] = TreeSums(t, v)[c]) => TreeStep(t, v, g)[n] = TreeSums(t, v)[n]
    BY StepsSum
  <2> QED BY <2>1, <2>2
<1>2. /\ f = [n \in DOMAIN t |-> f[n]] /\ LeafStep(t, v, f) = [n \in DOMAIN t |-> LeafStep(t, v, f)[n]]
  BY DEF LeafSums, LeafStep
<1>3. /\ g = [n \in DOMAIN t |-> g[n]] /\ TreeStep(t, v, g) = [n \in DOMAIN t |-> TreeStep(t, v, g)[n]]
  BY DEF TreeSums, TreeStep
<1> HIDE DEF f, g
<1>4. f = LeafStep(t, v, f) /\ g = TreeStep(t, v, g)
  BY <1>1, <1>2, <1>3
<1> QED BY <1>4 DEF f, g

LEMMA OnlySums ==
  ASSUME NEW t, WellFormed(t), DOMAIN t \subseteq Ids, NEW v, \A x \in Ids : v[x] \in Int, NEW f
  PROVE  /\ f = LeafStep(t, v, f) => \A n \in DOMAIN t : f[n] = LeafSums(t, v)[n]
         /\ f = TreeStep(t, v, f) => \A n \in DOMAIN t : f[n] = TreeSums(t, v)[n]
<1>1. ASSUME NEW n \in DOMAIN t
      PROVE  /\ t[n].level \in {Group, Category, Sub}
             /\ \A c \in Children(t, n) : /\ c \in DOMAIN t /\ t[n].level # Sub
                                          /\ t[n].level = Group => t[c].level = Category
                                          /\ t[n].level = Category => t[c].level = Sub
  <2>1. \A x \in DOMAIN t : t[x].level \in 0..2
    BY DEF WellFormed, Nodes
  <2>2. \A c \in Children(t, n) : c \in DOMAIN t /\ t[c].level = t[n].level + 1
    BY LevelsBelow
  <2> QED BY <2>1, <2>2
<1>2. ASSUME f = LeafStep(t, v, f) PROVE \A n \in DOMAIN t : f[n] = LeafSums(t, v)[n]
  <2> DEFINE g == LeafSums(t, v)
  <2>1. ASSUME NEW n \in DOMAIN t, \A c \in Children(t, n) : f[c] = g[c] PROVE f[n] = g[n]
    <3>1. LeafStep(t, v, f)[n] = LeafSums(t, v)[n]
      BY <2>1, StepsSum
    <3> QED BY <1>2, <3>1
  <2> HIDE DEF g
  <2>2. \A n \in DOMAIN t : t[n].level = Sub => f[n] = g[n]
    BY <1>1, <2>1
  <2>3. \A n \in DOMAIN t : t[n].level = Category => f[n] = g[n]
    BY <1>1, <2>1, <2>2
  <2>4. \A n \in DOMAIN t : t[n].level = Group => f[n] = g[n]
    BY <1>1, <2>1, <2>3
  <2> QED BY <1>1, <2>2, <2>3, <2>4 DEF g
<1>3. ASSUME f = TreeStep(t, v, f) PROVE \A n \in DOMAIN t : f[n] = TreeSums(t, v)[n]
  <2> DEFINE g == TreeSums(t, v)
  <2>1. ASSUME NEW n \in DOMAIN t, \A c \in Children(t, n) : f[c] = g[c] PROVE f[n] = g[n]
    <3>1. TreeStep(t, v, f)[n] = TreeSums(t, v)[n]
      BY <2>1, StepsSum
    <3> QED BY <1>3, <3>1
  <2> HIDE DEF g
  <2>2. \A n \in DOMAIN t : t[n].level = Sub => f[n] = g[n]
    BY <1>1, <2>1
  <2>3. \A n \in DOMAIN t : t[n].level = Category => f[n] = g[n]
    BY <1>1, <2>1, <2>2
  <2>4. \A n \in DOMAIN t : t[n].level = Group => f[n] = g[n]
    BY <1>1, <2>1, <2>3
  <2> QED BY <1>1, <2>2, <2>3, <2>4 DEF g
<1> QED BY <1>2, <1>3

LEMMA SumsOfIds ==
  ASSUME RowsTyped(rows), NEW r \in Figures, NEW m \in Months, NEW S \in SUBSET Ids
  PROVE  SumFunctionOnSet(Column(rows, r, m), S) = Total(Column(rows, r, m), S)
<1> DEFINE f == Column(rows, r, m)
<1>1. \A n \in S : f[n] \in Int
  BY ColumnTyped
<1>2. IsFiniteSet(S)
  BY MonthsFinite
<1> HIDE DEF f
<1>3. SumFunctionOnSet(f, S) = Total(f, S)
  BY <1>1, <1>2, SumIsTotal
<1> QED BY <1>3 DEF f

\* The roll-ups of a node.
LEMMA RollupsAre ==
  ASSUME WellFormed(tree), DOMAIN tree \subseteq Ids, RowsTyped(rows), NEW m \in Months, NEW n \in DOMAIN tree
  PROVE  /\ RollupBudget(n, m) = LeafSums(tree, Column(rows, "budget", m))[n]
         /\ RollupActual(n, m) = TreeSums(tree, Column(rows, "actual", m))[n]
         /\ IsLeaf(tree, n) => /\ LeafSums(tree, Column(rows, "budget", m))[n] = rows["budget"][n][m]
                               /\ TreeSums(tree, Column(rows, "actual", m))[n] = rows["actual"][n][m]
<1>1. n \in Ids /\ Subtree(tree, n) \subseteq DOMAIN tree /\ "budget" \in Figures /\ "actual" \in Figures
  BY SubtreeKept DEF Figures
<1>2. IsLeaf(tree, n) => Subtree(tree, n) = {n} /\ Leaves(tree) \cap Subtree(tree, n) = {n}
  <2>1. IsLeaf(tree, n) => n \in Leaves(tree)
    BY DEF Leaves
  <2> QED BY <2>1, LeafChildless DEF Subtree, Grandchildren
<1>3. ASSUME NEW r \in Figures PROVE Total(Column(rows, r, m), {n}) = rows[r][n][m]
  <2> DEFINE f == Column(rows, r, m)
  <2>1. f[n] \in Int /\ f[n] = rows[r][n][m]
    BY <1>1, ColumnTyped
  <2> HIDE DEF f
  <2>2. Total(f, {n}) = f[n]
    BY <2>1, TotalSingle
  <2> QED BY <2>1, <2>2 DEF f
<1>4. RollupBudget(n, m) = SumFunctionOnSet(Column(rows, "budget", m), Leaves(tree) \cap Subtree(tree, n))
  BY <1>2 DEF RollupBudget
<1>5. RollupActual(n, m) = SumFunctionOnSet(Column(rows, "actual", m), Subtree(tree, n))
  BY <1>2 DEF RollupActual
<1>6. Leaves(tree) \cap Subtree(tree, n) \in SUBSET Ids /\ Subtree(tree, n) \in SUBSET Ids
  BY <1>1
<1>7. RollupBudget(n, m) = Total(Column(rows, "budget", m), Leaves(tree) \cap Subtree(tree, n))
  BY <1>1, <1>4, <1>6, SumsOfIds
<1>8. RollupActual(n, m) = Total(Column(rows, "actual", m), Subtree(tree, n))
  BY <1>1, <1>5, <1>6, SumsOfIds
<1> QED BY <1>1, <1>2, <1>3, <1>7, <1>8 DEF LeafSums, TreeSums

\* rollupTable is the table of the roll-ups.
LEMMA TablesAre ==
  ASSUME WellFormed(tree), DOMAIN tree \subseteq Ids, RowsTyped(rows), NEW m \in Months
  PROVE  /\ TableBudget(m) = [n \in DOMAIN tree |-> RollupBudget(n, m)]
         /\ TableActual(m) = [n \in DOMAIN tree |-> RollupActual(n, m)]
<1> DEFINE v == Column(rows, "budget", m)
           w == Column(rows, "actual", m)
           leafBody(f) == [n \in DOMAIN tree |-> IF Childless(tree, n) THEN rows["budget"][n][m]
                                                 ELSE SumFunctionOnSet(f, Children(tree, n))]
           treeBody(f) == [n \in DOMAIN tree |-> rows["actual"][n][m] + SumFunctionOnSet(f, Children(tree, n))]
           leafSum == CHOOSE f : f = leafBody(f)
           treeSum == CHOOSE f : f = treeBody(f)
<1>1. "budget" \in Figures /\ "actual" \in Figures
  BY DEF Figures
<1>2. \A n \in Ids : v[n] = rows["budget"][n][m] /\ v[n] \in Int /\ w[n] = rows["actual"][n][m] /\ w[n] \in Int
  <2>1. \A n \in Ids : Column(rows, "budget", m)[n] = rows["budget"][n][m] /\ Column(rows, "budget", m)[n] \in Nat
    BY <1>1, ColumnTyped
  <2>2. \A n \in Ids : Column(rows, "actual", m)[n] = rows["actual"][n][m] /\ Column(rows, "actual", m)[n] \in Nat
    BY <1>1, ColumnTyped
  <2> QED BY <2>1, <2>2
<1>3. TableBudget(m) = [n \in DOMAIN tree |-> IF IsLeaf(tree, n) THEN rows["budget"][n][m] ELSE leafSum[n]]
  BY DEF TableBudget
<1>4. TableActual(m) = [n \in DOMAIN tree |-> IF IsLeaf(tree, n) THEN rows["actual"][n][m] ELSE treeSum[n]]
  BY DEF TableActual
<1>5. ASSUME NEW f PROVE leafBody(f) = LeafStep(tree, v, f) /\ treeBody(f) = TreeStep(tree, w, f)
  <2>1. \A n \in DOMAIN tree : v[n] = rows["budget"][n][m] /\ w[n] = rows["actual"][n][m]
    BY <1>2
  <2> HIDE DEF v, w
  <2> QED BY <2>1 DEF LeafStep, TreeStep
<1> HIDE DEF v, w, leafBody, treeBody
<1>6. (\A n \in Ids : v[n] \in Int) /\ (\A n \in Ids : w[n] \in Int)
  BY <1>2
<1>7. leafSum = leafBody(leafSum)
  <2>1. LeafSums(tree, v) = LeafStep(tree, v, LeafSums(tree, v))
    BY <1>6, SumsAreFixed
  <2>2. \E f : f = leafBody(f)
    BY <1>5, <2>1
  <2> QED BY <2>2
<1>8. treeSum = treeBody(treeSum)
  <2>1. TreeSums(tree, w) = TreeStep(tree, w, TreeSums(tree, w))
    BY <1>6, SumsAreFixed
  <2>2. \E f : f = treeBody(f)
    BY <1>5, <2>1
  <2> QED BY <2>2
<1> HIDE DEF leafSum, treeSum
<1>9. leafSum = LeafStep(tree, v, leafSum) /\ treeSum = TreeStep(tree, w, treeSum)
  BY <1>5, <1>7, <1>8
<1>10. \A n \in DOMAIN tree : leafSum[n] = LeafSums(tree, v)[n] /\ treeSum[n] = TreeSums(tree, w)[n]
  BY <1>6, <1>9, OnlySums
<1>11. \A n \in DOMAIN tree :
         /\ RollupBudget(n, m) = IF IsLeaf(tree, n) THEN rows["budget"][n][m] ELSE leafSum[n]
         /\ RollupActual(n, m) = IF IsLeaf(tree, n) THEN rows["actual"][n][m] ELSE treeSum[n]
  BY <1>10, RollupsAre DEF v, w
<1> QED BY <1>3, <1>4, <1>11

-----------------------------------------------------------------------------
(* The groups of a type.                                                     *)

\* The group that x is of.
Root(t, x) == IF t[x].level = Group THEN x
              ELSE IF t[t[x].parent].level = Group THEN t[x].parent ELSE t[t[x].parent].parent

Groups(t, type) == {n \in OfType(t, type) : t[n].level = Group}

LEMMA Rooted ==
  ASSUME NEW t, WellFormed(t), NEW type
  PROVE  /\ \A x \in OfType(t, type) : Root(t, x) \in Groups(t, type)
         /\ \A g \in Groups(t, type) : {x \in OfType(t, type) : Root(t, x) = g} = Subtree(t, g)
<1>1. \A x \in DOMAIN t : /\ t[x].level \in {Group, Category, Sub}
                          /\ (t[x].level = Group) <=> (t[x].parent = NoNode)
                          /\ t[x].level # Group =>
                               /\ t[x].parent \in DOMAIN t
                               /\ t[t[x].parent].type = t[x].type
                               /\ t[t[x].parent].level = t[x].level - 1
  BY DEF WellFormed, Nodes
<1>2. NoNode \notin DOMAIN t
  BY DEF WellFormed
<1>3. ASSUME NEW x \in OfType(t, type) PROVE Root(t, x) \in Groups(t, type)
  <2>1. x \in DOMAIN t /\ t[x].type = type
    BY DEF OfType
  <2>2. CASE t[x].level = Group
    BY <2>1, <2>2 DEF Root, Groups, OfType
  <2>3. CASE t[x].level = Category
    <3>1. t[x].parent \in DOMAIN t /\ t[t[x].parent].level = Group /\ t[t[x].parent].type = type
      BY <1>1, <2>1, <2>3
    <3> QED BY <2>1, <2>3, <3>1 DEF Root, Groups, OfType
  <2>4. CASE t[x].level = Sub
    <3> DEFINE p == t[x].parent
    <3>1. p \in DOMAIN t /\ t[p].level = Category /\ t[p].type = type
      BY <1>1, <2>1, <2>4
    <3>2. t[p].parent \in DOMAIN t /\ t[t[p].parent].level = Group /\ t[t[p].parent].type = type
      BY <1>1, <3>1
    <3> QED BY <2>1, <2>4, <3>1, <3>2 DEF Root, Groups, OfType
  <2> QED BY <1>1, <2>1, <2>2, <2>3, <2>4
<1>4. ASSUME NEW g \in Groups(t, type), NEW x \in OfType(t, type), Root(t, x) = g PROVE x \in Subtree(t, g)
  <2>1. x \in DOMAIN t
    BY DEF OfType
  <2>2. CASE t[x].level = Group
    BY <1>4, <2>2 DEF Root, Subtree
  <2>3. CASE t[x].level = Category
    <3>1. t[x].parent = g
      BY <1>1, <1>4, <2>1, <2>3 DEF Root
    <3> QED BY <2>1, <3>1 DEF Subtree, Children
  <2>4. CASE t[x].level = Sub
    <3> DEFINE p == t[x].parent
    <3>1. p \in DOMAIN t /\ t[p].level = Category
      BY <1>1, <2>1, <2>4
    <3>2. t[p].parent = g
      BY <1>4, <2>4, <3>1 DEF Root
    <3>3. p \in Children(t, g) /\ x \in Children(t, p)
      BY <2>1, <3>1, <3>2 DEF Children
    <3> QED BY <3>3 DEF Subtree, Grandchildren
  <2> QED BY <1>1, <2>1, <2>2, <2>3, <2>4
<1>5. ASSUME NEW g \in Groups(t, type), NEW x \in Subtree(t, g) PROVE x \in OfType(t, type) /\ Root(t, x) = g
  <2>1. g \in DOMAIN t /\ t[g].level = Group /\ t[g].type = type
    BY DEF Groups, OfType
  <2>2. ASSUME NEW c \in Children(t, g)
        PROVE  c \in DOMAIN t /\ t[c].parent = g /\ t[c].level = Category /\ t[c].type = type
    <3>1. c \in DOMAIN t /\ t[c].parent = g
      BY DEF Children
    <3>2. t[c].level # Group
      BY <1>1, <1>2, <2>1, <3>1
    <3> QED BY <1>1, <2>1, <3>1, <3>2
  <2>3. CASE x = g
    BY <2>1, <2>3 DEF Root, OfType
  <2>4. CASE x \in Children(t, g)
    BY <2>1, <2>2, <2>4 DEF Root, OfType
  <2>5. CASE x \in Grandchildren(t, g)
    <3>1. PICK c \in Children(t, g) : x \in Children(t, c)
      BY <2>5 DEF Grandchildren
    <3>2. x \in DOMAIN t /\ t[x].parent = c /\ c \in DOMAIN t /\ t[c].parent = g /\ t[c].level = Category /\ t[c].type = type
      BY <2>2, <3>1 DEF Children
    <3>3. t[x].level # Group
      BY <1>1, <1>2, <3>2
    <3>4. t[x].type = type
      BY <1>1, <3>2, <3>3
    <3> QED BY <3>2, <3>3, <3>4 DEF Root, OfType
  <2> QED BY <2>3, <2>4, <2>5 DEF Subtree
<1>6. ASSUME NEW g \in Groups(t, type)
      PROVE  {x \in OfType(t, type) : Root(t, x) = g} = Subtree(t, g)
  BY <1>4, <1>5
<1> QED BY <1>3, <1>6

\* What a set of nodes has of a type is what it has below the groups of the type.
LEMMA GroupTotals ==
  ASSUME NEW t, WellFormed(t), DOMAIN t \subseteq Ids, NEW v, \A x \in Ids : v[x] \in Int,
         NEW type, NEW S \in SUBSET DOMAIN t
  PROVE  Total(v, OfType(t, type) \cap S)
           = Total([g \in Groups(t, type) |-> Total(v, S \cap Subtree(t, g))], Groups(t, type))
<1> DEFINE T == OfType(t, type) \cap S
           R == Groups(t, type)
           g == [x \in T |-> Root(t, x)]
           f == [y \in R |-> Total(v, {x \in T : g[x] = y})]
           h == [y \in R |-> Total(v, S \cap Subtree(t, y))]
<1>1. T \subseteq Ids /\ R \subseteq Ids /\ IsFiniteSet(T) /\ IsFiniteSet(R)
  <2>1. T \subseteq Ids /\ R \subseteq Ids
    BY DEF Groups, OfType
  <2> QED BY <2>1, MonthsFinite
<1>2. \A x \in T : g[x] \in R
  BY Rooted
<1>3. ASSUME NEW y \in R PROVE {x \in T : g[x] = y} = S \cap Subtree(t, y)
  <2>1. {x \in OfType(t, type) : Root(t, x) = y} = Subtree(t, y)
    BY Rooted
  <2> QED BY <2>1
<1>4. f = h
  BY <1>3
<1> HIDE DEF T, R, g, h
<1>5. \A x \in T : v[x] \in Int
  BY <1>1
<1>6. Total(f, R) = Total(v, T)
  BY <1>1, <1>2, <1>5, TotalGrouped
<1> QED BY <1>4, <1>6 DEF T, R, h

\* Adding what a function says of the nodes of a set.
LEMMA SummedOver ==
  ASSUME NEW R \in SUBSET Ids, NEW f, DOMAIN f = R, \A x \in R : f[x] \in Int
  PROVE  SumFunction(f) = Total(f, R)
<1>1. IsFiniteSet(R)
  BY MonthsFinite
<1>2. SumFunction(f) = SumFunctionOnSet(f, R)
  BY DEF SumFunction
<1> QED BY <1>1, <1>2, SumIsTotal

LEMMA GroupsAddUp ==
  ASSUME WellFormed(tree), DOMAIN tree \subseteq Ids, Hanging(tree, rows, journal, healed), healed,
         NEW m \in Months, NEW type
  PROVE  LET groups == {n \in OfType(tree, type) : tree[n].level = Group}
             total == TypeTotals(tree, rows, type, m)
         IN  /\ total[1] = SumFunction([n \in groups |-> RollupBudget(n, m)])
             /\ total[2] = SumFunction([n \in groups |-> RollupActual(n, m)])
             /\ total[2] = SumFunctionOnSet(Column(rows, "actual", m), OfType(tree, type) \cap Leaves(tree))
<1> DEFINE groups == {n \in OfType(tree, type) : tree[n].level = Group}
           total == TypeTotals(tree, rows, type, m)
           T == OfType(tree, type)
           L == Leaves(tree)
           v == Column(rows, "budget", m)
           w == Column(rows, "actual", m)
           b == [n \in groups |-> RollupBudget(n, m)]
           a == [n \in groups |-> RollupActual(n, m)]
<1>1. /\ RowsTyped(rows) /\ T \in SUBSET Ids /\ L \in SUBSET DOMAIN tree /\ groups \in SUBSET Ids
      /\ T \subseteq DOMAIN tree /\ groups \subseteq DOMAIN tree /\ groups = Groups(tree, type)
      /\ "budget" \in Figures /\ "actual" \in Figures
  BY DEF Hanging, OfType, Leaves, Groups, Figures
<1>2. (\A n \in Ids : v[n] \in Int) /\ (\A n \in Ids : w[n] \in Int)
  <2>1. \A n \in Ids : Column(rows, "budget", m)[n] \in Nat
    BY <1>1, ColumnTyped
  <2>2. \A n \in Ids : Column(rows, "actual", m)[n] \in Nat
    BY <1>1, ColumnTyped
  <2> QED BY <2>1, <2>2
<1>3. total = << SumFunctionOnSet(v, T \cap L), SumFunctionOnSet(w, T),
                 SumFunctionOnSet(Column(rows, "plan", m), T) >>
  BY DEF TypeTotals
<1>4. total[1] = Total(v, T \cap L) /\ total[2] = Total(w, T)
  <2>1. SumFunctionOnSet(v, T \cap L) = Total(v, T \cap L)
    <3>1. T \cap L \in SUBSET Ids
      BY <1>1
    <3> HIDE DEF T, L
    <3> QED BY <1>1, <3>1, SumsOfIds
  <2>2. SumFunctionOnSet(w, T) = Total(w, T)
    <3> HIDE DEF T, L
    <3> QED BY <1>1, SumsOfIds
  <2> QED BY <1>3, <2>1, <2>2
<1>5. \A n \in DOMAIN tree : /\ RollupBudget(n, m) = Total(v, L \cap Subtree(tree, n))
                             /\ RollupActual(n, m) = Total(w, DOMAIN tree \cap Subtree(tree, n))
  <2> TAKE n \in DOMAIN tree
  <2>1. DOMAIN tree \cap Subtree(tree, n) = Subtree(tree, n)
    BY SubtreeKept
  <2>2. RollupBudget(n, m) = LeafSums(tree, v)[n] /\ RollupActual(n, m) = TreeSums(tree, w)[n]
    BY <1>1, RollupsAre
  <2> HIDE DEF v, w
  <2> QED BY <2>1, <2>2 DEF LeafSums, TreeSums
<1>6. ASSUME NEW S \in SUBSET DOMAIN tree, NEW f, \A n \in Ids : f[n] \in Int, NEW n \in DOMAIN tree
      PROVE  Total(f, S \cap Subtree(tree, n)) \in Int
  <2> DEFINE U == S \cap Subtree(tree, n)
  <2>1. U \subseteq Ids
    OBVIOUS
  <2>2. IsFiniteSet(U)
    BY <2>1, MonthsFinite
  <2> HIDE DEF U
  <2>3. \A x \in U : f[x] \in Int
    BY <1>6, <2>1
  <2>4. Total(f, U) \in Int
    BY <2>2, <2>3, TotalInt
  <2> QED BY <2>4 DEF U
<1>7. /\ b = [n \in groups |-> Total(v, L \cap Subtree(tree, n))]
      /\ a = [n \in groups |-> Total(w, DOMAIN tree \cap Subtree(tree, n))]
  BY <1>1, <1>5
<1>8. Total(v, T \cap L) = Total(b, groups)
  <2>1. Total(v, OfType(tree, type) \cap L)
          = Total([g \in Groups(tree, type) |-> Total(v, L \cap Subtree(tree, g))], Groups(tree, type))
    <3> HIDE DEF v, L
    <3> QED BY <1>1, <1>2, GroupTotals
  <2> QED BY <1>1, <1>7, <2>1
<1>9. Total(w, T) = Total(a, groups)
  <2> DEFINE D == DOMAIN tree
  <2>1. D \in SUBSET DOMAIN tree /\ T \cap D = T
    BY <1>1
  <2>2. Total(w, OfType(tree, type) \cap D)
          = Total([g \in Groups(tree, type) |-> Total(w, D \cap Subtree(tree, g))], Groups(tree, type))
    <3> HIDE DEF w, D
    <3> QED BY <1>2, <2>1, GroupTotals
  <2> QED BY <1>1, <1>7, <2>1, <2>2
<1>10. \A n \in groups : b[n] \in Int /\ a[n] \in Int
  <2> HIDE DEF v, w, L, groups
  <2> TAKE n \in groups
  <2>1. n \in DOMAIN tree /\ DOMAIN tree \in SUBSET DOMAIN tree
    BY <1>1
  <2>2. Total(v, L \cap Subtree(tree, n)) \in Int
    BY <1>1, <1>2, <1>6, <2>1
  <2>3. Total(w, DOMAIN tree \cap Subtree(tree, n)) \in Int
    BY <1>1, <1>2, <1>6, <2>1
  <2> QED BY <1>7, <2>2, <2>3
<1>11. Total(w, T) = Total(w, T \cap L)
  <2>1. \A n \in T : n \notin L => w[n] = 0
    BY <1>1, LeavesHave DEF Placed, Hanging, Keepers, Nothing, Figures, Column, Empty
  <2> DEFINE U == T \cap L
  <2>2. U \in SUBSET T /\ IsFiniteSet(T) /\ \A n \in T : n \notin U => w[n] = 0
    BY <1>1, <2>1, MonthsFinite
  <2> HIDE DEF w, T, U
  <2>3. (\A n \in T : w[n] \in Int) /\ \A n \in T : w[n] = IF n \in U THEN w[n] ELSE 0
    BY <1>1, <1>2, <2>2
  <2>4. Total(w, T) = Total(w, U)
    BY <2>2, <2>3, TotalWithin
  <2> QED BY <2>4 DEF U
<1>12. SumFunctionOnSet(w, T \cap L) = Total(w, T \cap L)
  <2>1. T \cap L \in SUBSET Ids
    BY <1>1
  <2> HIDE DEF T, L
  <2> QED BY <1>1, <2>1, SumsOfIds
<1>13. SumFunction(b) = Total(b, groups) /\ SumFunction(a) = Total(a, groups)
  <2>1. DOMAIN b = groups /\ DOMAIN a = groups
    OBVIOUS
  <2> HIDE DEF a, b, groups
  <2> QED BY <1>1, <1>10, <2>1, SummedOver
<1> HIDE DEF total
<1>14. /\ total[1] = SumFunction(b) /\ total[2] = SumFunction(a)
       /\ total[2] = SumFunctionOnSet(w, T \cap L)
  BY <1>4, <1>8, <1>9, <1>11, <1>12, <1>13
<1> QED BY <1>14 DEF total

\* What is reserved is what the pockets hold, for an inner one holds nothing.
LEMMA ReservedIsHeld ==
  ASSUME WellFormed(tree), DOMAIN tree \subseteq Ids, Hanging(tree, rows, journal, healed), healed, Balanced,
         NEW m \in Months
  PROVE  Reserved(tree, rows, journal, m)
           = SumFunction([p \in Pockets(tree) |-> Series(rows, journal, p)[m]])
<1> DEFINE f == Held(rows, journal, m)
           g == [p \in Pockets(tree) |-> Series(rows, journal, p)[m]]
           P == Pockets(tree)
           T == OfType(tree, "transfer")
<1>1. /\ RowsTyped(rows) /\ Numbered(journal) /\ Paired(tree, journal) /\ Placed(tree, rows, journal, healed)
      /\ P \in SUBSET T /\ T \in SUBSET Ids /\ P \in SUBSET Ids
  BY DEF Hanging, Balanced, Pockets, OfType
<1>2. \A p \in Ids : f[p] = Series(rows, journal, p)[m] /\ f[p] \in Int
  BY <1>1, HeldTyped
<1>3. ASSUME NEW p \in T \ P PROVE f[p] = 0
  <2>1. p \in Ids /\ p \in Ids \ Leaves(tree) /\ Keepers(tree, healed) = Leaves(tree)
    BY <1>1 DEF Pockets, Keepers
  <2>2. rows["actual"][p] = Empty
    BY <1>1, <2>1 DEF Placed, Nothing, Figures
  <2>3. \A y \in journal : p \notin {y.from, y.to}
    BY <1>1, <2>1 DEF Placed, Ends
  <2>4. Series(rows, journal, p)[m] = 0
    BY <1>1, <2>1, <2>2, <2>3, NothingMoved
  <2> QED BY <1>2, <2>1, <2>4
<1>4. Reserved(tree, rows, journal, m) = Total(f, T)
  BY <1>1, ReservedHeld
<1>5. /\ \A p \in P : g[p] = f[p] /\ g[p] \in Int
      /\ DOMAIN g = P
  <2>1. \A p \in P : g[p] = Series(rows, journal, p)[m]
    OBVIOUS
  <2> HIDE DEF g, f, P
  <2>2. \A p \in P : g[p] = f[p] /\ g[p] \in Int
    BY <1>1, <1>2, <2>1
  <2> QED BY <2>2 DEF g, P
<1>6. IsFiniteSet(T) /\ \A p \in T : f[p] \in Int
  <2> HIDE DEF f, T
  <2> QED BY <1>1, <1>2, MonthsFinite
<1> HIDE DEF f, g, P, T
<1>7. Total(g, P) = Total(f, T)
  BY <1>1, <1>3, <1>5, <1>6, TotalLess
<1>8. SumFunction(g) = Total(g, P)
  BY <1>1, <1>5, SummedOver
<1> QED BY <1>4, <1>7, <1>8 DEF g

\* As long as no pocket is deleted before the repairs of a first load ran: the grid,
\* added from the children up, shows of every node its roll-ups; the groups of a type
\* add up to its totals, in which no amount hangs from an inner node unseen; what is
\* reserved is what the pockets hold together, and none is below zero (BL-009, BG-039).
THEOREM GridIsRight == Spec /\ RepairedFirst => []GridAddsUp
<1>1. Sound /\ FloorKept => GridAddsUp
  <2> SUFFICES ASSUME Sound, FloorKept, healed, NEW m \in Months
               PROVE  /\ TableBudget(m) = [n \in DOMAIN tree |-> RollupBudget(n, m)]
                      /\ TableActual(m) = [n \in DOMAIN tree |-> RollupActual(n, m)]
                      /\ \A type \in Types(tree) :
                           LET groups == {n \in OfType(tree, type) : tree[n].level = Group}
                               total == TypeTotals(tree, rows, type, m)
                           IN  /\ total[1] = SumFunction([n \in groups |-> RollupBudget(n, m)])
                               /\ total[2] = SumFunction([n \in groups |-> RollupActual(n, m)])
                               /\ total[2] = SumFunctionOnSet(Column(rows, "actual", m),
                                                              OfType(tree, type) \cap Leaves(tree))
                      /\ Reserved(tree, rows, journal, m)
                           = SumFunction([p \in Pockets(tree) |-> Series(rows, journal, p)[m]])
                      /\ \A p \in Pockets(tree) : Series(rows, journal, p)[m] >= 0
    BY DEF GridAddsUp
  <2>1. /\ WellFormed(tree) /\ DOMAIN tree \subseteq Ids /\ Hanging(tree, rows, journal, healed)
        /\ RowsTyped(rows) /\ Balanced
    BY TreeIds DEF Sound, BookOK, Hanging
  <2>2. /\ TableBudget(m) = [n \in DOMAIN tree |-> RollupBudget(n, m)]
        /\ TableActual(m) = [n \in DOMAIN tree |-> RollupActual(n, m)]
    BY <2>1, TablesAre
  <2>3. ASSUME NEW type \in Types(tree)
        PROVE  LET groups == {n \in OfType(tree, type) : tree[n].level = Group}
                   total == TypeTotals(tree, rows, type, m)
               IN  /\ total[1] = SumFunction([n \in groups |-> RollupBudget(n, m)])
                   /\ total[2] = SumFunction([n \in groups |-> RollupActual(n, m)])
                   /\ total[2] = SumFunctionOnSet(Column(rows, "actual", m),
                                                  OfType(tree, type) \cap Leaves(tree))
    BY <2>1, GroupsAddUp
  <2>4. Reserved(tree, rows, journal, m)
          = SumFunction([p \in Pockets(tree) |-> Series(rows, journal, p)[m]])
    BY <2>1, ReservedIsHeld
  <2>5. \A p \in Pockets(tree) : Series(rows, journal, p)[m] >= 0
    BY DEF FloorKept, Floor, Pockets
  <2> QED BY <2>2, <2>3, <2>4, <2>5
<1> QED BY <1>1, AlwaysSound, AlwaysFloor, PTL

=============================================================================

---------------------------- MODULE CategoryTree ----------------------------
(***************************************************************************)
(* The tree of categories (src/src/domain/mutations.ts over tree.ts): what *)
(* is created, moved and deleted while amounts, planned withdrawals,       *)
(* comments and movements hang from its leaves, and the repairs a load     *)
(* runs on what older versions left behind.                                *)
(*                                                                         *)
(* A group that gains its first category is no leaf any more: what it had  *)
(* goes to a leaf below it, journal included.  Nodes are numbered in the   *)
(* order of the grid.  The income of the months covers every reserve: the  *)
(* ceiling is the subject of Reserve.                                      *)
(***************************************************************************)
EXTENDS Integers, FiniteSets, FiniteSetsExt, Functions

CONSTANTS
  MaxNode,    \* nodes that may ever exist
  MaxMonth,   \* the range goes from month 1 to MaxMonth
  Users       \* for each user, the entries made, <<kind, month>>, how many amounts,
              \* notes and movements the book may gather, and the books first found

Ids == 1..MaxNode
Months == 1..MaxMonth
NoNode == 0
Available == -1
NoEnd == -2          \* the ends of a movement that is not of a reserve
Group == 0
Category == 1
Sub == 2

\* What a node has, month by month: its two cells, its planned withdrawal, and
\* the comments of its cells and of its planned withdrawal.
Rows == {"budget", "actual", "plan", "notes", "planNotes"}
Figures == {"budget", "actual", "plan"}
Comments == {"notes", "planNotes"}

ASSUME TreeAssumption ==
  /\ MaxNode \in Nat \ {0} /\ MaxMonth \in Nat \ {0}

VARIABLES
  tree,      \* for each living node, its level, its parent and its type
  rows,      \* amounts and counts of comments by row, node and month
  journal,   \* the movements
  closed,    \* the months up to this one are closed
  healed,    \* TRUE once a load ran its repairs
  created,   \* how many nodes have been created
  user       \* who works: [entries, size]

book == <<rows, journal>>
vars == <<tree, rows, journal, closed, healed, created, user>>

-----------------------------------------------------------------------------
(* The tree *)

Children(t, n) == {c \in DOMAIN t : t[c].parent = n}
Childless(t, n) == Children(t, n) = {}
IsLeaf(t, n) == t[n].level = Sub \/ Childless(t, n)
Leaves(t) == {n \in DOMAIN t : IsLeaf(t, n)}

Grandchildren(t, n) == UNION {Children(t, c) : c \in Children(t, n)}
Subtree(t, n) == {n} \cup Children(t, n) \cup Grandchildren(t, n)
SubtreeDepth(t, n) ==
  IF Childless(t, n) THEN 0 ELSE IF Grandchildren(t, n) = {} THEN 1 ELSE 2

\* leafDescendants(...)[0].
FirstLeaf(t, n) ==
  IF Childless(t, n) THEN n
  ELSE LET c == Min(Children(t, n)) IN IF Childless(t, c) THEN c ELSE Min(Children(t, c))

\* catSubOf: the label a movement of node n carries.
CatOf(t, n) == IF t[n].level = Sub THEN t[n].parent ELSE n
SubOf(t, n) == IF t[n].level = Sub THEN n ELSE NoNode

Types(t) == {t[n].type : n \in DOMAIN t}
OfType(t, type) == {n \in DOMAIN t : t[n].type = type}

-----------------------------------------------------------------------------
(* What hangs from the leaves *)

Empty == [m \in Months |-> 0]

\* What a pocket holds: its contributions, and what the journal moved.
Moved(moves) == SumFunction([x \in moves |-> x.amount])

Change(rs, j, p, m) ==
  rs["actual"][p][m]
    + Moved({x \in j : x.to = p /\ x.from \in Ids /\ x.month = m})
    - Moved({x \in j : x.from = p /\ x.month = m})

Series(rs, j, p) ==
  LET s[m \in 0..MaxMonth] == IF m = 0 THEN 0 ELSE s[m - 1] + Change(rs, j, p, m)
  IN  [m \in Months |-> s[m]]

Ends(x) == {x.target, x.from, x.to} \cap Ids

\* Variant: the operations of a reserve keep the ends they had.
RepointedTarget(t, j, from, to) ==
  {[x EXCEPT !.target = IF @ = from THEN to ELSE @,
             !.cat = IF x.target = from THEN CatOf(t, to) ELSE @,
             !.sub = IF x.target = from THEN SubOf(t, to) ELSE @] : x \in j}

\* repointMovements: the journal of one node becomes another's.  A move between
\* the two would go from a pocket to itself: it is dropped (BG-024).
Repointed(t, j, from, to) ==
  LET now(n) == IF n = from THEN to ELSE n
      next == {[x EXCEPT !.from = now(@), !.to = now(@), !.target = now(@),
                         !.cat = IF x.target = from THEN CatOf(t, to) ELSE @,
                         !.sub = IF x.target = from THEN SubOf(t, to) ELSE @] : x \in j}
  IN  {x \in next : x.from = NoEnd \/ x.from # x.to}

\* Variant: the receiver keeps its own amounts only.
JoinedOwn(rs, from, to, which) ==
  [r \in Rows |-> IF r \notin which THEN rs[r] ELSE [rs[r] EXCEPT ![from] = Empty]]

\* Rows of one node added to those of another.
Joined(rs, from, to, which) ==
  [r \in Rows |->
     IF r \notin which THEN rs[r]
     ELSE [rs[r] EXCEPT ![to] = [m \in Months |-> rs[r][to][m] + rs[r][from][m]],
                        ![from] = Empty]]

\* repairMovementCats: every label agrees with the tree.
Relabelled(t, j) ==
  {IF x.target \in DOMAIN t
   THEN [x EXCEPT !.cat = CatOf(t, x.target), !.sub = SubOf(t, x.target)] ELSE x : x \in j}

\* closedPeriodsViolated: amounts and movements of closed months; neither the
\* comments nor the labels count.
Frozen(rs, j) ==
  [amounts |-> [r \in Figures |-> [n \in Ids |-> [m \in 1..closed |-> rs[r][n][m]]]],
   moves |-> {<<x.id, x.target, x.from, x.to, x.month, x.amount>> : x \in {y \in j : y.month <= closed}}]

\* Variant: the first child of a leaf takes its closed figures (BG-095).
TouchesClosedNever(rs, j) == FALSE

TouchesClosed(rs, j) == Frozen(rs, j) # Frozen(rows, journal)

-----------------------------------------------------------------------------
(* The operations on the tree *)

\* The tree becomes t, where node `from` may cede what it had to node `to`; a
\* move, unlike a creation, renews the labels.  Nothing of a closed month may
\* change (BG-095).
Reorganise(t, from, to, cedes, move) ==
  LET j == IF cedes THEN Repointed(t, journal, from, to) ELSE journal IN
  /\ tree' = t
  /\ rows' = IF cedes THEN Joined(rows, from, to, Rows) ELSE rows
  /\ journal' = IF move THEN Relabelled(t, j) ELSE j
  /\ ~TouchesClosed(rows', journal')

\* Variant: a node that had its money by moves alone, no cell of its own, keeps
\* its journal when it stops being a leaf (BG-053).
AdoptWithCells(t, n, receiver, move) ==
  LET cells == \E m \in Months : rows["budget"][n][m] + rows["actual"][n][m] > 0
  IN  Reorganise(t, n, receiver, Childless(tree, n) /\ cells, move)

\* Node n has a child in t; if it had none, what it had goes to a leaf below it.
Adopt(t, n, receiver, move) == Reorganise(t, n, receiver, Childless(tree, n), move)

\* createNode: a group, or the child of a group or of a category.
CreateNode(parent, type) ==
  LET id == created + 1
      level == IF parent = NoNode THEN Group ELSE tree[parent].level + 1
      t == [n \in DOMAIN tree \cup {id} |->
              IF n = id THEN [level |-> level, parent |-> parent, type |-> type] ELSE tree[n]]
  IN  /\ id \in Ids
      /\ created' = id
      /\ IF parent = NoNode
         THEN tree' = t /\ UNCHANGED book
         ELSE /\ tree[parent].level # Sub /\ tree[parent].type = type
              /\ Adopt(t, parent, id, FALSE)
      /\ UNCHANGED <<closed, healed, user>>

\* To the root of its type: its children go up with it.
MoveToRoot(n) ==
  LET t == [x \in DOMAIN tree |->
              IF x = n THEN [tree[x] EXCEPT !.level = Group, !.parent = NoNode]
              ELSE IF x \in Children(tree, n) THEN [tree[x] EXCEPT !.level = Category] ELSE tree[x]]
  IN  /\ tree[n].level # Group
      /\ Reorganise(t, n, n, FALSE, TRUE)
      /\ UNCHANGED <<closed, healed, created, user>>

\* A destination of a move: of the same type, and not below what is moved.
Accepts(n, dest) ==
  /\ tree[n].type = tree[dest].type
  /\ dest \notin Subtree(tree, n)
  /\ tree[dest].level # Sub

\* Variant: the group fits wherever a leaf would.
FitsLeaf(n, dest) == tree[dest].level + 1 <= Sub

\* The deepest descendant may not fall below the third level (would_overflow).
Fits(n, dest) == tree[dest].level + 1 + SubtreeDepth(tree, n) <= Sub

\* A group goes down with its whole subtree.
MoveGroup(n, dest) ==
  LET t == [x \in DOMAIN tree |->
              IF x \notin Subtree(tree, n) THEN tree[x]
              ELSE [tree[x] EXCEPT !.level = @ + tree[dest].level + 1,
                                   !.parent = IF x = n THEN dest ELSE @]]
  IN  /\ tree[n].level = Group
      /\ Accepts(n, dest)
      /\ Fits(n, dest)
      /\ Adopt(t, dest, FirstLeaf(t, n), TRUE)
      /\ UNCHANGED <<closed, healed, created, user>>

\* Variant: what a category had below stays below it.
FlattenedNone(n, dest) ==
  [x \in DOMAIN tree |->
     IF x = n THEN [tree[x] EXCEPT !.level = Sub, !.parent = dest] ELSE tree[x]]

\* Into a category: what the moved one had below is flattened beside it.
Flattened(n, dest) ==
  [x \in DOMAIN tree |->
     IF x \in {n} \cup Children(tree, n)
     THEN [tree[x] EXCEPT !.level = Sub, !.parent = dest] ELSE tree[x]]

MoveToCategory(n, dest) ==
  /\ tree[n].level # Group /\ tree[dest].level = Category
  /\ Accepts(n, dest)
  /\ Adopt(Flattened(n, dest), dest, n, TRUE)
  /\ UNCHANGED <<closed, healed, created, user>>

\* Variant: the amounts of the group go to the moved node, a leaf or not (BG-039).
ReceiverMoved(t, n) == n
Receiver(t, n) == FirstLeaf(t, n)

\* Into a group: it becomes one of its categories and keeps what it has below.
MoveToGroup(n, dest) ==
  LET t == [tree EXCEPT ![n].level = Category, ![n].parent = dest] IN
  /\ tree[n].level # Group /\ tree[dest].level = Group
  /\ Accepts(n, dest)
  /\ Adopt(t, dest, Receiver(t, n), TRUE)
  /\ UNCHANGED <<closed, healed, created, user>>

HasData(n) == \E r \in Figures, m \in Months : rows[r][n][m] > 0

\* Variant: only the cells say whether a node is empty (BG-019).
HoldsNothing(n) == FALSE

\* subtreeHasReserveBalance: what the pocket holds at the end of the range.
HoldsBalance(n) == tree[n].type = "transfer" /\ Series(rows, journal, n)[MaxMonth] # 0

\* rewriteForDelete: what another pocket gave to the deleted one goes back to
\* what is available; the rest of its movements go with it.
WithoutNode(t, j, n) ==
  {IF n \in {x.target, x.from, x.to}
   THEN [x EXCEPT !.to = Available, !.target = x.from,
                  !.cat = CatOf(t, x.from), !.sub = SubOf(t, x.from)] ELSE x :
     x \in {y \in j : n \in {y.target, y.from, y.to} => y.from \in DOMAIN t}}

\* Variant: nothing looks at what the deletion does to the other pockets (BG-023).
WouldCorruptNone(n, rs, j) == FALSE

\* deleteWouldCorrupt: some pocket that stays would hold something else.
WouldCorrupt(n, rs, j) ==
  \E p \in Leaves(tree) \ {n} :
    tree[p].type = "transfer" /\ Series(rs, j, p) # Series(rows, journal, p)

DeleteNode(n) ==
  /\ Childless(tree, n) /\ ~HasData(n) /\ ~HoldsBalance(n)
  /\ tree' = [x \in DOMAIN tree \ {n} |-> tree[x]]
  /\ rows' = [r \in Rows |-> [rows[r] EXCEPT ![n] = Empty]]
  /\ journal' = WithoutNode(tree', journal, n)
  /\ ~WouldCorrupt(n, rows', journal')
  /\ ~TouchesClosed(rows', journal')
  /\ UNCHANGED <<closed, healed, created, user>>

-----------------------------------------------------------------------------
(* What is entered in a leaf *)

Size == MapThenSumSet(LAMBDA r : MapThenSumSet(LAMBDA c : rows[r][c[1]][c[2]], Ids \X Months), Rows)
          + Cardinality(journal)

\* An entry of a kind, on a leaf of a type, in a month that is open.
Entry(kind, n, type, m) ==
  /\ <<kind, m>> \in user.entries /\ m > closed
  /\ n \in Leaves(tree) /\ tree[n].type = type
  /\ UNCHANGED <<tree, closed, healed, created, user>>

Put(r, n, m, v) == rows' = [rows EXCEPT ![r][n][m] = v]

Journaled(n, from, to, m, amount) ==
  LET id == Min((1..Cardinality(journal) + 1) \ {x.id : x \in journal}) IN
  journal' = journal \cup {[id |-> id, target |-> n, cat |-> CatOf(tree, n), sub |-> SubOf(tree, n),
                            from |-> from, to |-> to, month |-> m, amount |-> amount]}

\* The floor of a pocket, in what is real and in the plan (chainCheck).
NotBelow(rs, j, p) == \A m \in Months : Series(rs, j, p)[m] >= 0

NotBelowPlan(rs, p) ==
  \A m \in Months : SumFunction([k \in 1..m |-> rs["budget"][p][k] - rs["plan"][p][k]]) >= 0

\* setLeafAmount, of an expense: what was planned is assigned; what was spent is
\* explained by an adjustment (adjustCell).
SetLeafAmount(n, m, v) ==
  /\ Entry("cell", n, "expense", m)
  /\ v # rows["budget"][n][m] /\ Size + v - rows["budget"][n][m] <= user.size
  /\ Put("budget", n, m, v)
  /\ UNCHANGED journal

AdjustCell(n, m, v) ==
  LET diff == v - Moved({x \in journal : x.target = n /\ x.month = m}) IN
  /\ Entry("cell", n, "expense", m)
  /\ diff # 0 /\ Size + 1 + v - rows["actual"][n][m] <= user.size
  /\ Put("actual", n, m, v)
  /\ Journaled(n, NoEnd, NoEnd, m, diff)

\* setLeafAmount, of a pocket: no month may end below zero.
SetPocketAmount(n, r, m, v) ==
  /\ Entry("cell", n, "transfer", m)
  /\ v # rows[r][n][m] /\ Size + v - rows[r][n][m] <= user.size
  /\ Put(r, n, m, v)
  /\ UNCHANGED journal
  /\ IF r = "actual" THEN NotBelow(rows', journal', n) ELSE NotBelowPlan(rows', n)

\* addMovement, of an expense: the cell and the journal.
AddMovement(n, m) ==
  /\ Entry("movement", n, "expense", m)
  /\ Size + 2 <= user.size
  /\ Put("actual", n, m, rows["actual"][n][m] + 1)
  /\ Journaled(n, NoEnd, NoEnd, m, 1)

\* addMovement, of a pocket: setting aside writes its cell too.
SetAside(p, m) ==
  /\ Entry("aside", p, "transfer", m)
  /\ Size + 2 <= user.size
  /\ Put("actual", p, m, rows["actual"][p][m] + 1)
  /\ Journaled(p, Available, p, m, 1)

\* Taking out of a pocket, and moving to another, write the journal alone.
TakeOut(p, m) ==
  /\ Entry("out", p, "transfer", m)
  /\ Size + 1 <= user.size
  /\ Journaled(p, p, Available, m, 1)
  /\ UNCHANGED rows
  /\ NotBelow(rows', journal', p)

MoveMoney(p, q, m) ==
  /\ Entry("move", p, "transfer", m)
  /\ q \in Leaves(tree) \ {p} /\ tree[q].type = "transfer"
  /\ Size + 1 <= user.size
  /\ Journaled(q, p, q, m, 1)
  /\ UNCHANGED rows
  /\ NotBelow(rows', journal', p)

\* planRetiro: what the plan takes out, the plan has.
PlanRetiro(p, m) ==
  /\ Entry("plan", p, "transfer", m)
  /\ Size + 1 <= user.size
  /\ Put("plan", p, m, rows["plan"][p][m] + 1)
  /\ UNCHANGED journal
  /\ NotBelowPlan(rows', p)

\* addCellNote: on a cell, or on the planned withdrawal of a pocket; closed
\* months admit comments.
AddNote(n, r, m) ==
  /\ <<"note", m>> \in user.entries
  /\ n \in Leaves(tree) /\ (r = "planNotes" => tree[n].type = "transfer")
  /\ Size + 1 <= user.size
  /\ Put(r, n, m, rows[r][n][m] + 1)
  /\ UNCHANGED <<tree, journal, closed, healed, created, user>>

\* The last month of the range stays open.
Close == closed + 1 < MaxMonth /\ closed' = closed + 1 /\ UNCHANGED <<tree, book, healed, created, user>>

-----------------------------------------------------------------------------
(* The repairs of a load *)

Nothing(rs, r, n) == rs[r][n] = Empty

\* repairOrphanedPocketJournal (BG-053): a pocket with children, no cells, and
\* still a journal or a planned withdrawal of its own.
Ceding ==
  {n \in DOMAIN tree :
     /\ tree[n].type = "transfer" /\ ~Childless(tree, n)
     /\ Nothing(rows, "budget", n) /\ Nothing(rows, "actual", n)
     /\ ~Nothing(rows, "plan", n) \/ \E x \in journal : n \in {x.target, x.from, x.to}}

\* Variant: the repaired pocket takes the cells' comments and not its plan.
PocketRepairedBare(b, n) ==
  [rows |-> b.rows, journal |-> Repointed(tree, b.journal, n, FirstLeaf(tree, n))]

PocketRepaired(b, n) ==
  [rows    |-> Joined(b.rows, n, FirstLeaf(tree, n), {"plan"} \cup Comments),
   journal |-> Repointed(tree, b.journal, n, FirstLeaf(tree, n))]

\* repairOrphanedCellNotes (BG-077): comments of a node that is no leaf go to its
\* first leaf, those of a node that is no more are dropped.
NotesRepaired(rs, n) ==
  IF n \in Leaves(tree) THEN rs
  ELSE IF n \in DOMAIN tree THEN Joined(rs, n, FirstLeaf(tree, n), Comments)
  ELSE [r \in Rows |-> IF r \in Comments THEN [rs[r] EXCEPT ![n] = Empty] ELSE rs[r]]

\* The repairs go through the nodes in the order of the grid.
PocketsRepaired(rs, j) ==
  LET b[i \in 0..MaxNode] ==
        IF i = 0 THEN [rows |-> rs, journal |-> j]
        ELSE IF i \in Ceding THEN PocketRepaired(b[i - 1], i) ELSE b[i - 1]
  IN  b[MaxNode]

CommentsRepaired(rs) ==
  LET b[i \in 0..MaxNode] == IF i = 0 THEN rs ELSE NotesRepaired(b[i - 1], i)
  IN  b[MaxNode]

\* loadLedger: in a transaction of its own, past the guards; if it fails the
\* ledger is served as it was.
Load ==
  LET pockets == PocketsRepaired(rows, journal) IN
  /\ rows' = CommentsRepaired(pockets.rows)
  /\ journal' = Relabelled(tree, pockets.journal)
  /\ healed' = TRUE
  /\ UNCHANGED <<tree, closed, created, user>>

Nodes == [level : {Group, Category, Sub}, parent : Nat, type : {"income", "expense", "transfer"}]

WellFormed(t) ==
  /\ t \in [DOMAIN t -> Nodes] /\ NoNode \notin DOMAIN t
  /\ \A n \in DOMAIN t :
       /\ (t[n].level = Group) <=> (t[n].parent = NoNode)
       /\ t[n].level # Group =>
            /\ t[n].parent \in DOMAIN t
            /\ t[t[n].parent].type = t[n].type
            /\ t[t[n].parent].level = t[n].level - 1

Movements ==
  [id : Nat \ {0}, target : Ids, cat : Ids, sub : Ids \cup {NoNode}, from : Ids \cup {Available, NoEnd},
   to : Ids \cup {Available, NoEnd}, month : Months, amount : Int]

\* Between two pockets, or between a pocket and what is available: of the one that
\* receives, or of the one that gives to nobody.
OfReserve(t, x) ==
  /\ {x.from, x.to} \subseteq OfType(t, "transfer") \cup {Available} /\ x.from # x.to
  /\ x.target = IF x.to = Available THEN x.from ELSE x.to

InnerPockets(t) == {n \in DOMAIN t : t[n].type = "transfer"} \ Leaves(t)

\* What older versions left behind and the repairs look for: a pocket that gained a
\* child kept its journal and its plan (BG-053); comments and labels may be anywhere.
\* Cells of an inner node are no concern of theirs, nor are the journals that an inner
\* node of income or expenses kept (BG-017): no book is supposed to have either.
\* Both ends of an operation of a reserve are pockets, and none is below zero.
Legacy(b) ==
  /\ b.rows \in [Rows -> [Ids -> [Months -> Nat]]]
  /\ b.journal \subseteq Movements /\ IsFiniteSet(b.journal)
  /\ \A x, y \in b.journal : x.id = y.id => x = y
  /\ \A x \in b.journal : {x.from, x.to} = {NoEnd} \/ OfReserve(b.tree, x)
  /\ \A p \in OfType(b.tree, "transfer"), m \in Months : Series(b.rows, b.journal, p)[m] >= 0
  /\ \A r \in Figures, n \in Ids \ Leaves(b.tree) :
       Nothing(b.rows, r, n) \/ (r = "plan" /\ n \in InnerPockets(b.tree))
  /\ \A x \in b.journal : /\ Ends(x) \subseteq Leaves(b.tree) \cup InnerPockets(b.tree)
                          /\ x.from # x.to \/ x.from = NoEnd

ASSUME BooksAssumption ==
  \A u \in Users : \A b \in u.books :
    /\ b.created \in 0..MaxNode /\ DOMAIN b.tree \subseteq 1..b.created /\ WellFormed(b.tree)

ASSUME LegacyAssumption == \A u \in Users : \A b \in u.books : Legacy(b)

Init ==
  /\ \E u \in Users : \E b \in u.books :
       /\ user = [entries |-> u.entries, size |-> u.size]
       /\ tree = b.tree /\ rows = b.rows /\ journal = b.journal /\ created = b.created
  /\ closed = 0
  /\ healed = FALSE

Structure ==
  \/ \E p \in DOMAIN tree \cup {NoNode}, type \in Types(tree) : CreateNode(p, type)
  \/ \E n \in DOMAIN tree : MoveToRoot(n) \/ DeleteNode(n)
  \/ \E n, dest \in DOMAIN tree :
       MoveGroup(n, dest) \/ MoveToCategory(n, dest) \/ MoveToGroup(n, dest)

Entries ==
  \/ \E n \in DOMAIN tree, m \in Months :
       \/ \E v \in 0..1 :
            \/ SetLeafAmount(n, m, v) \/ AdjustCell(n, m, v)
            \/ \E r \in {"budget", "actual"} : SetPocketAmount(n, r, m, v)
       \/ AddMovement(n, m) \/ SetAside(n, m) \/ TakeOut(n, m) \/ PlanRetiro(n, m)
       \/ \E r \in Comments : AddNote(n, r, m)
  \/ \E p, q \in DOMAIN tree, m \in Months : MoveMoney(p, q, m)

Next == Structure \/ Entries \/ Close \/ Load

Spec == Init /\ [][Next]_vars

-----------------------------------------------------------------------------
(* Properties *)

\* Three levels, each below a parent of its own type and of the level above,
\* after any sequence of creations, moves and deletions (FR-702, FR-703).
TreeOK ==
  /\ DOMAIN tree \subseteq 1..created /\ created \in 0..MaxNode
  /\ WellFormed(tree)

TypeOK ==
  /\ TreeOK
  /\ closed \in 0..MaxMonth /\ healed \in BOOLEAN

\* Nothing is left where no screen shows it (BG-017, BG-039, BG-053, BG-077): every
\* amount, planned withdrawal, comment and end of a movement is of a living leaf,
\* and every movement carries the label of where it is (BG-078).
NothingOrphaned ==
  healed =>
    /\ \A r \in Rows, n \in Ids \ Leaves(tree) : Nothing(rows, r, n)
    /\ \A x \in journal :
         /\ Ends(x) \subseteq Leaves(tree)
         /\ x.from # x.to \/ x.from = NoEnd
         /\ x.cat = CatOf(tree, x.target) /\ x.sub = SubOf(tree, x.target)

\* rollupBudget adds the leaves, rollupActual the whole subtree.
Column(rs, r, m) == [n \in Ids |-> rs[r][n][m]]
RollupBudget(n, m) ==
  SumFunctionOnSet(Column(rows, "budget", m),
                   IF IsLeaf(tree, n) THEN {n} ELSE Leaves(tree) \cap Subtree(tree, n))
RollupActual(n, m) ==
  SumFunctionOnSet(Column(rows, "actual", m), IF IsLeaf(tree, n) THEN {n} ELSE Subtree(tree, n))

\* What the plan and the balance say of each type in a month, whatever the tree:
\* typeTotals, and the reserved balance with its withdrawals (reserve.ts).
TypeTotals(t, rs, type, m) ==
  LET sum(r, S) == SumFunctionOnSet(Column(rs, r, m), S)
  IN  <<sum("budget", OfType(t, type) \cap Leaves(t)),
        sum("actual", OfType(t, type)), sum("plan", OfType(t, type))>>

Reserved(t, rs, j, m) ==
  SumFunction([n \in OfType(t, "transfer") |-> SumFunctionOnSet(rs["actual"][n], 1..m)])
    - Moved({x \in j : x.to = Available /\ x.month <= m})

Pockets(t) == OfType(t, "transfer") \cap Leaves(t)

\* rollupTable: every cell of the grid in one pass, from the children up (BL-009).
TableBudget(m) ==
  LET leafSum[n \in DOMAIN tree] ==
        IF Childless(tree, n) THEN rows["budget"][n][m]
        ELSE SumFunctionOnSet(leafSum, Children(tree, n))
  IN  [n \in DOMAIN tree |-> IF IsLeaf(tree, n) THEN rows["budget"][n][m] ELSE leafSum[n]]

TableActual(m) ==
  LET treeSum[n \in DOMAIN tree] ==
        rows["actual"][n][m] + SumFunctionOnSet(treeSum, Children(tree, n))
  IN  [n \in DOMAIN tree |-> IF IsLeaf(tree, n) THEN rows["actual"][n][m] ELSE treeSum[n]]

\* The grid, which adds from the children up, shows of every node what the
\* roll-ups say of it, the groups of a type add up to its totals, in which no
\* amount hangs from an inner node unseen; and the reserved balance is what the
\* pockets hold together, below zero none of them.
GridAddsUp ==
  healed => \A m \in Months :
    /\ TableBudget(m) = [n \in DOMAIN tree |-> RollupBudget(n, m)]
    /\ TableActual(m) = [n \in DOMAIN tree |-> RollupActual(n, m)]
    /\ \A type \in Types(tree) :
         LET groups == {n \in OfType(tree, type) : tree[n].level = Group}
             total == TypeTotals(tree, rows, type, m)
         IN  /\ total[1] = SumFunction([n \in groups |-> RollupBudget(n, m)])
             /\ total[2] = SumFunction([n \in groups |-> RollupActual(n, m)])
             /\ total[2] = SumFunctionOnSet(Column(rows, "actual", m),
                                            OfType(tree, type) \cap Leaves(tree))
    /\ Reserved(tree, rows, journal, m)
         = SumFunction([p \in Pockets(tree) |-> Series(rows, journal, p)[m]])
    /\ \A p \in Pockets(tree) : Series(rows, journal, p)[m] >= 0

\* What is in the journal of a leaf explains its cell (BG-017).
Explained(t, rs, j, n) ==
  t[n].type = "expense" =>
    \A m \in Months : rs["actual"][n][m] = Moved({x \in j : x.target = n /\ x.month = m})

\* Reorganising the tree moves no figure: every total of the plan and of what was
\* done stays, a pocket that stays a pocket holds what it held and all that some
\* nodes held that are pockets no more, what the journal explained it still explains;
\* what is reserved when the range ends stays (BG-001, BG-019, BG-023).
Reorganised == tree' # tree \/ healed' # healed

FiguresKept ==
  [][Reorganised =>
       /\ \A m \in Months, type \in Types(tree) :
            TypeTotals(tree', rows', type, m) = TypeTotals(tree, rows, type, m)
       /\ Reserved(tree', rows', journal', MaxMonth) = Reserved(tree, rows, journal, MaxMonth)
       /\ \A p \in Pockets(tree') \cap Pockets(tree) :
            \E Q \in SUBSET (DOMAIN tree \ Pockets(tree')) :
              Series(rows', journal', p)
                = [m \in Months |-> SumFunction([q \in {p} \cup Q |-> Series(rows, journal, q)[m]])]
       /\ healed /\ (\A n \in Leaves(tree) : Explained(tree, rows, journal, n))
            => \A n \in Leaves(tree') : Explained(tree', rows', journal', n)]_vars

\* What a month lists of a node: its figures and its movements; nothing, of one
\* that is no leaf.
Listed(t, rs, j, n, m) ==
  IF n \in Leaves(t)
  THEN [figures |-> [r \in Figures |-> rs[r][n][m]],
        moves |-> {<<x.id, x.amount>> : x \in {y \in j : n \in Ends(y) /\ y.month = m}}]
  ELSE [figures |-> [r \in Figures |-> 0], moves |-> {}]

\* Nothing a closed month shows of a type or of the reserves changes by reorganising
\* the tree or by the repairs of a load; and once these ran, nothing of any leaf: its
\* figures, its movements and what it holds stay its own, so a leaf of which a closed
\* month has something is not given a first child (BG-095).
ClosedKept ==
  [][Reorganised => \A m \in 1..closed :
       /\ \A type \in Types(tree) : TypeTotals(tree', rows', type, m) = TypeTotals(tree, rows, type, m)
       /\ Reserved(tree', rows', journal', m) = Reserved(tree, rows, journal, m)
       /\ healed =>
            /\ \A n \in Ids : Listed(tree', rows', journal', n, m) = Listed(tree, rows, journal, n, m)
            /\ \A p \in Pockets(tree) \cap Pockets(tree') :
                 Series(rows', journal', p)[m] = Series(rows, journal, p)[m]]_vars

=============================================================================

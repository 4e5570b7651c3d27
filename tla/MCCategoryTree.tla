--------------------------- MODULE MCCategoryTree ---------------------------
(***************************************************************************)
(* Finite instances of CategoryTree: the definitions tree.cfg uses.        *)
(***************************************************************************)
EXTENDS CategoryTree

Node(level, parent, type) == [level |-> level, parent |-> parent, type |-> type]
NoRows == [r \in Rows |-> [n \in Ids |-> Empty]]
Bare(t) == [tree |-> t, rows |-> NoRows, journal |-> {}, created |-> Cardinality(DOMAIN t)]

\* Three pockets that are groups; a group of expenses with two categories.
PocketGroups == Bare([n \in 1..3 |-> Node(Group, NoNode, "transfer")])
Expenses == Bare([n \in 1..2 |-> IF n = 1 THEN Node(Group, NoNode, "expense")
                                 ELSE Node(Category, 1, "expense")])

\* A pocket of an old version that gained a category, and another below that
\* one: its journal, its plan and its comments stayed with it, and so did the
\* comments of a node deleted since.
Move(id, from, to, m) ==
  [id |-> id, target |-> IF to = Available THEN from ELSE to, cat |-> 1, sub |-> NoNode,
   from |-> from, to |-> to, month |-> m, amount |-> 1]

Old(t) ==
  [tree |-> t, created |-> 4,
   rows |-> [NoRows EXCEPT !["actual"][2][1] = 1, !["plan"][1][1] = 1, !["planNotes"][1][1] = 1,
                           !["notes"] = [n \in Ids |-> IF n \in {1, 4} THEN [m \in Months |-> 1] ELSE Empty]],
   journal |-> {Move(1, Available, 2, 1), Move(2, 2, 1, 1)}]

OldBooks ==
  {Old([n \in 1..3 |-> IF n < 3 THEN Node(Group, NoNode, "transfer") ELSE Node(Category, 1, "transfer")])}

\* A pocket that was given a category, and that one another: both kept a journal,
\* and the leaf below them receives what both had.
Heir ==
  [tree |-> [n \in 1..3 |-> Node(n - 1, n - 1, "transfer")], created |-> 4,
   rows |-> [NoRows EXCEPT !["actual"][3][1] = 2],
   journal |-> {Move(1, 3, 1, 1), Move(2, 3, 2, 1)}]

Saver == [entries |-> {"move"} \X Months \cup {<<"aside", 1>>, <<"out", 2>>},
          size |-> 4, books |-> {PocketGroups}]
Spender == [entries |-> {<<"movement", 1>>, <<"cell", 1>>}, size |-> 3, books |-> {Expenses}]
Veteran == [entries |-> {<<"cell", 1>>, <<"plan", 1>>, <<"note", 1>>},
            size |-> 9, books |-> OldBooks]

Testator == [entries |-> {}, size |-> 4, books |-> {Heir}]

Everyone == {Saver, Spender, Veteran, Testator}
=============================================================================

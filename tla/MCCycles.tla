------------------------------ MODULE MCCycles ------------------------------
(***************************************************************************)
(* Finite instances of Cycles: the definitions the .cfg files use.         *)
(***************************************************************************)
EXTENDS Cycles

CONSTANTS salary, trip

\* Seven months of two or three days; what is recorded is of the third and the
\* fourth, and the others leave room for the cycles around them.
ShortMonths == <<3, 3, 3, 2, 3, 3, 3>>

NoCells == [c \in {} |-> 0]
Book(cells, moves, start) ==
  [cells |-> cells, moves |-> moves, origins |-> {}, start |-> start, closed |-> None]
New(start) == Book(NoCells, {}, start)

\* A movement of before dates were asked for, of the third month.
Undated == [id |-> 1, kind |-> "income", leaf |-> salary, date |-> None, period |-> 6, amount |-> 1]
OldBook == Book([c \in {<<"actual", salary, 6>>} |-> 1], {Undated}, None)

Person(paydays, changes, entries, closing, size, ledgers) ==
  [paydays |-> paydays, months |-> {3, 4}, versions |-> changes, entries |-> entries,
   closing |-> closing, size |-> size, ledgers |-> ledgers]

EarlyOrLate == {<<2, "last_day">>, <<3, "shift">>}

\* An income and its plan, three paydays; months that are closed; what is set
\* aside in a pocket, typed or by movements, and taken out; the plan of a pocket;
\* notes and movements without a date.
Worker == Person(EarlyOrLate, 2, {<<"budget", salary>>, <<"income", salary>>}, {}, 2, {New(None), New(6)})
Closer == Person(EarlyOrLate \cup {<<1, "last_day">>}, 3, {<<"budget", salary>>, <<"income", salary>>}, {"close"},
                 2, {New(6)})
Saver == Person(EarlyOrLate, 2, {<<"actual", trip>>, <<"aside", trip>>, <<"out", trip>>}, {}, 3, {New(None)})
Planner == Person({<<2, "last_day">>}, 1, {<<"budget", trip>>, <<"plan", trip>>, <<"aside", trip>>}, {}, 3, {New(None)})
Keeper == Person(EarlyOrLate, 2, {<<"note", salary>>, <<"income", salary>>, <<"adjustment", salary>>}, {}, 5,
                 {OldBook})

Everyone == {Worker, Closer, Saver, Planner, Keeper}
=============================================================================

------------------------------ MODULE MCReserve ------------------------------
(***************************************************************************)
(* Finite instances of Reserve: the definitions the .cfg files use.        *)
(***************************************************************************)
EXTENDS Reserve

CONSTANTS trip, car

TwoPockets == <<trip, car>>
Opening(m, amounts) == {[month |-> m, amount |-> a] : a \in amounts}

\* Plans of an old version: what the pockets would set aside, and withdrawals of
\* no pocket, which a contribution lowered later may have left without cover.
OldPlans ==
  {[Empty EXCEPT !.cells["budget"] = c, !.global = g] :
     c \in [Pockets -> [Months -> Amounts]], g \in [Months -> {0, 2}]}

\* Users: one who starts with something; one with plans of an old version and a
\* start declared in the middle of the range (BG-054).
New == [planes |-> {"actual"}, starts |-> Opening(1, {1}), ledgers |-> {Empty}]
Old == [planes |-> {"budget"}, starts |-> Opening(2, {0, 1}),
        ledgers |-> OldPlans]

NewOrOld == {New, Old}
=============================================================================

------------------------------ MODULE ClosedBook ------------------------------
(***************************************************************************)
(* What closing a month promises: the figures of a closed month, the       *)
(* balance it hands to the next one included, stay as they are for as long *)
(* as it is closed; months close in order; and only the last month that    *)
(* was ever closed can be opened again.                                    *)
(***************************************************************************)
EXTENDS Integers

CONSTANTS Months, NoMonth

VARIABLES
  frontier,   \* the last closed month
  reach,      \* the last month that was ever closed
  figures     \* what the book shows of each month

vars == <<frontier, reach, figures>>

Kept(last) == \A m \in Months : m <= last => figures'[m] = figures[m]

Write == Kept(frontier) /\ UNCHANGED <<frontier, reach>>

Close ==
  /\ frontier' \in Months
  /\ frontier = NoMonth \/ frontier' = frontier + 1
  /\ reach' = frontier' /\ reach <= reach'
  /\ figures' = figures

Reopen ==
  /\ frontier \in Months /\ frontier = reach
  /\ frontier' = frontier - 1
  /\ figures' = figures /\ reach' = reach

Init == frontier = NoMonth /\ reach = NoMonth

Next == Write \/ Close \/ Reopen

Spec == Init /\ [][Next]_vars
=============================================================================

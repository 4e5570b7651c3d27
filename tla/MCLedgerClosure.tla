--------------------------- MODULE MCLedgerClosure ---------------------------
(***************************************************************************)
(* Finite instances of LedgerClosure: the definitions the .cfg files use.  *)
(***************************************************************************)
EXTENDS LedgerClosure, TLC

CONSTANTS phone, laptop, mov1, mov2, rent, salary

Perms == Permutations({phone, laptop}) \cup Permutations({mov1, mov2})

OldRent == {<<rent, 1>>}
=============================================================================

----------------------------- MODULE MCLedgerSync -----------------------------
(***************************************************************************)
(* Finite instances of LedgerSync: the definitions the .cfg files refer to.*)
(***************************************************************************)
EXTENDS LedgerSyncInvariant, TLC

CONSTANTS phone, laptop, op1, op2, op3

Perms == Permutations({phone, laptop}) \cup Permutations({op1, op2})
=============================================================================

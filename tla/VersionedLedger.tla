--------------------------- MODULE VersionedLedger ---------------------------
(***************************************************************************)
(* What the server promises all the devices of a user together: the ledger *)
(* is a set of facts under a revision; every write raises the revision by  *)
(* one and adds facts to those everybody else recorded, it erases none.    *)
(***************************************************************************)
EXTENDS Naturals

CONSTANTS Facts, FirstRevision

VARIABLES revision, facts

vars == <<revision, facts>>

Init == revision = FirstRevision /\ facts = {}

Write(new) ==
  /\ revision' = revision + 1
  /\ facts' = facts \cup new

Next == \E new \in SUBSET Facts : Write(new)

Spec == Init /\ [][Next]_vars
=============================================================================

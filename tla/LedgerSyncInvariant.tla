-------------------------- MODULE LedgerSyncInvariant --------------------------
(***************************************************************************)
(* Why no write of LedgerSync erases what another device recorded, said of *)
(* one state: every revision that a client, a request or a reload carries  *)
(* is at most as new as the data that travel with it.                      *)
(*                                                                         *)
(* It is inductive for a user who has a ledger and whose session is not    *)
(* interrupted; the two cases left out are refuted (README, section 9).    *)
(***************************************************************************)
EXTENDS LedgerSync

\* What the clients' knowledge is compared with.
Server == [revision |-> revision, rowsRev |-> rowsRev, rows |-> rows]

Whole(m) == \A t, u \in Tables : m[t] = m[u]

\* The tables m are not older than the revision b they travel with: unless a
\* table has changed since b, they contain all the server v has.
Fresh(v, b, m) ==
  /\ b <= v.revision
  /\ b >= v.rowsRev => Whole(m) /\ \A t \in Tables : v.rows[t] \subseteq m[t]

\* n is m and what was typed since.
Grown(m, n) ==
  /\ \A t \in Tables : m[t] \subseteq n[t]
  /\ Whole(m) => Whole(n)

ReadInv(v, r) ==
  /\ r.st \in {"idle", "asked", "rows", "done"}
  /\ r.st = "asked" => r.seen = {}
  /\ r.st \in {"rows", "done"} =>
       /\ r.rev <= v.revision
       /\ r.rev >= v.rowsRev => \A t \in r.seen : r.got[t] = v.rows[t]
  /\ r.st = "done" => r.seen = Tables

CallInv(v, s) ==
  LET k == s.call
  IN  /\ k.st # "unauthorized"
      /\ k.kind = "put" =>
           /\ Grown(k.data.rows, s.data.rows)
           /\ k.st = "sent" => Fresh(v, k.base, k.data.rows)
           /\ k.st = "ok" => Fresh(v, k.rev, k.data.rows)
      /\ k.kind \in {"closure", "start", "cycles"} => s.revision >= k.base
      /\ k.kind \in {"closure", "start"} /\ k.st = "ok" =>
           k.rev <= v.revision /\ (k.rev >= v.rowsRev => k.base >= v.rowsRev)

\* An edit that is queued, in flight or unsaved was typed after every live
\* reload left, so none of them may replace what is on screen.
EditsShielded(s) ==
  (s.call.kind = "put" \/ s.pendingSave # {} \/ s.sinGuardar)
    => \A x \in LiveSlots : s.reads[x].dirty

\* Before the first load there is nothing the user can have typed.
NothingBeforeHydrate(s) ==
  ~s.hydrated => /\ s.call.kind = "none" /\ s.pendingSave = {} /\ s.asked = {}
                 /\ ~s.sinGuardar /\ ~s.convergenciaPendiente

StoreInv(v, s) ==
  /\ Fresh(v, s.revision, s.data.rows)
  /\ \A d \in s.pendingSave : d.rows = s.data.rows
  /\ CallInv(v, s)
  /\ \A x \in Slots : ReadInv(v, s.reads[x])
  /\ EditsShielded(s)
  /\ s.lock = "free" => s.call.kind = "none"
  /\ NothingBeforeHydrate(s)
  /\ s.reads["hydrate"].st # "idle" /\ s.reads["hydrate"].first => ~s.hydrated
  /\ s.in

Inv ==
  /\ revision >= 1
  /\ Whole(rows)
  /\ \A c \in Clients : session[c] /\ StoreInv(Server, store[c])
  /\ \A k \in abandoned : k.kind = "put" => Fresh(Server, k.base, k.data.rows)
-----------------------------------------------------------------------------
(* Why nothing a user typed is stranded or lost in silence, why a revision *)
(* stands for its ledger and why a debt is announced: what holds of one    *)
(* client and the server, each part under what the code needs for it.      *)

\* What the save queue holds, and which requests can be under way; no reload is
\* left over from a session that was forgotten.
QueueInv(s) ==
  LET k == s.call
  IN  /\ s.lock = "free" => s.pendingSave = {} /\ s.asked = {}
      /\ \A q \in s.asked : q.kind \in Requests
      /\ k.kind \in {"none", "put", "reload"} \cup Requests
      /\ k.kind = "reload" => \/ k.why = "conflict"
                              \/ k.why = "cycles" /\ "cycles" \in Requests
                              \/ k.why = "blocked" /\ "blocked" \in Faults
                              \/ k.why = "rejected" /\ BadOps # {}
      /\ k.kind = "closure" /\ k.st = "blocked" => "blocked" \in Faults
      /\ k.kind = "put" /\ k.st = "rejected" => BadOps # {}
      /\ k.kind = "put" => k.base = s.revision /\ (k.st = "ok" => k.rev = k.base + 1)
      /\ \A x \in Slots : s.reads[x].st # "idle" => ~s.reads[x].orphan

Brought(r) == r.st \in {"rows", "done"}

\* Every edit in the tables m has reached the server.
Reached(v, m) == \A t \in Tables : m[t] \subseteq v.rows[t]

\* A load was adopted while the reload of a conflict was under way.
Overtaken(s) == s.call.kind = "reload" /\ s.call.why = "conflict" /\ s.revision > s.call.base

\* The request in flight answers for what is on screen.
Carried(s) ==
  \/ s.call.kind = "put"
  \/ s.call.kind = "reload" /\ s.call.why = "conflict" /\ ~Overtaken(s)

\* What is on screen has reached the server, or is queued, owed or in flight.
ScreenInv(v, s) ==
  /\ \A x \in Slots : Brought(s.reads[x]) =>
       \A t \in s.reads[x].seen : s.reads[x].got[t] \subseteq v.rows[t]
  /\ \/ Reached(v, s.data.rows) \/ s.pendingSave # {}
     \/ s.sinGuardar \/ s.convergenciaPendiente \/ Carried(s)
  /\ s.call.kind = "put" => /\ s.pendingSave = {} => s.call.data.rows = s.data.rows
                            /\ s.call.st = "ok" => Reached(v, s.call.data.rows)
  /\ Overtaken(s) => Reached(v, s.data.rows) \/ s.pendingSave # {}
  /\ Reached(v, s.data.rows) \/ \A x \in LiveSlots : s.reads[x].dirty

\* A client at the server's revision has its declarations, cl.
AnchorInv(v, cl, s) ==
  LET k == s.call
  IN  /\ s.revision = v.revision => s.data.closure = cl
      /\ \A x \in Slots :
           Brought(s.reads[x]) /\ s.reads[x].rev = v.revision => s.reads[x].closure = cl
      /\ k.kind = "put" /\ k.st = "ok" /\ k.rev = v.revision => s.data.closure = cl
      /\ k.kind \in {"closure", "start"} /\ k.st = "ok" =>
           /\ k.rev = k.base + 1 /\ k.op \subseteq cl
           /\ k.rev = v.revision =>
                /\ s.data.closure \cup k.op = cl
                /\ \A x \in Slots : Brought(s.reads[x]) /\ s.reads[x].rev = k.base
                                      => s.reads[x].closure \cup k.op = cl

\* A debt is under a notice, and the reload after a change of calendar brings more
\* than the conflict that is owed.
NoticeInv(v, s) ==
  /\ s.sinGuardar \/ s.convergenciaPendiente => s.storageError # "none"
  /\ s.revisionEnConflicto <= v.revision
  /\ Overtaken(s) => ~s.sinGuardar
  /\ s.call.kind = "cycles" /\ s.call.st = "ok" => s.revisionEnConflicto < v.revision
  /\ s.call.kind = "reload" /\ s.call.why = "cycles" =>
       /\ s.revisionEnConflicto < v.revision
       /\ Brought(s.reads["converge"]) => s.revisionEnConflicto < s.reads["converge"].rev

\* While a conflict is being reconciled no load of another kind is adopted.
SteadyInv(s) ==
  /\ s.convergenciaPendiente \/ s.call.kind = "reload" => \A x \in LiveSlots : s.reads[x].dirty
  /\ s.call.kind = "reload" /\ Brought(s.reads["converge"])
       => s.revision <= s.reads["converge"].rev

Kept(v, cl, s) ==
  /\ QueueInv(s) /\ AnchorInv(v, cl, s)
  /\ BadOps = {} => ScreenInv(v, s)
  /\ "start" \notin Requests => NoticeInv(v, s)
  /\ Requests = {} => SteadyInv(s)

KeptInv == \A c \in Clients : Kept(Server, closure, store[c])
=============================================================================

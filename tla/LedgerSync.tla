------------------------------ MODULE LedgerSync ------------------------------
(***************************************************************************)
(* How the browser's store (src/state/store.ts) and its repository         *)
(* (src/data/serverRepository.ts) keep a copy of one user's ledger, save   *)
(* whole snapshots of it under an optimistic lock on `revision`, and       *)
(* reload it; and how the server (src/server/data/ledgerRepo.ts) answers.  *)
(* Several clients (tabs, devices) of the SAME user share the ledger.      *)
(*                                                                         *)
(* A user's edit is an element of Ops, typed at most once. A ledger is the *)
(* set of edits it contains, kept apart per stored table because GET reads *)
(* the tables in separate statements, plus the columns of the anchor row   *)
(* (closure, opening) that a snapshot PUT never writes.                    *)
(*                                                                         *)
(* The store's code between two awaits is one step: a handler is a         *)
(* function from the store's record to its next value.                     *)
(***************************************************************************)
EXTENDS Naturals, FiniteSets

CONSTANTS
  Clients,     \* tabs and devices of the user
  Ops,         \* the edits and declarations that may be made
  BadOps,      \* the edits whose snapshot the server refuses with 422
  Tables,      \* node, amount_cell, movement, cell_note: the rows of a ledger
  LiveSlots,   \* how many live reloads one client may have in flight
  Requests,    \* the exclusive writes users make: "closure", "start", "cycles"
  Revisits,    \* TRUE: users change pages, and each page hydrates again
  NewUser,     \* TRUE: the server has no ledger of this user yet
  Faults,      \* which faults happen, a subset of FaultKinds
  MaxFaults    \* how many of them a behaviour has

FaultKinds == {"network", "garbled", "external", "stream", "session", "blocked"}

ASSUME ConstantsAssumption ==
  /\ BadOps \subseteq Ops
  /\ Tables # {}
  /\ LiveSlots # {} /\ LiveSlots \cap {"converge", "hydrate"} = {}
  /\ Requests \subseteq {"closure", "start", "cycles"}
  /\ NewUser \in BOOLEAN /\ Revisits \in BOOLEAN
  /\ Faults \subseteq FaultKinds
  /\ MaxFaults \in Nat

VARIABLES
  revision,    \* server: ledger.revision, 0 while there is no row
  rows,        \* server: what each table of the ledger holds
  closure,     \* server: the declarations in the anchor row
  rowsRev,     \* history: the revision that last changed a table
  abandoned,   \* requests whose client gave up and the server may still run
  store,       \* the zustand store and the repository of each client
  session,     \* server: is the client's session alive
  stream,      \* the client's event stream: "off", "connecting", "open", "dropped"
  nudge,       \* an event sent on the client's stream and not delivered yet
  used,        \* the edits made so far
  silent,      \* history: unsaved edits a reload erased without a word
  faults       \* how many faults have happened

serverVars == <<revision, rows, closure, rowsRev>>
vars == <<revision, rows, closure, rowsRev, abandoned, store, session, stream,
          nudge, used, silent, faults>>

-----------------------------------------------------------------------------
(* Ledgers, requests and reloads.                                          *)

Slots == LiveSlots \cup {"converge", "hydrate"}

Data == [rows : [Tables -> SUBSET Ops], closure : SUBSET Ops]

\* buildSeed: the ledger of a user who has typed nothing.
Seed == [rows |-> [t \in Tables |-> {}], closure |-> {}]

\* The domain mutation behind an edit touches several tables at once.
WithEdit(d, o) == [d EXCEPT !.rows = [t \in Tables |-> d.rows[t] \cup {o}]]

The(S) == CHOOSE e \in S : TRUE

EditsOf(d) == UNION {d.rows[t] : t \in Tables}

\* A write in flight: PUT /ledger, the closure, /ledger/start, /ledger/cycles.
Call == [kind : {"none", "put", "reload"} \cup {"closure", "start", "cycles"},
         st   : {"idle", "sent", "ok", "conflict", "rejected", "blocked", "unauthorized"},
         why  : {"none", "conflict", "rejected", "cycles", "blocked"},
         base : Nat, data : Data, op : SUBSET Ops, rev : Nat]

NoCall == [kind |-> "none", st |-> "idle", why |-> "none", base |-> 0,
           data |-> Seed, op |-> {}, rev |-> 0]

\* GET /ledger in flight: the revision is read first, then each table.
\* `dirty`: the store's data object was replaced since the GET left.
\* `orphan`: the session it was made in has been forgotten (sesionEpoca).
\* `first`: the value of `hydrated` when hydrate() started, negated.
Read == [st : {"idle", "asked", "rows", "done", "empty", "unauthorized",
               "seeding", "seeded", "unseeded"},
         rev : Nat, got : [Tables -> SUBSET Ops], seen : SUBSET Tables,
         closure : SUBSET Ops, dirty : BOOLEAN, orphan : BOOLEAN, first : BOOLEAN]

NoRead == [st |-> "idle", rev |-> 0, got |-> Seed.rows, seen |-> {},
           closure |-> {}, dirty |-> TRUE, orphan |-> TRUE, first |-> FALSE]

Loaded(r) == [rows |-> r.got, closure |-> r.closure]

\* The fields keep the names store.ts and serverRepository.ts give them;
\* `lock` is saveInFlight with who holds it, `asked` the exclusive write that
\* waits for the save queue, `in` whether the gate shows the application.
Store == [data : Data, revision : Nat, pendingSave : SUBSET Data,
          lock : {"free", "drain", "exclusive"}, call : Call,
          asked : SUBSET [kind : {"closure", "start", "cycles"}, op : SUBSET Ops],
          reads : [Slots -> Read],
          sinGuardar : BOOLEAN, convergenciaPendiente : BOOLEAN,
          revisionEnConflicto : Nat, puestaAlDiaPendiente : BOOLEAN,
          storageError : {"none", "network", "malformed", "conflict"},
          hydrated : BOOLEAN, in : BOOLEAN]

-----------------------------------------------------------------------------
(* The store's internal functions, from a store to the next.               *)

\* set({ data }): every reload in flight now finds get().data !== before.
SetData(s, d) ==
  [s EXCEPT !.data = d,
            !.reads = [x \in Slots |-> [s.reads[x] EXCEPT !.dirty = TRUE]]]

StartRead(s, x) ==
  [s EXCEPT !.reads[x] = [NoRead EXCEPT !.st = "asked", !.dirty = FALSE,
                                        !.orphan = FALSE, !.first = ~s.hydrated]]

EndRead(s, x) == [s EXCEPT !.reads[x] = NoRead]

\* drainSaves, one turn of its loop: send the newest snapshot, if there is one.
Drain(s) ==
  IF s.pendingSave = {} THEN s
  ELSE [s EXCEPT !.lock = "drain", !.pendingSave = {},
                 !.call = [NoCall EXCEPT !.kind = "put", !.st = "sent",
                                         !.base = s.revision,
                                         !.data = The(s.pendingSave)]]

\* Variant: the snapshots queue up instead of replacing one another.
PersistEach(s, d) ==
  LET q == [s EXCEPT !.pendingSave = @ \cup {d}]
  IN  IF s.lock = "free" THEN Drain(q) ELSE q

\* persist: note the snapshot and start the drainer unless the queue is held.
Persist(s, d) ==
  LET q == [s EXCEPT !.pendingSave = {d}]
  IN  IF s.lock = "free" THEN Drain(q) ELSE q

\* The converging reload, with the queue held; `base` remembers the revision
\* known when it left and `data` what was on screen.
StartReload(s, why) ==
  StartRead([s EXCEPT !.call = [NoCall EXCEPT !.kind = "reload", !.st = "sent",
                                              !.why = why, !.base = s.revision,
                                              !.data = s.data]], "converge")

\* convergerTrasConflicto, up to its await.
StartConverge(s) ==
  StartReload([s EXCEPT !.revisionEnConflicto =
                 IF s.convergenciaPendiente THEN @ ELSE s.revision], "conflict")

LiveSlot(s) ==
  LET idle == {x \in LiveSlots : s.reads[x].st = "idle"}
  IN  The(IF idle # {} THEN idle ELSE LiveSlots)

\* Variant: a reload may erase the edit that a failed save left on screen.
ResyncOverUnsaved(s, porReconexion) ==
  CASE s.lock # "free" \/ s.pendingSave # {} ->
         [s EXCEPT !.puestaAlDiaPendiente = @ \/ porReconexion]
    [] OTHER ->
         IF s.convergenciaPendiente
         THEN StartConverge([s EXCEPT !.lock = "exclusive"])
         ELSE StartRead(s, LiveSlot(s))

\* Variant: the catch-up of a reconnection is forgotten while a save travels.
ResyncForgetful(s, porReconexion) ==
  CASE s.lock # "free" \/ s.pendingSave # {} -> s
    [] OTHER ->
         IF s.convergenciaPendiente
         THEN StartConverge([s EXCEPT !.lock = "exclusive"])
         ELSE IF s.sinGuardar THEN Persist(s, s.data)
         ELSE StartRead(s, LiveSlot(s))

\* resync, up to its await.
Resync(s, porReconexion) ==
  CASE s.lock # "free" \/ s.pendingSave # {} ->
         [s EXCEPT !.puestaAlDiaPendiente = @ \/ porReconexion]
    [] OTHER ->
         IF s.convergenciaPendiente
         THEN StartConverge([s EXCEPT !.lock = "exclusive"])
         ELSE IF s.sinGuardar THEN Persist(s, s.data)
         ELSE StartRead(s, LiveSlot(s))

\* exclusive(), once the queue is empty: hold it and send the write.
StartRequest(s) ==
  LET q == The(s.asked)
  IN  [s EXCEPT !.lock = "exclusive", !.asked = {},
                !.call = [NoCall EXCEPT !.kind = q.kind, !.st = "sent",
                                        !.base = s.revision, !.op = q.op]]

\* Variant: nobody restarts the drainer on what was typed meanwhile.
ReleaseOnly(s) ==
  LET f == [s EXCEPT !.lock = "free", !.call = NoCall]
  IN  IF f.asked # {} THEN StartRequest(f) ELSE f

\* The queue is let go: the drainer restarts on a snapshot typed meanwhile, or
\* the owed catch-up of a reconnection runs, or the next exclusive write does.
Release(s) ==
  LET f == [s EXCEPT !.lock = "free", !.call = NoCall]
      g == IF f.pendingSave # {} THEN Drain(f)
           ELSE IF f.puestaAlDiaPendiente /\ ~(f.convergenciaPendiente /\ f.asked # {})
                THEN Resync([f EXCEPT !.puestaAlDiaPendiente = FALSE], TRUE)
                ELSE f
  IN  IF g.lock = "free" /\ g.asked # {} THEN StartRequest(g) ELSE g

\* Variant: any load takes the fixed notice down, the debt stays.
AlCargarQuiet(s, rev) ==
  IF s.convergenciaPendiente /\ rev <= s.revisionEnConflicto
  THEN [s EXCEPT !.storageError = "none"]
  ELSE [s EXCEPT !.convergenciaPendiente = FALSE, !.storageError = "none"]

\* alCargar: what every adopted load does to the fixed notice and to the debt.
AlCargar(s, rev) ==
  CASE ~s.convergenciaPendiente ->
         [s EXCEPT !.storageError = IF @ \in {"network", "malformed"} THEN "none" ELSE @]
    [] s.convergenciaPendiente /\ rev <= s.revisionEnConflicto -> s
    [] OTHER -> [s EXCEPT !.convergenciaPendiente = FALSE, !.storageError = "none"]

\* forget: nothing of the closed session stays in memory.
Forget(s) ==
  LET f == SetData(s, Seed)
  IN  [f EXCEPT !.pendingSave = {}, !.sinGuardar = FALSE,
                !.puestaAlDiaPendiente = FALSE, !.convergenciaPendiente = FALSE,
                !.reads = [x \in Slots |-> [f.reads[x] EXCEPT !.orphan = TRUE]],
                !.hydrated = FALSE, !.storageError = "none", !.in = FALSE]

\* Adopt a load: its data together with its revision.
Adopt(s, r) == AlCargar(SetData([s EXCEPT !.revision = r.rev], Loaded(r)), r.rev)

-----------------------------------------------------------------------------
(* The server: one transaction per write, with the anchor row locked.      *)

Stored == UNION {rows[t] : t \in Tables}

\* syncHub.publish: every open stream of the user, the writer's own included.
Publish == nudge' = [c \in Clients |-> nudge[c] \/ stream[c] = "open"]

Commit(newRows, newClosure) ==
  /\ revision' = revision + 1
  /\ rows' = newRows
  /\ closure' = newClosure
  /\ rowsRev' = IF newRows = rows THEN rowsRev ELSE revision + 1
  /\ Publish

WithRow(o) == [t \in Tables |-> rows[t] \cup o]

\* Variants: the base is not compared; the first save finds no row to lock.
CurrentAlways(k) == k.kind # "put" => revision > 0
CurrentNeedsRow(k) == k.base = revision /\ revision > 0

\* saveLedger, saveStartFor, closeMonthFor/reopenMonthFor, applyCyclesFor: the
\* base has to be the current revision; only the PUT may find no ledger.
Current(k) == k.base = revision /\ (k.kind # "put" => revision > 0)

\* The guards of saveLedger after the base: they judge what the PUT changes.
Refused(k) == k.kind = "put" /\ (EditsOf(k.data) \ Stored) \cap BadOps # {}

Apply(k) ==
  CASE k.kind = "put"    -> Commit(k.data.rows, closure)
    [] k.kind = "cycles" -> Commit(WithRow(k.op), closure)
    [] OTHER             -> Commit(rows, closure \cup k.op)

Answer(c, st, rev) ==
  store' = [store EXCEPT ![c].call = [store[c].call EXCEPT !.st = st, !.rev = rev]]

ServeWrite(c) ==
  LET k == store[c].call
  IN  /\ k.kind \in {"put", "closure", "start", "cycles"} /\ k.st = "sent"
      /\ \/ /\ ~session[c]
            /\ Answer(c, "unauthorized", 0)
            /\ UNCHANGED <<serverVars, nudge>>
         \/ /\ session[c] /\ ~Current(k)
            /\ Answer(c, "conflict", 0)
            /\ UNCHANGED <<serverVars, nudge>>
         \/ /\ session[c] /\ Current(k) /\ (Refused(k) \/ k.kind # "put")
            /\ Answer(c, "rejected", 0)
            /\ UNCHANGED <<serverVars, nudge>>
         \/ /\ session[c] /\ Current(k) /\ ~Refused(k)
            /\ Apply(k)
            /\ Answer(c, "ok", revision + 1)
  /\ UNCHANGED <<abandoned, session, stream, used, silent, faults>>

\* closeMonthFor, FR-2512: the month to close has unbalanced cells.
ServeBlocked(c) ==
  /\ "blocked" \in Faults /\ session[c]
  /\ store[c].call.kind = "closure" /\ store[c].call.st = "sent" /\ Current(store[c].call)
  /\ Answer(c, "blocked", 0)
  /\ UNCHANGED <<serverVars, abandoned, session, stream, nudge, used, silent, faults>>

\* A request whose client stopped waiting still runs, or never arrived.
ServeAbandoned(k) ==
  /\ k \in abandoned
  /\ abandoned' = abandoned \ {k}
  /\ IF Current(k) /\ ~Refused(k) THEN Apply(k) ELSE UNCHANGED <<serverVars, nudge>>
  /\ UNCHANGED <<store, session, stream, used, silent, faults>>

\* The seed of hydrate(): a PUT on base 0 outside the queue.
ServeSeed(c) ==
  LET r == store[c].reads["hydrate"]
  IN  /\ r.st = "seeding"
      /\ IF session[c] /\ revision = 0
         THEN /\ Commit(Seed.rows, closure)
              /\ store' = [store EXCEPT ![c].reads["hydrate"] =
                            [r EXCEPT !.st = "seeded", !.rev = revision + 1]]
         ELSE /\ store' = [store EXCEPT ![c].reads["hydrate"] = [r EXCEPT !.st = "unseeded"]]
              /\ UNCHANGED <<serverVars, nudge>>
      /\ UNCHANGED <<abandoned, session, stream, used, silent, faults>>

\* loadLedger: the anchor row first, outside any transaction...
ReadHead(c, x) ==
  LET r == store[c].reads[x]
  IN  /\ r.st = "asked"
      /\ store' = [store EXCEPT ![c].reads[x] =
           CASE ~session[c] -> [r EXCEPT !.st = "unauthorized"]
             [] session[c] /\ revision = 0 -> [r EXCEPT !.st = "empty"]
             [] OTHER -> [r EXCEPT !.st = "rows", !.rev = revision, !.closure = closure]]
      /\ UNCHANGED <<serverVars, abandoned, session, stream, nudge, used, silent, faults>>

\* Variant: the revision is read with the last table instead of first.
ReadTableRevLast(c, x, t) ==
  LET r == store[c].reads[x]
      last == Tables \subseteq r.seen \cup {t}
  IN  /\ r.st = "rows" /\ t \notin r.seen
      /\ store' = [store EXCEPT ![c].reads[x] =
           [r EXCEPT !.got[t] = rows[t], !.seen = @ \cup {t},
                     !.st = IF last THEN "done" ELSE "rows",
                     !.rev = IF last THEN revision ELSE @]]
      /\ UNCHANGED <<serverVars, abandoned, session, stream, nudge, used, silent, faults>>

\* ... and then each table, in whatever order the pool answers.
ReadTable(c, x, t) ==
  LET r == store[c].reads[x]
  IN  /\ r.st = "rows" /\ t \notin r.seen
      /\ store' = [store EXCEPT ![c].reads[x] =
           [r EXCEPT !.got[t] = rows[t], !.seen = @ \cup {t},
                     !.st = IF Tables \subseteq r.seen \cup {t} THEN "done" ELSE "rows"]]
      /\ UNCHANGED <<serverVars, abandoned, session, stream, nudge, used, silent, faults>>

Fault(kind) == kind \in Faults /\ faults < MaxFaults /\ faults' = faults + 1

\* A write with no base revision: the movements API (insertMovement, writeMovement).
ExternalWrite(o) ==
  /\ Fault("external") /\ revision > 0
  /\ o \notin used
  /\ used' = used \cup {o}
  /\ Commit(WithRow({o}), closure)
  /\ UNCHANGED <<abandoned, store, session, stream, silent>>

-----------------------------------------------------------------------------
(* The user.                                                               *)

Edit(c, o) ==
  LET d == WithEdit(store[c].data, o)
  IN  /\ store[c].hydrated /\ store[c].in
      /\ o \notin used
      /\ used' = used \cup {o}
      /\ store' = [store EXCEPT ![c] = Persist(SetData(@, d), d)]
      /\ UNCHANGED <<serverVars, abandoned, session, stream, nudge, silent, faults>>

\* closeMonth, reopenMonth, setStart, applyPeriodMode: exclusive(...).
Request(c, kind, o) ==
  LET s == [store[c] EXCEPT !.asked = {[kind |-> kind, op |-> {o}]}]
  IN  /\ store[c].hydrated /\ store[c].in /\ store[c].asked = {}
      /\ o \notin used \cup BadOps
      /\ used' = used \cup {o}
      /\ store' = [store EXCEPT ![c] = IF s.lock = "free" THEN StartRequest(s) ELSE s]
      /\ UNCHANGED <<serverVars, abandoned, session, stream, nudge, silent, faults>>

-----------------------------------------------------------------------------
(* The answers to a write.                                                 *)

\* What a step of client c that only changes its store leaves alone.
StoreOnly == UNCHANGED <<serverVars, abandoned, session, stream, nudge, used, silent, faults>>

Answered(c, kinds, st) == store[c].call.kind \in kinds /\ store[c].call.st = st

SaveOk(c) ==
  LET s == store[c]
  IN  /\ Answered(c, {"put"}, "ok")
      /\ store' = [store EXCEPT ![c] = Release(
           [s EXCEPT !.revision = s.call.rev, !.sinGuardar = FALSE,
                     !.convergenciaPendiente = FALSE,
                     !.storageError = IF @ \in {"network", "conflict"} THEN "none" ELSE @])]
      /\ StoreOnly

SaveConflict(c) ==
  /\ Answered(c, {"put"}, "conflict")
  /\ store' = [store EXCEPT ![c] = StartConverge([@ EXCEPT !.pendingSave = {}])]
  /\ StoreOnly

\* 422: definitive, what is queued contains it and is dropped with it.
SaveRejected(c) ==
  /\ Answered(c, {"put"}, "rejected")
  /\ store' = [store EXCEPT ![c] = StartReload([@ EXCEPT !.pendingSave = {}], "rejected")]
  /\ StoreOnly

RequestOk(c) ==
  LET s == store[c]
      d == [s.data EXCEPT !.closure = @ \cup s.call.op]
      p == SetData([s EXCEPT !.revision = s.call.rev], d)
  IN  /\ Answered(c, {"closure", "start"}, "ok")
      /\ store' = [store EXCEPT ![c] = Release(
           IF s.call.kind = "start" THEN [p EXCEPT !.storageError = "none"] ELSE p)]
      /\ StoreOnly

\* Variant: applyCycles adopts the new revision before the reload (BG-052).
CyclesOkAdopting(c) ==
  /\ Answered(c, {"cycles"}, "ok")
  /\ store' = [store EXCEPT ![c] = StartReload([store[c] EXCEPT !.revision = store[c].call.rev], "cycles")]
  /\ StoreOnly

\* The relocated ledger is reloaded; its revision is not adopted before it.
CyclesOk(c) ==
  /\ Answered(c, {"cycles"}, "ok")
  /\ store' = [store EXCEPT ![c] = StartReload(@, "cycles")]
  /\ StoreOnly

RequestConflict(c) ==
  /\ Answered(c, {"closure", "start", "cycles"}, "conflict")
  /\ store' = [store EXCEPT ![c] = StartConverge(@)]
  /\ StoreOnly

RequestBlocked(c) ==
  /\ Answered(c, {"closure"}, "blocked")
  /\ store' = [store EXCEPT ![c] = StartReload(@, "blocked")]
  /\ StoreOnly

RequestRejected(c) ==
  /\ Answered(c, {"closure", "start", "cycles"}, "rejected")
  /\ store' = [store EXCEPT ![c] = Release(@)]
  /\ StoreOnly

WriteUnauthorized(c) ==
  /\ Answered(c, {"put", "closure", "start", "cycles"}, "unauthorized")
  /\ store' = [store EXCEPT ![c] = Release(Forget(@))]
  /\ stream' = [stream EXCEPT ![c] = "off"]
  /\ nudge' = [nudge EXCEPT ![c] = FALSE]
  /\ UNCHANGED <<serverVars, abandoned, session, used, silent, faults>>

\* The connection fails: before the server ran the write, while it does, or
\* with the answer on its way back.
WriteLost(c) ==
  LET s == store[c]
      n == CASE s.call.kind = "put" ->
                  [s EXCEPT !.sinGuardar = TRUE,
                            !.storageError = IF s.convergenciaPendiente THEN "conflict" ELSE "network"]
             [] s.call.kind = "closure" -> s
             [] OTHER -> [s EXCEPT !.storageError = "network"]
  IN  /\ s.call.kind \in {"put", "closure", "start", "cycles"}
      /\ Fault("network")
      /\ store' = [store EXCEPT ![c] = Release(n)]
      /\ abandoned' \in {abandoned, abandoned \cup (IF s.call.st = "sent" THEN {s.call} ELSE {})}
      /\ UNCHANGED <<serverVars, session, stream, nudge, used, silent>>

-----------------------------------------------------------------------------
(* How the converging reload ends: cargar("converge") and its callers.     *)

\* Unsaved edits the load r would erase from the screen of s, but for `told`.
Erased(s, r, told) == EditsOf(s.data) \ ((UNION {r.got[t] : t \in Tables}) \cup Stored \cup told)

\* The toasts that announce it: CONFLICTO covers all that was on screen, the
\* one of a 422 what was queued when the 422 arrived, and a reload after a
\* change of calendar or a blocked closure announces nothing.
Told(s, r) ==
  IF s.call.why = "conflict" \/ (s.convergenciaPendiente /\ r.rev > s.revisionEnConflicto)
  THEN Ops
  ELSE IF s.call.why = "rejected" THEN EditsOf(s.call.data) ELSE {}

Converged(s) ==
  [s EXCEPT !.convergenciaPendiente = FALSE,
            !.storageError = IF @ = "conflict" THEN "none" ELSE @]

Reloading(c, st) ==
  store[c].call.kind = "reload" /\ store[c].reads["converge"].st = st

ReloadOk(c) ==
  LET s == store[c]
      r == s.reads["converge"]
      a == Adopt([EndRead(s, "converge") EXCEPT !.pendingSave = {}, !.sinGuardar = FALSE], r)
  IN  /\ Reloading(c, "done") /\ ~r.orphan
      /\ store' = [store EXCEPT ![c] = Release(
           CASE s.call.why = "conflict" -> Converged(a)
             [] s.call.why = "cycles"   -> [a EXCEPT !.storageError = "none"]
             [] OTHER                   -> a)]
      /\ silent' = silent \cup Erased(s, r, Told(s, r))
      /\ UNCHANGED <<serverVars, abandoned, session, stream, nudge, used, faults>>

\* The load did not arrive; `notice` is the fixed notice it leaves behind.
ReloadMissed(s, notice) ==
  CASE s.call.why = "conflict" ->
         IF s.revision > s.call.base THEN Converged(s)
         ELSE [s EXCEPT !.convergenciaPendiente = TRUE,
                        !.storageError = IF notice = "malformed" THEN notice ELSE "conflict"]
    [] s.call.why = "cycles" -> [s EXCEPT !.storageError = "network"]
    [] OTHER -> IF notice = "malformed" THEN [s EXCEPT !.storageError = notice] ELSE s

ReloadLost(c) ==
  LET s == EndRead(store[c], "converge")
  IN  /\ store[c].call.kind = "reload" /\ ~store[c].reads["converge"].orphan
      /\ \/ /\ Fault("network")
            /\ store' = [store EXCEPT ![c] = Release(ReloadMissed(s, "network"))]
         \/ /\ Fault("garbled")
            /\ store' = [store EXCEPT ![c] = Release(ReloadMissed(s, "malformed"))]
      /\ UNCHANGED <<serverVars, abandoned, session, stream, nudge, used, silent>>

\* The session was forgotten meanwhile: whatever arrives decides nothing.
ReloadOrphan(c) ==
  LET s == EndRead(store[c], "converge")
  IN  /\ store[c].call.kind = "reload" /\ store[c].reads["converge"].orphan
      /\ store[c].reads["converge"].st \in {"done", "empty", "unauthorized"}
      /\ store' = [store EXCEPT ![c] = Release(
           IF s.call.why = "cycles" THEN [s EXCEPT !.storageError = "network"] ELSE s)]
      /\ StoreOnly

\* 204: the seed never arrived, so there was nobody else. Seed again.
ReloadEmpty(c) ==
  LET s == EndRead(store[c], "converge")
  IN  /\ Reloading(c, "empty") /\ ~store[c].reads["converge"].orphan
      /\ store' = [store EXCEPT ![c] = Release(
           IF s.call.why = "conflict" /\ s.revision <= s.call.base
           THEN Persist([s EXCEPT !.revision = 0], s.data)
           ELSE ReloadMissed(s, "network"))]
      /\ StoreOnly

Expire(c, s) ==
  /\ store' = [store EXCEPT ![c] = s]
  /\ stream' = [stream EXCEPT ![c] = "off"]
  /\ nudge' = [nudge EXCEPT ![c] = FALSE]
  /\ UNCHANGED <<serverVars, abandoned, session, used, silent, faults>>

ReloadUnauthorized(c) ==
  /\ Reloading(c, "unauthorized") /\ ~store[c].reads["converge"].orphan
  /\ Expire(c, Release(Forget(EndRead(store[c], "converge"))))

-----------------------------------------------------------------------------
(* The live reload: cargar("si-no-cambio").                                *)

\* si-no-cambio: the load is older than what the client has, in any way.
Discarded(s, r) ==
  r.orphan \/ r.rev < s.revision \/ r.dirty \/ s.pendingSave # {}

LiveOk(c, x) ==
  LET r == store[c].reads[x]
      s == EndRead(store[c], x)
      keep == Discarded(s, r)
  IN  /\ r.st = "done"
      /\ store' = [store EXCEPT ![c] = IF keep THEN s ELSE Adopt(s, r)]
      /\ silent' = IF keep THEN silent
                   ELSE silent \cup Erased(s, r, IF s.convergenciaPendiente THEN Ops ELSE {})
      /\ UNCHANGED <<serverVars, abandoned, session, stream, nudge, used, faults>>

LiveLost(c, x) ==
  LET s == EndRead(store[c], x)
  IN  /\ store[c].reads[x].st # "idle"
      /\ \/ Fault("network") /\ store' = [store EXCEPT ![c] = s]
         \/ /\ Fault("garbled")
            /\ store' = [store EXCEPT ![c] =
                 IF store[c].reads[x].orphan THEN s ELSE [s EXCEPT !.storageError = "malformed"]]
      /\ UNCHANGED <<serverVars, abandoned, session, stream, nudge, used, silent>>

LiveEmpty(c, x) ==
  /\ store[c].reads[x].st = "empty"
  /\ store' = [store EXCEPT ![c] = EndRead(@, x)]
  /\ StoreOnly

LiveUnauthorized(c, x) ==
  LET s == EndRead(store[c], x)
  IN  /\ store[c].reads[x].st = "unauthorized"
      /\ Expire(c, IF store[c].reads[x].orphan THEN s ELSE Forget(s))

-----------------------------------------------------------------------------
(* hydrate: the gate's load, on entering, on retrying and on every page.   *)

Hydrate(c) ==
  /\ store[c].in /\ store[c].reads["hydrate"].st = "idle"
  /\ Revisits \/ ~store[c].hydrated
  /\ store' = [store EXCEPT ![c] = StartRead(@, "hydrate")]
  /\ IF store[c].hydrated \/ stream[c] = "off"
     THEN /\ stream' = [stream EXCEPT ![c] = "connecting"]
          /\ nudge' = [nudge EXCEPT ![c] = FALSE]
     ELSE UNCHANGED <<stream, nudge>>
  /\ UNCHANGED <<serverVars, abandoned, session, used, silent, faults>>

\* A re-hydration gives way to anything local.
HydrateYields(s, r) ==
  ~r.first /\ (r.dirty \/ s.lock # "free" \/ s.pendingSave # {} \/ s.sinGuardar)

HydrateGivesWay(s) ==
  IF s.sinGuardar /\ s.lock = "free" /\ s.pendingSave = {} THEN Persist(s, s.data) ELSE s

\* Variant: the answer may be older than what the client has confirmed.
LateNever(s, r) == FALSE

\* Nor does it ever take the client back.
Late(s, r) == ~r.first /\ r.rev < s.revision

HydrateOk(c) ==
  LET r == store[c].reads["hydrate"]
      s == EndRead(store[c], "hydrate")
  IN  /\ r.st = "done"
      /\ store' = [store EXCEPT ![c] =
           IF HydrateYields(s, r) THEN HydrateGivesWay(s)
           ELSE IF Late(s, r) THEN s
           ELSE [Adopt(s, r) EXCEPT !.hydrated = TRUE]]
      /\ silent' = IF HydrateYields(s, r) \/ Late(s, r) THEN silent
                   ELSE silent \cup Erased(s, r, IF s.convergenciaPendiente THEN Ops ELSE {})
      /\ UNCHANGED <<serverVars, abandoned, session, stream, nudge, used, faults>>

\* 204: a new user. The seed is saved outside the queue before it is painted.
HydrateEmpty(c) ==
  LET s == store[c]
      r == s.reads["hydrate"]
  IN  /\ r.st = "empty"
      /\ store' = [store EXCEPT ![c] =
           IF HydrateYields(s, r) THEN HydrateGivesWay(EndRead(s, "hydrate"))
           ELSE [AlCargar([s EXCEPT !.revision = 0], 0)
                   EXCEPT !.reads["hydrate"].st = "seeding"]]
      /\ StoreOnly

\* The outcome of that save is not looked at: the seed is painted.
HydrateSeeded(c) ==
  LET r == store[c].reads["hydrate"]
      s == EndRead(store[c], "hydrate")
      p == [SetData(s, Seed) EXCEPT !.hydrated = TRUE]
  IN  /\ r.st \in {"seeded", "unseeded"}
      /\ store' = [store EXCEPT ![c] =
           IF r.st = "seeded" THEN [p EXCEPT !.revision = r.rev] ELSE p]
      /\ StoreOnly

HydrateLost(c) ==
  LET r == store[c].reads["hydrate"]
      s == EndRead(store[c], "hydrate")
  IN  /\ r.st # "idle"
      /\ \/ /\ Fault("network")
            /\ store' = [store EXCEPT ![c] =
                 IF r.st \in {"seeding", "seeded", "unseeded"}
                 THEN [SetData(s, Seed) EXCEPT !.hydrated = TRUE]
                 ELSE IF r.first THEN s ELSE [s EXCEPT !.hydrated = TRUE]]
            /\ abandoned' \in {abandoned, abandoned \cup
                 (IF r.st = "seeding" THEN {[NoCall EXCEPT !.kind = "put", !.st = "sent"]} ELSE {})}
         \/ /\ Fault("garbled") /\ r.st \in {"asked", "rows", "done"}
            /\ store' = [store EXCEPT ![c] =
                 [s EXCEPT !.hydrated = TRUE, !.storageError = "malformed"]]
            /\ UNCHANGED abandoned
      /\ UNCHANGED <<serverVars, session, stream, nudge, used, silent>>

HydrateUnauthorized(c) ==
  /\ store[c].reads["hydrate"].st = "unauthorized"
  /\ Expire(c, Forget(EndRead(store[c], "hydrate")))

-----------------------------------------------------------------------------
(* The event stream (SyncClient) and the session.                          *)

\* An event: any revision makes the store reload.
Deliver(c) ==
  /\ nudge[c]
  /\ nudge' = [nudge EXCEPT ![c] = FALSE]
  /\ store' = [store EXCEPT ![c] = Resync(@, FALSE)]
  /\ UNCHANGED <<serverVars, abandoned, session, stream, used, silent, faults>>

\* The first opening of a SyncClient asks for nothing.
StreamOpens(c) ==
  /\ stream[c] = "connecting"
  /\ stream' = [stream EXCEPT ![c] = "open"]
  /\ UNCHANGED <<serverVars, abandoned, store, session, nudge, used, silent, faults>>

\* The stream fails: the browser retries by itself, or gives it up for closed
\* and the SyncClient asks for a catch-up and reopens it later.
StreamDrops(c) ==
  /\ stream[c] \in {"connecting", "open"} /\ Fault("stream")
  /\ nudge' = [nudge EXCEPT ![c] = FALSE]
  /\ \/ /\ stream[c] = "open"
        /\ UNCHANGED store
     \/ store' = [store EXCEPT ![c] = Resync(@, TRUE)]
  /\ stream' = [stream EXCEPT ![c] = "dropped"]
  /\ UNCHANGED <<serverVars, abandoned, session, used, silent>>

\* What was published meanwhile is lost: reopening, or being refused with the
\* 401 of a dead session, asks for a catch-up.
StreamReopens(c) ==
  /\ stream[c] = "dropped"
  /\ stream' = [stream EXCEPT ![c] = IF session[c] THEN "open" ELSE "dropped"]
  /\ store' = [store EXCEPT ![c] = Resync(@, TRUE)]
  /\ UNCHANGED <<serverVars, abandoned, session, nudge, used, silent, faults>>

\* The server ends the session; the client learns it from its next 401.
Revoke(c) ==
  /\ session[c] /\ Fault("session")
  /\ session' = [session EXCEPT ![c] = FALSE]
  /\ UNCHANGED <<serverVars, abandoned, store, stream, nudge, used, silent>>

\* clearForLogout, once the sign-out has been answered.
Logout(c) ==
  /\ store[c].in /\ store[c].hydrated /\ Fault("session")
  /\ session' = [session EXCEPT ![c] = FALSE]
  /\ store' = [store EXCEPT ![c] = Forget(@)]
  /\ stream' = [stream EXCEPT ![c] = "off"]
  /\ nudge' = [nudge EXCEPT ![c] = FALSE]
  /\ UNCHANGED <<serverVars, abandoned, used, silent>>

\* clearSessionExpired after a valid sign-in; the gate hydrates next.
Login(c) ==
  /\ ~store[c].in
  /\ session' = [session EXCEPT ![c] = TRUE]
  /\ store' = [store EXCEPT ![c] = [@ EXCEPT !.in = TRUE, !.storageError = "none"]]
  /\ UNCHANGED <<serverVars, abandoned, stream, nudge, used, silent, faults>>

-----------------------------------------------------------------------------
Init ==
  /\ revision = (IF NewUser THEN 0 ELSE 1)
  /\ rows = Seed.rows /\ closure = {} /\ rowsRev = revision
  /\ abandoned = {} /\ used = {} /\ silent = {} /\ faults = 0
  /\ store = [c \in Clients |->
       [data |-> Seed, revision |-> 0, pendingSave |-> {}, lock |-> "free",
        call |-> NoCall, asked |-> {}, reads |-> [x \in Slots |-> NoRead],
        sinGuardar |-> FALSE, convergenciaPendiente |-> FALSE,
        revisionEnConflicto |-> 0, puestaAlDiaPendiente |-> FALSE,
        storageError |-> "none", hydrated |-> FALSE, in |-> TRUE]]
  /\ session = [c \in Clients |-> TRUE]
  /\ stream = [c \in Clients |-> "off"]
  /\ nudge = [c \in Clients |-> FALSE]

\* The steps of the request the save queue waits for.
WriteStep(c) ==
  \/ ServeWrite(c) \/ SaveOk(c) \/ SaveConflict(c) \/ SaveRejected(c)
  \/ RequestOk(c) \/ CyclesOk(c) \/ RequestConflict(c) \/ RequestBlocked(c)
  \/ RequestRejected(c) \/ WriteUnauthorized(c)

ConvergeStep(c) ==
  \/ ReadHead(c, "converge") \/ \E t \in Tables : ReadTable(c, "converge", t)
  \/ ReloadOk(c) \/ ReloadOrphan(c) \/ ReloadEmpty(c) \/ ReloadUnauthorized(c)

LiveStep(c, x) ==
  \/ ReadHead(c, x) \/ \E t \in Tables : ReadTable(c, x, t)
  \/ LiveOk(c, x) \/ LiveEmpty(c, x) \/ LiveUnauthorized(c, x)

HydrateStep(c) ==
  \/ ReadHead(c, "hydrate") \/ \E t \in Tables : ReadTable(c, "hydrate", t)
  \/ HydrateOk(c) \/ HydrateEmpty(c) \/ ServeSeed(c) \/ HydrateSeeded(c)
  \/ HydrateUnauthorized(c)

StreamStep(c) == Deliver(c) \/ StreamOpens(c) \/ StreamReopens(c)

\* What the user does, and what goes wrong.
Outside(c) ==
  \/ Hydrate(c) \/ Login(c) \/ Logout(c) \/ Revoke(c)
  \/ \E o \in Ops : Edit(c, o) \/ \E kind \in Requests : Request(c, kind, o)
  \/ ServeBlocked(c) \/ WriteLost(c) \/ ReloadLost(c) \/ HydrateLost(c)
  \/ StreamDrops(c) \/ \E x \in LiveSlots : LiveLost(c, x)

Next ==
  \/ \E c \in Clients :
       \/ WriteStep(c) \/ ConvergeStep(c) \/ HydrateStep(c) \/ StreamStep(c) \/ Outside(c)
       \/ \E x \in LiveSlots : LiveStep(c, x)
  \/ \E k \in abandoned : ServeAbandoned(k)
  \/ \E o \in Ops : ExternalWrite(o)

Spec == Init /\ [][Next]_vars

\* The server answers what reaches it, the browser runs the handlers of what
\* arrives and the SyncClient reopens its stream; users owe nothing.
FairSpec ==
  /\ Spec
  /\ \A c \in Clients :
       /\ WF_vars(WriteStep(c)) /\ WF_vars(ConvergeStep(c)) /\ WF_vars(HydrateStep(c))
       /\ WF_vars(Deliver(c)) /\ WF_vars(StreamReopens(c))
       /\ \A x \in LiveSlots : WF_vars(LiveStep(c, x))

-----------------------------------------------------------------------------
(* Properties.                                                             *)

TypeOK ==
  /\ revision \in Nat /\ rowsRev \in Nat /\ rowsRev <= revision
  /\ rows \in [Tables -> SUBSET Ops] /\ closure \subseteq Ops
  /\ abandoned \subseteq Call
  /\ store \in [Clients -> Store]
  /\ \A c \in Clients : \A d, e \in store[c].pendingSave : d = e
  /\ session \in [Clients -> BOOLEAN] /\ nudge \in [Clients -> BOOLEAN]
  /\ stream \in [Clients -> {"off", "connecting", "open", "dropped"}]
  /\ used \subseteq Ops /\ silent \subseteq Ops /\ faults \in 0 .. MaxFaults

\* The optimistic lock (saveLedger's base check, the revision adopted only with
\* its data, BG-052 and BG-088): whatever the devices do, retry, lose or reorder,
\* a write never erases from a table what another device or the movements API
\* recorded there.
VL == INSTANCE VersionedLedger
        WITH Facts <- Tables \X Ops, FirstRevision <- (IF NewUser THEN 0 ELSE 1),
             facts <- {p \in Tables \X Ops : p[2] \in rows[p[1]]}
NoLostUpdate == VL!Spec

\* loadLedger reads the revision before the tables and outside a transaction: a
\* torn load may be painted, but it is never saved, so the stored tables always
\* agree on which edits happened.
ServerWhole == \A t, u \in Tables : rows[t] = rows[u]

\* Nothing typed disappears from the screen without having reached the server
\* and without a toast that says so (BG-010, BG-052, BG-081: "nothing in silence").
NoSilentLoss == silent = {}

Idle(s) == s.hydrated /\ s.in /\ s.lock = "free"

\* When the queue rests, no snapshot and no exclusive write is stranded in it, and
\* an edit on screen that the server lacks is marked to be retried or reconciled.
NothingStranded ==
  \A c \in Clients : LET s == store[c] IN
    Idle(s) => /\ s.pendingSave = {} /\ s.asked = {}
               /\ s.sinGuardar \/ s.convergenciaPendiente \/ EditsOf(s.data) \subseteq Stored

\* A client at rest that owes nothing and knows the server's revision shows the
\* server's ledger: a revision is only ever adopted with its data.
SameRevisionSameLedger ==
  \A c \in Clients : LET s == store[c] IN
    (Idle(s) /\ ~s.sinGuardar /\ ~s.convergenciaPendiente /\ s.revision = revision)
      => s.data = [rows |-> rows, closure |-> closure]

\* A debt towards the server, an edit that did not reach it or the reload of a
\* conflict that did not arrive, is on screen as a fixed notice as long as it lasts.
DebtAnnounced ==
  \A c \in Clients :
    store[c].sinGuardar \/ store[c].convergenciaPendiente => store[c].storageError # "none"

\* "Nunca hacia atras": no late answer takes a client whose first load has arrived
\* to an older revision than the one it has.
RevisionNeverBack ==
  [][\A c \in Clients :
       store[c].hydrated => store'[c].revision >= store[c].revision]_vars

\* The save queue is always let go again: no answer, and no failure, leaves
\* saveInFlight set.
QueueReleased ==
  \A c \in Clients : (store[c].lock # "free") ~> (store[c].lock = "free")

Owes(s) == s.sinGuardar \/ s.convergenciaPendiente \/ s.puestaAlDiaPendiente

\* Once the failures end, the reconnection of a dropped stream settles whatever the
\* client owes: the unsaved edit, the reload of a conflict, the catch-up.
ReconnectionSettles ==
  \A c \in Clients :
    (stream[c] = "dropped" /\ Owes(store[c]) /\ faults = MaxFaults) ~> ~Owes(store[c])

=============================================================================

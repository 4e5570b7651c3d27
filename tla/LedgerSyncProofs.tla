--------------------------- MODULE LedgerSyncProofs ---------------------------
(***************************************************************************)
(* No lost update: the stored ledger implements VersionedLedger, and its   *)
(* tables stay whole, for any clients, edits, tables, live reloads and     *)
(* faults, of a user who has a ledger and keeps the session.               *)
(*                                                                         *)
(* And nothing is lost between the screen and the server: Kept is an       *)
(* invariant of each client, and from it follow what the queue leaves      *)
(* behind, what a reload may erase, what a revision stands for, which      *)
(* notice is up and that no client goes back to an older revision.         *)
(***************************************************************************)
EXTENDS LedgerSyncInvariant, LedgerSyncTypes

-----------------------------------------------------------------------------
(* Ledgers and revisions.                                                  *)

\* What is left of StoreInv when the request in flight is let go.
Core(v, s) ==
  /\ Fresh(v, s.revision, s.data.rows)
  /\ \A d \in s.pendingSave : d.rows = s.data.rows
  /\ \A x \in Slots : ReadInv(v, s.reads[x])
  /\ s.pendingSave # {} \/ s.sinGuardar => \A x \in LiveSlots : s.reads[x].dirty
  /\ s.reads["hydrate"].st # "idle" => ~s.reads["hydrate"].first
  /\ s.hydrated /\ s.in

\* n differs from s in its notices and in what it owes the server.
Keeps(s, n) ==
  /\ n.data = s.data /\ n.revision = s.revision /\ n.pendingSave = s.pendingSave
  /\ n.lock = s.lock /\ n.call = s.call /\ n.asked = s.asked /\ n.reads = s.reads
  /\ n.sinGuardar = s.sinGuardar /\ n.hydrated = s.hydrated /\ n.in = s.in

\* n is s with the queue let go.
Freed(s, n) ==
  /\ n.data = s.data /\ n.revision = s.revision /\ n.pendingSave = s.pendingSave
  /\ n.asked = s.asked /\ n.reads = s.reads
  /\ n.sinGuardar = s.sinGuardar /\ n.hydrated = s.hydrated /\ n.in = s.in

LEMMA CoreOf ==
  ASSUME NEW v, NEW s, StoreInv(v, s), s.hydrated
  PROVE  Core(v, s)
BY DEF StoreInv, Core, EditsShielded

LEMMA KeepsCore ==
  ASSUME NEW v, NEW s, NEW n, Keeps(s, n), Core(v, s)
  PROVE  Core(v, n)
BY DEF Core, Keeps

LEMMA FreedCore ==
  ASSUME NEW v, NEW s, NEW n, Freed(s, n), Core(v, s)
  PROVE  Core(v, n)
BY DEF Core, Freed

LEMMA KeepsInv ==
  ASSUME NEW v, NEW s, NEW n, Keeps(s, n), StoreInv(v, s),
         n.convergenciaPendiente => n.hydrated
  PROVE  StoreInv(v, n)
<1>1. CallInv(v, n)
  BY DEF StoreInv, Keeps, CallInv
<1>2. NothingBeforeHydrate(n)
  BY DEF StoreInv, Keeps, NothingBeforeHydrate
<1> QED BY <1>1, <1>2 DEF StoreInv, Keeps, EditsShielded

LEMMA NoReadInv == ASSUME NEW v PROVE ReadInv(v, NoRead)
BY DEF ReadInv, NoRead

LEMMA NoCallFields == NoCall.kind = "none" /\ NoCall.st = "idle"
BY DEF NoCall

\* A reload that left before the last change of the ledger.
Marked(r) == [r EXCEPT !.dirty = TRUE]

LEMMA MarkInv ==
  ASSUME NEW v, NEW r \in Read, ReadInv(v, r)
  PROVE  ReadInv(v, Marked(r))
BY DEF ReadInv, Read, Marked

\* A finished reload is fresh.
LEMMA DoneFresh ==
  ASSUME NEW v, NEW r \in Read, ReadInv(v, r), r.st = "done", Whole(v.rows)
  PROVE  Fresh(v, r.rev, Loaded(r).rows)
BY DEF ReadInv, Fresh, Whole, Loaded

LEMMA GrownFresh ==
  ASSUME NEW v, NEW b, NEW m, NEW n, Fresh(v, b, m), Grown(m, n)
  PROVE  Fresh(v, b, n)
BY DEF Fresh, Grown

LEMMA GrownTrans ==
  ASSUME NEW l, NEW m, NEW n, Grown(l, m), Grown(m, n)
  PROVE  Grown(l, n)
BY DEF Grown

LEMMA EditGrown ==
  ASSUME NEW d \in Data, NEW o \in Ops
  PROVE  Grown(d.rows, WithEdit(d, o).rows)
BY DEF Grown, WithEdit, Whole, Data

-----------------------------------------------------------------------------
(* The store's internal functions.                                         *)

LEMMA DrainInv ==
  ASSUME NEW v, NEW s, Typed(s), Core(v, s), s.pendingSave # {}
  PROVE  StoreInv(v, Drain(s)) /\ Drain(s).hydrated
<1> DEFINE put == [NoCall EXCEPT !.kind = "put", !.st = "sent", !.base = s.revision,
                                 !.data = The(s.pendingSave)]
           n == [s EXCEPT !.lock = "drain", !.pendingSave = {}, !.call = put]
<1>1. The(s.pendingSave).rows = s.data.rows
  BY TheIn DEF Core
<1>2. /\ put.kind = "put" /\ put.st = "sent" /\ put.base = s.revision
      /\ put.data.rows = s.data.rows
  BY <1>1 DEF NoCall
<1> HIDE DEF put
<1>3. /\ n.data = s.data /\ n.revision = s.revision /\ n.reads = s.reads /\ n.call = put
      /\ n.pendingSave = {} /\ n.hydrated = s.hydrated /\ n.in = s.in /\ n.lock = "drain"
  BY DEF Typed, Store
<1> HIDE DEF n
<1>4. Grown(s.data.rows, s.data.rows)
  BY DEF Grown
<1>5. CallInv(v, n)
  BY <1>2, <1>3, <1>4 DEF CallInv, Core
<1>6. StoreInv(v, n) /\ n.hydrated
  BY <1>3, <1>5 DEF StoreInv, Core, EditsShielded, NothingBeforeHydrate
<1> QED BY <1>6 DEF Drain, n, put

\* A reload that leaves now carries nothing yet.
LEMMA StartReadFields ==
  ASSUME NEW s, Typed(s), NEW x \in Slots
  PROVE  LET n == StartRead(s, x) IN
         /\ n.data = s.data /\ n.revision = s.revision /\ n.pendingSave = s.pendingSave
         /\ n.lock = s.lock /\ n.call = s.call /\ n.asked = s.asked
         /\ n.sinGuardar = s.sinGuardar /\ n.hydrated = s.hydrated /\ n.in = s.in
         /\ n.convergenciaPendiente = s.convergenciaPendiente
         /\ \A y \in Slots \ {x} : n.reads[y] = s.reads[y]
         /\ n.reads[x].st = "asked" /\ n.reads[x].seen = {} /\ n.reads[x].first = ~s.hydrated
<1> DEFINE r == [NoRead EXCEPT !.st = "asked", !.dirty = FALSE, !.orphan = FALSE,
                               !.first = ~s.hydrated]
<1>1. r.st = "asked" /\ r.seen = {} /\ r.first = ~s.hydrated
  BY DEF NoRead
<1> HIDE DEF r
<1>2. StartRead(s, x) = [s EXCEPT !.reads[x] = r]
  BY DEF StartRead, r
<1> QED BY <1>1, <1>2 DEF Typed, Store

LEMMA AskedInv ==
  ASSUME NEW v, NEW r, r.st = "asked", r.seen = {}
  PROVE  ReadInv(v, r)
BY DEF ReadInv

LEMMA StartReloadInv ==
  ASSUME NEW v, NEW s, Typed(s), Core(v, s), s.lock # "free",
         NEW why \in {"conflict", "rejected", "cycles", "blocked"}
  PROVE  StoreInv(v, StartReload(s, why)) /\ StartReload(s, why).hydrated
<1> DEFINE k == [NoCall EXCEPT !.kind = "reload", !.st = "sent", !.why = why,
                               !.base = s.revision, !.data = s.data]
           m == [s EXCEPT !.call = k]
           n == StartRead(m, "converge")
<1>1. k.kind = "reload" /\ k.st = "sent"
  BY DEF NoCall
<1>2. k \in Call
  BY EmptyTypes DEF Typed, Store, Call
<1> HIDE DEF k
<1>3. Typed(m)
  BY <1>2 DEF Typed, Store
<1>4. /\ m.data = s.data /\ m.revision = s.revision /\ m.reads = s.reads /\ m.call = k
      /\ m.pendingSave = s.pendingSave /\ m.hydrated = s.hydrated /\ m.in = s.in
      /\ m.lock = s.lock /\ m.sinGuardar = s.sinGuardar
  BY DEF Typed, Store
<1> HIDE DEF m
<1>5. /\ n.data = m.data /\ n.revision = m.revision /\ n.pendingSave = m.pendingSave
      /\ n.lock = m.lock /\ n.call = m.call /\ n.sinGuardar = m.sinGuardar
      /\ n.hydrated = m.hydrated /\ n.in = m.in
      /\ \A y \in Slots \ {"converge"} : n.reads[y] = m.reads[y]
      /\ n.reads["converge"].st = "asked" /\ n.reads["converge"].seen = {}
  BY <1>3, SlotsHave, StartReadFields
<1> HIDE DEF n
<1>6. \A x \in Slots : ReadInv(v, n.reads[x])
  BY <1>4, <1>5, AskedInv DEF Core
<1>7. "converge" \notin LiveSlots /\ LiveSlots \subseteq Slots /\ "hydrate" \in Slots
  BY SlotsHave, ConstantsAssumption DEF ConstantsAssumption
<1>8. CallInv(v, n)
  BY <1>1, <1>4, <1>5 DEF CallInv
<1>9. StoreInv(v, n) /\ n.hydrated
  BY <1>1, <1>4, <1>5, <1>6, <1>7, <1>8 DEF StoreInv, Core, EditsShielded, NothingBeforeHydrate
<1> QED BY <1>9 DEF StartReload, n, m, k

LEMMA StartConvergeInv ==
  ASSUME NEW v, NEW s, Typed(s), Core(v, s), s.lock # "free"
  PROVE  StoreInv(v, StartConverge(s)) /\ StartConverge(s).hydrated
<1> DEFINE m == [s EXCEPT !.revisionEnConflicto =
                   IF s.convergenciaPendiente THEN @ ELSE s.revision]
<1>1. Typed(m) /\ Keeps(s, m)
  BY DEF Typed, Store, Keeps
<1>2. StartConverge(s) = StartReload(m, "conflict")
  BY DEF StartConverge
<1> HIDE DEF m
<1>3. Core(v, m) /\ m.lock # "free"
  BY <1>1, KeepsCore DEF Keeps
<1> QED BY <1>1, <1>2, <1>3, StartReloadInv

\* With the queue free and an edit to retry, the drainer takes it.
LEMMA PersistInv ==
  ASSUME NEW v, NEW s, Typed(s), Core(v, s), s.sinGuardar, s.lock = "free"
  PROVE  StoreInv(v, Persist(s, s.data)) /\ Persist(s, s.data).hydrated
<1> DEFINE q == [s EXCEPT !.pendingSave = {s.data}]
<1>1. /\ q.data = s.data /\ q.revision = s.revision /\ q.reads = s.reads
      /\ q.pendingSave = {s.data} /\ q.hydrated = s.hydrated /\ q.in = s.in
      /\ q.sinGuardar = s.sinGuardar
  BY DEF Typed, Store
<1>2. Typed(q)
  BY DEF Typed, Store
<1>3. Persist(s, s.data) = Drain(q)
  BY DEF Persist
<1> HIDE DEF q
<1>4. Core(v, q)
  BY <1>1 DEF Core
<1> QED BY <1>1, <1>2, <1>3, <1>4, DrainInv

LEMMA ResyncInv ==
  ASSUME NEW v, NEW s, Typed(s), StoreInv(v, s), NEW owed \in BOOLEAN
  PROVE  StoreInv(v, Resync(s, owed)) /\ Resync(s, owed).hydrated = s.hydrated
<1>1. CASE s.lock # "free" \/ s.pendingSave # {}
  <2> DEFINE n == [s EXCEPT !.puestaAlDiaPendiente = @ \/ owed]
  <2>1. Keeps(s, n) /\ n.convergenciaPendiente = s.convergenciaPendiente
    BY DEF Keeps, Typed, Store
  <2>2. Resync(s, owed) = n
    BY <1>1 DEF Resync
  <2> HIDE DEF n
  <2>3. n.convergenciaPendiente => n.hydrated
    BY <2>1 DEF Keeps, StoreInv, NothingBeforeHydrate, Typed, Store
  <2> QED BY <2>1, <2>2, <2>3, KeepsInv DEF Keeps
<1>2. CASE s.lock = "free" /\ s.pendingSave = {} /\ s.convergenciaPendiente
  <2> DEFINE m == [s EXCEPT !.lock = "exclusive"]
  <2>1. Typed(m) /\ Freed(s, m) /\ m.lock # "free"
    BY DEF Typed, Store, Freed
  <2>2. Resync(s, owed) = StartConverge(m)
    BY <1>2 DEF Resync
  <2> HIDE DEF m
  <2>3. s.hydrated
    BY <1>2 DEF StoreInv, NothingBeforeHydrate
  <2>4. Core(v, m)
    BY <2>1, <2>3, CoreOf, FreedCore
  <2>5. s.hydrated = TRUE /\ Typed(Resync(s, owed))
    BY <2>3, ResyncType DEF Typed, Store
  <2>6. Resync(s, owed).hydrated \in BOOLEAN
    BY <2>5 DEF Typed, Store
  <2> QED BY <2>1, <2>2, <2>4, <2>5, <2>6, StartConvergeInv
<1>3. CASE s.lock = "free" /\ s.pendingSave = {} /\ ~s.convergenciaPendiente /\ s.sinGuardar
  <2>1. s.hydrated
    BY <1>3 DEF StoreInv, NothingBeforeHydrate
  <2>2. StoreInv(v, Persist(s, s.data)) /\ Persist(s, s.data).hydrated
    BY <1>3, <2>1, CoreOf, PersistInv
  <2>3. Resync(s, owed) = Persist(s, s.data)
    BY <1>3 DEF Resync
  <2>4. s.hydrated = TRUE /\ Typed(Resync(s, owed))
    BY <2>1, ResyncType DEF Typed, Store
  <2>5. Resync(s, owed).hydrated \in BOOLEAN
    BY <2>4 DEF Typed, Store
  <2> QED BY <2>2, <2>3, <2>4, <2>5
<1>4. CASE s.lock = "free" /\ s.pendingSave = {} /\ ~s.convergenciaPendiente /\ ~s.sinGuardar
  <2> DEFINE x == LiveSlot(s)
             n == StartRead(s, x)
  <2>1. x \in LiveSlots /\ x \in Slots /\ x # "hydrate" /\ "hydrate" \in Slots
    BY LiveSlotType, SlotsHave, ConstantsAssumption DEF ConstantsAssumption
  <2>2. Resync(s, owed) = n
    BY <1>4 DEF Resync
  <2> HIDE DEF x
  <2>3. /\ n.data = s.data /\ n.revision = s.revision /\ n.pendingSave = s.pendingSave
        /\ n.lock = s.lock /\ n.call = s.call /\ n.asked = s.asked
        /\ n.sinGuardar = s.sinGuardar /\ n.hydrated = s.hydrated /\ n.in = s.in
        /\ n.convergenciaPendiente = s.convergenciaPendiente
        /\ \A y \in Slots \ {x} : n.reads[y] = s.reads[y]
        /\ n.reads[x].st = "asked" /\ n.reads[x].seen = {}
    BY <2>1, StartReadFields
  <2> HIDE DEF n
  <2>4. \A y \in Slots : ReadInv(v, n.reads[y])
    BY <2>3, AskedInv DEF StoreInv
  <2>5. CallInv(v, n)
    BY <2>3 DEF StoreInv, CallInv
  <2>6. n.call.kind = "none" /\ n.pendingSave = {} /\ ~n.sinGuardar
    BY <1>4, <2>3 DEF StoreInv
  <2> QED BY <2>1, <2>2, <2>3, <2>4, <2>5, <2>6 DEF StoreInv, EditsShielded, NothingBeforeHydrate
<1> QED BY <1>1, <1>2, <1>3, <1>4 DEF Typed, Store

LEMMA StartRequestInv ==
  ASSUME NEW v, NEW s, Typed(s), Core(v, s), s.asked # {}
  PROVE  StoreInv(v, StartRequest(s)) /\ StartRequest(s).hydrated
<1> DEFINE q == The(s.asked)
           k == [NoCall EXCEPT !.kind = q.kind, !.st = "sent", !.base = s.revision, !.op = q.op]
           n == [s EXCEPT !.lock = "exclusive", !.asked = {}, !.call = k]
<1>1. q.kind \in {"closure", "start", "cycles"}
  BY TheIn DEF Typed, Store
<1> HIDE DEF q
<1>2. k.kind = q.kind /\ k.st = "sent" /\ k.base = s.revision
  BY DEF NoCall
<1> HIDE DEF k
<1>3. /\ n.data = s.data /\ n.revision = s.revision /\ n.reads = s.reads /\ n.call = k
      /\ n.pendingSave = s.pendingSave /\ n.hydrated = s.hydrated /\ n.in = s.in
      /\ n.lock = "exclusive" /\ n.sinGuardar = s.sinGuardar /\ s.revision \in Nat
  BY DEF Typed, Store
<1>4. StartRequest(s) = n
  BY DEF StartRequest, n, k, q
<1> HIDE DEF n
<1>5. CallInv(v, n)
  BY <1>1, <1>2, <1>3 DEF CallInv
<1>6. k.kind # "put"
  BY <1>1, <1>2
<1> QED BY <1>3, <1>4, <1>5, <1>6 DEF StoreInv, Core, EditsShielded, NothingBeforeHydrate

\* Letting the queue go never loses the invariant, whatever runs next.
LEMMA ReleaseInv ==
  ASSUME NEW v, NEW s, Typed(s), Core(v, s)
  PROVE  StoreInv(v, Release(s))
<1> DEFINE f == [s EXCEPT !.lock = "free", !.call = NoCall]
           h == [f EXCEPT !.puestaAlDiaPendiente = FALSE]
           g == IF f.pendingSave # {} THEN Drain(f)
                ELSE IF f.puestaAlDiaPendiente /\ ~(f.convergenciaPendiente /\ f.asked # {})
                     THEN Resync(h, TRUE) ELSE f
<1>1. /\ Typed(f) /\ Freed(s, f) /\ f.lock = "free" /\ f.call.kind = "none" /\ f.call.st = "idle"
  BY EmptyTypes, NoCallFields DEF Typed, Store, Freed
<1>2. Typed(h) /\ Freed(s, h) /\ h.lock = "free" /\ h.call.kind = "none" /\ h.call.st = "idle"
  BY EmptyTypes, NoCallFields DEF Typed, Store, Freed
<1>3. Release(s) = IF g.lock = "free" /\ g.asked # {} THEN StartRequest(g) ELSE g
  BY DEF Release
<1> HIDE DEF f, h
<1>4. ASSUME NEW n, Typed(n), Freed(s, n), n.lock = "free", n.call.kind = "none", n.call.st = "idle"
      PROVE  Core(v, n) /\ StoreInv(v, n) /\ n.hydrated
  <2>1. Core(v, n)
    BY <1>4, FreedCore
  <2>2. CallInv(v, n)
    BY <1>4 DEF CallInv
  <2> QED BY <1>4, <2>1, <2>2 DEF Core, StoreInv, EditsShielded, NothingBeforeHydrate
<1>5. Core(v, f) /\ StoreInv(v, f) /\ f.hydrated /\ StoreInv(v, h) /\ h.hydrated
  BY <1>1, <1>2, <1>4
<1>6. Typed(g)
  BY <1>1, <1>2, DrainType, ResyncType
<1>7. StoreInv(v, g) /\ g.hydrated
  <2>1. f.pendingSave # {} => StoreInv(v, Drain(f)) /\ Drain(f).hydrated
    BY <1>1, <1>5, DrainInv
  <2>2. StoreInv(v, Resync(h, TRUE)) /\ Resync(h, TRUE).hydrated
    BY <1>2, <1>5, ResyncInv
  <2> QED BY <1>5, <2>1, <2>2
<1> HIDE DEF g
<1> QED BY <1>3, <1>6, <1>7, CoreOf, StartRequestInv

\* set({ data }) replaces the ledger and marks every reload in flight.
LEMMA SetDataFields ==
  ASSUME NEW s, Typed(s), NEW d
  PROVE  LET n == SetData(s, d) IN
         /\ n.data = d /\ n.revision = s.revision /\ n.pendingSave = s.pendingSave
         /\ n.lock = s.lock /\ n.call = s.call /\ n.asked = s.asked
         /\ n.sinGuardar = s.sinGuardar /\ n.hydrated = s.hydrated /\ n.in = s.in
         /\ n.convergenciaPendiente = s.convergenciaPendiente
         /\ \A x \in Slots : n.reads[x] = Marked(s.reads[x])
BY DEF SetData, Marked, Typed, Store

LEMMA MarkedReads ==
  ASSUME NEW v, NEW s, Typed(s), NEW n, \A x \in Slots : ReadInv(v, s.reads[x]),
         \A x \in Slots : n.reads[x] = Marked(s.reads[x])
  PROVE  /\ \A x \in Slots : ReadInv(v, n.reads[x])
         /\ \A x \in LiveSlots : n.reads[x].dirty
         /\ n.reads["hydrate"].st = s.reads["hydrate"].st
         /\ n.reads["hydrate"].first = s.reads["hydrate"].first
<1>1. \A x \in Slots : s.reads[x] \in Read
  BY DEF Typed, Store
<1>2. ASSUME NEW r \in Read
      PROVE  Marked(r).dirty /\ Marked(r).st = r.st /\ Marked(r).first = r.first
  BY DEF Marked, Read
<1>3. \A x \in Slots : ReadInv(v, n.reads[x])
  BY <1>1, MarkInv
<1> QED BY <1>1, <1>2, <1>3, SlotsHave

\* Adopting a load: its data with its revision, and nothing else but notices.
LEMMA AdoptFields ==
  ASSUME NEW s, Typed(s), NEW r \in Read
  PROVE  LET n == Adopt(s, r) IN
         /\ n.data = Loaded(r) /\ n.revision = r.rev /\ n.pendingSave = s.pendingSave
         /\ n.lock = s.lock /\ n.call = s.call /\ n.asked = s.asked
         /\ n.sinGuardar = s.sinGuardar /\ n.hydrated = s.hydrated /\ n.in = s.in
         /\ n.convergenciaPendiente => s.convergenciaPendiente
         /\ \A x \in Slots : n.reads[x] = Marked(s.reads[x])
<1> DEFINE q == [s EXCEPT !.revision = r.rev]
           p == SetData(q, Loaded(r))
           n == AlCargar(p, r.rev)
<1>1. r.rev \in Nat /\ Loaded(r) \in Data
  BY LoadedType DEF Read
<1>2. Typed(q)
  BY <1>1 DEF Typed, Store
<1>3. /\ q.revision = r.rev /\ q.pendingSave = s.pendingSave
      /\ q.lock = s.lock /\ q.call = s.call /\ q.asked = s.asked /\ q.reads = s.reads
      /\ q.sinGuardar = s.sinGuardar /\ q.hydrated = s.hydrated /\ q.in = s.in
      /\ q.convergenciaPendiente = s.convergenciaPendiente
  BY DEF Typed, Store
<1>4. Adopt(s, r) = n
  BY DEF Adopt
<1> HIDE DEF q
<1>5. Typed(p)
  BY <1>1, <1>2, SetDataType
<1>6. /\ p.data = Loaded(r) /\ p.revision = q.revision /\ p.pendingSave = q.pendingSave
      /\ p.lock = q.lock /\ p.call = q.call /\ p.asked = q.asked
      /\ p.sinGuardar = q.sinGuardar /\ p.hydrated = q.hydrated /\ p.in = q.in
      /\ p.convergenciaPendiente = q.convergenciaPendiente
      /\ \A x \in Slots : p.reads[x] = Marked(q.reads[x])
  BY <1>2, SetDataFields
<1> HIDE DEF p
<1>7. Keeps(p, n) /\ (n.convergenciaPendiente => p.convergenciaPendiente)
  BY <1>5 DEF Keeps, AlCargar, Typed, Store
<1> HIDE DEF n
<1> QED BY <1>3, <1>4, <1>6, <1>7 DEF Keeps

\* A fresh load adopted by a client with nothing of its own.
LEMMA AdoptCore ==
  ASSUME NEW v, NEW s, Typed(s), NEW r \in Read, Fresh(v, r.rev, Loaded(r).rows),
         s.pendingSave = {}, \A x \in Slots : ReadInv(v, s.reads[x]),
         s.reads["hydrate"].st # "idle" => ~s.reads["hydrate"].first,
         s.hydrated, s.in
  PROVE  Core(v, Adopt(s, r))
<1> DEFINE n == Adopt(s, r)
<1>1. /\ n.data = Loaded(r) /\ n.revision = r.rev /\ n.pendingSave = s.pendingSave
      /\ n.hydrated = s.hydrated /\ n.in = s.in
      /\ \A x \in Slots : n.reads[x] = Marked(s.reads[x])
  BY AdoptFields
<1> HIDE DEF n
<1>2. /\ \A x \in Slots : ReadInv(v, n.reads[x])
      /\ \A x \in LiveSlots : n.reads[x].dirty
      /\ n.reads["hydrate"].st = s.reads["hydrate"].st
      /\ n.reads["hydrate"].first = s.reads["hydrate"].first
  BY <1>1, MarkedReads
<1>3. Core(v, n)
  BY <1>1, <1>2 DEF Core
<1> QED BY <1>3 DEF n

\* Forgetting a reload that ended.
LEMMA EndReadInv ==
  ASSUME NEW v, NEW s, Typed(s), StoreInv(v, s), NEW x \in Slots
  PROVE  /\ StoreInv(v, EndRead(s, x))
         /\ Keeps([EndRead(s, x) EXCEPT !.reads = s.reads], s)
         /\ EndRead(s, x).reads[x].st = "idle"
<1> DEFINE n == EndRead(s, x)
<1>1. /\ n.data = s.data /\ n.revision = s.revision /\ n.pendingSave = s.pendingSave
      /\ n.lock = s.lock /\ n.call = s.call /\ n.asked = s.asked
      /\ n.sinGuardar = s.sinGuardar /\ n.hydrated = s.hydrated /\ n.in = s.in
      /\ n.convergenciaPendiente = s.convergenciaPendiente
      /\ \A y \in Slots \ {x} : n.reads[y] = s.reads[y]
      /\ n.reads[x] = NoRead
  BY DEF EndRead, Typed, Store
<1>2. Keeps([n EXCEPT !.reads = s.reads], s)
  BY DEF EndRead, Typed, Store, Keeps
<1> HIDE DEF n
<1>3. NoRead.st = "idle" /\ NoRead.dirty
  BY DEF NoRead
<1>4. \A y \in Slots : ReadInv(v, n.reads[y])
  BY <1>1, NoReadInv DEF StoreInv
<1>5. CallInv(v, n)
  BY <1>1 DEF CallInv, StoreInv
<1>6. EditsShielded(n) /\ NothingBeforeHydrate(n)
  BY <1>1, <1>3, SlotsHave DEF StoreInv, EditsShielded, NothingBeforeHydrate
<1>7. StoreInv(v, n)
  BY <1>1, <1>3, <1>4, <1>5, <1>6, SlotsHave DEF StoreInv
<1> QED BY <1>1, <1>2, <1>3, <1>7 DEF n

\* Edit: the snapshot typed on what is on screen.
LEMMA EditInv ==
  ASSUME NEW v, NEW s, Typed(s), StoreInv(v, s), Core(v, s),
         NEW d \in Data, Grown(s.data.rows, d.rows)
  PROVE  StoreInv(v, Persist(SetData(s, d), d))
<1> DEFINE p == SetData(s, d)
           q == [p EXCEPT !.pendingSave = {d}]
<1>2. Typed(p)
  BY SetDataType
<1>3. /\ p.data = d /\ p.revision = s.revision /\ p.lock = s.lock /\ p.call = s.call
      /\ p.hydrated = s.hydrated /\ p.in = s.in /\ p.asked = s.asked
      /\ \A x \in Slots : p.reads[x] = Marked(s.reads[x])
  BY SetDataFields
<1> HIDE DEF p
<1>4. /\ \A x \in Slots : ReadInv(v, p.reads[x])
      /\ \A x \in LiveSlots : p.reads[x].dirty
      /\ p.reads["hydrate"].st = s.reads["hydrate"].st
      /\ p.reads["hydrate"].first = s.reads["hydrate"].first
  BY <1>3, MarkedReads DEF StoreInv
<1>5. /\ q.data = p.data /\ q.revision = p.revision /\ q.lock = p.lock /\ q.call = p.call
      /\ q.hydrated = p.hydrated /\ q.in = p.in /\ q.reads = p.reads /\ q.pendingSave = {d}
  BY <1>2 DEF Typed, Store
<1>6. Typed(q)
  BY <1>2 DEF Typed, Store
<1>7. Persist(p, d) = IF p.lock = "free" THEN Drain(q) ELSE q
  BY DEF Persist
<1> HIDE DEF q
<1>8. Core(v, q)
  BY <1>3, <1>4, <1>5, GrownFresh DEF Core
<1>9. CASE p.lock = "free"
  BY <1>5, <1>6, <1>7, <1>8, <1>9, DrainInv DEF p
<1>10. CASE p.lock # "free"
  <2>1. s.call.kind = "put" => Grown(s.call.data.rows, d.rows)
    BY GrownTrans DEF StoreInv, CallInv
  <2>2. CallInv(v, q)
    BY <1>3, <1>5, <2>1 DEF StoreInv, CallInv
  <2>3. StoreInv(v, q)
    BY <1>3, <1>4, <1>5, <1>8, <1>10, <2>2
       DEF StoreInv, Core, EditsShielded, NothingBeforeHydrate
  <2> QED BY <1>7, <1>10, <2>3 DEF p
<1> QED BY <1>9, <1>10

-----------------------------------------------------------------------------
(* The handlers of a client.                                               *)

\* The case these proofs are about: the user has a ledger and keeps the session.
Settled == ~NewUser /\ "session" \notin Faults

\* Everything an action may count on about the client it belongs to.
LEMMA ClientFacts ==
  ASSUME TypeOK, Inv, NEW c \in Clients
  PROVE  /\ Typed(store[c]) /\ StoreInv(Server, store[c]) /\ session[c]
         /\ store[c].data \in Data /\ store[c].call \in Call
         /\ store[c].reads \in [Slots -> Read] /\ store[c].revision \in Nat
         /\ store[c].in /\ Whole(Server.rows)
BY TypeParts, TypedStore DEF Inv, StoreInv, Server

LEMMA HydratedCore ==
  ASSUME TypeOK, Inv, NEW c \in Clients,
         store[c].hydrated \/ store[c].call.kind # "none"
  PROVE  store[c].hydrated /\ Core(Server, store[c])
BY ClientFacts, CoreOf DEF StoreInv, NothingBeforeHydrate

\* A step that changes the store of one client, and of the server nothing.
LEMMA ClientStep ==
  ASSUME TypeOK, Inv, NEW c \in Clients, NEW n, StoreInv(Server, n),
         store' = [store EXCEPT ![c] = n], UNCHANGED <<serverVars, session>>,
         \A k \in abandoned' \ abandoned : k.kind = "put" => Fresh(Server, k.base, k.data.rows)
  PROVE  Inv'
<1>1. Server' = Server /\ revision' = revision /\ rows' = rows /\ session' = session
  BY DEF Server, serverVars
<1>2. \A d \in Clients : StoreInv(Server, store'[d])
  BY DEF Inv, TypeOK
<1>3. \A k \in abandoned' : k.kind = "put" => Fresh(Server, k.base, k.data.rows)
  BY DEF Inv
<1> QED BY <1>1, <1>2, <1>3 DEF Inv, Whole

LEMMA QuietStep ==
  ASSUME TypeOK, Inv, NEW c \in Clients, NEW n, StoreInv(Server, n),
         store' = [store EXCEPT ![c] = n], StoreOnly
  PROVE  Inv'
BY ClientStep DEF StoreOnly

LEMMA EditStep ==
  ASSUME TypeOK, Inv, NEW c \in Clients, NEW o \in Ops, Edit(c, o)
  PROVE  Inv'
<1> DEFINE d == WithEdit(store[c].data, o)
<1>1. store[c].hydrated /\ store' = [store EXCEPT ![c] = Persist(SetData(store[c], d), d)]
  BY DEF Edit
<1>2. d \in Data /\ Grown(store[c].data.rows, d.rows)
  BY ClientFacts, DataTypes, EditGrown
<1> HIDE DEF d
<1>3. StoreInv(Server, Persist(SetData(store[c], d), d))
  BY <1>1, <1>2, ClientFacts, HydratedCore, EditInv
<1> QED BY <1>1, <1>3, ClientStep DEF Edit, serverVars

\* Request: the exclusive write waits for the queue, or goes.
LEMMA RequestStep ==
  ASSUME TypeOK, Inv, NEW c \in Clients, NEW kind \in Requests, NEW o \in Ops, Request(c, kind, o)
  PROVE  Inv'
<1> DEFINE s == store[c]
           n == [s EXCEPT !.asked = {[kind |-> kind, op |-> {o}]}]
<1>1. Typed(s) /\ StoreInv(Server, s) /\ Core(Server, s) /\ s.hydrated
  BY ClientFacts, HydratedCore DEF Request
<1>2. [kind |-> kind, op |-> {o}] \in [kind : {"closure", "start", "cycles"}, op : SUBSET Ops]
  BY ConstantsAssumption DEF ConstantsAssumption
<1>3. Typed(n) /\ n.asked # {}
  BY <1>1, <1>2 DEF Typed, Store
<1>4. /\ n.data = s.data /\ n.revision = s.revision /\ n.pendingSave = s.pendingSave
      /\ n.lock = s.lock /\ n.call = s.call /\ n.reads = s.reads
      /\ n.sinGuardar = s.sinGuardar /\ n.hydrated = s.hydrated /\ n.in = s.in
  BY <1>1 DEF Typed, Store
<1>5. store' = [store EXCEPT ![c] = IF n.lock = "free" THEN StartRequest(n) ELSE n]
      /\ UNCHANGED <<serverVars, abandoned, session>>
  BY DEF Request, serverVars
<1> HIDE DEF s, n
<1>6. Core(Server, n)
  BY <1>1, <1>4 DEF Core
<1>7. StoreInv(Server, n)
  BY <1>1, <1>4 DEF StoreInv, CallInv, EditsShielded, NothingBeforeHydrate
<1> QED BY <1>3, <1>5, <1>6, <1>7, StartRequestInv, ClientStep

\* SaveOk, WriteLost: what is left once the answer has been taken in.
LEMMA SavedCore ==
  ASSUME NEW v, NEW s, Typed(s), StoreInv(v, s), Core(v, s),
         s.call.kind = "put", s.call.st = "ok",
         NEW e \in {"none", "network", "malformed", "conflict"}
  PROVE  LET n == [s EXCEPT !.revision = s.call.rev, !.sinGuardar = FALSE,
                            !.convergenciaPendiente = FALSE, !.storageError = e]
         IN  Typed(n) /\ Core(v, n)
<1> DEFINE n == [s EXCEPT !.revision = s.call.rev, !.sinGuardar = FALSE,
                          !.convergenciaPendiente = FALSE, !.storageError = e]
<1>1. s.call.rev \in Nat
  BY DEF Typed, Store, Call
<1>2. Typed(n)
  BY <1>1 DEF Typed, Store
<1>3. /\ n.data = s.data /\ n.revision = s.call.rev /\ n.pendingSave = s.pendingSave
      /\ n.reads = s.reads /\ n.hydrated = s.hydrated /\ n.in = s.in /\ n.sinGuardar = FALSE
  BY DEF Typed, Store
<1> HIDE DEF n
<1>4. Fresh(v, s.call.rev, s.data.rows)
  BY GrownFresh DEF StoreInv, CallInv
<1>5. Core(v, n)
  BY <1>3, <1>4 DEF Core
<1> QED BY <1>2, <1>5 DEF n

LEMMA UnsavedCore ==
  ASSUME NEW v, NEW s, Typed(s), StoreInv(v, s), Core(v, s), s.call.kind = "put",
         NEW e \in {"none", "network", "malformed", "conflict"}
  PROVE  LET n == [s EXCEPT !.sinGuardar = TRUE, !.storageError = e]
         IN  Typed(n) /\ Core(v, n)
<1> DEFINE n == [s EXCEPT !.sinGuardar = TRUE, !.storageError = e]
<1>1. Typed(n)
  BY DEF Typed, Store
<1>2. /\ n.data = s.data /\ n.revision = s.revision /\ n.pendingSave = s.pendingSave
      /\ n.reads = s.reads /\ n.hydrated = s.hydrated /\ n.in = s.in
  BY DEF Typed, Store
<1> HIDE DEF n
<1>3. Core(v, n)
  BY <1>2 DEF Core, StoreInv, EditsShielded
<1> QED BY <1>1, <1>3 DEF n

\* RequestOk: a declaration in the anchor row leaves every table alone.
LEMMA DeclaredCore ==
  ASSUME NEW v, NEW s, Typed(s), StoreInv(v, s), Core(v, s),
         s.call.kind \in {"closure", "start"}, s.call.st = "ok",
         NEW d \in Data, d.rows = s.data.rows,
         v.rowsRev \in Nat
  PROVE  LET p == SetData([s EXCEPT !.revision = s.call.rev], d)
         IN  Typed(p) /\ Core(v, p)
<1> DEFINE q == [s EXCEPT !.revision = s.call.rev]
           p == SetData(q, d)
<1>1. s.call.rev \in Nat /\ s.call.base \in Nat /\ s.revision \in Nat
  BY DEF Typed, Store, Call
<1>2. Typed(q)
  BY <1>1 DEF Typed, Store
<1>3. /\ q.revision = s.call.rev /\ q.pendingSave = s.pendingSave /\ q.reads = s.reads
      /\ q.hydrated = s.hydrated /\ q.in = s.in /\ q.sinGuardar = s.sinGuardar
  BY DEF Typed, Store
<1> HIDE DEF q
<1>4. Typed(p)
  BY <1>2, SetDataType
<1>5. /\ p.data = d /\ p.revision = q.revision /\ p.pendingSave = q.pendingSave
      /\ p.hydrated = q.hydrated /\ p.in = q.in /\ p.sinGuardar = q.sinGuardar
      /\ \A x \in Slots : p.reads[x] = Marked(q.reads[x])
  BY <1>2, SetDataFields
<1> HIDE DEF p
<1>6. /\ \A x \in Slots : ReadInv(v, p.reads[x])
      /\ \A x \in LiveSlots : p.reads[x].dirty
      /\ p.reads["hydrate"].st = q.reads["hydrate"].st
      /\ p.reads["hydrate"].first = q.reads["hydrate"].first
  BY <1>2, <1>3, <1>5, MarkedReads DEF StoreInv
<1>7. /\ s.revision >= s.call.base /\ s.call.rev <= v.revision
      /\ s.call.rev >= v.rowsRev => s.call.base >= v.rowsRev
  BY DEF StoreInv, CallInv
<1>8. Fresh(v, s.call.rev, d.rows)
  <2>1. s.call.rev >= v.rowsRev => s.revision >= v.rowsRev
    BY <1>1, <1>7
  <2> QED BY <1>7, <2>1 DEF Core, Fresh
<1>9. Core(v, p)
  BY <1>3, <1>5, <1>6, <1>8 DEF Core
<1> QED BY <1>4, <1>9 DEF p, q

\* SaveConflict, SaveRejected: what was queued is dropped before the reload.
LEMMA DroppedCore ==
  ASSUME NEW v, NEW s, Typed(s), Core(v, s)
  PROVE  LET n == [s EXCEPT !.pendingSave = {}]
         IN  Typed(n) /\ Core(v, n) /\ n.lock = s.lock
<1> DEFINE n == [s EXCEPT !.pendingSave = {}]
<1>1. Typed(n)
  BY DEF Typed, Store
<1>2. /\ n.data = s.data /\ n.revision = s.revision /\ n.pendingSave = {} /\ n.lock = s.lock
      /\ n.reads = s.reads /\ n.hydrated = s.hydrated /\ n.in = s.in /\ n.sinGuardar = s.sinGuardar
  BY DEF Typed, Store
<1> HIDE DEF n
<1>3. Core(v, n)
  BY <1>2 DEF Core
<1> QED BY <1>1, <1>2, <1>3 DEF n

\* The answers to a write.
LEMMA AnswerInv ==
  ASSUME TypeOK, Inv, NEW c \in Clients
  PROVE  /\ SaveOk(c) \/ SaveConflict(c) \/ SaveRejected(c) => Inv'
         /\ RequestOk(c) \/ CyclesOk(c) \/ RequestConflict(c) => Inv'
         /\ RequestBlocked(c) \/ RequestRejected(c) \/ WriteUnauthorized(c) => Inv'
<1> DEFINE s == store[c]
           k == s.call
<1>0. /\ Typed(s) /\ StoreInv(Server, s) /\ s.data \in Data /\ k \in Call
      /\ k.kind # "none" => Core(Server, s) /\ s.lock # "free"
  BY ClientFacts, HydratedCore DEF StoreInv
<1>1. ASSUME SaveOk(c) PROVE Inv'
  <2> DEFINE e == IF s.storageError \in {"network", "conflict"} THEN "none" ELSE s.storageError
             n == [s EXCEPT !.revision = s.call.rev, !.sinGuardar = FALSE,
                            !.convergenciaPendiente = FALSE, !.storageError = e]
  <2>1. e \in {"none", "network", "malformed", "conflict"}
    BY <1>0 DEF Typed, Store
  <2>2. s.call.kind = "put" /\ s.call.st = "ok"
    BY <1>1 DEF SaveOk, Answered
  <2>3. store' = [store EXCEPT ![c] = Release(n)] /\ StoreOnly
    BY <1>1 DEF SaveOk
  <2> HIDE DEF e
  <2>4. Typed(n) /\ Core(Server, n)
    BY <1>0, <2>1, <2>2, SavedCore
  <2> HIDE DEF n
  <2> QED BY <2>3, <2>4, ReleaseInv, QuietStep
<1>2. ASSUME SaveConflict(c) PROVE Inv'
  <2> DEFINE n == [s EXCEPT !.pendingSave = {}]
  <2>1. k.kind # "none" /\ store' = [store EXCEPT ![c] = StartConverge(n)] /\ StoreOnly
    BY <1>2 DEF SaveConflict, Answered
  <2>2. Typed(n) /\ Core(Server, n) /\ n.lock # "free"
    BY <1>0, <2>1, DroppedCore
  <2> HIDE DEF n
  <2> QED BY <2>1, <2>2, StartConvergeInv, QuietStep
<1>3. ASSUME SaveRejected(c) PROVE Inv'
  <2> DEFINE n == [s EXCEPT !.pendingSave = {}]
  <2>1. k.kind # "none" /\ store' = [store EXCEPT ![c] = StartReload(n, "rejected")] /\ StoreOnly
    BY <1>3 DEF SaveRejected, Answered
  <2>2. Typed(n) /\ Core(Server, n) /\ n.lock # "free"
    BY <1>0, <2>1, DroppedCore
  <2> HIDE DEF n
  <2> QED BY <2>1, <2>2, StartReloadInv, QuietStep
<1>4. ASSUME RequestOk(c) PROVE Inv'
  <2> DEFINE d == [s.data EXCEPT !.closure = s.data.closure \cup s.call.op]
             p == SetData([s EXCEPT !.revision = s.call.rev], d)
             n == IF s.call.kind = "start" THEN [p EXCEPT !.storageError = "none"] ELSE p
  <2>1. k.kind \in {"closure", "start"} /\ k.st = "ok" /\ k.kind # "none"
    BY <1>4 DEF RequestOk, Answered
  <2>2. store' = [store EXCEPT ![c] = Release(n)] /\ StoreOnly
    BY <1>4 DEF RequestOk
  <2>3. d \in Data /\ d.rows = s.data.rows
    BY <1>0 DEF Data, Call
  <2>4. Server.rowsRev \in Nat
    BY TypeParts DEF ServerTypes, Server
  <2> HIDE DEF d
  <2>5. Typed(p) /\ Core(Server, p)
    BY <1>0, <2>1, <2>3, <2>4, DeclaredCore
  <2> HIDE DEF p
  <2>6. Typed(n)
    BY <2>5, NoticeTypes
  <2>7. Keeps(p, [p EXCEPT !.storageError = "none"])
    BY <2>5 DEF Keeps, Typed, Store
  <2>8. Core(Server, n)
    BY <2>5, <2>7, KeepsCore
  <2> HIDE DEF n
  <2> QED BY <2>2, <2>6, <2>8, ReleaseInv, QuietStep
<1>5. ASSUME CyclesOk(c) PROVE Inv'
  <2>1. k.kind # "none" /\ store' = [store EXCEPT ![c] = StartReload(s, "cycles")] /\ StoreOnly
    BY <1>5 DEF CyclesOk, Answered
  <2> QED BY <1>0, <2>1, StartReloadInv, QuietStep
<1>6. ASSUME RequestConflict(c) PROVE Inv'
  <2>1. k.kind # "none" /\ store' = [store EXCEPT ![c] = StartConverge(s)] /\ StoreOnly
    BY <1>6 DEF RequestConflict, Answered
  <2> QED BY <1>0, <2>1, StartConvergeInv, QuietStep
<1>7. ASSUME RequestBlocked(c) PROVE Inv'
  <2>1. k.kind # "none" /\ store' = [store EXCEPT ![c] = StartReload(s, "blocked")] /\ StoreOnly
    BY <1>7 DEF RequestBlocked, Answered
  <2> QED BY <1>0, <2>1, StartReloadInv, QuietStep
<1>8. ASSUME RequestRejected(c) PROVE Inv'
  <2>1. k.kind # "none" /\ store' = [store EXCEPT ![c] = Release(s)] /\ StoreOnly
    BY <1>8 DEF RequestRejected, Answered
  <2> QED BY <1>0, <2>1, ReleaseInv, QuietStep
<1>9. ASSUME WriteUnauthorized(c) PROVE Inv'
  BY <1>0, <1>9 DEF WriteUnauthorized, Answered, StoreInv, CallInv
<1> QED BY <1>1, <1>2, <1>3, <1>4, <1>5, <1>6, <1>7, <1>8, <1>9

LEMMA WriteLostInv ==
  ASSUME TypeOK, Inv, NEW c \in Clients, WriteLost(c)
  PROVE  Inv'
<1> DEFINE s == store[c]
           k == s.call
           e == IF s.convergenciaPendiente THEN "conflict" ELSE "network"
           unsaved == [s EXCEPT !.sinGuardar = TRUE, !.storageError = e]
           warned == [s EXCEPT !.storageError = "network"]
           n == CASE k.kind = "put" -> unsaved [] k.kind = "closure" -> s [] OTHER -> warned
<1>1. /\ Typed(s) /\ StoreInv(Server, s) /\ k.kind # "none" /\ Core(Server, s)
      /\ k.kind \in {"put", "closure", "start", "cycles"}
  BY ClientFacts, HydratedCore DEF WriteLost
<1>2. store' = [store EXCEPT ![c] = Release(n)] /\ UNCHANGED <<serverVars, session>>
  BY DEF WriteLost, serverVars
<1>3. abandoned' \ abandoned \subseteq (IF k.st = "sent" THEN {k} ELSE {})
  BY DEF WriteLost
<1>4. Typed(warned) /\ Core(Server, warned)
  <2>1. Keeps(s, warned)
    BY <1>1 DEF Keeps, Typed, Store
  <2> QED BY <1>1, <2>1, NoticeTypes, KeepsCore
<1>5. k.kind = "put" => Typed(unsaved) /\ Core(Server, unsaved)
  BY <1>1, UnsavedCore
<1> HIDE DEF unsaved, warned
<1>6. Typed(n) /\ Core(Server, n)
  BY <1>1, <1>4, <1>5
<1> HIDE DEF n
<1>7. \A j \in abandoned' \ abandoned : j.kind = "put" => Fresh(Server, j.base, j.data.rows)
  BY <1>1, <1>3 DEF StoreInv, CallInv
<1> QED BY <1>2, <1>6, <1>7, ReleaseInv, ClientStep

\* A converging reload that did not arrive leaves only notices and a debt.
LEMMA MissedKeeps ==
  ASSUME NEW s, Typed(s), NEW notice
  PROVE  Keeps(s, ReloadMissed(s, notice))
<1>1. \A e : Keeps(s, [s EXCEPT !.storageError = e])
             /\ Keeps(s, [s EXCEPT !.convergenciaPendiente = TRUE, !.storageError = e])
  BY DEF Keeps, Typed, Store
<1>2. Keeps(s, Converged(s))
  BY DEF Keeps, Converged, Typed, Store
<1>3. Keeps(s, s)
  BY DEF Keeps
<1> QED BY <1>1, <1>2, <1>3 DEF ReloadMissed

\* What an action may count on about a reload of its client.
LEMMA ReadFacts ==
  ASSUME TypeOK, Inv, NEW c \in Clients, NEW x \in Slots
  PROVE  LET s == store[c]
             e == EndRead(s, x)
         IN  /\ Typed(s) /\ StoreInv(Server, s) /\ Whole(Server.rows)
             /\ s.reads[x] \in Read /\ ReadInv(Server, s.reads[x])
             /\ Typed(e) /\ StoreInv(Server, e)
<1> DEFINE s == store[c]
<1>1. Typed(s) /\ StoreInv(Server, s) /\ Whole(Server.rows) /\ s.reads[x] \in Read
  BY ClientFacts
<1>2. ReadInv(Server, s.reads[x])
  BY <1>1 DEF StoreInv
<1> HIDE DEF s
<1>3. Typed(EndRead(s, x)) /\ StoreInv(Server, EndRead(s, x))
  BY <1>1, EndReadType, EndReadInv
<1> QED BY <1>1, <1>2, <1>3 DEF s

\* How a converging reload ends.
LEMMA ReloadInv ==
  ASSUME TypeOK, Inv, NEW c \in Clients
  PROVE  /\ ReloadOk(c) \/ ReloadLost(c) \/ ReloadOrphan(c) => Inv'
         /\ ReloadEmpty(c) \/ ReloadUnauthorized(c) => Inv'
<1> DEFINE s == store[c]
           r == s.reads["converge"]
           e == EndRead(s, "converge")
<1>0. /\ Typed(s) /\ StoreInv(Server, s) /\ r \in Read /\ ReadInv(Server, r) /\ Typed(e)
      /\ StoreInv(Server, e) /\ Whole(Server.rows)
  BY ReadFacts, SlotsHave
<1>1. s.call.kind = "reload" => Core(Server, e) /\ e.hydrated
  <2>1. s.call.kind # "none" => s.hydrated
    BY <1>0 DEF StoreInv, NothingBeforeHydrate
  <2>2. e.hydrated = s.hydrated
    BY <1>0 DEF EndRead, Typed, Store
  <2> QED BY <1>0, <2>1, <2>2, CoreOf
<1>2. ASSUME ReloadOk(c) PROVE Inv'
  <2> DEFINE q == [e EXCEPT !.pendingSave = {}, !.sinGuardar = FALSE]
             a == Adopt(q, r)
             n == CASE s.call.why = "conflict" -> Converged(a)
                    [] s.call.why = "cycles"   -> [a EXCEPT !.storageError = "none"]
                    [] OTHER                   -> a
  <2>1. s.call.kind = "reload" /\ r.st = "done"
    BY <1>2 DEF ReloadOk, Reloading
  <2>2. store' = [store EXCEPT ![c] = Release(n)] /\ UNCHANGED <<serverVars, abandoned, session>>
    BY <1>2 DEF ReloadOk, serverVars
  <2>3. Fresh(Server, r.rev, Loaded(r).rows)
    BY <1>0, <2>1, DoneFresh
  <2>4. Typed(q)
    BY <1>0 DEF Typed, Store
  <2>5. /\ q.pendingSave = {} /\ q.reads = e.reads /\ q.hydrated = e.hydrated /\ q.in = e.in
    BY <1>0 DEF Typed, Store
  <2> HIDE DEF e, q
  <2>6. Typed(a) /\ Core(Server, a)
    BY <1>0, <1>1, <2>1, <2>3, <2>4, <2>5, AdoptType, AdoptCore DEF Core
  <2> HIDE DEF a
  <2>7. Keeps(a, [a EXCEPT !.storageError = "none"]) /\ Keeps(a, Converged(a))
    BY <2>6 DEF Keeps, Converged, Typed, Store
  <2>8. Typed(n) /\ Core(Server, n)
    BY <2>6, <2>7, NoticeTypes, ConvergedType, KeepsCore
  <2> HIDE DEF n
  <2> QED BY <2>2, <2>8, ReleaseInv, ClientStep
<1>3. ASSUME ReloadLost(c) PROVE Inv'
  <2>1. PICK notice \in {"network", "malformed"} :
           store' = [store EXCEPT ![c] = Release(ReloadMissed(e, notice))]
    BY <1>3 DEF ReloadLost
  <2>2. s.call.kind = "reload" /\ UNCHANGED <<serverVars, abandoned, session>>
    BY <1>3 DEF ReloadLost, serverVars
  <2> HIDE DEF e
  <2>3. Typed(ReloadMissed(e, notice)) /\ Core(Server, ReloadMissed(e, notice))
    BY <1>0, <1>1, <2>2, ReloadMissedType, MissedKeeps, KeepsCore
  <2> QED BY <2>1, <2>2, <2>3, ReleaseInv, ClientStep
<1>4. ASSUME ReloadOrphan(c) PROVE Inv'
  <2> DEFINE n == IF e.call.why = "cycles" THEN [e EXCEPT !.storageError = "network"] ELSE e
  <2>1. s.call.kind = "reload" /\ store' = [store EXCEPT ![c] = Release(n)] /\ StoreOnly
    BY <1>4 DEF ReloadOrphan
  <2> HIDE DEF e
  <2>2. Keeps(e, [e EXCEPT !.storageError = "network"])
    BY <1>0 DEF Keeps, Typed, Store
  <2>3. Typed(n) /\ Core(Server, n)
    BY <1>0, <1>1, <2>1, <2>2, NoticeTypes, KeepsCore
  <2> HIDE DEF n
  <2> QED BY <2>1, <2>3, ReleaseInv, QuietStep
<1>5. ASSUME ReloadEmpty(c) \/ ReloadUnauthorized(c) PROVE Inv'
  BY <1>0, <1>5 DEF ReloadEmpty, ReloadUnauthorized, Reloading, ReadInv
<1> QED BY <1>2, <1>3, <1>4, <1>5

\* The live reload.
LEMMA LiveInv ==
  ASSUME TypeOK, Inv, NEW c \in Clients, NEW x \in LiveSlots
  PROVE  /\ LiveOk(c, x) \/ LiveLost(c, x) => Inv'
         /\ LiveEmpty(c, x) \/ LiveUnauthorized(c, x) => Inv'
<1> DEFINE s == store[c]
           r == s.reads[x]
           e == EndRead(s, x)
<1>0. /\ Typed(s) /\ StoreInv(Server, s) /\ r \in Read /\ ReadInv(Server, r) /\ Typed(e)
      /\ StoreInv(Server, e) /\ Whole(Server.rows) /\ x \in Slots
  BY ReadFacts, SlotsHave
<1>1. /\ e.call = s.call /\ e.sinGuardar = s.sinGuardar /\ e.pendingSave = s.pendingSave
      /\ e.revision \in Nat
  BY <1>0 DEF EndRead, Typed, Store
<1>2. ASSUME LiveOk(c, x) PROVE Inv'
  <2> DEFINE n == Adopt(e, r)
  <2>1. /\ store' = [store EXCEPT ![c] = IF Discarded(e, r) THEN e ELSE n]
        /\ UNCHANGED <<serverVars, abandoned, session>> /\ r.st = "done"
    BY <1>2 DEF LiveOk, serverVars
  <2>2. CASE Discarded(e, r)
    BY <1>0, <2>1, <2>2, ClientStep
  <2>3. CASE ~Discarded(e, r)
    <3>1. r.rev >= e.revision /\ ~r.dirty /\ e.pendingSave = {}
      BY <1>0, <1>1, <2>3 DEF Discarded, Read
    <3>2. s.call.kind # "put" /\ ~s.sinGuardar
      BY <1>0, <3>1 DEF StoreInv, EditsShielded
    <3>3. Fresh(Server, r.rev, Loaded(r).rows)
      BY <1>0, <2>1, DoneFresh
    <3>4. /\ n.data = Loaded(r) /\ n.revision = r.rev /\ n.pendingSave = e.pendingSave
          /\ n.lock = e.lock /\ n.call = e.call /\ n.asked = e.asked
          /\ n.sinGuardar = e.sinGuardar /\ n.hydrated = e.hydrated /\ n.in = e.in
          /\ n.convergenciaPendiente => e.convergenciaPendiente
          /\ \A y \in Slots : n.reads[y] = Marked(e.reads[y])
      BY <1>0, AdoptFields
    <3> HIDE DEF n, e
    <3>5. /\ \A y \in Slots : ReadInv(Server, n.reads[y])
          /\ n.reads["hydrate"].st = e.reads["hydrate"].st
          /\ n.reads["hydrate"].first = e.reads["hydrate"].first
      BY <1>0, <3>4, MarkedReads DEF StoreInv
    <3>6. n.call.base \in Nat /\ r.rev \in Nat
      BY <1>0, <1>1, <3>4 DEF Typed, Store, Call, Read
    <3>7. CallInv(Server, n)
      BY <1>0, <1>1, <3>1, <3>2, <3>4, <3>6 DEF StoreInv, CallInv
    <3>8. StoreInv(Server, n)
      BY <1>0, <1>1, <3>1, <3>2, <3>3, <3>4, <3>5, <3>7
         DEF StoreInv, EditsShielded, NothingBeforeHydrate
    <3> QED BY <2>1, <2>3, <3>8, ClientStep
  <2> QED BY <2>2, <2>3
<1>3. ASSUME LiveLost(c, x) PROVE Inv'
  <2> DEFINE n == [e EXCEPT !.storageError = "malformed"]
  <2>1. /\ store' = [store EXCEPT ![c] = e] \/ store' = [store EXCEPT ![c] = n]
        /\ UNCHANGED <<serverVars, abandoned, session>>
    BY <1>3 DEF LiveLost, serverVars
  <2> HIDE DEF e
  <2>2. Keeps(e, n) /\ n.convergenciaPendiente = e.convergenciaPendiente
    BY <1>0 DEF Keeps, Typed, Store
  <2> HIDE DEF n
  <2>3. n.convergenciaPendiente => n.hydrated
    BY <1>0, <2>2 DEF Keeps, StoreInv, NothingBeforeHydrate
  <2>4. StoreInv(Server, n)
    BY <1>0, <2>2, <2>3, KeepsInv
  <2> QED BY <1>0, <2>1, <2>4, ClientStep
<1>4. ASSUME LiveEmpty(c, x) \/ LiveUnauthorized(c, x) PROVE Inv'
  BY <1>0, <1>4 DEF LiveEmpty, LiveUnauthorized, ReadInv
<1> QED BY <1>2, <1>3, <1>4

\* hydrate leaves: nothing local depends on its slot.
LEMMA HydrateStarts ==
  ASSUME NEW v, NEW s, Typed(s), StoreInv(v, s)
  PROVE  StoreInv(v, StartRead(s, "hydrate"))
<1> DEFINE n == StartRead(s, "hydrate")
<1>1. /\ n.data = s.data /\ n.revision = s.revision /\ n.pendingSave = s.pendingSave
      /\ n.lock = s.lock /\ n.call = s.call /\ n.asked = s.asked
      /\ n.sinGuardar = s.sinGuardar /\ n.hydrated = s.hydrated /\ n.in = s.in
      /\ n.convergenciaPendiente = s.convergenciaPendiente
      /\ \A y \in Slots \ {"hydrate"} : n.reads[y] = s.reads[y]
      /\ n.reads["hydrate"].st = "asked" /\ n.reads["hydrate"].seen = {}
      /\ n.reads["hydrate"].first = ~s.hydrated
  BY StartReadFields, SlotsHave
<1> HIDE DEF n
<1>2. \A y \in Slots : ReadInv(v, n.reads[y])
  BY <1>1, AskedInv DEF StoreInv
<1>3. CallInv(v, n)
  BY <1>1 DEF StoreInv, CallInv
<1>4. \A x \in LiveSlots : x # "hydrate" /\ x \in Slots
  BY SlotsHave, ConstantsAssumption DEF ConstantsAssumption
<1>5. StoreInv(v, n)
  BY <1>1, <1>2, <1>3, <1>4 DEF StoreInv, EditsShielded, NothingBeforeHydrate
<1> QED BY <1>5 DEF n

LEMMA GivesWayInv ==
  ASSUME NEW v, NEW s, Typed(s), StoreInv(v, s)
  PROVE  StoreInv(v, HydrateGivesWay(s))
<1>1. CASE s.sinGuardar /\ s.lock = "free" /\ s.pendingSave = {}
  <2>1. Core(v, s)
    BY <1>1, CoreOf DEF StoreInv, NothingBeforeHydrate
  <2> QED BY <1>1, <2>1, PersistInv DEF HydrateGivesWay
<1>2. CASE ~(s.sinGuardar /\ s.lock = "free" /\ s.pendingSave = {})
  BY <1>2 DEF HydrateGivesWay
<1> QED BY <1>1, <1>2

\* The first load, or a later one with nothing local in the way.
LEMMA HydrateAdopts ==
  ASSUME NEW v, NEW s, Typed(s), StoreInv(v, s), NEW r \in Read,
         Fresh(v, r.rev, Loaded(r).rows),
         s.pendingSave = {} /\ s.call.kind = "none" /\ ~s.sinGuardar,
         s.reads["hydrate"].st = "idle"
  PROVE  StoreInv(v, [Adopt(s, r) EXCEPT !.hydrated = TRUE])
<1> DEFINE a == Adopt(s, r)
           n == [a EXCEPT !.hydrated = TRUE]
<1>1. /\ a.data = Loaded(r) /\ a.revision = r.rev /\ a.pendingSave = s.pendingSave
      /\ a.lock = s.lock /\ a.call = s.call /\ a.asked = s.asked
      /\ a.sinGuardar = s.sinGuardar /\ a.in = s.in
      /\ \A x \in Slots : a.reads[x] = Marked(s.reads[x])
  BY AdoptFields
<1>2. Typed(a)
  BY AdoptType
<1> HIDE DEF a
<1>3. /\ \A x \in Slots : ReadInv(v, a.reads[x])
      /\ a.reads["hydrate"].st = s.reads["hydrate"].st
  BY <1>1, MarkedReads DEF StoreInv
<1>4. /\ n.data = a.data /\ n.revision = a.revision /\ n.pendingSave = a.pendingSave
      /\ n.lock = a.lock /\ n.call = a.call /\ n.sinGuardar = a.sinGuardar
      /\ n.in = a.in /\ n.reads = a.reads /\ n.hydrated
  BY <1>2 DEF Typed, Store
<1> HIDE DEF n
<1>5. CallInv(v, n)
  BY <1>1, <1>4 DEF CallInv, StoreInv
<1>6. StoreInv(v, n)
  BY <1>1, <1>3, <1>4, <1>5 DEF StoreInv, EditsShielded, NothingBeforeHydrate
<1> QED BY <1>6 DEF n, a

\* A later load that fails keeps what there is; a first one that cannot be read
\* lets the user in.
LEMMA LetIn ==
  ASSUME NEW v, NEW s, Typed(s), StoreInv(v, s), s.reads["hydrate"].st = "idle",
         NEW e \in {"none", "network", "malformed", "conflict"}
  PROVE  /\ StoreInv(v, [s EXCEPT !.hydrated = TRUE])
         /\ StoreInv(v, [s EXCEPT !.hydrated = TRUE, !.storageError = e])
<1>1. ASSUME NEW n, n.data = s.data, n.revision = s.revision, n.pendingSave = s.pendingSave,
             n.lock = s.lock, n.call = s.call, n.reads = s.reads, n.hydrated = TRUE,
             n.sinGuardar = s.sinGuardar, n.in = s.in
      PROVE  StoreInv(v, n)
  <2>1. CallInv(v, n)
    BY <1>1 DEF StoreInv, CallInv
  <2> QED BY <1>1, <2>1 DEF StoreInv, EditsShielded, NothingBeforeHydrate
<1> DEFINE m == [s EXCEPT !.hydrated = TRUE]
           w == [s EXCEPT !.hydrated = TRUE, !.storageError = e]
<1>2. /\ m.data = s.data /\ m.revision = s.revision /\ m.pendingSave = s.pendingSave
      /\ m.lock = s.lock /\ m.call = s.call /\ m.reads = s.reads /\ m.hydrated = TRUE
      /\ m.sinGuardar = s.sinGuardar /\ m.in = s.in
  BY DEF Typed, Store
<1>3. /\ w.data = s.data /\ w.revision = s.revision /\ w.pendingSave = s.pendingSave
      /\ w.lock = s.lock /\ w.call = s.call /\ w.reads = s.reads /\ w.hydrated = TRUE
      /\ w.sinGuardar = s.sinGuardar /\ w.in = s.in
  BY DEF Typed, Store
<1> HIDE DEF m, w
<1>4. StoreInv(v, m) /\ StoreInv(v, w)
  BY <1>1, <1>2, <1>3
<1> QED BY <1>4 DEF m, w

LEMMA HydrateInv ==
  ASSUME TypeOK, Inv, NEW c \in Clients
  PROVE  /\ Hydrate(c) \/ HydrateOk(c) \/ HydrateLost(c) => Inv'
         /\ HydrateEmpty(c) \/ ServeSeed(c) \/ HydrateSeeded(c) => Inv'
         /\ HydrateUnauthorized(c) => Inv'
<1> DEFINE s == store[c]
           r == s.reads["hydrate"]
           e == EndRead(s, "hydrate")
<1>0. /\ Typed(s) /\ StoreInv(Server, s) /\ r \in Read /\ ReadInv(Server, r) /\ Typed(e)
      /\ StoreInv(Server, e) /\ Whole(Server.rows)
  BY ReadFacts, SlotsHave
<1>1. e.reads["hydrate"].st = "idle" /\ e.hydrated = s.hydrated
  BY <1>0, SlotsHave DEF EndRead, NoRead, Typed, Store
<1>2. ASSUME Hydrate(c) PROVE Inv'
  <2>1. store' = [store EXCEPT ![c] = StartRead(s, "hydrate")]
        /\ UNCHANGED <<serverVars, abandoned, session>>
    BY <1>2 DEF Hydrate, serverVars
  <2>2. StoreInv(Server, StartRead(s, "hydrate"))
    BY <1>0, HydrateStarts
  <2> QED BY <2>1, <2>2, ClientStep
<1>3. ASSUME HydrateOk(c) PROVE Inv'
  <2> DEFINE n == [Adopt(e, r) EXCEPT !.hydrated = TRUE]
  <2>1. /\ store' = [store EXCEPT ![c] = IF HydrateYields(e, r) THEN HydrateGivesWay(e)
                                         ELSE IF Late(e, r) THEN e ELSE n]
        /\ UNCHANGED <<serverVars, abandoned, session>> /\ r.st = "done"
    BY <1>3 DEF HydrateOk, serverVars
  <2>2. Fresh(Server, r.rev, Loaded(r).rows)
    BY <1>0, <2>1, DoneFresh
  <2>3. StoreInv(Server, HydrateGivesWay(e))
    BY <1>0, GivesWayInv
  <2>4. r.first => ~s.hydrated
    BY <1>0, <2>1 DEF StoreInv
  <2> HIDE DEF s, e
  <2>5. ASSUME ~HydrateYields(e, r) PROVE StoreInv(Server, n)
    <3>1. e.pendingSave = {} /\ e.call.kind = "none" /\ ~e.sinGuardar
      <4>1. CASE r.first
        BY <1>0, <1>1, <2>4, <4>1 DEF StoreInv, NothingBeforeHydrate
      <4>2. CASE ~r.first
        BY <1>0, <2>5, <4>2 DEF HydrateYields, StoreInv
      <4> QED BY <4>1, <4>2
    <3> HIDE DEF r
    <3> QED BY <1>0, <1>1, <2>2, <3>1, HydrateAdopts
  <2> HIDE DEF n
  <2> QED BY <1>0, <2>1, <2>3, <2>5, ClientStep DEF e
<1>4. ASSUME HydrateLost(c) PROVE Inv'
  <2> DEFINE m == [e EXCEPT !.hydrated = TRUE]
             w == [e EXCEPT !.hydrated = TRUE, !.storageError = "malformed"]
  <2>1. r.st \notin {"seeding", "seeded", "unseeded"}
    BY <1>0 DEF ReadInv
  <2>2. \/ store' = [store EXCEPT ![c] = e]
        \/ store' = [store EXCEPT ![c] = m]
        \/ store' = [store EXCEPT ![c] = w]
    BY <1>4, <2>1 DEF HydrateLost
  <2>3. abandoned' = abandoned /\ UNCHANGED <<serverVars, session>>
    BY <1>4, <2>1 DEF HydrateLost, serverVars
  <2> HIDE DEF e
  <2>4. StoreInv(Server, m) /\ StoreInv(Server, w)
    BY <1>0, <1>1, LetIn
  <2> HIDE DEF m, w
  <2> QED BY <1>0, <2>2, <2>3, <2>4, ClientStep
<1>5. ASSUME HydrateEmpty(c) \/ ServeSeed(c) \/ HydrateSeeded(c) \/ HydrateUnauthorized(c) PROVE Inv'
  BY <1>0, <1>5 DEF HydrateEmpty, ServeSeed, HydrateSeeded, HydrateUnauthorized, ReadInv
<1> QED BY <1>2, <1>3, <1>4, <1>5

\* The event stream and the session.
LEMMA StreamInv ==
  ASSUME Settled, TypeOK, Inv, NEW c \in Clients
  PROVE  /\ StreamStep(c) \/ StreamDrops(c) => Inv'
         /\ Revoke(c) \/ Logout(c) \/ Login(c) => Inv'
<1> DEFINE s == store[c]
<1>0. Typed(s) /\ StoreInv(Server, s) /\ s.in
  BY ClientFacts
<1>1. StoreInv(Server, Resync(s, TRUE)) /\ StoreInv(Server, Resync(s, FALSE))
  BY <1>0, ResyncInv
<1>2. ASSUME StreamStep(c) \/ StreamDrops(c) PROVE Inv'
  <2>1. /\ \/ store' = store
           \/ store' = [store EXCEPT ![c] = Resync(s, TRUE)]
           \/ store' = [store EXCEPT ![c] = Resync(s, FALSE)]
        /\ UNCHANGED <<serverVars, abandoned, session>>
    BY <1>2 DEF StreamStep, StreamDrops, Deliver, StreamOpens, StreamReopens, serverVars
  <2>2. store' = store => store' = [store EXCEPT ![c] = s]
    BY DEF TypeOK
  <2> HIDE DEF s
  <2> QED BY <1>0, <1>1, <2>1, <2>2, ClientStep
<1>3. ASSUME Revoke(c) \/ Logout(c) PROVE Inv'
  BY <1>3 DEF Revoke, Logout, Fault, Settled
<1>4. ASSUME Login(c) PROVE Inv'
  BY <1>0, <1>4 DEF Login
<1> QED BY <1>2, <1>3, <1>4

-----------------------------------------------------------------------------
(* The server.                                                             *)

\* What a write does to what clients compare themselves with.
Moves(v, w) ==
  /\ v.revision \in Nat /\ v.rowsRev \in Nat /\ v.rowsRev <= v.revision
  /\ w.revision = v.revision + 1
  /\ (w.rows = v.rows /\ w.rowsRev = v.rowsRev) \/ w.rowsRev = w.revision

LEMMA FreshMoves ==
  ASSUME NEW v, NEW w, Moves(v, w), NEW b \in Nat, NEW m, Fresh(v, b, m)
  PROVE  Fresh(w, b, m)
BY DEF Moves, Fresh

LEMMA ReadMoves ==
  ASSUME NEW v, NEW w, Moves(v, w), NEW r \in Read, ReadInv(v, r)
  PROVE  ReadInv(w, r)
<1>1. r.rev \in Nat
  BY DEF Read
<1> QED BY <1>1 DEF Moves, ReadInv

LEMMA StoreMoves ==
  ASSUME NEW v, NEW w, Moves(v, w), NEW s, Typed(s), StoreInv(v, s)
  PROVE  StoreInv(w, s)
<1> DEFINE k == s.call
<1>1. /\ s.revision \in Nat /\ k.base \in Nat /\ k.rev \in Nat
      /\ \A x \in Slots : s.reads[x] \in Read
  BY DEF Typed, Store, Call
<1>2. Fresh(w, s.revision, s.data.rows)
  BY <1>1, FreshMoves DEF StoreInv
<1>3. \A x \in Slots : ReadInv(w, s.reads[x])
  BY <1>1, ReadMoves DEF StoreInv
<1>4. /\ k.kind = "put" /\ k.st = "sent" => Fresh(w, k.base, k.data.rows)
      /\ k.kind = "put" /\ k.st = "ok" => Fresh(w, k.rev, k.data.rows)
  BY <1>1, FreshMoves DEF StoreInv, CallInv
<1>5. k.kind \in {"closure", "start"} /\ k.st = "ok"
        => k.rev <= w.revision /\ (k.rev >= w.rowsRev => k.base >= w.rowsRev)
  BY <1>1 DEF StoreInv, CallInv, Moves
<1>6. CallInv(w, s)
  BY <1>4, <1>5 DEF StoreInv, CallInv
<1> QED BY <1>2, <1>3, <1>6 DEF StoreInv

\* The answer reaches the store of the client that waits for it.
LEMMA AnsweredInv ==
  ASSUME NEW v, NEW s, Typed(s), StoreInv(v, s), NEW k,
         k.kind = s.call.kind, k.base = s.call.base, k.data = s.call.data,
         k.st \in {"ok", "conflict", "rejected", "blocked"},
         k.kind = "put" /\ k.st = "ok" => Fresh(v, k.rev, k.data.rows),
         k.kind \in {"closure", "start"} /\ k.st = "ok" =>
           k.rev <= v.revision /\ (k.rev >= v.rowsRev => k.base >= v.rowsRev)
  PROVE  StoreInv(v, [s EXCEPT !.call = k])
<1> DEFINE n == [s EXCEPT !.call = k]
<1>1. /\ n.data = s.data /\ n.revision = s.revision /\ n.pendingSave = s.pendingSave
      /\ n.lock = s.lock /\ n.call = k /\ n.asked = s.asked /\ n.reads = s.reads
      /\ n.sinGuardar = s.sinGuardar /\ n.hydrated = s.hydrated /\ n.in = s.in
      /\ n.convergenciaPendiente = s.convergenciaPendiente
  BY DEF Typed, Store
<1> HIDE DEF n
<1>2. CallInv(v, n)
  BY <1>1 DEF StoreInv, CallInv
<1>3. StoreInv(v, n)
  BY <1>1, <1>2 DEF StoreInv, EditsShielded, NothingBeforeHydrate
<1> QED BY <1>3 DEF n

\* A write whose base is the current revision erases nothing.
LEMMA AcceptedMoves ==
  ASSUME TypeOK, Inv, NEW k \in Call, Current(k), Apply(k),
         k.kind = "put" => Fresh(Server, k.base, k.data.rows)
  PROVE  /\ Moves(Server, Server') /\ Whole(rows') /\ revision' = revision + 1
         /\ \A t \in Tables : rows[t] \subseteq rows'[t]
         /\ k.kind = "put" => rows' = k.data.rows
         /\ k.kind \in {"closure", "start"} => rows' = rows /\ rowsRev' = rowsRev
<1>1. revision \in Nat /\ rowsRev \in Nat /\ rowsRev <= revision /\ rows \in [Tables -> SUBSET Ops]
  BY TypeParts DEF ServerTypes
<1>2. /\ revision' = revision + 1
      /\ (rows' = rows /\ rowsRev' = rowsRev) \/ rowsRev' = revision + 1
      /\ rows' = IF k.kind = "put" THEN k.data.rows
                 ELSE IF k.kind = "cycles" THEN WithRow(k.op) ELSE rows
      /\ k.kind \in {"closure", "start"} => rowsRev' = rowsRev
  BY DEF Apply, Commit
<1>3. Moves(Server, Server')
  BY <1>1, <1>2 DEF Moves, Server
<1>4. Whole(rows)
  BY DEF Inv
<1>5. k.kind = "put" => Whole(k.data.rows) /\ \A t \in Tables : rows[t] \subseteq k.data.rows[t]
  BY <1>1 DEF Current, Fresh, Server
<1>6. Whole(WithRow(k.op)) /\ \A t \in Tables : rows[t] \subseteq WithRow(k.op)[t]
  BY <1>4 DEF Whole, WithRow
<1> QED BY <1>2, <1>3, <1>4, <1>5, <1>6

LEMMA ServerStep ==
  ASSUME Inv, Moves(Server, Server'), Whole(rows'), revision' = revision + 1, TypeOK,
         session' = session, abandoned' \subseteq abandoned,
         \A d \in Clients : StoreInv(Server', store'[d])
  PROVE  Inv'
<1>1. revision' >= 1
  BY TypeParts DEF ServerTypes
<1>2. ASSUME NEW k \in abandoned', k.kind = "put"
      PROVE  Fresh(Server', k.base, k.data.rows)
  <2>1. Fresh(Server, k.base, k.data.rows)
    BY <1>2 DEF Inv
  <2>2. k.base \in Nat
    BY <1>2 DEF TypeOK, Call
  <2> QED BY <2>1, <2>2, FreshMoves
<1> QED BY <1>1, <1>2 DEF Inv, Whole

\* Every write that is accepted adds to each table under the next revision.
Adds == revision' = revision + 1 /\ \A t \in Tables : rows[t] \subseteq rows'[t]

LEMMA AcceptStep ==
  ASSUME TypeOK, Inv, NEW c \in Clients, ServeWrite(c), revision' # revision
  PROVE  Inv' /\ Adds
<1> DEFINE s == store[c]
           k == s.call
           j == [k EXCEPT !.st = "ok", !.rev = revision + 1]
<1>0. Typed(s) /\ StoreInv(Server, s) /\ k \in Call /\ revision \in Nat
  BY ClientFacts, TypeParts DEF ServerTypes
<1>1. /\ k.kind \in {"put", "closure", "start", "cycles"} /\ k.st = "sent"
      /\ Current(k) /\ Apply(k) /\ Answer(c, "ok", revision + 1)
      /\ UNCHANGED <<abandoned, session>>
  BY DEF ServeWrite, serverVars
<1>2. k.kind = "put" => Fresh(Server, k.base, k.data.rows)
  BY <1>0, <1>1 DEF StoreInv, CallInv
<1>3. /\ Moves(Server, Server') /\ Whole(rows') /\ revision' = revision + 1
      /\ \A t \in Tables : rows[t] \subseteq rows'[t]
      /\ k.kind = "put" => rows' = k.data.rows
      /\ k.kind \in {"closure", "start"} => rows' = rows /\ rowsRev' = rowsRev
  BY <1>0, <1>1, <1>2, AcceptedMoves
<1>4. store' = [store EXCEPT ![c] = [s EXCEPT !.call = j]]
  BY <1>0, <1>1 DEF Answer, Typed, Store, Call
<1>5. /\ j.kind = k.kind /\ j.base = k.base /\ j.data = k.data /\ j.st = "ok"
      /\ j.rev = revision + 1
  BY <1>0 DEF Call
<1> HIDE DEF j
<1>6. StoreInv(Server', s)
  BY <1>0, <1>3, StoreMoves
<1>7. k.kind = "put" => Fresh(Server', j.rev, j.data.rows)
  <2>1. Server'.revision = revision' /\ Server'.rows = rows'
    BY DEF Server
  <2>2. revision + 1 <= revision'
    BY <1>0, <1>3
  <2> QED BY <1>3, <1>5, <2>1, <2>2 DEF Fresh
<1>8. k.kind \in {"closure", "start"} => j.rev <= Server'.revision /\ j.base >= Server'.rowsRev
  <2>1. j.base = revision /\ rowsRev <= revision /\ rowsRev \in Nat
    BY <1>1, <1>5, TypeParts DEF Current, ServerTypes
  <2> QED BY <1>0, <1>3, <1>5, <2>1 DEF Server
<1> HIDE DEF s, k
<1>9. StoreInv(Server', [s EXCEPT !.call = j])
  BY <1>0, <1>5, <1>6, <1>7, <1>8, AnsweredInv DEF k
<1>10. \A d \in Clients : StoreInv(Server', store'[d])
  <2>1. \A d \in Clients \ {c} : store'[d] = store[d] /\ StoreInv(Server', store[d])
    BY <1>3, <1>4, ClientFacts, StoreMoves DEF TypeOK
  <2>2. store'[c] = [s EXCEPT !.call = j]
    BY <1>4 DEF TypeOK
  <2> QED BY <1>9, <2>1, <2>2
<1> QED BY <1>1, <1>3, <1>10, ServerStep DEF Adds

LEMMA RefuseStep ==
  ASSUME TypeOK, Inv, NEW c \in Clients,
         ServeBlocked(c) \/ (ServeWrite(c) /\ revision' = revision)
  PROVE  Inv' /\ UNCHANGED serverVars
<1> DEFINE s == store[c]
           k == s.call
<1>0. Typed(s) /\ StoreInv(Server, s) /\ k \in Call /\ revision \in Nat /\ session[c]
  BY ClientFacts, TypeParts DEF ServerTypes
<1>1. PICK st \in {"conflict", "rejected", "blocked"} :
        Answer(c, st, 0) /\ UNCHANGED <<serverVars, abandoned, session>>
  BY <1>0 DEF ServeBlocked, ServeWrite, Apply, Commit, serverVars
<1> DEFINE j == [k EXCEPT !.st = st, !.rev = 0]
<1>2. store' = [store EXCEPT ![c] = [s EXCEPT !.call = j]]
  BY <1>0, <1>1 DEF Answer, Typed, Store, Call
<1>3. j.kind = k.kind /\ j.base = k.base /\ j.data = k.data /\ j.st = st
  BY <1>0 DEF Call
<1> HIDE DEF j, s, k
<1>4. StoreInv(Server, [s EXCEPT !.call = j])
  BY <1>0, <1>3, AnsweredInv DEF k
<1> QED BY <1>1, <1>2, <1>4, ClientStep DEF s

\* Writes that reach the server with nobody waiting for the answer.
LEMMA AloneStep ==
  ASSUME TypeOK, Inv
  PROVE  /\ \A k \in abandoned : ServeAbandoned(k) => Inv' /\ (Adds \/ UNCHANGED serverVars)
         /\ \A o \in Ops : ExternalWrite(o) => Inv' /\ Adds
<1>1. ASSUME NEW k \in abandoned, ServeAbandoned(k) PROVE Inv' /\ (Adds \/ UNCHANGED serverVars)
  <2>1. /\ store' = store /\ session' = session /\ abandoned' \subseteq abandoned
        /\ (Current(k) /\ Apply(k)) \/ UNCHANGED serverVars
    BY <1>1 DEF ServeAbandoned
  <2>2. k \in Call /\ (k.kind = "put" => Fresh(Server, k.base, k.data.rows))
    BY DEF TypeOK, Inv
  <2>3. CASE Current(k) /\ Apply(k)
    <3>1. /\ Moves(Server, Server') /\ Whole(rows') /\ revision' = revision + 1
          /\ \A t \in Tables : rows[t] \subseteq rows'[t]
      BY <2>2, <2>3, AcceptedMoves
    <3>2. \A d \in Clients : StoreInv(Server', store[d])
      BY <3>1, ClientFacts, StoreMoves
    <3> QED BY <2>1, <3>1, <3>2, ServerStep DEF Adds
  <2>4. CASE UNCHANGED serverVars
    BY <2>1, <2>4 DEF Inv, Server, Whole, serverVars
  <2> QED BY <2>1, <2>3, <2>4
<1>2. ASSUME NEW o \in Ops, ExternalWrite(o) PROVE Inv' /\ Adds
  <2>1. /\ store' = store /\ session' = session /\ abandoned' = abandoned
        /\ revision' = revision + 1 /\ rows' = WithRow({o})
        /\ (rows' = rows /\ rowsRev' = rowsRev) \/ rowsRev' = revision + 1
    BY <1>2 DEF ExternalWrite, Commit
  <2>2. revision \in Nat /\ rowsRev \in Nat /\ rowsRev <= revision
    BY TypeParts DEF ServerTypes
  <2>3. Moves(Server, Server')
    BY <2>1, <2>2 DEF Moves, Server
  <2>4. Whole(rows') /\ \A t \in Tables : rows[t] \subseteq rows'[t]
    BY <2>1 DEF Inv, Whole, WithRow
  <2>5. \A d \in Clients : StoreInv(Server', store[d])
    BY <2>3, ClientFacts, StoreMoves
  <2> QED BY <2>1, <2>3, <2>4, <2>5, ServerStep DEF Adds
<1> QED BY <1>1, <1>2

\* A GET takes its revision first and then each table.
LEMMA GetStep ==
  ASSUME TypeOK, Inv, NEW c \in Clients, NEW x \in Slots
  PROVE  /\ ReadHead(c, x) => Inv'
         /\ \A t \in Tables : ReadTable(c, x, t) => Inv'
<1> DEFINE s == store[c]
           r == s.reads[x]
<1>0. /\ Typed(s) /\ StoreInv(Server, s) /\ r \in Read /\ ReadInv(Server, r) /\ session[c]
      /\ revision \in Nat /\ revision >= 1 /\ rowsRev \in Nat /\ rowsRev <= revision
  BY ReadFacts, TypeParts DEF ServerTypes, Inv
<1>1. ASSUME NEW q \in Read, ReadInv(Server, q), q.dirty = r.dirty, q.first = r.first,
             r.st # "idle", store' = [store EXCEPT ![c] = [s EXCEPT !.reads[x] = q]],
             UNCHANGED <<serverVars, abandoned, session>>
      PROVE  Inv'
  <2> DEFINE n == [s EXCEPT !.reads[x] = q]
  <2>1. /\ n.data = s.data /\ n.revision = s.revision /\ n.pendingSave = s.pendingSave
        /\ n.lock = s.lock /\ n.call = s.call /\ n.asked = s.asked
        /\ n.sinGuardar = s.sinGuardar /\ n.hydrated = s.hydrated /\ n.in = s.in
        /\ n.convergenciaPendiente = s.convergenciaPendiente
        /\ \A y \in Slots \ {x} : n.reads[y] = s.reads[y]
        /\ n.reads[x] = q
    BY <1>0 DEF Typed, Store
  <2> HIDE DEF n, s
  <2>2. \A y \in Slots : ReadInv(Server, n.reads[y])
    BY <1>0, <1>1, <2>1 DEF StoreInv
  <2>3. CallInv(Server, n) /\ NothingBeforeHydrate(n)
    BY <1>0, <2>1 DEF StoreInv, CallInv, NothingBeforeHydrate
  <2>4. EditsShielded(n)
    BY <1>0, <1>1, <2>1, SlotsHave DEF StoreInv, EditsShielded
  <2>5. StoreInv(Server, n)
    <3>1. /\ Fresh(Server, n.revision, n.data.rows) /\ n.in
          /\ \A d \in n.pendingSave : d.rows = n.data.rows
          /\ n.lock = "free" => n.call.kind = "none"
      BY <1>0, <2>1 DEF StoreInv
    <3>2. n.reads["hydrate"].st # "idle" /\ n.reads["hydrate"].first => ~n.hydrated
      <4>1. CASE x = "hydrate"
        BY <1>0, <1>1, <2>1, <4>1 DEF StoreInv
      <4>2. CASE x # "hydrate"
        BY <1>0, <2>1, <4>2, SlotsHave DEF StoreInv
      <4> QED BY <4>1, <4>2
    <3> QED BY <2>2, <2>3, <2>4, <3>1, <3>2 DEF StoreInv
  <2> QED BY <1>1, <2>5, ClientStep DEF n
<1>2. ASSUME ReadHead(c, x) PROVE Inv'
  <2> DEFINE q == [r EXCEPT !.st = "rows", !.rev = revision, !.closure = closure]
  <2>0. session[c] /\ revision # 0
    BY <1>0
  <2>1. /\ r.st = "asked" /\ store' = [store EXCEPT ![c] = [s EXCEPT !.reads[x] = q]]
        /\ UNCHANGED <<serverVars, abandoned, session>>
    BY <1>2, <2>0 DEF ReadHead, serverVars
  <2>2. closure \in SUBSET Ops
    BY TypeParts DEF ServerTypes
  <2> HIDE DEF s
  <2>3. q \in Read
    BY <1>0, <2>2 DEF Read
  <2>4. /\ q.st = "rows" /\ q.rev = revision /\ q.seen = r.seen /\ q.got = r.got
        /\ q.dirty = r.dirty /\ q.first = r.first
    BY <1>0 DEF Read
  <2> HIDE DEF q, r
  <2>5. ReadInv(Server, q)
    BY <1>0, <2>1, <2>4 DEF ReadInv, Server
  <2> QED BY <1>1, <2>1, <2>3, <2>4, <2>5
<1>3. ASSUME NEW t \in Tables, ReadTable(c, x, t) PROVE Inv'
  <2> DEFINE last == Tables \subseteq r.seen \cup {t}
             q == [r EXCEPT !.got[t] = rows[t], !.seen = r.seen \cup {t},
                            !.st = IF last THEN "done" ELSE "rows"]
  <2>1. /\ r.st = "rows" /\ store' = [store EXCEPT ![c] = [s EXCEPT !.reads[x] = q]]
        /\ UNCHANGED <<serverVars, abandoned, session>>
    BY <1>0, <1>3 DEF ReadTable, serverVars, Typed, Store
  <2>2. rows[t] \in SUBSET Ops /\ {t} \subseteq Tables
    BY TypeParts DEF ServerTypes
  <2> HIDE DEF s
  <2>3. q \in Read
    BY <1>0, <2>2 DEF Read
  <2>4. /\ q.st = (IF last THEN "done" ELSE "rows") /\ q.rev = r.rev
        /\ q.seen = r.seen \cup {t} /\ q.got = [r.got EXCEPT ![t] = rows[t]]
        /\ q.dirty = r.dirty /\ q.first = r.first
    BY <1>0 DEF Read
  <2>5. r.got \in [Tables -> SUBSET Ops] /\ r.seen \subseteq Tables
    BY <1>0 DEF Read
  <2> HIDE DEF q, r
  <2>6. ReadInv(Server, q)
    <3>1. \A u \in q.seen : r.rev >= rowsRev => q.got[u] = rows[u]
      BY <1>0, <2>1, <2>4, <2>5 DEF ReadInv, Server
    <3>2. last => q.seen = Tables
      BY <2>4, <2>5
    <3> QED BY <1>0, <2>1, <2>4, <3>1, <3>2 DEF ReadInv, Server
  <2> QED BY <1>1, <2>1, <2>3, <2>4, <2>6
<1> QED BY <1>2, <1>3

-----------------------------------------------------------------------------
(* The invariant and what it is for.                                       *)

LEMMA InitInv == Settled /\ Init => Inv
<1> SUFFICES ASSUME Settled, Init PROVE Inv
  OBVIOUS
<1>1. revision = 1 /\ rowsRev = 1 /\ abandoned = {}
  BY DEF Init, Settled
<1>2. Whole(rows)
  BY DEF Init, Seed, Whole
<1>3. ASSUME NEW c \in Clients PROVE session[c] /\ StoreInv(Server, store[c])
  <2> DEFINE s == store[c]
  <2>1. /\ s.data = Seed /\ s.revision = 0 /\ s.pendingSave = {} /\ s.lock = "free"
        /\ s.call = NoCall /\ s.asked = {} /\ ~s.sinGuardar /\ ~s.convergenciaPendiente
        /\ ~s.hydrated /\ s.in /\ session[c]
        /\ \A x \in Slots : s.reads[x] = NoRead
    BY DEF Init
  <2> HIDE DEF s
  <2>2. Fresh(Server, 0, Seed.rows)
    BY <1>1 DEF Fresh, Server
  <2>3. CallInv(Server, s)
    BY <2>1, NoCallFields DEF CallInv
  <2>4. StoreInv(Server, s)
    BY <2>1, <2>2, <2>3, NoCallFields, NoReadInv
       DEF StoreInv, EditsShielded, NothingBeforeHydrate
  <2> QED BY <2>1, <2>4 DEF s
<1> QED BY <1>1, <1>2, <1>3 DEF Inv

\* The handlers of a client leave the server alone.
LEMMA LocalSteps ==
  ASSUME TypeOK, Inv, NEW c \in Clients
  PROVE  /\ SaveOk(c) \/ SaveConflict(c) \/ SaveRejected(c) => UNCHANGED serverVars
         /\ RequestOk(c) \/ CyclesOk(c) \/ RequestConflict(c) => UNCHANGED serverVars
         /\ RequestBlocked(c) \/ RequestRejected(c) \/ WriteUnauthorized(c) => UNCHANGED serverVars
         /\ ConvergeStep(c) \/ HydrateStep(c) \/ StreamStep(c) => UNCHANGED serverVars
         /\ \A x \in LiveSlots : LiveStep(c, x) \/ LiveLost(c, x) => UNCHANGED serverVars
         /\ Hydrate(c) \/ Login(c) \/ Logout(c) \/ Revoke(c) => UNCHANGED serverVars
         /\ \A o \in Ops : Edit(c, o) => UNCHANGED serverVars
         /\ \A kind \in Requests, o \in Ops : Request(c, kind, o) => UNCHANGED serverVars
         /\ WriteLost(c) \/ ReloadLost(c) \/ HydrateLost(c) \/ StreamDrops(c) => UNCHANGED serverVars
<1>1. ~ServeSeed(c)
  BY ReadFacts, SlotsHave DEF ServeSeed, ReadInv
<1>2. /\ SaveOk(c) \/ SaveConflict(c) \/ SaveRejected(c) => UNCHANGED serverVars
      /\ RequestOk(c) \/ CyclesOk(c) \/ RequestConflict(c) => UNCHANGED serverVars
      /\ RequestBlocked(c) \/ RequestRejected(c) \/ WriteUnauthorized(c) => UNCHANGED serverVars
  BY DEF SaveOk, SaveConflict, SaveRejected, RequestOk, CyclesOk, RequestConflict,
         RequestBlocked, RequestRejected, WriteUnauthorized, StoreOnly
<1>3. \A x, t : ReadHead(c, x) \/ ReadTable(c, x, t) => UNCHANGED serverVars
  BY DEF ReadHead, ReadTable
<1>4. ReloadOk(c) \/ ReloadOrphan(c) \/ ReloadEmpty(c) \/ ReloadUnauthorized(c)
        => UNCHANGED serverVars
  BY DEF ReloadOk, ReloadOrphan, ReloadEmpty, ReloadUnauthorized, Expire, StoreOnly
<1>5. HydrateOk(c) \/ HydrateEmpty(c) \/ HydrateSeeded(c) \/ HydrateUnauthorized(c)
        => UNCHANGED serverVars
  BY DEF HydrateOk, HydrateEmpty, HydrateSeeded, HydrateUnauthorized, Expire, StoreOnly
<1>6. StreamStep(c) => UNCHANGED serverVars
  BY DEF StreamStep, Deliver, StreamOpens, StreamReopens
<1>7. \A x \in LiveSlots :
        LiveOk(c, x) \/ LiveEmpty(c, x) \/ LiveUnauthorized(c, x) \/ LiveLost(c, x)
          => UNCHANGED serverVars
  BY DEF LiveOk, LiveEmpty, LiveUnauthorized, LiveLost, Expire, StoreOnly
<1>8. /\ Hydrate(c) \/ Login(c) \/ Logout(c) \/ Revoke(c) => UNCHANGED serverVars
      /\ \A o \in Ops : Edit(c, o) => UNCHANGED serverVars
      /\ \A kind \in Requests, o \in Ops : Request(c, kind, o) => UNCHANGED serverVars
      /\ WriteLost(c) \/ ReloadLost(c) \/ HydrateLost(c) \/ StreamDrops(c) => UNCHANGED serverVars
  BY DEF Hydrate, Login, Logout, Revoke, Edit, Request, WriteLost, ReloadLost, HydrateLost, StreamDrops
<1>9. ConvergeStep(c) => UNCHANGED serverVars
  BY <1>3, <1>4 DEF ConvergeStep
<1>10. HydrateStep(c) => UNCHANGED serverVars
  BY <1>1, <1>3, <1>5 DEF HydrateStep
<1>11. \A x \in LiveSlots : LiveStep(c, x) => UNCHANGED serverVars
  BY <1>3, <1>7 DEF LiveStep
<1> QED BY <1>2, <1>6, <1>7, <1>8, <1>9, <1>10, <1>11

LEMMA NextInv == Settled /\ TypeOK /\ Inv /\ [Next]_vars => Inv' /\ (Adds \/ UNCHANGED serverVars)
<1> SUFFICES ASSUME Settled, TypeOK, Inv, [Next]_vars
             PROVE  Inv' /\ (Adds \/ UNCHANGED serverVars)
  OBVIOUS
<1>1. ASSUME NEW c \in Clients, WriteStep(c) PROVE Inv' /\ (Adds \/ UNCHANGED serverVars)
  <2>1. ServeWrite(c) => Inv' /\ (Adds \/ UNCHANGED serverVars)
    BY AcceptStep, RefuseStep
  <2> QED BY <1>1, <2>1, AnswerInv, LocalSteps DEF WriteStep
<1>2. ASSUME NEW c \in Clients, ConvergeStep(c) PROVE Inv' /\ UNCHANGED serverVars
  BY <1>2, SlotsHave, GetStep, ReloadInv, LocalSteps DEF ConvergeStep
<1>3. ASSUME NEW c \in Clients, HydrateStep(c) PROVE Inv' /\ UNCHANGED serverVars
  BY <1>3, SlotsHave, GetStep, HydrateInv, LocalSteps DEF HydrateStep
<1>4. ASSUME NEW c \in Clients, StreamStep(c) PROVE Inv' /\ UNCHANGED serverVars
  BY <1>4, StreamInv, LocalSteps
<1>5. ASSUME NEW c \in Clients, NEW x \in LiveSlots, LiveStep(c, x)
      PROVE  Inv' /\ UNCHANGED serverVars
  BY <1>5, SlotsHave, GetStep, LiveInv, LocalSteps DEF LiveStep
<1>6. ASSUME NEW c \in Clients, Outside(c) PROVE Inv' /\ UNCHANGED serverVars
  <2>1. Hydrate(c) \/ Login(c) \/ Logout(c) \/ Revoke(c) => Inv' /\ UNCHANGED serverVars
    BY HydrateInv, StreamInv, LocalSteps
  <2>2. \A o \in Ops : Edit(c, o) => Inv' /\ UNCHANGED serverVars
    BY EditStep, LocalSteps
  <2>3. \A kind \in Requests, o \in Ops : Request(c, kind, o) => Inv' /\ UNCHANGED serverVars
    BY RequestStep, LocalSteps
  <2>4. ServeBlocked(c) => Inv' /\ UNCHANGED serverVars
    BY RefuseStep
  <2>5. WriteLost(c) \/ ReloadLost(c) \/ HydrateLost(c) \/ StreamDrops(c)
          => Inv' /\ UNCHANGED serverVars
    BY WriteLostInv, ReloadInv, HydrateInv, StreamInv, LocalSteps
  <2>6. \A x \in LiveSlots : LiveLost(c, x) => Inv' /\ UNCHANGED serverVars
    BY LiveInv, LocalSteps
  <2> QED BY <1>6, <2>1, <2>2, <2>3, <2>4, <2>5, <2>6 DEF Outside
<1>7. CASE UNCHANGED vars
  BY <1>7 DEF vars, Inv, Server, Whole, serverVars
<1> QED BY <1>1, <1>2, <1>3, <1>4, <1>5, <1>6, <1>7, AloneStep DEF Next

LEMMA Invariant == ASSUME Settled PROVE Spec => [](TypeOK /\ Inv)
<1>1. Init => Inv
  BY InitInv
<1>2. TypeOK /\ Inv /\ [Next]_vars => Inv'
  BY NextInv
<1> QED BY <1>1, <1>2, TypeCorrect, PTL DEF Spec

\* The stored tables never disagree on which edits happened: GET reads them in
\* separate statements (loadLedger), yet no torn load is ever written back.
THEOREM TablesWhole == ASSUME Settled PROVE Spec => []ServerWhole
<1>1. Inv => ServerWhole
  BY DEF Inv, Whole, ServerWhole
<1> QED BY <1>1, Invariant, PTL

\* The optimistic lock of saveLedger with the rule of store.ts that a revision is
\* adopted only with its data: every write adds to what everybody else recorded.
THEOREM NothingLost == ASSUME Settled PROVE Spec => NoLostUpdate
<1> DEFINE facts == {p \in Tables \X Ops : p[2] \in rows[p[1]]}
<1>1. Init => VL!Init
  BY DEF Init, VL!Init, Settled, Seed
<1>2. TypeOK /\ Inv /\ [Next]_vars => [VL!Next]_(VL!vars)
  <2> SUFFICES ASSUME TypeOK, Inv, [Next]_vars PROVE [VL!Next]_(VL!vars)
    OBVIOUS
  <2>1. Adds \/ UNCHANGED serverVars
    BY NextInv
  <2>2. CASE Adds
    <3>1. facts \subseteq facts'
      BY <2>2 DEF Adds
    <3>2. facts' = facts \cup facts' /\ facts' \in SUBSET (Tables \X Ops)
      BY <3>1
    <3> QED BY <2>2, <3>2 DEF Adds, VL!Next, VL!Write
  <2>3. CASE UNCHANGED serverVars
    BY <2>3 DEF serverVars, VL!vars
  <2> QED BY <2>1, <2>2, <2>3
<1> QED BY <1>1, <1>2, Invariant, PTL DEF Spec, NoLostUpdate, VL!Spec

-----------------------------------------------------------------------------
(* What the queue goes on with.                                            *)

\* n shows, knows and owes what s does.
Same(s, n) ==
  /\ n.data = s.data /\ n.revision = s.revision /\ n.sinGuardar = s.sinGuardar
  /\ n.convergenciaPendiente = s.convergenciaPendiente /\ n.storageError = s.storageError
  /\ n.revisionEnConflicto = s.revisionEnConflicto /\ n.hydrated = s.hydrated

\* The reload in slot x leaves now; a live one, with nothing local in its way.
Leaves(s, n, x) ==
  /\ n.reads[x].st = "asked" /\ ~n.reads[x].orphan
  /\ x \in LiveSlots => ~s.sinGuardar /\ ~s.convergenciaPendiente /\ s.pendingSave = {}

\* From s, with nothing in flight, the queue rests or goes on with one request.
Onward(s, n) ==
  /\ Same(s, n) /\ n.pendingSave = {} /\ n.asked \subseteq s.asked
  /\ \A x \in Slots : n.reads[x] = s.reads[x] \/ Leaves(s, n, x)
  /\ \/ n.lock = "free" /\ n.call.kind = "none" /\ s.pendingSave = {}
     \/ /\ n.lock # "free" /\ n.call.st = "sent" /\ n.call.base = s.revision
        /\ \/ n.call.kind = "put" /\ n.call.data.rows = s.data.rows
           \/ /\ n.call.kind = "reload" /\ n.call.why = "conflict"
              /\ s.pendingSave = {} /\ s.convergenciaPendiente
              /\ n.reads["converge"].st = "asked"
           \/ /\ n.call.kind \in {q.kind : q \in s.asked}
              /\ n.call.kind \in {"closure", "start", "cycles"} /\ s.pendingSave = {}

\* The snapshot that waits is what is on screen.
SnapshotsCurrent(s) == \A d \in s.pendingSave : d.rows = s.data.rows

LEMMA DrainOnward ==
  ASSUME NEW s, Typed(s), s.pendingSave # {}, SnapshotsCurrent(s)
  PROVE  Onward(s, Drain(s)) /\ Drain(s).lock # "free"
<1> DEFINE put == [NoCall EXCEPT !.kind = "put", !.st = "sent", !.base = s.revision,
                                 !.data = The(s.pendingSave)]
           n == [s EXCEPT !.lock = "drain", !.pendingSave = {}, !.call = put]
<1>1. put.kind = "put" /\ put.st = "sent" /\ put.base = s.revision /\ put.data.rows = s.data.rows
  BY TheIn DEF NoCall, SnapshotsCurrent
<1> HIDE DEF put
<1>2. /\ Same(s, n) /\ n.pendingSave = {} /\ n.asked = s.asked /\ n.reads = s.reads
      /\ n.lock = "drain" /\ n.call = put
  BY DEF Typed, Store, Same
<1> HIDE DEF n
<1>3. Onward(s, n) /\ n.lock # "free"
  BY <1>1, <1>2 DEF Onward
<1> QED BY <1>3 DEF Drain, n, put

LEMMA PersistOnward ==
  ASSUME NEW s, Typed(s), s.lock = "free"
  PROVE  Onward(s, Persist(s, s.data)) /\ Persist(s, s.data).lock # "free"
<1> DEFINE q == [s EXCEPT !.pendingSave = {s.data}]
<1>1. /\ Same(s, q) /\ q.pendingSave = {s.data} /\ q.asked = s.asked /\ q.reads = s.reads
      /\ Typed(q)
  BY DEF Typed, Store, Same
<1>2. Persist(s, s.data) = Drain(q)
  BY DEF Persist
<1> HIDE DEF q
<1>3. SnapshotsCurrent(q) /\ q.pendingSave # {}
  BY <1>1 DEF SnapshotsCurrent, Same
<1> DEFINE n == Drain(q)
<1>4. Onward(q, n) /\ n.lock # "free"
  BY <1>1, <1>3, DrainOnward
<1> HIDE DEF n
<1>5. n.call.kind = "put" /\ n.call.data.rows = s.data.rows /\ n.call.base = s.revision /\ n.call.st = "sent"
  BY <1>1, <1>3, <1>4 DEF Onward, Same
<1>6. \A x \in Slots : n.reads[x] = s.reads[x] \/ Leaves(s, n, x)
  <2>1. \A x \in Slots : ~Leaves(q, n, x) \/ x \notin LiveSlots
    BY <1>1 DEF Leaves
  <2> QED BY <1>1, <1>4, <2>1 DEF Onward, Leaves
<1>7. Onward(s, n)
  BY <1>1, <1>4, <1>5, <1>6 DEF Onward, Same
<1> QED BY <1>2, <1>4, <1>7 DEF n

\* A reload that leaves with the queue held.
LEMMA StartReloadFields ==
  ASSUME NEW s, Typed(s), NEW why \in {"conflict", "rejected", "cycles", "blocked"}
  PROVE  LET n == StartReload(s, why) IN
         /\ Same(s, n) /\ n.pendingSave = s.pendingSave /\ n.asked = s.asked /\ n.lock = s.lock
         /\ \A x \in Slots :
                \/ n.reads[x] = s.reads[x]
                \/ x = "converge" /\ n.reads[x].st = "asked" /\ ~n.reads[x].orphan
         /\ n.reads["converge"].st = "asked"
         /\ n.call.kind = "reload" /\ n.call.st = "sent" /\ n.call.why = why
         /\ n.call.base = s.revision
<1> DEFINE k == [NoCall EXCEPT !.kind = "reload", !.st = "sent", !.why = why,
                               !.base = s.revision, !.data = s.data]
           m == [s EXCEPT !.call = k]
           r == [NoRead EXCEPT !.st = "asked", !.dirty = FALSE, !.orphan = FALSE,
                               !.first = ~m.hydrated]
           n == [m EXCEPT !.reads["converge"] = r]
<1>1. k.kind = "reload" /\ k.st = "sent" /\ k.why = why /\ k.base = s.revision
  BY DEF NoCall
<1>2. r.st = "asked" /\ ~r.orphan
  BY DEF NoRead
<1> HIDE DEF k, r
<1>3. /\ Same(s, n) /\ n.pendingSave = s.pendingSave /\ n.asked = s.asked /\ n.lock = s.lock
      /\ n.call = k /\ n.reads = [s.reads EXCEPT !["converge"] = r]
  BY DEF Typed, Store, Same
<1>4. s.reads \in [Slots -> Read] /\ "converge" \in Slots
  BY SlotsHave DEF Typed, Store
<1>5. StartReload(s, why) = n
  BY DEF StartReload, StartRead, n, m, k, r
<1> HIDE DEF n
<1> QED BY <1>1, <1>2, <1>3, <1>4, <1>5

LEMMA ReconcileOnward ==
  ASSUME NEW s, Typed(s), s.convergenciaPendiente, s.pendingSave = {}
  PROVE  LET n == StartConverge([s EXCEPT !.lock = "exclusive"])
         IN  Onward(s, n) /\ n.lock # "free"
<1> DEFINE m == [s EXCEPT !.lock = "exclusive"]
           q == [m EXCEPT !.revisionEnConflicto =
                   IF m.convergenciaPendiente THEN @ ELSE m.revision]
           n == StartReload(q, "conflict")
<1>1. /\ Typed(q) /\ Same(s, q) /\ q.pendingSave = {} /\ q.asked = s.asked
      /\ q.reads = s.reads /\ q.lock = "exclusive"
  BY DEF Typed, Store, Same
<1>2. StartConverge(m) = n
  BY DEF StartConverge
<1> HIDE DEF q, m
<1>3. /\ Same(q, n) /\ n.pendingSave = q.pendingSave /\ n.asked = q.asked /\ n.lock = q.lock
      /\ \A x \in Slots :
             \/ n.reads[x] = q.reads[x]
             \/ x = "converge" /\ n.reads[x].st = "asked" /\ ~n.reads[x].orphan
      /\ n.reads["converge"].st = "asked"
      /\ n.call.kind = "reload" /\ n.call.st = "sent" /\ n.call.why = "conflict"
      /\ n.call.base = q.revision
  BY <1>1, StartReloadFields
<1> HIDE DEF n
<1>4. \A x \in Slots : n.reads[x] = s.reads[x] \/ Leaves(s, n, x)
  BY <1>1, <1>3, ConstantsAssumption DEF Leaves, ConstantsAssumption
<1>5. Onward(s, n) /\ n.lock # "free"
  BY <1>1, <1>3, <1>4 DEF Onward, Same
<1> QED BY <1>2, <1>5 DEF m

LEMMA LiveLeaves ==
  ASSUME NEW s, Typed(s), s.lock = "free", s.call.kind = "none",
         s.pendingSave = {}, ~s.sinGuardar, ~s.convergenciaPendiente
  PROVE  LET n == StartRead(s, LiveSlot(s))
         IN  Onward(s, n) /\ n.lock = "free" /\ n.asked = s.asked
<1> DEFINE x == LiveSlot(s)
           r == [NoRead EXCEPT !.st = "asked", !.dirty = FALSE, !.orphan = FALSE,
                               !.first = ~s.hydrated]
           n == [s EXCEPT !.reads[x] = r]
<1>1. x \in LiveSlots /\ x \in Slots
  BY LiveSlotType, SlotsHave
<1>2. r.st = "asked" /\ ~r.orphan
  BY DEF NoRead
<1> HIDE DEF x, r
<1>3. /\ Same(s, n) /\ n.pendingSave = {} /\ n.asked = s.asked /\ n.lock = "free"
      /\ n.call = s.call /\ n.reads = [s.reads EXCEPT ![x] = r]
  BY DEF Typed, Store, Same
<1>4. s.reads \in [Slots -> Read]
  BY DEF Typed, Store
<1>5. StartRead(s, x) = n
  BY DEF StartRead, r
<1> HIDE DEF n
<1>6. \A y \in Slots : n.reads[y] = s.reads[y] \/ Leaves(s, n, y)
  BY <1>1, <1>2, <1>3, <1>4 DEF Leaves
<1>7. Onward(s, n)
  BY <1>3, <1>6 DEF Onward
<1> QED BY <1>3, <1>5, <1>7 DEF x

\* resync with nothing in its way.
LEMMA ResyncOnward ==
  ASSUME NEW s, Typed(s), s.lock = "free", s.call.kind = "none",
         s.pendingSave = {}, NEW owed \in BOOLEAN
  PROVE  LET n == Resync(s, owed)
         IN  Onward(s, n) /\ (n.lock = "free" => n.asked = s.asked)
<1>1. CASE s.convergenciaPendiente
  BY <1>1, ReconcileOnward DEF Resync
<1>2. CASE ~s.convergenciaPendiente /\ s.sinGuardar
  BY <1>2, PersistOnward DEF Resync
<1>3. CASE ~s.convergenciaPendiente /\ ~s.sinGuardar
  BY <1>3, LiveLeaves DEF Resync
<1> QED BY <1>1, <1>2, <1>3

\* resync with something in its way: the catch-up is noted, if it is owed.
LEMMA ResyncNoted ==
  ASSUME NEW s, Typed(s), s.lock # "free" \/ s.pendingSave # {}, NEW owed \in BOOLEAN
  PROVE  LET n == Resync(s, owed)
         IN  /\ Same(s, n) /\ n.pendingSave = s.pendingSave /\ n.asked = s.asked
             /\ n.reads = s.reads /\ n.lock = s.lock /\ n.call = s.call
BY DEF Resync, Typed, Store, Same

LEMMA StartRequestFields ==
  ASSUME NEW s, Typed(s), s.asked # {}
  PROVE  LET n == StartRequest(s) IN
         /\ Same(s, n) /\ n.pendingSave = s.pendingSave /\ n.asked = {} /\ n.reads = s.reads
         /\ n.lock # "free" /\ n.call.st = "sent" /\ n.call.base = s.revision
         /\ n.call.kind \in {q.kind : q \in s.asked}
         /\ n.call.kind \in {"closure", "start", "cycles"}
<1> DEFINE q == The(s.asked)
           k == [NoCall EXCEPT !.kind = q.kind, !.st = "sent", !.base = s.revision, !.op = q.op]
           n == [s EXCEPT !.lock = "exclusive", !.asked = {}, !.call = k]
<1>1. q \in s.asked /\ q.kind \in {"closure", "start", "cycles"}
  BY TheIn DEF Typed, Store
<1> HIDE DEF q
<1>2. k.kind = q.kind /\ k.st = "sent" /\ k.base = s.revision
  BY DEF NoCall
<1> HIDE DEF k
<1>3. /\ Same(s, n) /\ n.pendingSave = s.pendingSave /\ n.asked = {} /\ n.reads = s.reads
      /\ n.lock = "exclusive" /\ n.call = k
  BY DEF Typed, Store, Same
<1>4. StartRequest(s) = n
  BY DEF StartRequest, n, k, q
<1> HIDE DEF n
<1> QED BY <1>1, <1>2, <1>3, <1>4

\* Letting the queue go leaves nothing waiting in it.
LEMMA ReleaseOnward ==
  ASSUME NEW s, Typed(s), SnapshotsCurrent(s)
  PROVE  LET n == Release(s) IN Onward(s, n) /\ (n.lock = "free" => n.asked = {})
<1> DEFINE f == [s EXCEPT !.lock = "free", !.call = NoCall]
           h == [f EXCEPT !.puestaAlDiaPendiente = FALSE]
           g == IF f.pendingSave # {} THEN Drain(f)
                ELSE IF f.puestaAlDiaPendiente /\ ~(f.convergenciaPendiente /\ f.asked # {})
                     THEN Resync(h, TRUE) ELSE f
           Clear(m) == /\ Same(s, m) /\ m.pendingSave = s.pendingSave /\ m.asked = s.asked
                       /\ m.reads = s.reads /\ m.lock = "free"
                       /\ m.call.kind = "none" /\ Typed(m)
<1>1. Clear(f)
  BY EmptyTypes, NoCallFields DEF Typed, Store, Same
<1>2. Clear(h)
  BY EmptyTypes, NoCallFields DEF Typed, Store, Same
<1>3. Release(s) = IF g.lock = "free" /\ g.asked # {} THEN StartRequest(g) ELSE g
  BY DEF Release
<1> HIDE DEF f, h
<1>4. ASSUME NEW m, Clear(m), NEW n, Onward(m, n) PROVE Onward(s, n)
  <2>1. \A x \in Slots : n.reads[x] = s.reads[x] \/ Leaves(s, n, x)
    BY <1>4 DEF Onward, Leaves, Same
  <2> QED BY <1>4, <2>1 DEF Onward, Same
<1>5. Typed(g)
  BY <1>1, <1>2, DrainType, ResyncType
<1>6. Onward(s, g) /\ (g.lock = "free" => g.asked = s.asked)
  <2>1. f.pendingSave # {} => Onward(f, Drain(f)) /\ Drain(f).lock # "free"
    BY <1>1, DrainOnward DEF SnapshotsCurrent, Same
  <2>2. f.pendingSave = {} => LET n == Resync(h, TRUE)
                              IN  Onward(h, n) /\ (n.lock = "free" => n.asked = s.asked)
    BY <1>1, <1>2, ResyncOnward
  <2>3. f.pendingSave = {} => Onward(f, f) /\ f.asked = s.asked
    BY <1>1 DEF Onward, Same
  <2> QED BY <1>1, <1>2, <1>4, <2>1, <2>2, <2>3
<1> HIDE DEF g
<1>7. CASE ~(g.lock = "free" /\ g.asked # {})
  BY <1>3, <1>6, <1>7
<1>8. CASE g.lock = "free" /\ g.asked # {}
  <2> DEFINE n == StartRequest(g)
  <2>1. /\ Same(g, n) /\ n.pendingSave = g.pendingSave /\ n.asked = {} /\ n.reads = g.reads
        /\ n.lock # "free" /\ n.call.st = "sent" /\ n.call.base = g.revision
        /\ n.call.kind \in {q.kind : q \in g.asked}
        /\ n.call.kind \in {"closure", "start", "cycles"}
    BY <1>5, <1>8, StartRequestFields
  <2> HIDE DEF n
  <2>2. \A x \in Slots : n.reads[x] = s.reads[x] \/ Leaves(s, n, x)
    BY <1>6, <2>1 DEF Onward, Leaves
  <2>3. Onward(s, n) /\ n.lock # "free"
    BY <1>6, <1>8, <2>1, <2>2 DEF Onward, Same
  <2> QED BY <1>3, <1>8, <2>3 DEF n
<1> QED BY <1>7, <1>8

\* What is left of Kept when the request in flight is let go, but for what is
\* on screen having to be accounted for.
Bare(v, cl, s) ==
  /\ \A q \in s.asked : q.kind \in Requests
  /\ \A x \in Slots : s.reads[x].st # "idle" => ~s.reads[x].orphan
  /\ BadOps = {} =>
       /\ \A x \in Slots : Brought(s.reads[x]) =>
            \A t \in s.reads[x].seen : s.reads[x].got[t] \subseteq v.rows[t]
       /\ Reached(v, s.data.rows) \/ \A x \in LiveSlots : s.reads[x].dirty
  /\ s.revision = v.revision => s.data.closure = cl
  /\ \A x \in Slots :
       Brought(s.reads[x]) /\ s.reads[x].rev = v.revision => s.reads[x].closure = cl
  /\ "start" \notin Requests =>
       /\ s.sinGuardar \/ s.convergenciaPendiente => s.storageError # "none"
       /\ s.revisionEnConflicto <= v.revision
  /\ Requests = {} => (s.convergenciaPendiente => \A x \in LiveSlots : s.reads[x].dirty)

\* What is on screen has reached the server, or is queued or owed.
Accounted(v, s) ==
  \/ Reached(v, s.data.rows) \/ s.pendingSave # {}
  \/ s.sinGuardar \/ s.convergenciaPendiente

Ready(v, cl, s) == Bare(v, cl, s) /\ (BadOps = {} => Accounted(v, s))

LEMMA AskedReads ==
  ASSUME NEW s, NEW n, \A x \in Slots : n.reads[x] = s.reads[x] \/ Leaves(s, n, x)
  PROVE  /\ \A x \in Slots : Brought(n.reads[x]) => n.reads[x] = s.reads[x]
         /\ s.sinGuardar \/ s.convergenciaPendiente \/ s.pendingSave # {}
              => \A x \in LiveSlots : n.reads[x] = s.reads[x]
         /\ \A x \in Slots : n.reads[x] = s.reads[x] \/ ~n.reads[x].orphan
BY SlotsHave DEF Leaves, Brought

LEMMA OnwardKept ==
  ASSUME NEW v, NEW cl, NEW s, Typed(s), Ready(v, cl, s), NEW n, Onward(s, n),
         n.lock = "free" => n.asked = {}
  PROVE  Kept(v, cl, n)
<1>0. s.revision \in Nat
  BY DEF Typed, Store
<1>1. /\ \A x \in Slots : Brought(n.reads[x]) => n.reads[x] = s.reads[x]
      /\ s.sinGuardar \/ s.convergenciaPendiente \/ s.pendingSave # {}
           => \A x \in LiveSlots : n.reads[x] = s.reads[x]
      /\ \A x \in Slots : n.reads[x] = s.reads[x] \/ ~n.reads[x].orphan
  BY AskedReads DEF Onward
<1>2. ~Overtaken(n)
  BY <1>0 DEF Overtaken, Onward, Same
<1>3. n.call.kind = "none" \/ n.call.st = "sent"
  BY DEF Onward
<1>4. QueueInv(n)
  BY <1>1, <1>3 DEF QueueInv, Onward, Same, Ready, Bare
<1>5. AnchorInv(v, cl, n)
  BY <1>1, <1>3 DEF AnchorInv, Onward, Same, Ready, Bare
<1>6. ASSUME BadOps = {} PROVE ScreenInv(v, n)
  <2>1. Reached(v, n.data.rows) <=> Reached(v, s.data.rows)
    BY DEF Onward, Same
  <2>2. \A x \in Slots : Brought(n.reads[x]) =>
          \A t \in n.reads[x].seen : n.reads[x].got[t] \subseteq v.rows[t]
    BY <1>1, <1>6 DEF Ready, Bare
  <2>3. \/ Reached(v, n.data.rows)
        \/ n.sinGuardar \/ n.convergenciaPendiente \/ Carried(n)
    BY <1>6, <2>1 DEF Ready, Accounted, Onward, Same, Carried
  <2>4. n.call.kind = "put" => n.call.data.rows = n.data.rows
    BY DEF Onward, Same
  <2>5. Reached(v, n.data.rows) \/ \A x \in LiveSlots : n.reads[x].dirty
    BY <1>1, <1>6, <2>1, SlotsHave DEF Ready, Bare, Accounted
  <2> QED BY <1>2, <1>3, <2>2, <2>3, <2>4, <2>5 DEF ScreenInv
<1>7. ASSUME "start" \notin Requests PROVE NoticeInv(v, n)
  BY <1>2, <1>3, <1>7 DEF NoticeInv, Ready, Bare, Onward, Same
<1>8. ASSUME Requests = {} PROVE SteadyInv(n)
  <2>1. n.convergenciaPendiente \/ n.call.kind = "reload" => s.convergenciaPendiente
    BY DEF Onward, Same
  <2>2. s.convergenciaPendiente => \A x \in LiveSlots : n.reads[x].dirty
    BY <1>1, <1>8 DEF Ready, Bare
  <2>3. n.call.kind = "reload" => ~Brought(n.reads["converge"])
    BY DEF Onward, Brought
  <2> QED BY <2>1, <2>2, <2>3 DEF SteadyInv
<1> QED BY <1>4, <1>5, <1>6, <1>7, <1>8 DEF Kept

LEMMA ReleaseKept ==
  ASSUME NEW v, NEW cl, NEW s, Typed(s), Core(v, s), Ready(v, cl, s)
  PROVE  Kept(v, cl, Release(s))
<1>1. SnapshotsCurrent(s)
  BY DEF Core, SnapshotsCurrent
<1> QED BY <1>1, ReleaseOnward, OnwardKept

\* A reload leaves with the queue held: after a conflict it answers for what is
\* on screen, after anything else what is on screen is accounted for.
LEMMA StartReloadKept ==
  ASSUME NEW v, NEW cl, NEW s, Typed(s), Bare(v, cl, s), s.lock # "free",
         NEW why \in {"conflict", "rejected", "cycles", "blocked"},
         why = "cycles" => "cycles" \in Requests,
         why = "blocked" => "blocked" \in Faults,
         why = "rejected" => BadOps # {},
         BadOps = {} /\ why # "conflict" => Accounted(v, s),
         "start" \notin Requests /\ why = "cycles" => s.revisionEnConflicto < v.revision,
         Requests = {} => \A x \in LiveSlots : s.reads[x].dirty
  PROVE  Kept(v, cl, StartReload(s, why))
<1> DEFINE n == StartReload(s, why)
<1>0. s.revision \in Nat
  BY DEF Typed, Store
<1>1. /\ Same(s, n) /\ n.pendingSave = s.pendingSave /\ n.asked = s.asked /\ n.lock = s.lock
      /\ \A x \in Slots :
             \/ n.reads[x] = s.reads[x]
             \/ x = "converge" /\ n.reads[x].st = "asked" /\ ~n.reads[x].orphan
      /\ n.reads["converge"].st = "asked"
      /\ n.call.kind = "reload" /\ n.call.st = "sent" /\ n.call.why = why
      /\ n.call.base = s.revision
  BY StartReloadFields
<1> HIDE DEF n
<1>2. /\ \A x \in Slots : Brought(n.reads[x]) => n.reads[x] = s.reads[x]
      /\ \A x \in LiveSlots : n.reads[x] = s.reads[x]
      /\ ~Brought(n.reads["converge"])
  BY <1>1, SlotsHave, ConstantsAssumption DEF Brought, ConstantsAssumption
<1>3. ~Overtaken(n)
  BY <1>0, <1>1 DEF Overtaken, Same
<1>4. QueueInv(n)
  <2>1. \A x \in Slots : n.reads[x].st # "idle" => ~n.reads[x].orphan
    BY <1>1 DEF Bare
  <2>2. \A q \in n.asked : q.kind \in Requests
    BY <1>1 DEF Bare
  <2> QED BY <1>1, <2>1, <2>2 DEF QueueInv
<1>5. AnchorInv(v, cl, n)
  BY <1>1, <1>2 DEF AnchorInv, Bare, Same
<1>6. ASSUME BadOps = {} PROVE ScreenInv(v, n)
  <2>1. Reached(v, n.data.rows) <=> Reached(v, s.data.rows)
    BY <1>1 DEF Same
  <2>2. \A x \in Slots : Brought(n.reads[x]) =>
          \A t \in n.reads[x].seen : n.reads[x].got[t] \subseteq v.rows[t]
    BY <1>2, <1>6 DEF Bare
  <2>3. \/ Reached(v, n.data.rows) \/ n.pendingSave # {}
        \/ n.sinGuardar \/ n.convergenciaPendiente \/ Carried(n)
    BY <1>1, <1>3, <1>6, <2>1 DEF Accounted, Same, Carried
  <2>4. Reached(v, n.data.rows) \/ \A x \in LiveSlots : n.reads[x].dirty
    BY <1>2, <1>6, <2>1 DEF Bare
  <2> QED BY <1>1, <1>3, <2>2, <2>3, <2>4 DEF ScreenInv
<1>7. ASSUME "start" \notin Requests PROVE NoticeInv(v, n)
  BY <1>1, <1>2, <1>3, <1>7 DEF NoticeInv, Bare, Same
<1>8. ASSUME Requests = {} PROVE SteadyInv(n)
  BY <1>1, <1>2, <1>8 DEF SteadyInv
<1>9. Kept(v, cl, n)
  BY <1>4, <1>5, <1>6, <1>7, <1>8 DEF Kept
<1> QED BY <1>9 DEF n

LEMMA StartConvergeKept ==
  ASSUME NEW v, NEW cl, NEW s, Typed(s), Bare(v, cl, s), s.lock # "free",
         s.revision <= v.revision,
         Requests = {} => \A x \in LiveSlots : s.reads[x].dirty
  PROVE  Kept(v, cl, StartConverge(s))
<1> DEFINE m == [s EXCEPT !.revisionEnConflicto =
                   IF s.convergenciaPendiente THEN @ ELSE s.revision]
<1>1. /\ Typed(m) /\ Keeps(s, m) /\ m.storageError = s.storageError
      /\ m.convergenciaPendiente = s.convergenciaPendiente
      /\ m.revisionEnConflicto = IF s.convergenciaPendiente THEN s.revisionEnConflicto ELSE s.revision
  BY DEF Typed, Store, Keeps
<1>2. StartConverge(s) = StartReload(m, "conflict")
  BY DEF StartConverge
<1> HIDE DEF m
<1>3. Bare(v, cl, m) /\ m.lock # "free"
  BY <1>1 DEF Bare, Keeps
<1> QED BY <1>1, <1>2, <1>3, StartReloadKept DEF Keeps

\* With no save and no reload in flight, letting the queue go is safe.
LEMMA BareOf ==
  ASSUME NEW v, NEW cl, NEW s, Kept(v, cl, s)
  PROVE  Bare(v, cl, s)
BY DEF Kept, QueueInv, ScreenInv, AnchorInv, NoticeInv, SteadyInv, Bare

LEMMA PlainReady ==
  ASSUME NEW v, NEW cl, NEW s, Kept(v, cl, s), s.call.kind # "put", s.call.kind # "reload"
  PROVE  Ready(v, cl, s)
BY BareOf DEF Kept, ScreenInv, Carried, Ready, Accounted

\* n differs from s in its notice, in what it owes and in the queue.
LEMMA BareKeeps ==
  ASSUME NEW v, NEW cl, NEW s, Bare(v, cl, s), NEW n,
         n.data = s.data, n.asked = s.asked, n.reads = s.reads,
         n.revision = v.revision => n.data.closure = cl,
         n.revisionEnConflicto = s.revisionEnConflicto,
         "start" \notin Requests =>
           (n.sinGuardar \/ n.convergenciaPendiente => n.storageError # "none"),
         Requests = {} => (n.convergenciaPendiente => \A x \in LiveSlots : s.reads[x].dirty)
  PROVE  Bare(v, cl, n)
BY DEF Bare

LEMMA SavedReady ==
  ASSUME NEW v, NEW cl, NEW s, Typed(s), Kept(v, cl, s), s.call.kind = "put", s.call.st = "ok",
         NEW e \in {"none", "network", "malformed", "conflict"}
  PROVE  Ready(v, cl, [s EXCEPT !.revision = s.call.rev, !.sinGuardar = FALSE,
                                !.convergenciaPendiente = FALSE, !.storageError = e])
<1> DEFINE n == [s EXCEPT !.revision = s.call.rev, !.sinGuardar = FALSE,
                          !.convergenciaPendiente = FALSE, !.storageError = e]
<1>1. /\ n.data = s.data /\ n.revision = s.call.rev /\ n.pendingSave = s.pendingSave
      /\ n.reads = s.reads /\ n.asked = s.asked /\ ~n.sinGuardar /\ ~n.convergenciaPendiente
      /\ n.revisionEnConflicto = s.revisionEnConflicto
  BY DEF Typed, Store
<1> HIDE DEF n
<1>2. Bare(v, cl, n)
  <2>1. Bare(v, cl, s) /\ AnchorInv(v, cl, s)
    BY BareOf DEF Kept
  <2>2. n.revision = v.revision => n.data.closure = cl
    BY <1>1, <2>1 DEF AnchorInv
  <2> QED BY <1>1, <2>1, <2>2, BareKeeps
<1>3. BadOps = {} => Accounted(v, n)
  BY <1>1 DEF Kept, ScreenInv, Accounted
<1> QED BY <1>2, <1>3 DEF Ready, n

LEMMA UnsavedReady ==
  ASSUME NEW v, NEW cl, NEW s, Typed(s), StoreInv(v, s), Kept(v, cl, s), s.call.kind = "put",
         NEW e \in {"network", "conflict"}
  PROVE  Ready(v, cl, [s EXCEPT !.sinGuardar = TRUE, !.storageError = e])
<1> DEFINE n == [s EXCEPT !.sinGuardar = TRUE, !.storageError = e]
<1>1. /\ n.data = s.data /\ n.revision = s.revision /\ n.asked = s.asked /\ n.reads = s.reads
      /\ n.revisionEnConflicto = s.revisionEnConflicto /\ n.storageError = e /\ n.sinGuardar
      /\ n.convergenciaPendiente = s.convergenciaPendiente
  BY DEF Typed, Store
<1> HIDE DEF n
<1>2. Bare(v, cl, n)
  BY <1>1, BareOf, BareKeeps DEF Bare
<1> QED BY <1>1, <1>2 DEF Ready, Accounted, n

LEMMA WarnedReady ==
  ASSUME NEW v, NEW cl, NEW s, Typed(s), Ready(v, cl, s),
         NEW e \in {"network", "malformed", "conflict"}
  PROVE  Ready(v, cl, [s EXCEPT !.storageError = e])
<1> DEFINE n == [s EXCEPT !.storageError = e]
<1>1. /\ n.data = s.data /\ n.revision = s.revision /\ n.asked = s.asked /\ n.reads = s.reads
      /\ n.revisionEnConflicto = s.revisionEnConflicto /\ n.storageError = e
      /\ n.sinGuardar = s.sinGuardar /\ n.convergenciaPendiente = s.convergenciaPendiente
      /\ n.pendingSave = s.pendingSave
  BY DEF Typed, Store
<1> HIDE DEF n
<1>2. Bare(v, cl, n)
  BY <1>1, BareKeeps DEF Bare, Ready
<1> QED BY <1>1, <1>2 DEF Ready, Accounted, n

\* The reads of a store whose ledger has just been replaced.
LEMMA MarkedFields ==
  ASSUME NEW s, Typed(s), NEW n, \A x \in Slots : n.reads[x] = Marked(s.reads[x])
  PROVE  /\ \A x \in Slots : /\ Brought(n.reads[x]) <=> Brought(s.reads[x])
                             /\ n.reads[x].st = s.reads[x].st /\ n.reads[x].rev = s.reads[x].rev
                             /\ n.reads[x].closure = s.reads[x].closure
                             /\ n.reads[x].got = s.reads[x].got /\ n.reads[x].seen = s.reads[x].seen
                             /\ n.reads[x].dirty /\ n.reads[x].orphan = s.reads[x].orphan
         /\ \A x \in LiveSlots : n.reads[x].dirty
<1>1. \A r \in Read : /\ Marked(r).st = r.st /\ Marked(r).rev = r.rev /\ Marked(r).dirty
                      /\ Marked(r).closure = r.closure /\ Marked(r).got = r.got
                      /\ Marked(r).seen = r.seen /\ Marked(r).orphan = r.orphan
  BY DEF Marked, Read
<1>2. \A x \in Slots : s.reads[x] \in Read
  BY DEF Typed, Store
<1> QED BY <1>1, <1>2, SlotsHave DEF Brought

LEMMA MarkedBare ==
  ASSUME NEW v, NEW cl, NEW s, Typed(s), Bare(v, cl, s), NEW n,
         n.asked = s.asked, n.revisionEnConflicto = s.revisionEnConflicto,
         n.revision = v.revision => n.data.closure = cl,
         "start" \notin Requests =>
           (n.sinGuardar \/ n.convergenciaPendiente => n.storageError # "none"),
         \A x \in Slots : n.reads[x] = Marked(s.reads[x])
  PROVE  Bare(v, cl, n)
BY MarkedFields DEF Bare

\* set({ data }), seen from the notices.
LEMMA SetDataNotices ==
  ASSUME NEW s, Typed(s), NEW d
  PROVE  LET n == SetData(s, d) IN
         /\ n.convergenciaPendiente = s.convergenciaPendiente /\ n.storageError = s.storageError
         /\ n.revisionEnConflicto = s.revisionEnConflicto
BY DEF SetData, Typed, Store

LEMMA DeclaredReady ==
  ASSUME NEW v, NEW cl, NEW s, Typed(s), Kept(v, cl, s),
         s.call.kind \in {"closure", "start"}, s.call.st = "ok", NEW d \in Data,
         d.rows = s.data.rows, d.closure = s.data.closure \cup s.call.op
  PROVE  LET p == SetData([s EXCEPT !.revision = s.call.rev], d)
         IN  /\ s.call.kind = "closure" => Ready(v, cl, p)
             /\ s.call.kind = "start" => Ready(v, cl, [p EXCEPT !.storageError = "none"])
<1> DEFINE q == [s EXCEPT !.revision = s.call.rev]
           p == SetData(q, d)
           w == [p EXCEPT !.storageError = "none"]
<1>0. s.call.rev \in Nat
  BY DEF Typed, Store, Call
<1>1. /\ q.revision = s.call.rev /\ q.pendingSave = s.pendingSave /\ q.reads = s.reads
      /\ q.asked = s.asked /\ q.sinGuardar = s.sinGuardar /\ q.storageError = s.storageError
      /\ q.convergenciaPendiente = s.convergenciaPendiente
      /\ q.revisionEnConflicto = s.revisionEnConflicto /\ Typed(q)
  BY <1>0 DEF Typed, Store
<1> HIDE DEF q
<1>2. /\ p.data = d /\ p.revision = q.revision /\ p.pendingSave = q.pendingSave
      /\ p.asked = q.asked /\ p.sinGuardar = q.sinGuardar
      /\ p.convergenciaPendiente = q.convergenciaPendiente
      /\ \A x \in Slots : p.reads[x] = Marked(q.reads[x])
      /\ p.storageError = q.storageError /\ p.revisionEnConflicto = q.revisionEnConflicto
  BY <1>1, SetDataFields, SetDataNotices
<1>3. Typed(p)
  BY <1>1, SetDataType
<1> HIDE DEF p
<1>4. /\ w.data = p.data /\ w.revision = p.revision /\ w.pendingSave = p.pendingSave
      /\ w.asked = p.asked /\ w.sinGuardar = p.sinGuardar /\ w.reads = p.reads
      /\ w.convergenciaPendiente = p.convergenciaPendiente
      /\ w.revisionEnConflicto = p.revisionEnConflicto
  BY <1>3 DEF Typed, Store
<1> HIDE DEF w
<1>5. Bare(v, cl, s) /\ Ready(v, cl, s) /\ s.call.kind \in Requests
  BY BareOf, PlainReady DEF Kept, QueueInv
<1>6. s.call.rev = v.revision => d.closure = cl
  BY DEF Kept, AnchorInv
<1>7. BadOps = {} => Accounted(v, p) /\ Accounted(v, w)
  BY <1>1, <1>2, <1>4, <1>5 DEF Ready, Accounted, Reached
<1>a. /\ \A x \in Slots : p.reads[x] = Marked(s.reads[x]) /\ w.reads[x] = Marked(s.reads[x])
      /\ p.revision = v.revision => p.data.closure = cl
      /\ w.revision = v.revision => w.data.closure = cl
  BY <1>1, <1>2, <1>4, <1>6
<1>8. ASSUME s.call.kind = "closure" PROVE Bare(v, cl, p)
  <2>1. "start" \notin Requests =>
          (p.sinGuardar \/ p.convergenciaPendiente => p.storageError # "none")
    BY <1>1, <1>2, <1>5 DEF Bare
  <2>2. p.asked = s.asked /\ p.revisionEnConflicto = s.revisionEnConflicto
    BY <1>1, <1>2
  <2> QED BY <1>5, <1>a, <2>1, <2>2, MarkedBare
<1>9. ASSUME s.call.kind = "start" PROVE Bare(v, cl, w)
  <2>1. "start" \in Requests
    BY <1>5, <1>9
  <2>2. w.asked = s.asked /\ w.revisionEnConflicto = s.revisionEnConflicto
    BY <1>1, <1>2, <1>4
  <2> QED BY <1>5, <1>a, <2>1, <2>2, MarkedBare
<1> QED BY <1>7, <1>8, <1>9 DEF Ready, p, q, w

-----------------------------------------------------------------------------
(* What the answers to the writes keep.                                    *)

\* A step that changes the store of one client, and of the server nothing.
LEMMA KeptStep ==
  ASSUME TypeOK, KeptInv, NEW c \in Clients, NEW n, Kept(Server, closure, n),
         store' = [store EXCEPT ![c] = n], UNCHANGED serverVars
  PROVE  KeptInv'
<1>1. Server' = Server /\ closure' = closure
  BY DEF Server, serverVars
<1>2. \A d \in Clients : Kept(Server, closure, store'[d])
  BY DEF KeptInv, TypeOK
<1> QED BY <1>1, <1>2 DEF KeptInv

LEMMA AnswerKept ==
  ASSUME TypeOK, Inv, KeptInv, NEW c \in Clients
  PROVE  /\ SaveOk(c) \/ SaveConflict(c) \/ SaveRejected(c) => KeptInv'
         /\ RequestOk(c) \/ CyclesOk(c) \/ RequestConflict(c) => KeptInv'
         /\ RequestBlocked(c) \/ RequestRejected(c) \/ WriteUnauthorized(c) => KeptInv'
<1> DEFINE s == store[c]
           k == s.call
           v == Server
           cl == closure
<1>0. /\ Typed(s) /\ StoreInv(v, s) /\ s.data \in Data /\ k \in Call /\ Kept(v, cl, s)
      /\ k.kind # "none" => Core(v, s) /\ s.lock # "free"
  BY ClientFacts, HydratedCore DEF StoreInv, KeptInv
<1>00. Bare(v, cl, s) /\ QueueInv(s) /\ s.revision <= v.revision
  BY <1>0, BareOf DEF Kept, StoreInv, Fresh
<1>1. ASSUME SaveOk(c) PROVE KeptInv'
  <2> DEFINE e == IF s.storageError \in {"network", "conflict"} THEN "none" ELSE s.storageError
             n == [s EXCEPT !.revision = s.call.rev, !.sinGuardar = FALSE,
                            !.convergenciaPendiente = FALSE, !.storageError = e]
  <2>1. e \in {"none", "network", "malformed", "conflict"}
    BY <1>0 DEF Typed, Store
  <2>2. s.call.kind = "put" /\ s.call.st = "ok"
    BY <1>1 DEF SaveOk, Answered
  <2>3. store' = [store EXCEPT ![c] = Release(n)] /\ UNCHANGED serverVars
    BY <1>1 DEF SaveOk, StoreOnly
  <2> HIDE DEF e, s, v, cl
  <2>4. Typed(n) /\ Core(v, n) /\ Ready(v, cl, n)
    BY <1>0, <2>1, <2>2, SavedCore, SavedReady
  <2> HIDE DEF n
  <2>5. Kept(v, cl, Release(n))
    BY <2>4, ReleaseKept
  <2> QED BY <2>3, <2>5, KeptStep DEF v, cl
<1>2. ASSUME SaveConflict(c) \/ SaveRejected(c) PROVE KeptInv'
  <2> DEFINE n == [s EXCEPT !.pendingSave = {}]
  <2>1. /\ k.kind = "put" /\ UNCHANGED serverVars
        /\ \/ store' = [store EXCEPT ![c] = StartConverge(n)]
           \/ k.st = "rejected" /\ store' = [store EXCEPT ![c] = StartReload(n, "rejected")]
    BY <1>2 DEF SaveConflict, SaveRejected, Answered, StoreOnly
  <2>2. \A x \in LiveSlots : s.reads[x].dirty
    BY <1>0, <2>1 DEF StoreInv, EditsShielded
  <2>3. /\ n.data = s.data /\ n.revision = s.revision /\ n.asked = s.asked /\ n.reads = s.reads
        /\ n.revisionEnConflicto = s.revisionEnConflicto /\ n.storageError = s.storageError
        /\ n.sinGuardar = s.sinGuardar /\ n.convergenciaPendiente = s.convergenciaPendiente
        /\ n.lock = s.lock /\ Typed(n)
    BY <1>0 DEF Typed, Store
  <2> HIDE DEF n, s, v, cl
  <2>4. Bare(v, cl, n) /\ n.lock # "free" /\ n.revision <= v.revision
    BY <1>0, <1>00, <2>1, <2>3, BareKeeps DEF Bare
  <2>5. Kept(v, cl, StartConverge(n))
    BY <2>2, <2>3, <2>4, StartConvergeKept
  <2>6. k.st = "rejected" => Kept(v, cl, StartReload(n, "rejected"))
    <3>1. k.st = "rejected" => BadOps # {}
      BY <1>00, <2>1 DEF QueueInv
    <3> QED BY <2>2, <2>3, <2>4, <3>1, StartReloadKept
  <2> QED BY <2>1, <2>5, <2>6, KeptStep DEF v, cl
<1>3. ASSUME RequestOk(c) PROVE KeptInv'
  <2> DEFINE d == [s.data EXCEPT !.closure = s.data.closure \cup s.call.op]
             p == SetData([s EXCEPT !.revision = s.call.rev], d)
             n == IF s.call.kind = "start" THEN [p EXCEPT !.storageError = "none"] ELSE p
  <2>1. k.kind \in {"closure", "start"} /\ k.st = "ok" /\ k.kind # "none"
    BY <1>3 DEF RequestOk, Answered
  <2>2. store' = [store EXCEPT ![c] = Release(n)] /\ UNCHANGED serverVars
    BY <1>3 DEF RequestOk, StoreOnly
  <2>3. d \in Data /\ d.rows = s.data.rows /\ d.closure = s.data.closure \cup s.call.op
    BY <1>0 DEF Data, Call
  <2>4. v.rowsRev \in Nat
    BY TypeParts DEF ServerTypes, Server
  <2> HIDE DEF d, s, v, cl
  <2>5. Typed(p) /\ Core(v, p)
    BY <1>0, <2>1, <2>3, <2>4, DeclaredCore
  <2>6. /\ s.call.kind = "closure" => Ready(v, cl, p)
        /\ s.call.kind = "start" => Ready(v, cl, [p EXCEPT !.storageError = "none"])
    BY <1>0, <2>1, <2>3, DeclaredReady
  <2> HIDE DEF p
  <2>7. Typed([p EXCEPT !.storageError = "none"]) /\ Keeps(p, [p EXCEPT !.storageError = "none"])
    BY <2>5 DEF Keeps, Typed, Store
  <2>8. Typed(n) /\ Core(v, n) /\ Ready(v, cl, n)
    BY <2>1, <2>5, <2>6, <2>7, KeepsCore
  <2> HIDE DEF n
  <2>9. Kept(v, cl, Release(n))
    BY <2>8, ReleaseKept
  <2> QED BY <2>2, <2>9, KeptStep DEF v, cl
<1>4. ASSUME CyclesOk(c) \/ RequestBlocked(c) PROVE KeptInv'
  <2>1. PICK why \in {"cycles", "blocked"} :
          /\ store' = [store EXCEPT ![c] = StartReload(s, why)] /\ UNCHANGED serverVars
          /\ why = "cycles" => k.kind = "cycles" /\ k.st = "ok"
          /\ why = "blocked" => k.kind = "closure" /\ k.st = "blocked"
    BY <1>4 DEF CyclesOk, RequestBlocked, Answered, StoreOnly
  <2> HIDE DEF s, v, cl
  <2>2. k.kind \in Requests /\ (why = "blocked" => "blocked" \in Faults) /\ Ready(v, cl, s)
    BY <1>0, <1>00, <2>1, PlainReady DEF QueueInv
  <2>3. "start" \notin Requests /\ why = "cycles" => s.revisionEnConflicto < v.revision
    BY <1>0, <2>1 DEF Kept, NoticeInv
  <2>4. s.lock # "free" /\ (why = "cycles" => "cycles" \in Requests) /\ Requests # {}
    BY <1>0, <2>1, <2>2
  <2>5. Kept(v, cl, StartReload(s, why))
    BY <1>0, <1>00, <2>2, <2>3, <2>4, StartReloadKept DEF Ready
  <2> QED BY <2>1, <2>5, KeptStep DEF v, cl
<1>5. ASSUME RequestConflict(c) PROVE KeptInv'
  <2>1. /\ k.kind \in {"closure", "start", "cycles"} /\ UNCHANGED serverVars
        /\ store' = [store EXCEPT ![c] = StartConverge(s)]
    BY <1>5 DEF RequestConflict, Answered, StoreOnly
  <2> HIDE DEF s, v, cl
  <2>2. Requests # {} /\ s.lock # "free"
    BY <1>0, <1>00, <2>1 DEF QueueInv
  <2>3. Kept(v, cl, StartConverge(s))
    BY <1>0, <1>00, <2>2, StartConvergeKept
  <2> QED BY <2>1, <2>3, KeptStep DEF v, cl
<1>6. ASSUME RequestRejected(c) PROVE KeptInv'
  <2>1. /\ k.kind \in {"closure", "start", "cycles"} /\ UNCHANGED serverVars
        /\ store' = [store EXCEPT ![c] = Release(s)]
    BY <1>6 DEF RequestRejected, Answered, StoreOnly
  <2> HIDE DEF s, v, cl
  <2>2. Kept(v, cl, Release(s))
    BY <1>0, <2>1, PlainReady, ReleaseKept
  <2> QED BY <2>1, <2>2, KeptStep DEF v, cl
<1>7. ASSUME WriteUnauthorized(c) PROVE KeptInv'
  BY <1>0, <1>7 DEF WriteUnauthorized, Answered, StoreInv, CallInv
<1> QED BY <1>1, <1>2, <1>3, <1>4, <1>5, <1>6, <1>7

LEMMA WriteLostKept ==
  ASSUME TypeOK, Inv, KeptInv, NEW c \in Clients, WriteLost(c)
  PROVE  KeptInv'
<1> DEFINE s == store[c]
           k == s.call
           v == Server
           cl == closure
           e == IF s.convergenciaPendiente THEN "conflict" ELSE "network"
           unsaved == [s EXCEPT !.sinGuardar = TRUE, !.storageError = e]
           warned == [s EXCEPT !.storageError = "network"]
           n == CASE k.kind = "put" -> unsaved [] k.kind = "closure" -> s [] OTHER -> warned
<1>1. /\ Typed(s) /\ StoreInv(v, s) /\ k.kind # "none" /\ Core(v, s) /\ Kept(v, cl, s)
      /\ k.kind \in {"put", "closure", "start", "cycles"}
  BY ClientFacts, HydratedCore DEF WriteLost, KeptInv
<1>2. store' = [store EXCEPT ![c] = Release(n)] /\ UNCHANGED serverVars
  BY DEF WriteLost, serverVars
<1> HIDE DEF s, v, cl
<1>3. Keeps(s, warned)
  BY <1>1 DEF Keeps, Typed, Store
<1>4. k.kind = "put" => Typed(unsaved) /\ Core(v, unsaved) /\ Ready(v, cl, unsaved)
  BY <1>1, UnsavedCore, UnsavedReady
<1>5. k.kind # "put" => Typed(warned) /\ Core(v, warned) /\ Ready(v, cl, warned) /\ Ready(v, cl, s)
  BY <1>1, <1>3, NoticeTypes, KeepsCore, PlainReady, WarnedReady
<1> HIDE DEF unsaved, warned
<1>6. Typed(n) /\ Core(v, n) /\ Ready(v, cl, n)
  BY <1>1, <1>4, <1>5
<1> HIDE DEF n
<1>7. Kept(v, cl, Release(n))
  BY <1>6, ReleaseKept
<1> QED BY <1>2, <1>7, KeptStep DEF v, cl

-----------------------------------------------------------------------------
(* Reloads.                                                                *)

\* Forgetting a reload that ended.
LEMMA EndReadFields ==
  ASSUME NEW s, Typed(s), NEW x \in Slots
  PROVE  LET n == EndRead(s, x) IN
         /\ Same(s, n) /\ n.pendingSave = s.pendingSave /\ n.lock = s.lock /\ n.call = s.call
         /\ n.asked = s.asked /\ n.reads = [s.reads EXCEPT ![x] = NoRead]
         /\ n.reads[x] = NoRead /\ \A y \in Slots \ {x} : n.reads[y] = s.reads[y]
BY DEF EndRead, Typed, Store, Same

\* Fewer reloads in flight: what is known of the others still holds.
LEMMA EndReadKept ==
  ASSUME NEW v, NEW cl, NEW s, Typed(s), Kept(v, cl, s), NEW x \in Slots
  PROVE  Kept(v, cl, EndRead(s, x))
<1> DEFINE n == EndRead(s, x)
<1>1. /\ Same(s, n) /\ n.pendingSave = s.pendingSave /\ n.lock = s.lock /\ n.call = s.call
      /\ n.asked = s.asked
      /\ n.reads[x] = NoRead /\ \A y \in Slots \ {x} : n.reads[y] = s.reads[y]
  BY EndReadFields
<1> HIDE DEF n
<1>2. NoRead.st = "idle" /\ NoRead.dirty /\ ~Brought(NoRead)
  BY DEF NoRead, Brought
<1>3. /\ \A y \in Slots : Brought(n.reads[y]) => n.reads[y] = s.reads[y]
      /\ \A y \in Slots : n.reads[y].st # "idle" => n.reads[y] = s.reads[y]
      /\ \A y \in LiveSlots : s.reads[y].dirty => n.reads[y].dirty
      /\ Brought(n.reads["converge"]) => n.reads["converge"] = s.reads["converge"]
  BY <1>1, <1>2, SlotsHave
<1>4. Overtaken(n) <=> Overtaken(s)
  BY <1>1 DEF Overtaken, Same
<1>5. QueueInv(n)
  <2>1. \A y \in Slots : n.reads[y].st # "idle" => ~n.reads[y].orphan
    BY <1>3 DEF Kept, QueueInv
  <2>2. /\ n.lock = "free" => n.pendingSave = {} /\ n.asked = {}
        /\ \A q \in n.asked : q.kind \in Requests
    BY <1>1 DEF Kept, QueueInv
  <2> QED BY <1>1, <2>1, <2>2 DEF Kept, QueueInv, Same
<1>6. AnchorInv(v, cl, n)
  <2>1. \A y \in Slots : Brought(n.reads[y]) /\ n.reads[y].rev = v.revision => n.reads[y].closure = cl
    BY <1>3 DEF Kept, AnchorInv
  <2>2. n.revision = s.revision /\ n.data = s.data /\ n.call = s.call
    BY <1>1 DEF Same
  <2>3. AnchorInv(v, cl, s)
    BY DEF Kept
  <2> QED BY <1>3, <2>1, <2>2, <2>3 DEF AnchorInv
<1>7. ASSUME BadOps = {} PROVE ScreenInv(v, n)
  <2>0. ScreenInv(v, s) /\ n.data = s.data
    BY <1>1, <1>7 DEF Kept, Same
  <2>1. \A y \in Slots : Brought(n.reads[y]) =>
          \A t \in n.reads[y].seen : n.reads[y].got[t] \subseteq v.rows[t]
    BY <1>3, <2>0 DEF ScreenInv
  <2>2. Reached(v, n.data.rows) \/ \A y \in LiveSlots : n.reads[y].dirty
    BY <1>3, <2>0 DEF ScreenInv
  <2>3. Carried(n) <=> Carried(s)
    BY <1>1, <1>4 DEF Carried
  <2> QED BY <1>1, <1>4, <2>0, <2>1, <2>2, <2>3 DEF ScreenInv, Same
<1>8. ASSUME "start" \notin Requests PROVE NoticeInv(v, n)
  BY <1>1, <1>3, <1>4, <1>8 DEF Kept, NoticeInv, Same
<1>9. ASSUME Requests = {} PROVE SteadyInv(n)
  BY <1>1, <1>3, <1>9 DEF Kept, SteadyInv, Same
<1>10. Kept(v, cl, n)
  BY <1>5, <1>6, <1>7, <1>8, <1>9 DEF Kept
<1> QED BY <1>10 DEF n

\* A load puts the debt down only when it settles it.
LEMMA AdoptNotices ==
  ASSUME NEW s, Typed(s), NEW r \in Read
  PROVE  LET n == Adopt(s, r) IN
         /\ n.revisionEnConflicto = s.revisionEnConflicto
         /\ n.convergenciaPendiente =>
              /\ s.convergenciaPendiente /\ r.rev <= s.revisionEnConflicto
              /\ n.storageError = s.storageError
<1> DEFINE q == [s EXCEPT !.revision = r.rev]
           p == SetData(q, Loaded(r))
<1>1. r.rev \in Nat /\ Loaded(r) \in Data
  BY LoadedType DEF Read
<1>2. /\ Typed(q) /\ q.convergenciaPendiente = s.convergenciaPendiente
      /\ q.storageError = s.storageError /\ q.revisionEnConflicto = s.revisionEnConflicto
  BY <1>1 DEF Typed, Store
<1>3. Adopt(s, r) = AlCargar(p, r.rev)
  BY DEF Adopt
<1> HIDE DEF q
<1>4. /\ Typed(p) /\ p.convergenciaPendiente = q.convergenciaPendiente
      /\ p.storageError = q.storageError /\ p.revisionEnConflicto = q.revisionEnConflicto
  BY <1>1, <1>2, SetDataType, SetDataNotices
<1> HIDE DEF p
<1>5. LET n == AlCargar(p, r.rev) IN
      /\ n.revisionEnConflicto = p.revisionEnConflicto
      /\ n.convergenciaPendiente =>
           /\ p.convergenciaPendiente /\ r.rev <= p.revisionEnConflicto
           /\ n.storageError = p.storageError
  BY <1>4 DEF AlCargar, Typed, Store
<1> QED BY <1>2, <1>3, <1>4, <1>5

\* What a finished reload brings.
LEMMA DoneBrings ==
  ASSUME NEW v, NEW cl, NEW s, Kept(v, cl, s), NEW x \in Slots,
         ReadInv(v, s.reads[x]), s.reads[x].st = "done"
  PROVE  LET r == s.reads[x] IN
         /\ BadOps = {} => Reached(v, Loaded(r).rows)
         /\ r.rev = v.revision => Loaded(r).closure = cl
         /\ ~r.orphan
BY DEF Kept, QueueInv, ScreenInv, AnchorInv, ReadInv, Brought, Reached, Loaded

LEMMA AdoptReady ==
  ASSUME NEW v, NEW cl, NEW s, Typed(s), Bare(v, cl, s), ~s.sinGuardar, NEW r \in Read,
         BadOps = {} => Reached(v, Loaded(r).rows),
         r.rev = v.revision => Loaded(r).closure = cl
  PROVE  Ready(v, cl, Adopt(s, r))
<1> DEFINE n == Adopt(s, r)
<1>1. /\ n.data = Loaded(r) /\ n.revision = r.rev /\ n.asked = s.asked
      /\ n.sinGuardar = s.sinGuardar
      /\ \A x \in Slots : n.reads[x] = Marked(s.reads[x])
      /\ n.revisionEnConflicto = s.revisionEnConflicto
      /\ n.convergenciaPendiente => s.convergenciaPendiente /\ n.storageError = s.storageError
  BY AdoptFields, AdoptNotices
<1> HIDE DEF n
<1>2. "start" \notin Requests =>
        (n.sinGuardar \/ n.convergenciaPendiente => n.storageError # "none")
  BY <1>1 DEF Bare
<1>3. n.revision = v.revision => n.data.closure = cl
  BY <1>1
<1>4. Bare(v, cl, n)
  BY <1>1, <1>2, <1>3, MarkedBare
<1>5. BadOps = {} => Accounted(v, n)
  BY <1>1 DEF Accounted
<1> QED BY <1>4, <1>5 DEF Ready, n

LEMMA ReloadedReady ==
  ASSUME NEW v, NEW cl, NEW s, Typed(s), StoreInv(v, s), Kept(v, cl, s),
         s.call.kind = "reload", s.reads["converge"].st = "done"
  PROVE  LET r == s.reads["converge"]
             q == [EndRead(s, "converge") EXCEPT !.pendingSave = {}, !.sinGuardar = FALSE]
             a == Adopt(q, r)
         IN  Ready(v, cl, CASE s.call.why = "conflict" -> Converged(a)
                            [] s.call.why = "cycles"   -> [a EXCEPT !.storageError = "none"]
                            [] OTHER                   -> a)
<1> DEFINE r == s.reads["converge"]
           e == EndRead(s, "converge")
           q == [e EXCEPT !.pendingSave = {}, !.sinGuardar = FALSE]
           a == Adopt(q, r)
           w == [a EXCEPT !.storageError = "none"]
           k == Converged(a)
<1>0. r \in Read /\ "converge" \in Slots /\ ReadInv(v, r) /\ Typed(e) /\ Kept(v, cl, e)
  BY SlotsHave, EndReadType, EndReadKept DEF Typed, Store, StoreInv
<1>1. /\ BadOps = {} => Reached(v, Loaded(r).rows)
      /\ r.rev = v.revision => Loaded(r).closure = cl
  BY <1>0, DoneBrings
<1>2. e.revisionEnConflicto = s.revisionEnConflicto
  BY <1>0, EndReadFields DEF Same
<1> HIDE DEF e
<1>3. /\ q.data = e.data /\ q.revision = e.revision /\ q.asked = e.asked /\ q.reads = e.reads
      /\ q.revisionEnConflicto = e.revisionEnConflicto /\ ~q.sinGuardar
      /\ q.convergenciaPendiente = e.convergenciaPendiente /\ q.storageError = e.storageError
      /\ Typed(q)
  BY <1>0 DEF Typed, Store
<1> HIDE DEF q
<1>4. Bare(v, cl, q)
  BY <1>0, <1>3, BareOf, BareKeeps DEF Bare
<1>5. Ready(v, cl, a) /\ Typed(a)
  BY <1>0, <1>1, <1>3, <1>4, AdoptReady, AdoptType
<1>6. /\ a.convergenciaPendiente => r.rev <= q.revisionEnConflicto
      /\ ~a.sinGuardar /\ a.data = Loaded(r)
      /\ \A x \in Slots : a.reads[x] = Marked(q.reads[x])
  BY <1>0, <1>3, AdoptFields, AdoptNotices
<1> HIDE DEF a
<1>7. /\ w.data = a.data /\ w.revision = a.revision /\ w.asked = a.asked /\ w.reads = a.reads
      /\ w.revisionEnConflicto = a.revisionEnConflicto /\ w.sinGuardar = a.sinGuardar
      /\ w.convergenciaPendiente = a.convergenciaPendiente /\ w.pendingSave = a.pendingSave
  BY <1>5 DEF Typed, Store
<1>8. /\ k.data = a.data /\ k.revision = a.revision /\ k.asked = a.asked /\ k.reads = a.reads
      /\ k.revisionEnConflicto = a.revisionEnConflicto /\ k.sinGuardar = a.sinGuardar
      /\ ~k.convergenciaPendiente
  BY <1>5 DEF Typed, Store, Converged
<1> HIDE DEF w, k
<1>9. ASSUME s.call.why = "cycles" PROVE Ready(v, cl, w)
  <2>1. "start" \notin Requests => ~w.convergenciaPendiente
    <3>1. "start" \notin Requests => s.revisionEnConflicto < r.rev
      BY <1>9 DEF Kept, NoticeInv, Brought
    <3>2. r.rev \in Nat /\ s.revisionEnConflicto \in Nat
      BY <1>0 DEF Typed, Store, Read
    <3> QED BY <1>2, <1>3, <1>6, <1>7, <3>1, <3>2
  <2>2. Bare(v, cl, w)
    BY <1>5, <1>6, <1>7, <2>1, BareKeeps DEF Ready, Bare
  <2> QED BY <1>1, <1>6, <1>7, <2>2 DEF Ready, Accounted
<1>10. Ready(v, cl, k)
  <2>1. Bare(v, cl, k)
    BY <1>5, <1>6, <1>8, BareKeeps DEF Ready, Bare
  <2> QED BY <1>1, <1>6, <1>8, <2>1 DEF Ready, Accounted
<1> QED BY <1>5, <1>9, <1>10 DEF e, q, a, w, k

LEMMA MissedReady ==
  ASSUME NEW v, NEW cl, NEW s, Typed(s), Kept(v, cl, s), s.call.kind = "reload",
         NEW notice \in {"network", "malformed"}
  PROVE  Ready(v, cl, ReloadMissed(s, notice))
<1> DEFINE k == Converged(s)
           f == IF notice = "malformed" THEN notice ELSE "conflict"
           w == [s EXCEPT !.convergenciaPendiente = TRUE, !.storageError = f]
<1>0. Bare(v, cl, s)
  BY BareOf
<1>1. ASSUME Overtaken(s) PROVE Ready(v, cl, k)
  <2>1. /\ k.data = s.data /\ k.revision = s.revision /\ k.asked = s.asked /\ k.reads = s.reads
        /\ k.revisionEnConflicto = s.revisionEnConflicto /\ k.sinGuardar = s.sinGuardar
        /\ ~k.convergenciaPendiente /\ k.pendingSave = s.pendingSave
    BY DEF Typed, Store, Converged
  <2> HIDE DEF k
  <2>2. Bare(v, cl, k)
    BY <1>0, <1>1, <2>1, BareKeeps DEF Bare, Kept, NoticeInv
  <2>3. BadOps = {} => Accounted(v, k)
    BY <1>1, <2>1 DEF Kept, ScreenInv, Accounted
  <2> QED BY <2>2, <2>3 DEF Ready
<1>2. Ready(v, cl, w)
  <2>1. /\ w.data = s.data /\ w.revision = s.revision /\ w.asked = s.asked /\ w.reads = s.reads
        /\ w.revisionEnConflicto = s.revisionEnConflicto /\ w.sinGuardar = s.sinGuardar
        /\ w.convergenciaPendiente /\ w.storageError = f
    BY DEF Typed, Store
  <2>2. f # "none" /\ (Requests = {} => \A x \in LiveSlots : s.reads[x].dirty)
    BY DEF Kept, SteadyInv
  <2> HIDE DEF w, f
  <2>3. Bare(v, cl, w)
    BY <1>0, <2>1, <2>2, BareKeeps DEF Bare
  <2> QED BY <2>1, <2>3 DEF Ready, Accounted
<1>3. ASSUME s.call.why # "conflict"
      PROVE  Ready(v, cl, s) /\ Ready(v, cl, [s EXCEPT !.storageError = "network"])
             /\ Ready(v, cl, [s EXCEPT !.storageError = "malformed"])
  <2>1. Ready(v, cl, s)
    BY <1>0, <1>3 DEF Kept, ScreenInv, Carried, Ready, Accounted
  <2> QED BY <2>1, WarnedReady
<1>4. s.call.why = "conflict" => (s.revision > s.call.base <=> Overtaken(s))
  BY DEF Overtaken
<1> HIDE DEF k, w
<1> QED BY <1>1, <1>2, <1>3, <1>4 DEF ReloadMissed, k, w, f

LEMMA ReloadKept ==
  ASSUME TypeOK, Inv, KeptInv, NEW c \in Clients
  PROVE  /\ ReloadOk(c) \/ ReloadLost(c) \/ ReloadOrphan(c) => KeptInv'
         /\ ReloadEmpty(c) \/ ReloadUnauthorized(c) => KeptInv'
<1> DEFINE s == store[c]
           r == s.reads["converge"]
           e == EndRead(s, "converge")
           v == Server
           cl == closure
<1>0. /\ Typed(s) /\ StoreInv(v, s) /\ r \in Read /\ ReadInv(v, r) /\ Typed(e)
      /\ StoreInv(v, e) /\ Kept(v, cl, s) /\ Whole(v.rows)
  BY ReadFacts, SlotsHave DEF KeptInv
<1>1. /\ Kept(v, cl, e) /\ e.call = s.call
      /\ s.call.kind = "reload" => Core(v, e) /\ s.hydrated
  <2>1. s.call.kind # "none" => s.hydrated
    BY <1>0 DEF StoreInv, NothingBeforeHydrate
  <2>2. e.hydrated = s.hydrated /\ e.call = s.call
    BY <1>0 DEF EndRead, Typed, Store
  <2>3. Kept(v, cl, e)
    BY <1>0, SlotsHave, EndReadKept
  <2> QED BY <1>0, <2>1, <2>2, <2>3, CoreOf
<1>2. ASSUME ReloadOk(c) PROVE KeptInv'
  <2> DEFINE q == [e EXCEPT !.pendingSave = {}, !.sinGuardar = FALSE]
             a == Adopt(q, r)
             n == CASE s.call.why = "conflict" -> Converged(a)
                    [] s.call.why = "cycles"   -> [a EXCEPT !.storageError = "none"]
                    [] OTHER                   -> a
  <2>1. s.call.kind = "reload" /\ r.st = "done"
    BY <1>2 DEF ReloadOk, Reloading
  <2>2. store' = [store EXCEPT ![c] = Release(n)] /\ UNCHANGED serverVars
    BY <1>2 DEF ReloadOk, serverVars
  <2> HIDE DEF s, v, cl
  <2>3. Ready(v, cl, n)
    BY <1>0, <2>1, ReloadedReady
  <2>4. Typed(q) /\ q.pendingSave = {}
    BY <1>0 DEF Typed, Store
  <2> HIDE DEF e, q
  <2>5. Typed(a) /\ a.pendingSave = q.pendingSave
    BY <1>0, <2>4, AdoptType, AdoptFields
  <2> HIDE DEF a, r
  <2>6. Typed(n) /\ n.pendingSave = {}
    <3>1. Typed([a EXCEPT !.storageError = "none"]) /\ Typed(Converged(a))
      BY <2>5, NoticeTypes, ConvergedType
    <3>2. /\ [a EXCEPT !.storageError = "none"].pendingSave = {}
          /\ Converged(a).pendingSave = {}
      BY <2>4, <2>5 DEF Converged, Typed, Store
    <3> QED BY <2>4, <2>5, <3>1, <3>2
  <2> HIDE DEF n
  <2>7. Kept(v, cl, Release(n))
    BY <2>3, <2>6, ReleaseOnward, OnwardKept DEF SnapshotsCurrent
  <2> QED BY <2>2, <2>7, KeptStep DEF v, cl
<1>3. ASSUME ReloadLost(c) PROVE KeptInv'
  <2>1. PICK notice \in {"network", "malformed"} :
           store' = [store EXCEPT ![c] = Release(ReloadMissed(e, notice))]
    BY <1>3 DEF ReloadLost
  <2>2. s.call.kind = "reload" /\ UNCHANGED serverVars
    BY <1>3 DEF ReloadLost, serverVars
  <2> HIDE DEF e, s, v, cl
  <2> DEFINE n == ReloadMissed(e, notice)
  <2>3. Typed(n) /\ Core(v, n) /\ Ready(v, cl, n)
    BY <1>0, <1>1, <2>2, ReloadMissedType, MissedKeeps, KeepsCore, MissedReady
  <2> HIDE DEF n
  <2>4. Kept(v, cl, Release(n))
    BY <2>3, ReleaseKept
  <2> QED BY <2>1, <2>2, <2>4, KeptStep DEF n, v, cl
<1>4. ASSUME ReloadOrphan(c) PROVE KeptInv'
  <2>1. r.orphan /\ r.st # "idle"
    BY <1>4 DEF ReloadOrphan
  <2> QED BY <1>0, <2>1, SlotsHave DEF Kept, QueueInv
<1>5. ASSUME ReloadEmpty(c) \/ ReloadUnauthorized(c) PROVE KeptInv'
  BY <1>0, <1>5 DEF ReloadEmpty, ReloadUnauthorized, Reloading, ReadInv
<1> QED BY <1>2, <1>3, <1>4, <1>5

\* Only the notices, hydrated or what waits in a held queue change.
LEMMA NoticedKept ==
  ASSUME NEW v, NEW cl, NEW s, Kept(v, cl, s), NEW n,
         n.data = s.data, n.revision = s.revision, n.pendingSave = s.pendingSave,
         n.lock = s.lock, n.call = s.call, n.reads = s.reads,
         n.sinGuardar = s.sinGuardar, n.convergenciaPendiente = s.convergenciaPendiente,
         n.revisionEnConflicto = s.revisionEnConflicto,
         n.storageError = s.storageError \/ n.storageError # "none",
         n.asked = s.asked \/ (n.lock # "free" /\ \A q \in n.asked : q.kind \in Requests)
  PROVE  Kept(v, cl, n)
<1>1. Overtaken(n) <=> Overtaken(s)
  BY DEF Overtaken
<1>2. QueueInv(n)
  BY DEF Kept, QueueInv
<1>3. AnchorInv(v, cl, n)
  BY DEF Kept, AnchorInv
<1>4. BadOps = {} => ScreenInv(v, n)
  BY <1>1 DEF Kept, ScreenInv, Carried
<1>5. "start" \notin Requests => NoticeInv(v, n)
  BY <1>1 DEF Kept, NoticeInv
<1>6. Requests = {} => SteadyInv(n)
  BY DEF Kept, SteadyInv
<1> QED BY <1>2, <1>3, <1>4, <1>5, <1>6 DEF Kept

\* A reload in slot x gets further: it leaves, or brings the revision or a table.
LEMMA ReadsKept ==
  ASSUME NEW v, NEW cl, NEW s, Typed(s), Kept(v, cl, s), NEW x \in Slots, NEW q \in Read, NEW n,
         Same(s, n), n.pendingSave = s.pendingSave, n.lock = s.lock, n.call = s.call,
         n.asked = s.asked, n.reads[x] = q, \A y \in Slots \ {x} : n.reads[y] = s.reads[y],
         ~q.orphan, x \in LiveSlots /\ s.reads[x].dirty => q.dirty,
         Brought(q) => /\ BadOps = {} => \A t \in q.seen : q.got[t] \subseteq v.rows[t]
                       /\ q.rev = v.revision => q.closure = cl
                       /\ s.call.kind \in {"closure", "start"} /\ s.call.st = "ok"
                          /\ s.call.rev = v.revision /\ q.rev = s.call.base
                            => q.closure \cup s.call.op = cl
                       /\ x = "converge" /\ s.call.kind = "reload" =>
                            /\ "start" \notin Requests /\ s.call.why = "cycles"
                                 => s.revisionEnConflicto < q.rev
                            /\ Requests = {} => s.revision <= q.rev
  PROVE  Kept(v, cl, n)
<1>1. Overtaken(n) <=> Overtaken(s)
  BY DEF Overtaken, Same
<1>2. \A y \in LiveSlots : s.reads[y].dirty => n.reads[y].dirty
  BY SlotsHave
<1>3. QueueInv(n)
  <2>1. \A y \in Slots : n.reads[y].st # "idle" => ~n.reads[y].orphan
    BY DEF Kept, QueueInv
  <2>2. /\ n.lock = "free" => n.pendingSave = {} /\ n.asked = {}
        /\ \A p \in n.asked : p.kind \in Requests
    BY DEF Kept, QueueInv
  <2> QED BY <2>1, <2>2 DEF Kept, QueueInv, Same
<1>4. AnchorInv(v, cl, n)
  <2>1. \A y \in Slots : Brought(n.reads[y]) /\ n.reads[y].rev = v.revision => n.reads[y].closure = cl
    BY DEF Kept, AnchorInv
  <2>2. s.call.kind \in {"closure", "start"} /\ s.call.st = "ok" /\ s.call.rev = v.revision
          => \A y \in Slots : Brought(n.reads[y]) /\ n.reads[y].rev = s.call.base
                                => n.reads[y].closure \cup s.call.op = cl
    BY DEF Kept, AnchorInv
  <2>3. n.revision = s.revision /\ n.data = s.data
    BY DEF Same
  <2> QED BY <2>1, <2>2, <2>3 DEF Kept, AnchorInv
<1>5. ASSUME BadOps = {} PROVE ScreenInv(v, n)
  <2>0. ScreenInv(v, s) /\ n.data = s.data /\ n.sinGuardar = s.sinGuardar
        /\ n.convergenciaPendiente = s.convergenciaPendiente
    BY <1>5 DEF Kept, Same
  <2>1. \A y \in Slots : Brought(n.reads[y]) =>
          \A t \in n.reads[y].seen : n.reads[y].got[t] \subseteq v.rows[t]
    BY <1>5, <2>0 DEF ScreenInv
  <2>2. Reached(v, n.data.rows) \/ \A y \in LiveSlots : n.reads[y].dirty
    BY <1>2, <2>0 DEF ScreenInv
  <2>3. Carried(n) <=> Carried(s)
    BY <1>1 DEF Carried
  <2> QED BY <1>1, <2>0, <2>1, <2>2, <2>3 DEF ScreenInv
<1>6. ASSUME "start" \notin Requests PROVE NoticeInv(v, n)
  <2>1. NoticeInv(v, s)
    BY <1>6 DEF Kept
  <2>2. s.call.kind = "reload" /\ s.call.why = "cycles" /\ Brought(n.reads["converge"])
          => s.revisionEnConflicto < n.reads["converge"].rev
    BY <1>6, <2>1, SlotsHave DEF NoticeInv
  <2> QED BY <1>1, <2>1, <2>2 DEF NoticeInv, Same
<1>7. ASSUME Requests = {} PROVE SteadyInv(n)
  <2>1. s.call.kind = "reload" /\ Brought(n.reads["converge"])
          => s.revision <= n.reads["converge"].rev
    BY <1>7, SlotsHave DEF Kept, SteadyInv
  <2> QED BY <1>2, <1>7, <2>1 DEF Kept, SteadyInv, Same
<1> QED BY <1>3, <1>4, <1>5, <1>6, <1>7 DEF Kept

\* With nothing in flight, what is ready is kept.
LEMMA RestedKept ==
  ASSUME NEW v, NEW cl, NEW s, Ready(v, cl, s), s.call.kind = "none",
         s.lock = "free" => s.pendingSave = {} /\ s.asked = {}
  PROVE  Kept(v, cl, s)
<1>1. ~Overtaken(s)
  BY DEF Overtaken
<1> QED BY <1>1 DEF Ready, Bare, Accounted, Kept, QueueInv, AnchorInv, ScreenInv, NoticeInv, SteadyInv

\* A live reload with nothing in its way is adopted, whatever else is in flight.
LEMMA LiveAdoptKept ==
  ASSUME NEW v, NEW cl, NEW s, Typed(s), Kept(v, cl, s), NEW r \in Read,
         BadOps = {} => Reached(v, Loaded(r).rows),
         r.rev = v.revision => Loaded(r).closure = cl,
         s.call.kind \in {"closure", "start"} /\ s.call.st = "ok" /\ s.call.rev = v.revision
           => Loaded(r).closure \cup s.call.op = cl,
         s.pendingSave = {}, s.call.kind # "put", ~s.sinGuardar,
         Requests = {} => s.call.kind # "reload"
  PROVE  Kept(v, cl, Adopt(s, r))
<1> DEFINE n == Adopt(s, r)
<1>1. /\ n.data = Loaded(r) /\ n.revision = r.rev /\ n.pendingSave = s.pendingSave
      /\ n.lock = s.lock /\ n.call = s.call /\ n.asked = s.asked /\ n.sinGuardar = s.sinGuardar
      /\ \A y \in Slots : n.reads[y] = Marked(s.reads[y])
      /\ n.revisionEnConflicto = s.revisionEnConflicto
      /\ n.convergenciaPendiente => s.convergenciaPendiente /\ n.storageError = s.storageError
  BY AdoptFields, AdoptNotices
<1> HIDE DEF n
<1>2. /\ \A y \in Slots : /\ Brought(n.reads[y]) <=> Brought(s.reads[y])
                          /\ n.reads[y].st = s.reads[y].st /\ n.reads[y].rev = s.reads[y].rev
                          /\ n.reads[y].closure = s.reads[y].closure
                          /\ n.reads[y].got = s.reads[y].got /\ n.reads[y].seen = s.reads[y].seen
                          /\ n.reads[y].dirty /\ n.reads[y].orphan = s.reads[y].orphan
      /\ \A y \in LiveSlots : n.reads[y].dirty
  BY <1>1, MarkedFields
<1>3. QueueInv(n)
  <2>1. \A y \in Slots : n.reads[y].st # "idle" => ~n.reads[y].orphan
    BY <1>2 DEF Kept, QueueInv
  <2> QED BY <1>1, <2>1 DEF Kept, QueueInv
<1>4. AnchorInv(v, cl, n)
  <2>1. \A y \in Slots : Brought(n.reads[y]) /\ n.reads[y].rev = v.revision => n.reads[y].closure = cl
    BY <1>2 DEF Kept, AnchorInv
  <2>2. s.call.kind \in {"closure", "start"} /\ s.call.st = "ok" /\ s.call.rev = v.revision
          => \A y \in Slots : Brought(n.reads[y]) /\ n.reads[y].rev = s.call.base
                                => n.reads[y].closure \cup s.call.op = cl
    BY <1>2 DEF Kept, AnchorInv
  <2> QED BY <1>1, <2>1, <2>2 DEF Kept, AnchorInv
<1>5. ASSUME BadOps = {} PROVE ScreenInv(v, n)
  <2>1. \A y \in Slots : Brought(n.reads[y]) =>
          \A t \in n.reads[y].seen : n.reads[y].got[t] \subseteq v.rows[t]
    BY <1>2, <1>5 DEF Kept, ScreenInv
  <2>2. Reached(v, n.data.rows)
    BY <1>1, <1>5
  <2> QED BY <1>1, <2>1, <2>2 DEF ScreenInv
<1>6. ASSUME "start" \notin Requests PROVE NoticeInv(v, n)
  <2>1. NoticeInv(v, s) /\ (Brought(n.reads["converge"]) <=> Brought(s.reads["converge"]))
        /\ n.reads["converge"].rev = s.reads["converge"].rev
    BY <1>2, <1>6, SlotsHave DEF Kept
  <2> QED BY <1>1, <2>1 DEF NoticeInv
<1>7. ASSUME Requests = {} PROVE SteadyInv(n)
  BY <1>1, <1>2, <1>7 DEF SteadyInv
<1>8. Kept(v, cl, n)
  BY <1>3, <1>4, <1>5, <1>6, <1>7 DEF Kept
<1> QED BY <1>8 DEF n

LEMMA LiveKept ==
  ASSUME TypeOK, Inv, KeptInv, NEW c \in Clients, NEW x \in LiveSlots
  PROVE  /\ LiveOk(c, x) \/ LiveLost(c, x) => KeptInv'
         /\ LiveEmpty(c, x) \/ LiveUnauthorized(c, x) => KeptInv'
<1> DEFINE s == store[c]
           r == s.reads[x]
           e == EndRead(s, x)
           v == Server
           cl == closure
<1>0. /\ Typed(s) /\ StoreInv(v, s) /\ r \in Read /\ ReadInv(v, r) /\ Typed(e)
      /\ StoreInv(v, e) /\ Kept(v, cl, s) /\ x \in Slots
  BY ReadFacts, SlotsHave DEF KeptInv
<1>1. /\ Kept(v, cl, e) /\ e.call = s.call /\ e.sinGuardar = s.sinGuardar
      /\ e.pendingSave = s.pendingSave /\ e.revision = s.revision
      /\ e.convergenciaPendiente = s.convergenciaPendiente
  <2>1. Kept(v, cl, e)
    BY <1>0, EndReadKept
  <2> QED BY <1>0, <2>1, EndReadFields DEF Same
<1>2. ASSUME LiveOk(c, x) PROVE KeptInv'
  <2> DEFINE n == Adopt(e, r)
  <2>1. /\ store' = [store EXCEPT ![c] = IF Discarded(e, r) THEN e ELSE n]
        /\ UNCHANGED serverVars /\ r.st = "done"
    BY <1>2 DEF LiveOk, serverVars
  <2>2. CASE Discarded(e, r)
    BY <1>1, <2>1, <2>2, KeptStep
  <2>3. CASE ~Discarded(e, r)
    <3>0. r.rev \in Nat /\ s.revision \in Nat /\ v.revision \in Nat
          /\ s.call.base \in Nat /\ s.call.rev \in Nat
      BY <1>0, TypeParts DEF ServerTypes, Server, Typed, Store, Read, Call
    <3>1. r.rev >= s.revision /\ ~r.dirty /\ e.pendingSave = {}
      BY <1>1, <2>3, <3>0 DEF Discarded
    <3>2. s.call.kind # "put" /\ ~s.sinGuardar
      BY <1>0, <3>1 DEF StoreInv, EditsShielded
    <3> HIDE DEF s, v, cl
    <3>3. /\ BadOps = {} => Reached(v, Loaded(r).rows)
          /\ r.rev = v.revision => Loaded(r).closure = cl
      BY <1>0, <2>1, DoneBrings DEF r
    <3>4. ASSUME s.call.kind \in {"closure", "start"}, s.call.st = "ok", s.call.rev = v.revision
          PROVE  Loaded(r).closure \cup s.call.op = cl
      <4>1. s.call.rev = s.call.base + 1 /\ s.call.op \subseteq cl
        BY <1>0, <3>4 DEF Kept, AnchorInv
      <4>2. s.revision >= s.call.base /\ r.rev <= v.revision
        BY <1>0, <2>1, <3>4 DEF StoreInv, CallInv, ReadInv
      <4>3. r.rev = s.call.base \/ r.rev = v.revision
        BY <3>0, <3>1, <3>4, <4>1, <4>2
      <4>4. r.rev = s.call.base => r.closure \cup s.call.op = cl
        BY <1>0, <2>1, <3>4 DEF Kept, AnchorInv, Brought, r
      <4>5. Loaded(r).closure = r.closure
        BY DEF Loaded
      <4> QED BY <3>3, <4>1, <4>3, <4>4, <4>5
    <3>5. Requests = {} => s.call.kind # "reload"
      BY <1>0, <3>1 DEF Kept, SteadyInv, r
    <3> HIDE DEF e, r
    <3>6. Kept(v, cl, n)
      BY <1>0, <1>1, <3>1, <3>2, <3>3, <3>4, <3>5, LiveAdoptKept
    <3> HIDE DEF n
    <3> QED BY <2>1, <2>3, <3>6, KeptStep DEF v, cl
  <2> QED BY <2>2, <2>3
<1>3. ASSUME LiveLost(c, x) PROVE KeptInv'
  <2> DEFINE n == [e EXCEPT !.storageError = "malformed"]
  <2>1. /\ store' = [store EXCEPT ![c] = e] \/ store' = [store EXCEPT ![c] = n]
        /\ UNCHANGED serverVars
    BY <1>3 DEF LiveLost, serverVars
  <2> HIDE DEF e, s, v, cl
  <2>2. /\ Keeps(e, n) /\ n.convergenciaPendiente = e.convergenciaPendiente
        /\ n.revisionEnConflicto = e.revisionEnConflicto /\ n.storageError = "malformed"
    BY <1>0 DEF Keeps, Typed, Store
  <2> HIDE DEF n
  <2>3. Kept(v, cl, n)
    BY <1>1, <2>2, NoticedKept DEF Keeps
  <2> QED BY <1>1, <2>1, <2>3, KeptStep DEF v, cl
<1>4. ASSUME LiveEmpty(c, x) \/ LiveUnauthorized(c, x) PROVE KeptInv'
  BY <1>0, <1>4 DEF LiveEmpty, LiveUnauthorized, ReadInv
<1> QED BY <1>2, <1>3, <1>4

\* A first load, or a later one with nothing local in the way.
LEMMA HydratedKept ==
  ASSUME NEW v, NEW cl, NEW s, Typed(s), Kept(v, cl, s), NEW r \in Read,
         BadOps = {} => Reached(v, Loaded(r).rows),
         r.rev = v.revision => Loaded(r).closure = cl,
         s.pendingSave = {}, s.call.kind = "none", ~s.sinGuardar
  PROVE  Kept(v, cl, [Adopt(s, r) EXCEPT !.hydrated = TRUE])
<1> DEFINE a == Adopt(s, r)
           n == [a EXCEPT !.hydrated = TRUE]
<1>1. Ready(v, cl, a) /\ Typed(a)
  BY BareOf, AdoptReady, AdoptType
<1>2. a.pendingSave = {} /\ a.call = s.call /\ a.lock = s.lock /\ a.asked = s.asked
  BY AdoptFields
<1> HIDE DEF a
<1>3. Kept(v, cl, a)
  <2>1. s.lock = "free" => s.asked = {}
    BY DEF Kept, QueueInv
  <2> QED BY <1>1, <1>2, <2>1, RestedKept
<1>4. /\ n.data = a.data /\ n.revision = a.revision /\ n.pendingSave = a.pendingSave
      /\ n.lock = a.lock /\ n.call = a.call /\ n.reads = a.reads /\ n.asked = a.asked
      /\ n.sinGuardar = a.sinGuardar /\ n.convergenciaPendiente = a.convergenciaPendiente
      /\ n.revisionEnConflicto = a.revisionEnConflicto /\ n.storageError = a.storageError
  BY <1>1 DEF Typed, Store
<1> HIDE DEF n
<1>5. Kept(v, cl, n)
  BY <1>3, <1>4, NoticedKept
<1> QED BY <1>5 DEF n, a

LEMMA GivesWayKept ==
  ASSUME NEW v, NEW cl, NEW s, Typed(s), StoreInv(v, s), Kept(v, cl, s)
  PROVE  Kept(v, cl, HydrateGivesWay(s))
<1>1. CASE s.sinGuardar /\ s.lock = "free" /\ s.pendingSave = {}
  <2>1. Ready(v, cl, s)
    BY <1>1, PlainReady DEF StoreInv
  <2>2. Onward(s, Persist(s, s.data)) /\ Persist(s, s.data).lock # "free"
    BY <1>1, PersistOnward
  <2>3. Kept(v, cl, Persist(s, s.data))
    BY <2>1, <2>2, OnwardKept
  <2> QED BY <1>1, <2>3 DEF HydrateGivesWay
<1>2. CASE ~(s.sinGuardar /\ s.lock = "free" /\ s.pendingSave = {})
  BY <1>2 DEF HydrateGivesWay
<1> QED BY <1>1, <1>2

LEMMA HydrateKept ==
  ASSUME TypeOK, Inv, KeptInv, NEW c \in Clients
  PROVE  /\ Hydrate(c) \/ HydrateOk(c) \/ HydrateLost(c) => KeptInv'
         /\ HydrateEmpty(c) \/ ServeSeed(c) \/ HydrateSeeded(c) => KeptInv'
         /\ HydrateUnauthorized(c) => KeptInv'
<1> DEFINE s == store[c]
           r == s.reads["hydrate"]
           e == EndRead(s, "hydrate")
           v == Server
           cl == closure
<1>0. /\ Typed(s) /\ StoreInv(v, s) /\ r \in Read /\ ReadInv(v, r) /\ Typed(e)
      /\ StoreInv(v, e) /\ Kept(v, cl, s) /\ "hydrate" \in Slots /\ "hydrate" \notin LiveSlots
  BY ReadFacts, SlotsHave, ConstantsAssumption DEF KeptInv, ConstantsAssumption
<1>1. Kept(v, cl, e)
  BY <1>0, EndReadKept
<1>2. ASSUME Hydrate(c) PROVE KeptInv'
  <2> DEFINE n == StartRead(s, "hydrate")
             q == [NoRead EXCEPT !.st = "asked", !.dirty = FALSE, !.orphan = FALSE,
                                 !.first = ~s.hydrated]
  <2>1. store' = [store EXCEPT ![c] = n] /\ UNCHANGED serverVars
    BY <1>2 DEF Hydrate, serverVars
  <2> HIDE DEF s, v, cl
  <2>2. s.hydrated \in BOOLEAN
    BY <1>0 DEF Typed, Store
  <2>3. q \in Read /\ ~q.orphan /\ ~Brought(q)
    BY <2>2, EmptyTypes DEF NoRead, Brought, Read
  <2> HIDE DEF q
  <2>4. /\ Same(s, n) /\ n.pendingSave = s.pendingSave /\ n.lock = s.lock /\ n.call = s.call
        /\ n.asked = s.asked /\ n.reads["hydrate"] = q
        /\ \A y \in Slots \ {"hydrate"} : n.reads[y] = s.reads[y]
    BY <1>0 DEF StartRead, Typed, Store, Same, q
  <2> HIDE DEF n
  <2>5. Kept(v, cl, n)
    BY <1>0, <2>3, <2>4, ReadsKept
  <2> QED BY <2>1, <2>5, KeptStep DEF v, cl
<1>3. ASSUME HydrateOk(c) PROVE KeptInv'
  <2> DEFINE n == [Adopt(e, r) EXCEPT !.hydrated = TRUE]
  <2>1. /\ store' = [store EXCEPT ![c] = IF HydrateYields(e, r) THEN HydrateGivesWay(e)
                                         ELSE IF Late(e, r) THEN e ELSE n]
        /\ UNCHANGED serverVars /\ r.st = "done"
    BY <1>3 DEF HydrateOk, serverVars
  <2>2. Kept(v, cl, HydrateGivesWay(e))
    BY <1>0, <1>1, GivesWayKept
  <2>3. (r.first => ~s.hydrated) /\ e.hydrated = s.hydrated
    BY <1>0, <2>1, EndReadFields DEF StoreInv, Same
  <2>4. /\ BadOps = {} => Reached(v, Loaded(r).rows)
        /\ r.rev = v.revision => Loaded(r).closure = cl
    BY <1>0, <2>1, DoneBrings
  <2> HIDE DEF s, e, v, cl
  <2>5. ASSUME ~HydrateYields(e, r) PROVE Kept(v, cl, n)
    <3>1. e.pendingSave = {} /\ e.call.kind = "none" /\ ~e.sinGuardar
      <4>1. CASE r.first
        BY <1>0, <2>3, <4>1 DEF StoreInv, NothingBeforeHydrate
      <4>2. CASE ~r.first
        BY <1>0, <2>5, <4>2 DEF HydrateYields, StoreInv
      <4> QED BY <4>1, <4>2
    <3> HIDE DEF r
    <3> QED BY <1>0, <1>1, <2>4, <3>1, HydratedKept
  <2> HIDE DEF n
  <2> QED BY <1>1, <2>1, <2>2, <2>5, KeptStep DEF v, cl
<1>4. ASSUME HydrateLost(c) PROVE KeptInv'
  <2> DEFINE m == [e EXCEPT !.hydrated = TRUE]
             w == [e EXCEPT !.hydrated = TRUE, !.storageError = "malformed"]
  <2>1. r.st \notin {"seeding", "seeded", "unseeded"}
    BY <1>0 DEF ReadInv
  <2>2. \/ store' = [store EXCEPT ![c] = e]
        \/ store' = [store EXCEPT ![c] = m]
        \/ store' = [store EXCEPT ![c] = w]
    BY <1>4, <2>1 DEF HydrateLost
  <2>3. UNCHANGED serverVars
    BY <1>4 DEF HydrateLost, serverVars
  <2> HIDE DEF e, s, v, cl
  <2>4. /\ m.data = e.data /\ m.revision = e.revision /\ m.pendingSave = e.pendingSave
        /\ m.lock = e.lock /\ m.call = e.call /\ m.reads = e.reads /\ m.asked = e.asked
        /\ m.sinGuardar = e.sinGuardar /\ m.convergenciaPendiente = e.convergenciaPendiente
        /\ m.revisionEnConflicto = e.revisionEnConflicto /\ m.storageError = e.storageError
    BY <1>0 DEF Typed, Store
  <2>5. /\ w.data = e.data /\ w.revision = e.revision /\ w.pendingSave = e.pendingSave
        /\ w.lock = e.lock /\ w.call = e.call /\ w.reads = e.reads /\ w.asked = e.asked
        /\ w.sinGuardar = e.sinGuardar /\ w.convergenciaPendiente = e.convergenciaPendiente
        /\ w.revisionEnConflicto = e.revisionEnConflicto /\ w.storageError = "malformed"
    BY <1>0 DEF Typed, Store
  <2> HIDE DEF m, w
  <2>6. Kept(v, cl, m) /\ Kept(v, cl, w)
    BY <1>1, <2>4, <2>5, NoticedKept
  <2> QED BY <1>1, <2>2, <2>3, <2>6, KeptStep DEF v, cl
<1>5. ASSUME HydrateEmpty(c) \/ ServeSeed(c) \/ HydrateSeeded(c) \/ HydrateUnauthorized(c) PROVE KeptInv'
  BY <1>0, <1>5 DEF HydrateEmpty, ServeSeed, HydrateSeeded, HydrateUnauthorized, ReadInv
<1> QED BY <1>2, <1>3, <1>4, <1>5

LEMMA ResyncKept ==
  ASSUME NEW v, NEW cl, NEW s, Typed(s), StoreInv(v, s), Kept(v, cl, s), NEW owed \in BOOLEAN
  PROVE  Kept(v, cl, Resync(s, owed))
<1> DEFINE n == Resync(s, owed)
<1>1. CASE s.lock = "free" /\ s.pendingSave = {}
  <2>1. s.call.kind = "none" /\ s.asked = {}
    BY <1>1 DEF StoreInv, Kept, QueueInv
  <2>2. Onward(s, n) /\ (n.lock = "free" => n.asked = s.asked)
    BY <1>1, <2>1, ResyncOnward
  <2> HIDE DEF n
  <2>3. Kept(v, cl, n)
    BY <2>1, <2>2, PlainReady, OnwardKept
  <2> QED BY <2>3 DEF n
<1>2. CASE ~(s.lock = "free" /\ s.pendingSave = {})
  <2>1. /\ Same(s, n) /\ n.pendingSave = s.pendingSave /\ n.asked = s.asked
        /\ n.reads = s.reads /\ n.lock = s.lock /\ n.call = s.call
    BY <1>2, ResyncNoted
  <2> HIDE DEF n
  <2>2. Kept(v, cl, n)
    BY <2>1, NoticedKept DEF Same
  <2> QED BY <2>2 DEF n
<1> QED BY <1>1, <1>2

\* The event stream and the session.
LEMMA StreamKept ==
  ASSUME Settled, TypeOK, Inv, KeptInv, NEW c \in Clients
  PROVE  /\ StreamStep(c) \/ StreamDrops(c) => KeptInv'
         /\ Revoke(c) \/ Logout(c) \/ Login(c) => KeptInv'
<1> DEFINE s == store[c]
           v == Server
           cl == closure
<1>0. Typed(s) /\ StoreInv(v, s) /\ s.in /\ Kept(v, cl, s)
  BY ClientFacts DEF KeptInv
<1>1. Kept(v, cl, Resync(s, TRUE)) /\ Kept(v, cl, Resync(s, FALSE))
  BY <1>0, ResyncKept
<1>2. ASSUME StreamStep(c) \/ StreamDrops(c) PROVE KeptInv'
  <2>1. /\ \/ store' = store
           \/ store' = [store EXCEPT ![c] = Resync(s, TRUE)]
           \/ store' = [store EXCEPT ![c] = Resync(s, FALSE)]
        /\ UNCHANGED serverVars
    BY <1>2 DEF StreamStep, StreamDrops, Deliver, StreamOpens, StreamReopens, serverVars
  <2>2. store' = store => store' = [store EXCEPT ![c] = s]
    BY DEF TypeOK
  <2> HIDE DEF s
  <2> QED BY <1>0, <1>1, <2>1, <2>2, KeptStep
<1>3. ASSUME Revoke(c) \/ Logout(c) PROVE KeptInv'
  BY <1>3 DEF Revoke, Logout, Fault, Settled
<1>4. ASSUME Login(c) PROVE KeptInv'
  BY <1>0, <1>4 DEF Login
<1> QED BY <1>2, <1>3, <1>4

\* What is typed is queued on what is on screen.
LEMMA EditKept ==
  ASSUME NEW v, NEW cl, NEW s, Typed(s), StoreInv(v, s), Kept(v, cl, s),
         NEW d \in Data, d.closure = s.data.closure
  PROVE  Kept(v, cl, Persist(SetData(s, d), d))
<1> DEFINE p == SetData(s, d)
           q == [p EXCEPT !.pendingSave = {d}]
<1>1. Typed(p)
  BY SetDataType
<1>2. /\ p.data = d /\ p.revision = s.revision /\ p.lock = s.lock /\ p.call = s.call
      /\ p.asked = s.asked /\ p.sinGuardar = s.sinGuardar
      /\ p.convergenciaPendiente = s.convergenciaPendiente /\ p.storageError = s.storageError
      /\ p.revisionEnConflicto = s.revisionEnConflicto
      /\ \A x \in Slots : p.reads[x] = Marked(s.reads[x])
  BY SetDataFields, SetDataNotices
<1> HIDE DEF p
<1>3. /\ q.data = p.data /\ q.revision = p.revision /\ q.lock = p.lock /\ q.call = p.call
      /\ q.asked = p.asked /\ q.sinGuardar = p.sinGuardar /\ q.storageError = p.storageError
      /\ q.convergenciaPendiente = p.convergenciaPendiente
      /\ q.revisionEnConflicto = p.revisionEnConflicto
      /\ q.reads = p.reads /\ q.pendingSave = {d} /\ Typed(q)
  BY <1>1 DEF Typed, Store
<1>4. Persist(p, d) = IF p.lock = "free" THEN Drain(q) ELSE q
  BY DEF Persist
<1> HIDE DEF q
<1>5. /\ q.data = d /\ q.revision = s.revision /\ q.lock = s.lock /\ q.call = s.call
      /\ q.asked = s.asked /\ q.sinGuardar = s.sinGuardar /\ q.storageError = s.storageError
      /\ q.convergenciaPendiente = s.convergenciaPendiente
      /\ q.revisionEnConflicto = s.revisionEnConflicto
      /\ \A x \in Slots : q.reads[x] = Marked(s.reads[x])
  BY <1>2, <1>3
<1>6. Ready(v, cl, q)
  <2>1. Bare(v, cl, s)
    BY BareOf
  <2>2. q.revision = v.revision => q.data.closure = cl
    BY <1>5, <2>1 DEF Bare
  <2>3. "start" \notin Requests =>
          (q.sinGuardar \/ q.convergenciaPendiente => q.storageError # "none")
    BY <1>5, <2>1 DEF Bare
  <2>4. Bare(v, cl, q)
    BY <1>5, <2>1, <2>2, <2>3, MarkedBare
  <2> QED BY <1>3, <2>4 DEF Ready, Accounted
<1>7. CASE p.lock = "free"
  <2>1. Onward(q, Drain(q)) /\ Drain(q).lock # "free"
    BY <1>3, <1>5, DrainOnward DEF SnapshotsCurrent
  <2>2. Kept(v, cl, Drain(q))
    BY <1>3, <1>6, <2>1, OnwardKept
  <2> QED BY <1>4, <1>7, <2>2 DEF p
<1>8. CASE p.lock # "free"
  <2>1. /\ \A x \in Slots : /\ Brought(q.reads[x]) <=> Brought(s.reads[x])
                            /\ q.reads[x].st = s.reads[x].st /\ q.reads[x].rev = s.reads[x].rev
                            /\ q.reads[x].closure = s.reads[x].closure
                            /\ q.reads[x].got = s.reads[x].got /\ q.reads[x].seen = s.reads[x].seen
                            /\ q.reads[x].dirty /\ q.reads[x].orphan = s.reads[x].orphan
        /\ \A x \in LiveSlots : q.reads[x].dirty
    BY <1>5, MarkedFields
  <2>2. Overtaken(q) <=> Overtaken(s)
    BY <1>5 DEF Overtaken
  <2>3. QueueInv(q)
    <3>1. \A x \in Slots : q.reads[x].st # "idle" => ~q.reads[x].orphan
      BY <2>1 DEF Kept, QueueInv
    <3> QED BY <1>2, <1>5, <1>8, <3>1 DEF Kept, QueueInv
  <2>4. AnchorInv(v, cl, q)
    <3>1. \A x \in Slots : Brought(q.reads[x]) /\ q.reads[x].rev = v.revision => q.reads[x].closure = cl
      BY <2>1 DEF Kept, AnchorInv
    <3>2. s.call.kind \in {"closure", "start"} /\ s.call.st = "ok" /\ s.call.rev = v.revision
            => \A x \in Slots : Brought(q.reads[x]) /\ q.reads[x].rev = s.call.base
                                  => q.reads[x].closure \cup s.call.op = cl
      BY <2>1 DEF Kept, AnchorInv
    <3> QED BY <1>5, <3>1, <3>2 DEF Kept, AnchorInv
  <2>5. ASSUME BadOps = {} PROVE ScreenInv(v, q)
    <3>1. \A x \in Slots : Brought(q.reads[x]) =>
            \A t \in q.reads[x].seen : q.reads[x].got[t] \subseteq v.rows[t]
      BY <2>1, <2>5 DEF Kept, ScreenInv
    <3>2. q.pendingSave # {}
      BY <1>3
    <3>3. q.call.kind = "put" /\ q.call.st = "ok" => Reached(v, q.call.data.rows)
      BY <1>5, <2>5 DEF Kept, ScreenInv
    <3> QED BY <2>1, <3>1, <3>2, <3>3 DEF ScreenInv
  <2>6. ASSUME "start" \notin Requests PROVE NoticeInv(v, q)
    <3>1. NoticeInv(v, s) /\ (Brought(q.reads["converge"]) <=> Brought(s.reads["converge"]))
          /\ q.reads["converge"].rev = s.reads["converge"].rev
      BY <2>1, <2>6, SlotsHave DEF Kept
    <3> QED BY <1>5, <2>2, <3>1 DEF NoticeInv
  <2>7. ASSUME Requests = {} PROVE SteadyInv(q)
    <3>1. SteadyInv(s) /\ (Brought(q.reads["converge"]) <=> Brought(s.reads["converge"]))
          /\ q.reads["converge"].rev = s.reads["converge"].rev
      BY <2>1, <2>7, SlotsHave DEF Kept
    <3> QED BY <1>5, <2>1, <3>1 DEF SteadyInv
  <2>8. Kept(v, cl, q)
    BY <2>3, <2>4, <2>5, <2>6, <2>7 DEF Kept
  <2> QED BY <1>4, <1>8, <2>8 DEF p
<1> QED BY <1>7, <1>8

\* An exclusive write leaves at once, or waits for the queue.
LEMMA RequestKept ==
  ASSUME NEW v, NEW cl, NEW s, Typed(s), StoreInv(v, s), Kept(v, cl, s), s.asked = {},
         NEW kind \in Requests, NEW o \in Ops
  PROVE  LET n == [s EXCEPT !.asked = {[kind |-> kind, op |-> {o}]}]
         IN  Kept(v, cl, IF n.lock = "free" THEN StartRequest(n) ELSE n)
<1> DEFINE a == [kind |-> kind, op |-> {o}]
           n == [s EXCEPT !.asked = {a}]
<1>1. a \in [kind : {"closure", "start", "cycles"}, op : SUBSET Ops] /\ a.kind = kind
  BY ConstantsAssumption DEF ConstantsAssumption
<1> HIDE DEF a
<1>2. /\ n.data = s.data /\ n.revision = s.revision /\ n.pendingSave = s.pendingSave
      /\ n.lock = s.lock /\ n.call = s.call /\ n.reads = s.reads /\ n.asked = {a}
      /\ n.sinGuardar = s.sinGuardar /\ n.convergenciaPendiente = s.convergenciaPendiente
      /\ n.revisionEnConflicto = s.revisionEnConflicto /\ n.storageError = s.storageError
      /\ Typed(n)
  BY <1>1 DEF Typed, Store
<1> HIDE DEF n
<1>3. CASE n.lock = "free"
  <2>1. s.call.kind = "none" /\ s.pendingSave = {}
    BY <1>2, <1>3 DEF StoreInv, Kept, QueueInv
  <2>2. Ready(v, cl, s)
    BY <2>1, PlainReady
  <2>3. Ready(v, cl, n)
    BY <1>1, <1>2, <2>2 DEF Ready, Bare, Accounted
  <2> DEFINE m == StartRequest(n)
  <2>4. /\ Same(n, m) /\ m.pendingSave = n.pendingSave /\ m.asked = {} /\ m.reads = n.reads
        /\ m.lock # "free" /\ m.call.st = "sent" /\ m.call.base = n.revision
        /\ m.call.kind \in {q.kind : q \in n.asked}
        /\ m.call.kind \in {"closure", "start", "cycles"}
    BY <1>2, StartRequestFields
  <2> HIDE DEF m
  <2>5. Onward(n, m)
    BY <1>2, <2>1, <2>4 DEF Onward
  <2>6. Kept(v, cl, m)
    BY <1>2, <2>3, <2>4, <2>5, OnwardKept
  <2> QED BY <1>3, <2>6 DEF m, n, a
<1>4. CASE n.lock # "free"
  <2>1. Kept(v, cl, n)
    BY <1>1, <1>2, <1>4, NoticedKept
  <2> QED BY <1>4, <2>1 DEF n, a
<1> QED BY <1>3, <1>4

LEMMA UserKept ==
  ASSUME TypeOK, Inv, KeptInv, NEW c \in Clients, NEW o \in Ops
  PROVE  /\ Edit(c, o) => KeptInv'
         /\ \A kind \in Requests : Request(c, kind, o) => KeptInv'
<1> DEFINE s == store[c]
           v == Server
           cl == closure
<1>0. Typed(s) /\ StoreInv(v, s) /\ Kept(v, cl, s) /\ s.data \in Data
  BY ClientFacts DEF KeptInv
<1>1. ASSUME Edit(c, o) PROVE KeptInv'
  <2> DEFINE d == WithEdit(s.data, o)
  <2>1. store' = [store EXCEPT ![c] = Persist(SetData(s, d), d)] /\ UNCHANGED serverVars
    BY <1>1 DEF Edit, serverVars
  <2>2. d \in Data /\ d.closure = s.data.closure
    BY <1>0, DataTypes DEF WithEdit, Data
  <2> HIDE DEF d, s, v, cl
  <2>3. Kept(v, cl, Persist(SetData(s, d), d))
    BY <1>0, <2>2, EditKept
  <2> QED BY <2>1, <2>3, KeptStep DEF v, cl
<1>2. ASSUME NEW kind \in Requests, Request(c, kind, o) PROVE KeptInv'
  <2> DEFINE n == [s EXCEPT !.asked = {[kind |-> kind, op |-> {o}]}]
             m == IF n.lock = "free" THEN StartRequest(n) ELSE n
  <2>1. store' = [store EXCEPT ![c] = m] /\ UNCHANGED serverVars /\ s.asked = {}
    BY <1>2 DEF Request, serverVars
  <2> HIDE DEF s, v, cl
  <2>2. Kept(v, cl, m)
    BY <1>0, <2>1, RequestKept
  <2> HIDE DEF m
  <2> QED BY <2>1, <2>2, KeptStep DEF v, cl
<1> QED BY <1>1, <1>2

-----------------------------------------------------------------------------
(* The writes of anybody.                                                  *)

\* A write of anybody moves the server on: nothing a client carries is at its
\* revision any more.
LEMMA KeptMoves ==
  ASSUME NEW v, NEW w, NEW cl, NEW l, Moves(v, w), \A t \in Tables : v.rows[t] \subseteq w.rows[t],
         cl \subseteq l, NEW s, Typed(s), StoreInv(v, s), Kept(v, cl, s)
  PROVE  Kept(w, l, s)
<1> DEFINE k == s.call
<1>0. /\ v.revision \in Nat /\ w.revision = v.revision + 1 /\ s.revision \in Nat
      /\ k.base \in Nat /\ k.rev \in Nat /\ s.revisionEnConflicto \in Nat
      /\ \A x \in Slots : s.reads[x].rev \in Nat
  BY DEF Moves, Typed, Store, Call, Read
<1>1. s.revision # w.revision
  BY <1>0 DEF StoreInv, Fresh
<1>2. \A x \in Slots : Brought(s.reads[x]) => s.reads[x].rev # w.revision
  BY <1>0 DEF StoreInv, ReadInv, Brought
<1>3. k.kind \in {"put", "closure", "start"} /\ k.st = "ok" => k.rev # w.revision
  BY <1>0 DEF StoreInv, CallInv, Fresh
<1>4. AnchorInv(w, l, s)
  BY <1>1, <1>2, <1>3 DEF Kept, AnchorInv
<1>5. \A m : Reached(v, m) => Reached(w, m)
  BY DEF Reached
<1>6. ASSUME BadOps = {} PROVE ScreenInv(w, s)
  <2>1. \A x \in Slots : Brought(s.reads[x]) =>
          \A t \in Tables : t \in s.reads[x].seen => s.reads[x].got[t] \subseteq w.rows[t]
    BY <1>6 DEF Kept, ScreenInv
  <2>2. \A x \in Slots : s.reads[x].seen \subseteq Tables
    BY DEF Typed, Store, Read
  <2> QED BY <1>5, <1>6, <2>1, <2>2 DEF Kept, ScreenInv
<1>7. ASSUME "start" \notin Requests PROVE NoticeInv(w, s)
  <2>1. \A b \in Nat : (b < v.revision => b < w.revision) /\ (b <= v.revision => b <= w.revision)
    BY <1>0
  <2>2. NoticeInv(v, s)
    BY <1>7 DEF Kept
  <2> QED BY <1>0, <2>1, <2>2 DEF NoticeInv
<1> QED BY <1>4, <1>6, <1>7 DEF Kept

\* The answer to a write reaches the store of the client that waits for it.
LEMMA AnsweredKept ==
  ASSUME NEW v, NEW cl, NEW s, Typed(s), Kept(v, cl, s), NEW k,
         k.kind = s.call.kind, k.base = s.call.base, k.data = s.call.data, k.op = s.call.op,
         s.call.kind \in {"put", "closure", "start", "cycles"},
         k.kind = "put" /\ k.st = "rejected" => BadOps # {},
         k.kind = "closure" /\ k.st = "blocked" => "blocked" \in Faults,
         k.st = "ok" =>
           /\ k.rev = k.base + 1
           /\ k.kind = "put" => Reached(v, k.data.rows)
           /\ k.kind = "put" /\ k.rev = v.revision => s.data.closure = cl
           /\ k.kind \in {"closure", "start"} =>
                /\ k.op \subseteq cl
                /\ k.rev = v.revision =>
                     /\ s.data.closure \cup k.op = cl
                     /\ \A x \in Slots : Brought(s.reads[x]) /\ s.reads[x].rev = k.base
                                           => s.reads[x].closure \cup k.op = cl
           /\ "start" \notin Requests => s.revisionEnConflicto < v.revision
  PROVE  Kept(v, cl, [s EXCEPT !.call = k])
<1> DEFINE n == [s EXCEPT !.call = k]
<1>1. /\ n.data = s.data /\ n.revision = s.revision /\ n.pendingSave = s.pendingSave
      /\ n.lock = s.lock /\ n.call = k /\ n.asked = s.asked /\ n.reads = s.reads
      /\ n.sinGuardar = s.sinGuardar /\ n.convergenciaPendiente = s.convergenciaPendiente
      /\ n.revisionEnConflicto = s.revisionEnConflicto /\ n.storageError = s.storageError
  BY DEF Typed, Store
<1> HIDE DEF n
<1>2. ~Overtaken(n) /\ ~Overtaken(s) /\ (Carried(n) <=> Carried(s))
  BY <1>1 DEF Overtaken, Carried
<1>3. QueueInv(n)
  BY <1>1 DEF Kept, QueueInv
<1>4. AnchorInv(v, cl, n)
  BY <1>1 DEF Kept, AnchorInv
<1>5. BadOps = {} => ScreenInv(v, n)
  BY <1>1, <1>2 DEF Kept, ScreenInv
<1>6. "start" \notin Requests => NoticeInv(v, n)
  BY <1>1, <1>2 DEF Kept, NoticeInv
<1>7. Requests = {} => SteadyInv(n)
  BY <1>1 DEF Kept, SteadyInv
<1>8. Kept(v, cl, n)
  BY <1>3, <1>4, <1>5, <1>6, <1>7 DEF Kept
<1> QED BY <1>8 DEF n

\* What an accepted write does to the declarations.
LEMMA AppliedClosure ==
  ASSUME NEW k, Apply(k)
  PROVE  /\ closure \subseteq closure'
         /\ k.kind \in {"put", "cycles"} => closure' = closure
         /\ k.kind \notin {"put", "cycles"} => closure' = closure \cup k.op
BY DEF Apply, Commit

LEMMA AcceptKept ==
  ASSUME TypeOK, Inv, KeptInv, NEW c \in Clients, ServeWrite(c), revision' # revision
  PROVE  KeptInv'
<1> DEFINE s == store[c]
           k == s.call
           j == [k EXCEPT !.st = "ok", !.rev = revision + 1]
           w == Server'
           l == closure'
<1>0. Typed(s) /\ StoreInv(Server, s) /\ k \in Call /\ revision \in Nat /\ Kept(Server, closure, s)
  BY ClientFacts, TypeParts DEF ServerTypes, KeptInv
<1>1. /\ k.kind \in {"put", "closure", "start", "cycles"} /\ k.st = "sent"
      /\ Current(k) /\ Apply(k) /\ Answer(c, "ok", revision + 1)
  BY DEF ServeWrite, serverVars
<1>2. k.kind = "put" => Fresh(Server, k.base, k.data.rows)
  BY <1>0, <1>1 DEF StoreInv, CallInv
<1>3. /\ Moves(Server, w) /\ revision' = revision + 1
      /\ \A t \in Tables : rows[t] \subseteq rows'[t]
      /\ k.kind = "put" => rows' = k.data.rows
  BY <1>0, <1>1, <1>2, AcceptedMoves
<1>4. store' = [store EXCEPT ![c] = [s EXCEPT !.call = j]]
  BY <1>0, <1>1 DEF Answer, Typed, Store, Call
<1>5. /\ j.kind = k.kind /\ j.base = k.base /\ j.data = k.data /\ j.op = k.op /\ j.st = "ok"
      /\ j.rev = revision + 1
  BY <1>0 DEF Call
<1>6. /\ w.revision = revision + 1 /\ w.rows = rows' /\ Server.revision = revision
      /\ Server.rows = rows
  BY <1>3 DEF Server
<1>7. /\ closure \subseteq l
      /\ k.kind \in {"put", "cycles"} => l = closure
      /\ k.kind \notin {"put", "cycles"} => l = closure \cup k.op
  BY <1>1, AppliedClosure
<1>8. \A d \in Clients : Kept(w, l, store[d])
  <2>1. \A d \in Clients :
            Typed(store[d]) /\ StoreInv(Server, store[d]) /\ Kept(Server, closure, store[d])
    BY ClientFacts DEF KeptInv
  <2>2. \A t \in Tables : Server.rows[t] \subseteq w.rows[t]
    BY <1>3, <1>6
  <2> HIDE DEF w, l
  <2> QED BY <1>3, <1>7, <2>1, <2>2, KeptMoves
<1> HIDE DEF j
<1>9. k.base = revision /\ (k.kind = "put" => s.revision = k.base)
      /\ (k.kind # "put" => s.revision = revision)
  <2>1. s.revision \in Nat /\ s.revision <= revision
    BY <1>0, <1>6 DEF Typed, Store, StoreInv, Fresh
  <2>2. k.kind # "put" => s.revision >= k.base
    BY <1>0, <1>1 DEF StoreInv, CallInv
  <2> QED BY <1>0, <1>1, <2>1, <2>2 DEF Current, Kept, QueueInv
<1>10. s.data.closure = closure
  BY <1>0, <1>1, <1>6, <1>9 DEF Kept, AnchorInv
<1>11. \A x \in Slots : Brought(s.reads[x]) /\ s.reads[x].rev = k.base => s.reads[x].closure = closure
  BY <1>0, <1>6, <1>9 DEF Kept, AnchorInv
<1>12. k.kind = "put" => Reached(w, k.data.rows)
  BY <1>3, <1>6 DEF Reached
<1>13. "start" \notin Requests => s.revisionEnConflicto < w.revision
  BY <1>0, <1>6 DEF Kept, NoticeInv, Typed, Store
<1> HIDE DEF s, k, w, l
<1>14. Kept(w, l, [s EXCEPT !.call = j])
  <2>1. Kept(w, l, s)
    BY <1>8 DEF s
  <2>2. j.rev = j.base + 1
    BY <1>5, <1>9
  <2>3. k.kind = "put" => s.data.closure = l
    BY <1>7, <1>10
  <2>4. k.kind \in {"closure", "start"} =>
          /\ k.op \subseteq l /\ s.data.closure \cup k.op = l
          /\ \A x \in Slots : Brought(s.reads[x]) /\ s.reads[x].rev = k.base
                                => s.reads[x].closure \cup k.op = l
    BY <1>7, <1>10, <1>11
  <2> QED BY <1>0, <1>1, <1>5, <1>12, <1>13, <2>1, <2>2, <2>3, <2>4, AnsweredKept DEF k
<1>15. \A d \in Clients : Kept(w, l, store'[d])
  <2>1. \A d \in Clients \ {c} : store'[d] = store[d]
    BY <1>4 DEF TypeOK
  <2>2. store'[c] = [s EXCEPT !.call = j]
    BY <1>4 DEF TypeOK
  <2> QED BY <1>8, <1>14, <2>1, <2>2
<1> QED BY <1>15 DEF KeptInv, w, l

LEMMA RefuseKept ==
  ASSUME TypeOK, Inv, KeptInv, NEW c \in Clients,
         ServeBlocked(c) \/ (ServeWrite(c) /\ revision' = revision)
  PROVE  KeptInv'
<1> DEFINE s == store[c]
           k == s.call
<1>0. Typed(s) /\ k \in Call /\ revision \in Nat /\ session[c] /\ Kept(Server, closure, s)
  BY ClientFacts, TypeParts DEF ServerTypes, KeptInv
<1>1. PICK st \in {"conflict", "rejected", "blocked"} :
        /\ Answer(c, st, 0) /\ UNCHANGED serverVars
        /\ k.kind \in {"put", "closure", "start", "cycles"}
        /\ k.kind = "put" /\ st = "rejected" => BadOps # {}
        /\ st = "blocked" => "blocked" \in Faults
  <2>1. Refused(k) => BadOps # {}
    BY DEF Refused
  <2> QED BY <1>0, <2>1 DEF ServeBlocked, ServeWrite, Apply, Commit, serverVars
<1> DEFINE j == [k EXCEPT !.st = st, !.rev = 0]
<1>2. store' = [store EXCEPT ![c] = [s EXCEPT !.call = j]]
  BY <1>0, <1>1 DEF Answer, Typed, Store, Call
<1>3. j.kind = k.kind /\ j.base = k.base /\ j.data = k.data /\ j.op = k.op /\ j.st = st
  BY <1>0 DEF Call
<1> HIDE DEF j, s, k
<1>4. Kept(Server, closure, [s EXCEPT !.call = j])
  BY <1>0, <1>1, <1>3, AnsweredKept DEF k
<1> QED BY <1>1, <1>2, <1>4, KeptStep DEF s

LEMMA AloneKept ==
  ASSUME TypeOK, Inv, KeptInv
  PROVE  /\ \A k \in abandoned : ServeAbandoned(k) => KeptInv'
         /\ \A o \in Ops : ExternalWrite(o) => KeptInv'
<1>1. ASSUME Moves(Server, Server'), \A t \in Tables : rows[t] \subseteq rows'[t],
             closure \subseteq closure', store' = store
      PROVE  KeptInv'
  <2> DEFINE w == Server'
             l == closure'
  <2>1. \A t \in Tables : Server.rows[t] \subseteq w.rows[t]
    BY <1>1 DEF Server
  <2>2. \A d \in Clients :
            Typed(store[d]) /\ StoreInv(Server, store[d]) /\ Kept(Server, closure, store[d])
    BY ClientFacts DEF KeptInv
  <2>3. Moves(Server, w) /\ closure \subseteq l
    BY <1>1
  <2> HIDE DEF w, l
  <2>4. \A d \in Clients : Kept(w, l, store[d])
    BY <2>1, <2>2, <2>3, KeptMoves
  <2> QED BY <1>1, <2>4 DEF KeptInv, w, l
<1>2. ASSUME NEW k \in abandoned, ServeAbandoned(k) PROVE KeptInv'
  <2>1. store' = store /\ ((Current(k) /\ Apply(k)) \/ UNCHANGED serverVars)
    BY <1>2 DEF ServeAbandoned
  <2>2. k \in Call /\ (k.kind = "put" => Fresh(Server, k.base, k.data.rows))
    BY DEF TypeOK, Inv
  <2>3. CASE Current(k) /\ Apply(k)
    BY <1>1, <2>1, <2>2, <2>3, AcceptedMoves, AppliedClosure
  <2>4. CASE UNCHANGED serverVars
    BY <2>1, <2>4 DEF KeptInv, Server, serverVars
  <2> QED BY <2>1, <2>3, <2>4
<1>3. ASSUME NEW o \in Ops, ExternalWrite(o) PROVE KeptInv'
  <2>1. /\ store' = store /\ revision' = revision + 1 /\ rows' = WithRow({o})
        /\ (rows' = rows /\ rowsRev' = rowsRev) \/ rowsRev' = revision + 1
        /\ closure' = closure
    BY <1>3 DEF ExternalWrite, Commit
  <2>2. revision \in Nat /\ rowsRev \in Nat /\ rowsRev <= revision
    BY TypeParts DEF ServerTypes
  <2>3. Moves(Server, Server')
    BY <2>1, <2>2 DEF Moves, Server
  <2>4. \A t \in Tables : rows[t] \subseteq rows'[t]
    BY <2>1 DEF WithRow
  <2> QED BY <1>1, <2>1, <2>3, <2>4
<1> QED BY <1>2, <1>3

\* A GET takes the declarations with its revision, and then each table.
LEMMA GetKept ==
  ASSUME TypeOK, Inv, KeptInv, NEW c \in Clients, NEW x \in Slots
  PROVE  /\ ReadHead(c, x) => KeptInv'
         /\ \A t \in Tables : ReadTable(c, x, t) => KeptInv'
<1> DEFINE s == store[c]
           r == s.reads[x]
           v == Server
           cl == closure
<1>0. /\ Typed(s) /\ StoreInv(v, s) /\ r \in Read /\ ReadInv(v, r) /\ session[c]
      /\ revision \in Nat /\ revision >= 1 /\ Kept(v, cl, s)
      /\ v.revision = revision /\ v.rows = rows
  BY ReadFacts, TypeParts DEF ServerTypes, Inv, KeptInv, Server
<1>1. ~r.orphan \/ r.st = "idle"
  BY <1>0 DEF Kept, QueueInv
<1>2. ASSUME NEW q
      PROVE  LET n == [s EXCEPT !.reads[x] = q] IN
             /\ Same(s, n) /\ n.pendingSave = s.pendingSave /\ n.lock = s.lock /\ n.call = s.call
             /\ n.asked = s.asked /\ n.reads[x] = q /\ \A y \in Slots \ {x} : n.reads[y] = s.reads[y]
  BY <1>0 DEF Typed, Store, Same
<1>3. ASSUME ReadHead(c, x) PROVE KeptInv'
  <2> DEFINE q == [r EXCEPT !.st = "rows", !.rev = revision, !.closure = closure]
             n == [s EXCEPT !.reads[x] = q]
  <2>0. session[c] /\ revision # 0
    BY <1>0
  <2>1. r.st = "asked" /\ store' = [store EXCEPT ![c] = n] /\ UNCHANGED serverVars
    BY <1>3, <2>0 DEF ReadHead, serverVars
  <2>2. closure \in SUBSET Ops
    BY TypeParts DEF ServerTypes
  <2>3. q \in Read
    BY <1>0, <2>2 DEF Read
  <2>4. /\ q.rev = revision /\ q.seen = {} /\ q.closure = cl
        /\ q.dirty = r.dirty /\ ~q.orphan
    BY <1>0, <1>1, <2>1 DEF Read, ReadInv
  <2>5. s.revision \in Nat /\ s.revision <= revision /\ s.call.base \in Nat
    BY <1>0 DEF Typed, Store, StoreInv, Fresh, Call
  <2>6. s.call.kind \in {"closure", "start"} /\ s.call.st = "ok" /\ s.call.rev = v.revision
          => q.rev # s.call.base
    BY <1>0, <2>4, <2>5 DEF Kept, AnchorInv
  <2>7. "start" \notin Requests /\ s.call.kind = "reload" /\ s.call.why = "cycles"
          => s.revisionEnConflicto < q.rev
    BY <1>0, <2>4 DEF Kept, NoticeInv
  <2>8. /\ Same(s, n) /\ n.pendingSave = s.pendingSave /\ n.lock = s.lock /\ n.call = s.call
        /\ n.asked = s.asked /\ n.reads[x] = q /\ \A y \in Slots \ {x} : n.reads[y] = s.reads[y]
    BY <1>2
  <2> HIDE DEF q, n, s, v, cl
  <2>9. Kept(v, cl, n)
    BY <1>0, <2>3, <2>4, <2>5, <2>6, <2>7, <2>8, ReadsKept DEF r
  <2> QED BY <2>1, <2>9, KeptStep DEF v, cl
<1>4. ASSUME NEW t \in Tables, ReadTable(c, x, t) PROVE KeptInv'
  <2> DEFINE last == Tables \subseteq r.seen \cup {t}
             q == [r EXCEPT !.got[t] = rows[t], !.seen = r.seen \cup {t},
                            !.st = IF last THEN "done" ELSE "rows"]
             n == [s EXCEPT !.reads[x] = q]
  <2>1. r.st = "rows" /\ store' = [store EXCEPT ![c] = n] /\ UNCHANGED serverVars
    BY <1>0, <1>4 DEF ReadTable, serverVars, Typed, Store
  <2>2. rows[t] \in SUBSET Ops /\ {t} \subseteq Tables
    BY TypeParts DEF ServerTypes
  <2>3. q \in Read
    BY <1>0, <2>2 DEF Read
  <2>4. /\ q.rev = r.rev /\ q.closure = r.closure /\ q.seen = r.seen \cup {t}
        /\ q.got = [r.got EXCEPT ![t] = rows[t]] /\ q.dirty = r.dirty /\ ~q.orphan
    BY <1>0, <1>1, <2>1 DEF Read
  <2>5. r.got \in [Tables -> SUBSET Ops] /\ r.seen \subseteq Tables /\ Brought(r)
    BY <1>0, <2>1 DEF Read, Brought
  <2>6. BadOps = {} => \A u \in q.seen : q.got[u] \subseteq v.rows[u]
    BY <1>0, <2>4, <2>5 DEF Kept, ScreenInv
  <2>7. /\ r.rev = v.revision => r.closure = cl
        /\ s.call.kind \in {"closure", "start"} /\ s.call.st = "ok" /\ s.call.rev = v.revision
           /\ r.rev = s.call.base => r.closure \cup s.call.op = cl
    BY <1>0, <2>5 DEF Kept, AnchorInv
  <2>8. x = "converge" /\ s.call.kind = "reload" =>
          /\ "start" \notin Requests /\ s.call.why = "cycles" => s.revisionEnConflicto < r.rev
          /\ Requests = {} => s.revision <= r.rev
    BY <1>0, <2>5 DEF Kept, NoticeInv, SteadyInv
  <2>9. /\ Same(s, n) /\ n.pendingSave = s.pendingSave /\ n.lock = s.lock /\ n.call = s.call
        /\ n.asked = s.asked /\ n.reads[x] = q /\ \A y \in Slots \ {x} : n.reads[y] = s.reads[y]
    BY <1>2
  <2> HIDE DEF q, n, s, v, cl, r
  <2>10. /\ BadOps = {} => \A u \in q.seen : q.got[u] \subseteq v.rows[u]
         /\ q.rev = v.revision => q.closure = cl
         /\ s.call.kind \in {"closure", "start"} /\ s.call.st = "ok"
            /\ s.call.rev = v.revision /\ q.rev = s.call.base
              => q.closure \cup s.call.op = cl
         /\ x = "converge" /\ s.call.kind = "reload" =>
              /\ "start" \notin Requests /\ s.call.why = "cycles"
                   => s.revisionEnConflicto < q.rev
              /\ Requests = {} => s.revision <= q.rev
    BY <2>4, <2>6, <2>7, <2>8
  <2>11. ~q.orphan /\ (x \in LiveSlots /\ s.reads[x].dirty => q.dirty)
    BY <2>4 DEF r
  <2>12. Kept(v, cl, n)
    BY <1>0, <2>3, <2>9, <2>10, <2>11, ReadsKept
  <2> QED BY <2>1, <2>12, KeptStep DEF v, cl
<1> QED BY <1>3, <1>4

-----------------------------------------------------------------------------
(* Kept always, and what it is for.                                        *)

LEMMA InitKept == Settled /\ Init => KeptInv
<1> SUFFICES ASSUME Settled, Init, NEW c \in Clients PROVE Kept(Server, closure, store[c])
  BY DEF KeptInv
<1> DEFINE s == store[c]
<1>1. revision = 1 /\ Server.revision = 1
  BY DEF Init, Settled, Server
<1>2. /\ s.data = Seed /\ s.revision = 0 /\ s.pendingSave = {} /\ s.lock = "free"
      /\ s.call = NoCall /\ s.asked = {} /\ ~s.sinGuardar /\ ~s.convergenciaPendiente
      /\ s.revisionEnConflicto = 0 /\ \A x \in Slots : s.reads[x] = NoRead
  BY DEF Init
<1>3. NoRead.st = "idle" /\ ~Brought(NoRead) /\ NoRead.dirty
  BY DEF NoRead, Brought
<1>4. Reached(Server, Seed.rows)
  BY DEF Reached, Seed
<1> HIDE DEF s
<1>5. Bare(Server, closure, s)
  BY <1>1, <1>2, <1>3, <1>4, SlotsHave DEF Bare
<1>6. Ready(Server, closure, s)
  BY <1>2, <1>4, <1>5 DEF Ready, Accounted
<1>7. Kept(Server, closure, s)
  BY <1>2, <1>6, NoCallFields, RestedKept
<1> QED BY <1>7 DEF s

LEMMA NextKept == Settled /\ TypeOK /\ Inv /\ KeptInv /\ [Next]_vars => KeptInv'
<1> SUFFICES ASSUME Settled, TypeOK, Inv, KeptInv, [Next]_vars PROVE KeptInv'
  OBVIOUS
<1>1. ASSUME NEW c \in Clients, WriteStep(c) PROVE KeptInv'
  <2>1. ServeWrite(c) => KeptInv'
    BY AcceptKept, RefuseKept
  <2> QED BY <1>1, <2>1, AnswerKept DEF WriteStep
<1>2. ASSUME NEW c \in Clients, ConvergeStep(c) PROVE KeptInv'
  BY <1>2, SlotsHave, GetKept, ReloadKept DEF ConvergeStep
<1>3. ASSUME NEW c \in Clients, HydrateStep(c) PROVE KeptInv'
  BY <1>3, SlotsHave, GetKept, HydrateKept DEF HydrateStep
<1>4. ASSUME NEW c \in Clients, StreamStep(c) PROVE KeptInv'
  BY <1>4, StreamKept
<1>5. ASSUME NEW c \in Clients, NEW x \in LiveSlots, LiveStep(c, x) PROVE KeptInv'
  BY <1>5, SlotsHave, GetKept, LiveKept DEF LiveStep
<1>6. ASSUME NEW c \in Clients, Outside(c) PROVE KeptInv'
  <2>1. Hydrate(c) \/ Login(c) \/ Logout(c) \/ Revoke(c) => KeptInv'
    BY HydrateKept, StreamKept
  <2>2. \A o \in Ops : Edit(c, o) \/ (\E kind \in Requests : Request(c, kind, o)) => KeptInv'
    BY UserKept
  <2>3. ServeBlocked(c) => KeptInv'
    BY RefuseKept
  <2>4. WriteLost(c) \/ ReloadLost(c) \/ HydrateLost(c) \/ StreamDrops(c) => KeptInv'
    BY WriteLostKept, ReloadKept, HydrateKept, StreamKept
  <2>5. \A x \in LiveSlots : LiveLost(c, x) => KeptInv'
    BY LiveKept
  <2> QED BY <1>6, <2>1, <2>2, <2>3, <2>4, <2>5 DEF Outside
<1>7. CASE UNCHANGED vars
  BY <1>7 DEF vars, KeptInv, Server
<1> QED BY <1>1, <1>2, <1>3, <1>4, <1>5, <1>6, <1>7, AloneKept DEF Next

LEMMA KeptInvariant == ASSUME Settled PROVE Spec => [](TypeOK /\ Inv /\ KeptInv)
<1>1. Init => KeptInv
  BY InitKept
<1>2. TypeOK /\ Inv /\ KeptInv /\ [Next]_vars => KeptInv'
  BY NextKept
<1> QED BY <1>1, <1>2, Invariant, PTL DEF Spec

\* When the queue of store.ts rests, whatever was typed has reached the server, is
\* marked unsaved or is owed to the reconciliation of a conflict, and no snapshot or
\* exclusive write waits for nobody (where no save is refused with 422, see README).
THEOREM QueueLeavesNothing == ASSUME Settled, BadOps = {} PROVE Spec => []NothingStranded
<1>1. TypeOK /\ Inv /\ KeptInv => NothingStranded
  <2> SUFFICES ASSUME TypeOK, Inv, KeptInv, NEW c \in Clients, Idle(store[c])
               PROVE  /\ store[c].pendingSave = {} /\ store[c].asked = {}
                      /\ \/ store[c].sinGuardar \/ store[c].convergenciaPendiente
                         \/ EditsOf(store[c].data) \subseteq Stored
    BY DEF NothingStranded
  <2> DEFINE s == store[c]
  <2>1. StoreInv(Server, s) /\ Kept(Server, closure, s)
    BY ClientFacts DEF KeptInv
  <2>2. s.call.kind = "none"
    BY <2>1 DEF StoreInv, Idle
  <2>3. s.pendingSave = {} /\ s.asked = {}
    BY <2>1 DEF Kept, QueueInv, Idle
  <2>4. Reached(Server, s.data.rows) \/ s.sinGuardar \/ s.convergenciaPendiente
    BY <2>1, <2>2, <2>3 DEF Kept, ScreenInv, Carried
  <2>5. Reached(Server, s.data.rows) => EditsOf(s.data) \subseteq Stored
    BY DEF Reached, EditsOf, Stored, Server
  <2> QED BY <2>3, <2>4, <2>5
<1> QED BY <1>1, KeptInvariant, PTL

\* A revision stands for one ledger (BG-088): a client at rest that owes nothing and
\* knows the server's revision shows the server's tables and its declarations.
THEOREM RevisionStandsForLedger ==
  ASSUME Settled, BadOps = {} PROVE Spec => []SameRevisionSameLedger
<1>1. TypeOK /\ Inv /\ KeptInv => SameRevisionSameLedger
  <2> SUFFICES ASSUME TypeOK, Inv, KeptInv, NEW c \in Clients, Idle(store[c]),
                      ~store[c].sinGuardar, ~store[c].convergenciaPendiente,
                      store[c].revision = revision
               PROVE  store[c].data = [rows |-> rows, closure |-> closure]
    BY DEF SameRevisionSameLedger
  <2> DEFINE s == store[c]
  <2>1. StoreInv(Server, s) /\ Kept(Server, closure, s) /\ s.data \in Data
    BY ClientFacts DEF KeptInv
  <2>2. revision \in Nat /\ rowsRev \in Nat /\ rowsRev <= revision /\ rows \in [Tables -> SUBSET Ops]
    BY TypeParts DEF ServerTypes
  <2>3. Reached(Server, s.data.rows)
    BY <2>1 DEF StoreInv, Idle, Kept, QueueInv, ScreenInv, Carried
  <2>4. \A t \in Tables : rows[t] \subseteq s.data.rows[t] /\ s.data.rows[t] \subseteq rows[t]
    BY <2>1, <2>2, <2>3 DEF StoreInv, Fresh, Reached, Server
  <2>5. s.data.rows \in [Tables -> SUBSET Ops]
    BY <2>1 DEF Data
  <2>6. s.data.rows = rows
    <3>1. \A t \in Tables : s.data.rows[t] = rows[t]
      BY <2>4
    <3> HIDE DEF s
    <3> QED BY <2>2, <2>5, <3>1
  <2>7. s.data.closure = closure
    BY <2>1 DEF Kept, AnchorInv, Server
  <2> QED BY <2>1, <2>6, <2>7 DEF Data
<1> QED BY <1>1, KeptInvariant, PTL

\* A debt is on screen as a fixed notice as long as it lasts: no load, no late answer
\* and no other notice takes it down (but for the reload after POST /ledger/start,
\* see README).
THEOREM DebtsAnnounced == ASSUME Settled, "start" \notin Requests PROVE Spec => []DebtAnnounced
<1>1. KeptInv => DebtAnnounced
  BY DEF KeptInv, Kept, NoticeInv, DebtAnnounced
<1> QED BY <1>1, KeptInvariant, PTL

-----------------------------------------------------------------------------
(* Nothing in silence.                                                     *)

\* What the server has of every edit on screen no load can erase.
LEMMA ReachedErased ==
  ASSUME NEW s, NEW r, NEW told, Reached(Server, s.data.rows)
  PROVE  Erased(s, r, told) = {}
BY DEF Reached, Server, Erased, EditsOf, Stored

LEMMA ToldErased ==
  ASSUME NEW s, NEW r, s.data \in Data
  PROVE  Erased(s, r, Ops) = {}
BY DEF Erased, EditsOf, Data

\* Adopting a load is the only way to take an edit off the screen.
LEMMA SilentSteps ==
  ASSUME TypeOK, Inv, KeptInv, NEW c \in Clients,
         BadOps = {}, "cycles" \notin Requests, "blocked" \notin Faults
  PROVE  /\ ReloadOk(c) \/ HydrateOk(c) => silent' = silent
         /\ \A x \in LiveSlots : LiveOk(c, x) => silent' = silent
<1> DEFINE s == store[c]
           v == Server
<1>0. /\ Typed(s) /\ StoreInv(v, s) /\ Kept(v, closure, s) /\ s.data \in Data
      /\ QueueInv(s) /\ ScreenInv(v, s)
  BY ClientFacts DEF KeptInv, Kept
<1>1. ASSUME NEW x \in Slots
      PROVE  LET e == EndRead(s, x) IN
             /\ Same(s, e) /\ e.pendingSave = s.pendingSave /\ e.lock = s.lock
  BY <1>0, EndReadFields
<1>2. ASSUME ReloadOk(c) PROVE silent' = silent
  <2>1. /\ s.call.kind = "reload"
        /\ silent' = silent \cup Erased(s, s.reads["converge"], Told(s, s.reads["converge"]))
    BY <1>2 DEF ReloadOk, Reloading
  <2>2. s.call.why = "conflict"
    BY <1>0, <2>1 DEF QueueInv
  <2>3. Told(s, s.reads["converge"]) = Ops
    BY <2>2 DEF Told
  <2> QED BY <1>0, <2>1, <2>3, ToldErased
<1>3. ASSUME NEW x \in LiveSlots, LiveOk(c, x) PROVE silent' = silent
  <2> DEFINE r == s.reads[x]
             e == EndRead(s, x)
             told == IF e.convergenciaPendiente THEN Ops ELSE {}
  <2>1. silent' = IF Discarded(e, r) THEN silent ELSE silent \cup Erased(e, r, told)
    BY <1>3 DEF LiveOk
  <2>2. e.data = s.data
    BY <1>1, SlotsHave DEF Same
  <2>3. ~Discarded(e, r) => ~r.dirty
    BY DEF Discarded
  <2> HIDE DEF e, told, v
  <2>4. ~Discarded(e, r) => Reached(v, e.data.rows)
    BY <1>0, <2>2, <2>3 DEF ScreenInv
  <2> QED BY <2>1, <2>4, ReachedErased DEF v
<1>4. ASSUME HydrateOk(c) PROVE silent' = silent
  <2> DEFINE r == s.reads["hydrate"]
             e == EndRead(s, "hydrate")
             told == IF e.convergenciaPendiente THEN Ops ELSE {}
  <2>1. /\ silent' = IF HydrateYields(e, r) \/ Late(e, r) THEN silent ELSE silent \cup Erased(e, r, told)
        /\ r.st = "done"
    BY <1>4 DEF HydrateOk
  <2>2. /\ e.data = s.data /\ e.sinGuardar = s.sinGuardar /\ e.lock = s.lock
        /\ e.convergenciaPendiente = s.convergenciaPendiente /\ e.pendingSave = s.pendingSave
    BY <1>1, SlotsHave DEF Same
  <2>3. r.first => ~s.hydrated
    BY <1>0, <2>1 DEF StoreInv
  <2> HIDE DEF e
  <2>4. ASSUME ~HydrateYields(e, r)
        PROVE  s.pendingSave = {} /\ s.call.kind = "none" /\ ~s.sinGuardar
    <3>1. CASE r.first
      BY <1>0, <2>3, <3>1 DEF StoreInv, NothingBeforeHydrate
    <3>2. CASE ~r.first
      BY <1>0, <2>2, <2>4, <3>2 DEF HydrateYields, StoreInv
    <3> QED BY <3>1, <3>2
  <2>5. ~HydrateYields(e, r) => Reached(v, s.data.rows) \/ s.convergenciaPendiente
    BY <1>0, <2>4 DEF ScreenInv, Carried
  <2>6. ~HydrateYields(e, r) => Erased(e, r, told) = {}
    <3>1. CASE s.convergenciaPendiente
      BY <1>0, <2>2, <3>1, ToldErased
    <3>2. CASE ~s.convergenciaPendiente
      BY <2>2, <2>5, <3>2, ReachedErased
    <3> QED BY <3>1, <3>2
  <2> QED BY <2>1, <2>6
<1> QED BY <1>2, <1>3, <1>4

\* Every other step leaves the history of silent losses alone.
LEMMA QuietSteps ==
  ASSUME NEW c \in Clients
  PROVE  /\ WriteStep(c) => silent' = silent
         /\ ConvergeStep(c) => silent' = silent \/ ReloadOk(c)
         /\ HydrateStep(c) => silent' = silent \/ HydrateOk(c)
         /\ \A x \in LiveSlots : LiveStep(c, x) => silent' = silent \/ LiveOk(c, x)
         /\ StreamStep(c) \/ Outside(c) => silent' = silent
         /\ \A k \in abandoned : ServeAbandoned(k) => silent' = silent
         /\ \A o \in Ops : ExternalWrite(o) => silent' = silent
<1>1. WriteStep(c) => silent' = silent
  BY DEF WriteStep, ServeWrite, SaveOk, SaveConflict, SaveRejected, RequestOk, CyclesOk,
         RequestConflict, RequestBlocked, RequestRejected, WriteUnauthorized, StoreOnly
<1>2. \A x, t : ReadHead(c, x) \/ ReadTable(c, x, t) => silent' = silent
  BY DEF ReadHead, ReadTable
<1>3. ReloadOrphan(c) \/ ReloadEmpty(c) \/ ReloadUnauthorized(c) => silent' = silent
  BY DEF ReloadOrphan, ReloadEmpty, ReloadUnauthorized, Expire, StoreOnly
<1>4. HydrateEmpty(c) \/ ServeSeed(c) \/ HydrateSeeded(c) \/ HydrateUnauthorized(c) => silent' = silent
  BY DEF HydrateEmpty, ServeSeed, HydrateSeeded, HydrateUnauthorized, Expire, StoreOnly
<1>5. \A x : LiveEmpty(c, x) \/ LiveUnauthorized(c, x) \/ LiveLost(c, x) => silent' = silent
  BY DEF LiveEmpty, LiveUnauthorized, LiveLost, Expire, StoreOnly
<1>6. StreamStep(c) => silent' = silent
  BY DEF StreamStep, Deliver, StreamOpens, StreamReopens
<1>7. Hydrate(c) \/ Login(c) \/ Logout(c) \/ Revoke(c) => silent' = silent
  BY DEF Hydrate, Login, Logout, Revoke
<1>8. \A o : Edit(c, o) \/ (\E kind : Request(c, kind, o)) => silent' = silent
  BY DEF Edit, Request
<1>9. ServeBlocked(c) \/ WriteLost(c) \/ ReloadLost(c) \/ HydrateLost(c) \/ StreamDrops(c) => silent' = silent
  BY DEF ServeBlocked, WriteLost, ReloadLost, HydrateLost, StreamDrops
<1>10. ConvergeStep(c) => silent' = silent \/ ReloadOk(c)
  BY <1>2, <1>3 DEF ConvergeStep
<1>11. HydrateStep(c) => silent' = silent \/ HydrateOk(c)
  BY <1>2, <1>4 DEF HydrateStep
<1>12. \A x \in LiveSlots : LiveStep(c, x) => silent' = silent \/ LiveOk(c, x)
  BY <1>2, <1>5 DEF LiveStep
<1>13. Outside(c) => silent' = silent
  BY <1>5, <1>7, <1>8, <1>9 DEF Outside
<1>14. /\ \A k : ServeAbandoned(k) => silent' = silent
       /\ \A o : ExternalWrite(o) => silent' = silent
  BY DEF ServeAbandoned, ExternalWrite
<1> QED BY <1>1, <1>6, <1>10, <1>11, <1>12, <1>13, <1>14

\* "Nothing in silence" (BG-010, BG-052, BG-081): no load erases from the screen what
\* was typed and the server lacks unless a toast says so (where nothing is refused
\* with 422, no calendar is changed and no closure is blocked, see README).
THEOREM NothingInSilence ==
  ASSUME Settled, BadOps = {}, "cycles" \notin Requests, "blocked" \notin Faults
  PROVE  Spec => []NoSilentLoss
<1>1. Init => NoSilentLoss
  BY DEF Init, NoSilentLoss
<1>2. TypeOK /\ Inv /\ KeptInv /\ NoSilentLoss /\ [Next]_vars => NoSilentLoss'
  <2> SUFFICES ASSUME TypeOK, Inv, KeptInv, [Next]_vars PROVE silent' = silent
    BY DEF NoSilentLoss
  <2>1. CASE UNCHANGED vars
    BY <2>1 DEF vars
  <2>2. ASSUME NEW c \in Clients,
               \/ WriteStep(c) \/ ConvergeStep(c) \/ HydrateStep(c) \/ StreamStep(c) \/ Outside(c)
               \/ \E x \in LiveSlots : LiveStep(c, x)
        PROVE  silent' = silent
    BY <2>2, QuietSteps, SilentSteps
  <2>3. ASSUME \/ \E k \in abandoned : ServeAbandoned(k)
               \/ \E o \in Ops : ExternalWrite(o)
        PROVE  silent' = silent
    BY <2>3 DEF ServeAbandoned, ExternalWrite
  <2> QED BY <2>1, <2>2, <2>3 DEF Next
<1> QED BY <1>1, <1>2, KeptInvariant, PTL DEF Spec

-----------------------------------------------------------------------------
(* Never back.                                                             *)

Forward == \A c \in Clients : store[c].hydrated => store'[c].revision >= store[c].revision

LEMMA ForwardStep ==
  ASSUME TypeOK, NEW c \in Clients, NEW n, store' = [store EXCEPT ![c] = n],
         store[c].hydrated => n.revision >= store[c].revision
  PROVE  Forward
<1>1. \A d \in Clients : store[d].revision \in Nat
  BY DEF TypeOK, Store
<1>2. store'[c] = n /\ \A d \in Clients \ {c} : store'[d] = store[d]
  BY DEF TypeOK
<1> QED BY <1>1, <1>2 DEF Forward

LEMMA ReleaseRevision ==
  ASSUME NEW s, Typed(s), SnapshotsCurrent(s)
  PROVE  Release(s).revision = s.revision
BY ReleaseOnward DEF Onward, Same

LEMMA StartConvergeRevision ==
  ASSUME NEW s, Typed(s)
  PROVE  StartConverge(s).revision = s.revision
<1> DEFINE m == [s EXCEPT !.revisionEnConflicto =
                   IF s.convergenciaPendiente THEN @ ELSE s.revision]
<1>1. Typed(m) /\ m.revision = s.revision
  BY DEF Typed, Store
<1>2. StartConverge(s) = StartReload(m, "conflict")
  BY DEF StartConverge
<1> HIDE DEF m
<1> QED BY <1>1, <1>2, StartReloadFields DEF Same

LEMMA ResyncRevision ==
  ASSUME NEW s, Typed(s), s.lock = "free" => s.call.kind = "none", NEW owed \in BOOLEAN
  PROVE  Resync(s, owed).revision = s.revision
<1>1. CASE s.lock = "free" /\ s.pendingSave = {}
  BY <1>1, ResyncOnward DEF Onward, Same
<1>2. CASE ~(s.lock = "free" /\ s.pendingSave = {})
  BY <1>2, ResyncNoted DEF Same
<1> QED BY <1>1, <1>2

LEMMA PersistRevision ==
  ASSUME NEW s, Typed(s), NEW d \in Data, d = s.data
  PROVE  Persist(s, d).revision = s.revision
<1>1. CASE s.lock = "free"
  BY <1>1, PersistOnward DEF Onward, Same
<1>2. CASE s.lock # "free"
  BY <1>2 DEF Persist, Typed, Store
<1> QED BY <1>1, <1>2

LEMMA AnswerForward ==
  ASSUME TypeOK, Inv, KeptInv, Requests = {}, NEW c \in Clients
  PROVE  WriteStep(c) \/ WriteLost(c) \/ ServeBlocked(c) => Forward
<1> DEFINE s == store[c]
           k == s.call
<1>0. /\ Typed(s) /\ StoreInv(Server, s) /\ Kept(Server, closure, s) /\ QueueInv(s)
      /\ k.kind # "none" => Core(Server, s)
      /\ s.revision \in Nat /\ k \in Call /\ k.kind \notin {"closure", "start", "cycles"}
  BY ClientFacts, HydratedCore, ConstantsAssumption DEF KeptInv, Kept, QueueInv, ConstantsAssumption
<1>1. ASSUME ServeWrite(c) \/ ServeBlocked(c) PROVE Forward
  <2>1. PICK st, rev : Answer(c, st, rev)
    BY <1>1 DEF ServeWrite, ServeBlocked
  <2> DEFINE n == [s EXCEPT !.call = [k EXCEPT !.st = st, !.rev = rev]]
  <2>2. store' = [store EXCEPT ![c] = n] /\ n.revision = s.revision
    BY <1>0, <2>1 DEF Answer, Typed, Store
  <2> HIDE DEF n
  <2>3. n.revision >= s.revision
    BY <1>0, <2>2
  <2> QED BY <2>2, <2>3, ForwardStep
<1>2. ASSUME SaveOk(c) PROVE Forward
  <2> DEFINE e == IF s.storageError \in {"network", "conflict"} THEN "none" ELSE s.storageError
             n == [s EXCEPT !.revision = s.call.rev, !.sinGuardar = FALSE,
                            !.convergenciaPendiente = FALSE, !.storageError = e]
  <2>1. e \in {"none", "network", "malformed", "conflict"}
    BY <1>0 DEF Typed, Store
  <2>2. k.kind = "put" /\ k.st = "ok" /\ store' = [store EXCEPT ![c] = Release(n)]
    BY <1>2 DEF SaveOk, Answered
  <2>3. n.revision = k.rev /\ k.rev = s.revision + 1
    BY <1>0, <2>2 DEF Typed, Store, QueueInv
  <2> HIDE DEF e, s
  <2>4. Typed(n) /\ Core(Server, n)
    BY <1>0, <2>1, <2>2, SavedCore
  <2> HIDE DEF n
  <2>5. Release(n).revision = s.revision + 1
    BY <2>3, <2>4, ReleaseRevision DEF Core, SnapshotsCurrent
  <2>6. Release(n).revision >= s.revision
    BY <1>0, <2>5
  <2> QED BY <2>2, <2>6, ForwardStep DEF s
<1>3. ASSUME SaveConflict(c) \/ SaveRejected(c) PROVE Forward
  <2> DEFINE n == [s EXCEPT !.pendingSave = {}]
  <2>1. \/ store' = [store EXCEPT ![c] = StartConverge(n)]
        \/ store' = [store EXCEPT ![c] = StartReload(n, "rejected")]
    BY <1>3 DEF SaveConflict, SaveRejected
  <2>2. Typed(n) /\ n.revision = s.revision
    BY <1>0 DEF Typed, Store
  <2> HIDE DEF n
  <2>3. StartConverge(n).revision = s.revision /\ StartReload(n, "rejected").revision = s.revision
    BY <2>2, StartConvergeRevision, StartReloadFields DEF Same
  <2> QED BY <1>0, <2>1, <2>3, ForwardStep
<1>4. ~(\/ RequestOk(c) \/ CyclesOk(c) \/ RequestConflict(c)
        \/ RequestBlocked(c) \/ RequestRejected(c) \/ WriteUnauthorized(c))
  BY <1>0 DEF RequestOk, CyclesOk, RequestConflict, RequestBlocked, RequestRejected,
              WriteUnauthorized, Answered, StoreInv, CallInv
<1>5. ASSUME WriteLost(c) PROVE Forward
  <2> DEFINE e == IF s.convergenciaPendiente THEN "conflict" ELSE "network"
             n == [s EXCEPT !.sinGuardar = TRUE, !.storageError = e]
  <2>1. k.kind = "put" /\ store' = [store EXCEPT ![c] = Release(n)]
    BY <1>0, <1>5 DEF WriteLost
  <2>2. n.revision = s.revision
    BY <1>0 DEF Typed, Store
  <2>3. e \in {"none", "network", "malformed", "conflict"}
    OBVIOUS
  <2> HIDE DEF e, s
  <2>4. Typed(n) /\ Core(Server, n)
    BY <1>0, <2>1, <2>3, UnsavedCore
  <2> HIDE DEF n
  <2>5. Release(n).revision = s.revision
    BY <2>2, <2>4, ReleaseRevision DEF Core, SnapshotsCurrent
  <2>6. Release(n).revision >= s.revision
    BY <1>0, <2>5
  <2> QED BY <2>1, <2>6, ForwardStep DEF s
<1> QED BY <1>1, <1>2, <1>3, <1>4, <1>5 DEF WriteStep

\* A GET changes nothing but its own slot.
LEMMA GetForward ==
  ASSUME TypeOK, NEW c \in Clients, NEW x \in Slots
  PROVE  /\ ReadHead(c, x) => Forward
         /\ \A t \in Tables : ReadTable(c, x, t) => Forward
<1> DEFINE s == store[c]
<1>0. s \in Store /\ s.revision \in Nat
  BY DEF TypeOK, Store
<1>1. ASSUME NEW q, store' = [store EXCEPT ![c] = [s EXCEPT !.reads[x] = q]] PROVE Forward
  <2> DEFINE n == [s EXCEPT !.reads[x] = q]
  <2>1. n.revision = s.revision
    BY <1>0 DEF Store
  <2> HIDE DEF n
  <2>2. n.revision >= s.revision
    BY <1>0, <2>1
  <2> QED BY <1>1, <2>2, ForwardStep DEF n
<1>2. ReadHead(c, x) => Forward
  BY <1>1 DEF ReadHead
<1>3. ASSUME NEW t \in Tables, ReadTable(c, x, t) PROVE Forward
  BY <1>1, <1>3 DEF ReadTable
<1> QED BY <1>2, <1>3

LEMMA ReloadForward ==
  ASSUME TypeOK, Inv, KeptInv, Requests = {}, NEW c \in Clients
  PROVE  ConvergeStep(c) \/ ReloadLost(c) => Forward
<1> DEFINE s == store[c]
           r == s.reads["converge"]
           e == EndRead(s, "converge")
<1>0. /\ Typed(s) /\ StoreInv(Server, s) /\ r \in Read /\ ReadInv(Server, r) /\ Typed(e)
      /\ StoreInv(Server, e) /\ Kept(Server, closure, s) /\ SteadyInv(s) /\ QueueInv(s)
      /\ s.revision \in Nat /\ r.rev \in Nat
  BY ReadFacts, ClientFacts, SlotsHave DEF KeptInv, Kept, Read
<1>1. e.revision = s.revision /\ e.call = s.call /\ e.hydrated = s.hydrated
  BY <1>0, SlotsHave, EndReadFields DEF Same
<1>2. ASSUME ReloadOk(c) PROVE Forward
  <2> DEFINE q == [e EXCEPT !.pendingSave = {}, !.sinGuardar = FALSE]
             a == Adopt(q, r)
             n == CASE s.call.why = "conflict" -> Converged(a)
                    [] s.call.why = "cycles"   -> [a EXCEPT !.storageError = "none"]
                    [] OTHER                   -> a
  <2>1. s.call.kind = "reload" /\ r.st = "done" /\ store' = [store EXCEPT ![c] = Release(n)]
    BY <1>2 DEF ReloadOk, Reloading
  <2>2. s.revision <= r.rev
    BY <1>0, <2>1 DEF SteadyInv, Brought
  <2>3. Typed(q) /\ q.pendingSave = {}
    BY <1>0 DEF Typed, Store
  <2> HIDE DEF e, q
  <2>4. Typed(a) /\ a.pendingSave = {} /\ a.revision = r.rev
    BY <1>0, <2>3, AdoptType, AdoptFields
  <2> HIDE DEF a, s, r
  <2>5. Typed(n)
    BY <2>4, NoticeTypes, ConvergedType
  <2>6. n.pendingSave = {} /\ n.revision = r.rev
    BY <2>4 DEF Converged, Typed, Store
  <2> HIDE DEF n
  <2>7. Release(n).revision >= s.revision
    BY <1>0, <2>2, <2>5, <2>6, ReleaseRevision DEF SnapshotsCurrent
  <2> QED BY <2>1, <2>7, ForwardStep DEF s
<1>3. ASSUME ReloadLost(c) PROVE Forward
  <2>1. PICK notice \in {"network", "malformed"} :
           store' = [store EXCEPT ![c] = Release(ReloadMissed(e, notice))]
    BY <1>3 DEF ReloadLost
  <2> DEFINE n == ReloadMissed(e, notice)
  <2>2. Typed(n) /\ Keeps(e, n)
    BY <1>0, ReloadMissedType, MissedKeeps
  <2> HIDE DEF e, n
  <2>3. \A d \in n.pendingSave : d.rows = n.data.rows
    BY <1>0, <2>2 DEF Keeps, StoreInv
  <2>4. Release(n).revision = n.revision
    BY <2>2, <2>3, ReleaseRevision DEF SnapshotsCurrent
  <2>5. Release(n).revision >= s.revision
    BY <1>0, <1>1, <2>2, <2>4 DEF Keeps
  <2> QED BY <2>1, <2>5, ForwardStep DEF n
<1>4. ~(ReloadOrphan(c) \/ ReloadEmpty(c) \/ ReloadUnauthorized(c))
  <2>1. ~ReloadOrphan(c)
    BY <1>0, SlotsHave DEF ReloadOrphan, QueueInv
  <2> QED BY <1>0, <2>1 DEF ReloadEmpty, ReloadUnauthorized, Reloading, ReadInv
<1> QED BY <1>2, <1>3, <1>4, SlotsHave, GetForward DEF ConvergeStep

LEMMA LiveForward ==
  ASSUME TypeOK, Inv, NEW c \in Clients, NEW x \in LiveSlots
  PROVE  LiveStep(c, x) \/ LiveLost(c, x) => Forward
<1> DEFINE s == store[c]
           r == s.reads[x]
           e == EndRead(s, x)
<1>0. /\ Typed(s) /\ r \in Read /\ ReadInv(Server, r) /\ Typed(e) /\ x \in Slots
      /\ s.revision \in Nat /\ r.rev \in Nat
  BY ReadFacts, ClientFacts, SlotsHave DEF Read
<1>1. e.revision = s.revision
  BY <1>0, EndReadFields DEF Same
<1>2. ASSUME LiveOk(c, x) PROVE Forward
  <2> DEFINE n == IF Discarded(e, r) THEN e ELSE Adopt(e, r)
  <2>1. store' = [store EXCEPT ![c] = n]
    BY <1>2 DEF LiveOk
  <2>2. Adopt(e, r).revision = r.rev
    BY <1>0, AdoptFields
  <2>3. ~Discarded(e, r) => ~(r.rev < s.revision)
    BY <1>1 DEF Discarded
  <2> HIDE DEF s, e, r
  <2>4. n.revision >= s.revision
    BY <1>0, <1>1, <2>2, <2>3
  <2> HIDE DEF n
  <2> QED BY <2>1, <2>4, ForwardStep DEF s
<1>3. ASSUME LiveLost(c, x) PROVE Forward
  <2> DEFINE n == [e EXCEPT !.storageError = "malformed"]
  <2>1. store' = [store EXCEPT ![c] = e] \/ store' = [store EXCEPT ![c] = n]
    BY <1>3 DEF LiveLost
  <2>2. n.revision = e.revision
    BY <1>0 DEF Typed, Store
  <2> HIDE DEF e, n
  <2>3. n.revision >= s.revision /\ e.revision >= s.revision
    BY <1>0, <1>1, <2>2
  <2> QED BY <2>1, <2>3, ForwardStep
<1>4. ~(LiveEmpty(c, x) \/ LiveUnauthorized(c, x))
  BY <1>0 DEF LiveEmpty, LiveUnauthorized, ReadInv
<1> QED BY <1>0, <1>2, <1>3, <1>4, GetForward DEF LiveStep

LEMMA HydrateForward ==
  ASSUME TypeOK, Inv, NEW c \in Clients
  PROVE  HydrateStep(c) \/ Hydrate(c) \/ HydrateLost(c) => Forward
<1> DEFINE s == store[c]
           r == s.reads["hydrate"]
           e == EndRead(s, "hydrate")
<1>0. /\ Typed(s) /\ StoreInv(Server, s) /\ r \in Read /\ ReadInv(Server, r) /\ Typed(e)
      /\ "hydrate" \in Slots /\ s.revision \in Nat /\ r.rev \in Nat
  BY ReadFacts, ClientFacts, SlotsHave DEF Read
<1>1. e.revision = s.revision /\ e.data = s.data
  BY <1>0, EndReadFields DEF Same
<1>2. ASSUME Hydrate(c) PROVE Forward
  <2> DEFINE n == StartRead(s, "hydrate")
  <2>1. store' = [store EXCEPT ![c] = n]
    BY <1>2 DEF Hydrate
  <2>2. n.revision = s.revision
    BY <1>0, StartReadFields
  <2> HIDE DEF n
  <2>3. n.revision >= s.revision
    BY <1>0, <2>2
  <2> QED BY <2>1, <2>3, ForwardStep
<1>3. ASSUME HydrateOk(c) PROVE Forward
  <2> DEFINE a == Adopt(e, r)
             m == [a EXCEPT !.hydrated = TRUE]
             n == IF HydrateYields(e, r) THEN HydrateGivesWay(e)
                  ELSE IF Late(e, r) THEN e ELSE m
  <2>1. store' = [store EXCEPT ![c] = n] /\ r.st = "done"
    BY <1>3 DEF HydrateOk
  <2>2. r.first => ~s.hydrated
    BY <1>0, <2>1 DEF StoreInv
  <2>3. Typed(a) /\ a.revision = r.rev
    BY <1>0, AdoptType, AdoptFields
  <2> HIDE DEF a
  <2>4. m.revision = r.rev
    BY <2>3 DEF Typed, Store
  <2>5. e.data \in Data
    BY <1>0 DEF Typed, Store
  <2> HIDE DEF e, m
  <2>6. HydrateGivesWay(e).revision = e.revision
    BY <1>0, <2>5, PersistRevision DEF HydrateGivesWay
  <2>7. s.hydrated /\ ~Late(e, r) => ~(r.rev < s.revision)
    BY <1>1, <2>2 DEF Late
  <2> HIDE DEF s, r
  <2>8. s.hydrated => n.revision >= s.revision
    BY <1>0, <1>1, <2>4, <2>6, <2>7
  <2> HIDE DEF n
  <2> QED BY <2>1, <2>8, ForwardStep DEF s
<1>4. ASSUME HydrateLost(c) PROVE Forward
  <2> DEFINE m == [e EXCEPT !.hydrated = TRUE]
             w == [e EXCEPT !.hydrated = TRUE, !.storageError = "malformed"]
  <2>1. r.st \notin {"seeding", "seeded", "unseeded"}
    BY <1>0 DEF ReadInv
  <2>2. \/ store' = [store EXCEPT ![c] = e]
        \/ store' = [store EXCEPT ![c] = m]
        \/ store' = [store EXCEPT ![c] = w]
    BY <1>4, <2>1 DEF HydrateLost
  <2>3. m.revision = e.revision /\ w.revision = e.revision
    BY <1>0 DEF Typed, Store
  <2> HIDE DEF e, m, w
  <2>4. e.revision >= s.revision /\ m.revision >= s.revision /\ w.revision >= s.revision
    BY <1>0, <1>1, <2>3
  <2> QED BY <2>2, <2>4, ForwardStep
<1>5. ~(HydrateEmpty(c) \/ ServeSeed(c) \/ HydrateSeeded(c) \/ HydrateUnauthorized(c))
  BY <1>0 DEF HydrateEmpty, ServeSeed, HydrateSeeded, HydrateUnauthorized, ReadInv
<1> QED BY <1>0, <1>2, <1>3, <1>4, <1>5, GetForward DEF HydrateStep

LEMMA UserForward ==
  ASSUME Settled, TypeOK, Inv, Requests = {}, NEW c \in Clients
  PROVE  /\ StreamStep(c) \/ StreamDrops(c) => Forward
         /\ Login(c) \/ Logout(c) \/ Revoke(c) => Forward
         /\ \A o \in Ops : Edit(c, o) \/ (\E kind \in Requests : Request(c, kind, o)) => Forward
<1> DEFINE s == store[c]
<1>0. Typed(s) /\ StoreInv(Server, s) /\ s.revision \in Nat /\ s.data \in Data /\ s.in
  BY ClientFacts
<1> DEFINE a == Resync(s, TRUE)
           b == Resync(s, FALSE)
<1>1. a.revision = s.revision /\ b.revision = s.revision
  BY <1>0, ResyncRevision DEF StoreInv
<1>2. ASSUME StreamStep(c) \/ StreamDrops(c) PROVE Forward
  <2>1. store' = store \/ store' = [store EXCEPT ![c] = a] \/ store' = [store EXCEPT ![c] = b]
    BY <1>2 DEF StreamStep, StreamDrops, Deliver, StreamOpens, StreamReopens
  <2>2. store' = store => store' = [store EXCEPT ![c] = s]
    BY DEF TypeOK
  <2> HIDE DEF a, b
  <2>3. a.revision >= s.revision /\ b.revision >= s.revision /\ s.revision >= s.revision
    BY <1>0, <1>1
  <2> QED BY <2>1, <2>2, <2>3, ForwardStep
<1>3. ~(Login(c) \/ Logout(c) \/ Revoke(c))
  BY <1>0 DEF Login, Logout, Revoke, Fault, Settled
<1>4. ASSUME NEW o \in Ops, Edit(c, o) PROVE Forward
  <2> DEFINE d == WithEdit(s.data, o)
             p == SetData(s, d)
             n == Persist(p, d)
  <2>1. store' = [store EXCEPT ![c] = n]
    BY <1>4 DEF Edit
  <2>2. d \in Data
    BY <1>0, DataTypes
  <2> HIDE DEF d
  <2>3. Typed(p) /\ p.revision = s.revision /\ p.data = d
    BY <1>0, <2>2, SetDataType, SetDataFields
  <2> HIDE DEF p
  <2>4. n.revision >= s.revision
    BY <1>0, <2>2, <2>3, PersistRevision
  <2> HIDE DEF n
  <2> QED BY <2>1, <2>4, ForwardStep
<1> QED BY <1>2, <1>3, <1>4

\* "Nunca hacia atras": no late answer, of a save, of a live reload, of a page's
\* hydration or of the reload of a conflict, takes a client to an older revision than
\* the one it has (where only saves are made, see README).
THEOREM NeverBack == ASSUME Settled, Requests = {} PROVE Spec => RevisionNeverBack
<1> DEFINE Step == \A c \in Clients : store[c].hydrated => store'[c].revision >= store[c].revision
<1>1. TypeOK /\ Inv /\ KeptInv /\ [Next]_vars => [Step]_vars
  <2> SUFFICES ASSUME TypeOK, Inv, KeptInv, Next PROVE Forward
    BY DEF Forward
  <2>1. ASSUME NEW c \in Clients,
               \/ WriteStep(c) \/ ConvergeStep(c) \/ HydrateStep(c) \/ StreamStep(c)
               \/ \E x \in LiveSlots : LiveStep(c, x)
        PROVE  Forward
    BY <2>1, AnswerForward, ReloadForward, HydrateForward, UserForward, LiveForward
  <2>2. ASSUME NEW c \in Clients, Outside(c) PROVE Forward
    <3>1. Hydrate(c) \/ Login(c) \/ Logout(c) \/ Revoke(c) => Forward
      BY HydrateForward, UserForward
    <3>2. \A o \in Ops : Edit(c, o) \/ (\E kind \in Requests : Request(c, kind, o)) => Forward
      BY UserForward
    <3>3. ServeBlocked(c) \/ WriteLost(c) \/ ReloadLost(c) \/ HydrateLost(c) \/ StreamDrops(c) => Forward
      BY AnswerForward, ReloadForward, HydrateForward, UserForward
    <3>4. \A x \in LiveSlots : LiveLost(c, x) => Forward
      BY LiveForward
    <3> QED BY <2>2, <3>1, <3>2, <3>3, <3>4 DEF Outside
  <2>3. ASSUME \/ \E k \in abandoned : ServeAbandoned(k)
               \/ \E o \in Ops : ExternalWrite(o)
        PROVE  Forward
    <3>1. store' = store /\ \A c \in Clients : store[c].revision \in Nat
      BY <2>3 DEF ServeAbandoned, ExternalWrite, TypeOK, Store
    <3> QED BY <3>1 DEF Forward
  <2> QED BY <2>1, <2>2, <2>3 DEF Next
<1> QED BY <1>1, KeptInvariant, PTL DEF Spec, RevisionNeverBack

===============================================================================

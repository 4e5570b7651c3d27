---------------------------- MODULE LedgerSyncTypes ----------------------------
(***************************************************************************)
(* LedgerSync keeps its types, for any clients, edits, tables and faults:  *)
(* every internal function of the store maps a well-typed store to one,    *)
(* and so does every action.                                               *)
(***************************************************************************)
EXTENDS LedgerSync, TLAPS

\* A well-typed store, with at most one snapshot waiting.
Typed(s) == s \in Store /\ \A d, e \in s.pendingSave : d = e

-----------------------------------------------------------------------------
(* Records and choices.                                                    *)

\* The member of a non-empty set that The picks is one of its members.
LEMMA TheIn ==
  ASSUME NEW S, S # {}
  PROVE  The(S) \in S
BY DEF The

\* The empty ledger, the idle request and the idle reload are well typed.
LEMMA EmptyTypes == Seed \in Data /\ NoCall \in Call /\ NoRead \in Read
<1>1. Seed \in Data
  BY DEF Seed, Data
<1>2. NoCall \in Call
  BY <1>1 DEF NoCall, Call
<1>3. NoRead \in Read
  BY DEF NoRead, Read, Seed
<1> QED BY <1>1, <1>2, <1>3

\* The marks a reload carries do not change its type.
LEMMA MarkType ==
  ASSUME NEW r \in Read
  PROVE  [r EXCEPT !.dirty = TRUE] \in Read /\ [r EXCEPT !.orphan = TRUE] \in Read
BY DEF Read

\* The converging and the hydrating reload have a slot of their own.
LEMMA SlotsHave ==
  "converge" \in Slots /\ "hydrate" \in Slots /\ LiveSlots \subseteq Slots
BY DEF Slots

\* A new live reload takes one of the live slots.
LEMMA LiveSlotType ==
  ASSUME NEW s
  PROVE  LiveSlot(s) \in LiveSlots
<1> DEFINE idle == {x \in LiveSlots : s.reads[x].st = "idle"}
<1>1. (IF idle # {} THEN idle ELSE LiveSlots) # {}
  BY ConstantsAssumption DEF ConstantsAssumption
<1> QED BY <1>1, TheIn DEF LiveSlot

\* An edit, or a declaration, of a well-typed ledger.
LEMMA DataTypes ==
  ASSUME NEW d \in Data, NEW o \in Ops, NEW op \in SUBSET Ops
  PROVE  WithEdit(d, o) \in Data /\ [d EXCEPT !.closure = @ \cup op] \in Data
BY DEF WithEdit, Data

\* What a reload brings is a ledger.
LEMMA LoadedType ==
  ASSUME NEW r \in Read
  PROVE  Loaded(r) \in Data
BY DEF Loaded, Read, Data

-----------------------------------------------------------------------------
(* The store's internal functions.                                         *)

LEMMA SetDataType ==
  ASSUME NEW s, Typed(s), NEW d \in Data
  PROVE  Typed(SetData(s, d))
<1> DEFINE marked == [x \in Slots |-> [s.reads[x] EXCEPT !.dirty = TRUE]]
<1>1. marked \in [Slots -> Read]
  BY MarkType DEF Store, Typed
<1> HIDE DEF marked
<1>2. Typed([s EXCEPT !.data = d, !.reads = marked])
  BY <1>1 DEF Store, Typed
<1> QED BY <1>2 DEF SetData, marked

LEMMA StartReadType ==
  ASSUME NEW s, Typed(s), NEW x \in Slots
  PROVE  Typed(StartRead(s, x))
<1> DEFINE r == [NoRead EXCEPT !.st = "asked", !.dirty = FALSE, !.orphan = FALSE,
                               !.first = ~s.hydrated]
<1>1. r \in Read
  BY EmptyTypes DEF Read, Store, Typed
<1> HIDE DEF r
<1>2. Typed([s EXCEPT !.reads[x] = r])
  BY <1>1 DEF Store, Typed
<1> QED BY <1>2 DEF StartRead, r

LEMMA EndReadType ==
  ASSUME NEW s, Typed(s), NEW x \in Slots
  PROVE  Typed(EndRead(s, x))
BY EmptyTypes DEF EndRead, Store, Typed

LEMMA DrainType ==
  ASSUME NEW s, Typed(s)
  PROVE  Typed(Drain(s))
<1> DEFINE put == [NoCall EXCEPT !.kind = "put", !.st = "sent", !.base = s.revision,
                                 !.data = The(s.pendingSave)]
<1>1. CASE s.pendingSave = {}
  BY <1>1 DEF Drain
<1>2. CASE s.pendingSave # {}
  <2>1. The(s.pendingSave) \in Data
    BY <1>2, TheIn DEF Store, Typed
  <2>2. put \in Call
    BY <2>1, EmptyTypes DEF Store, Call, Typed
  <2> HIDE DEF put
  <2>3. Typed([s EXCEPT !.lock = "drain", !.pendingSave = {}, !.call = put])
    BY <2>2 DEF Store, Typed
  <2> QED BY <1>2, <2>3 DEF Drain, put
<1> QED BY <1>1, <1>2

LEMMA PersistType ==
  ASSUME NEW s, Typed(s), NEW d \in Data
  PROVE  Typed(Persist(s, d))
<1>1. Typed([s EXCEPT !.pendingSave = {d}])
  BY DEF Store, Typed
<1> QED BY <1>1, DrainType DEF Persist

LEMMA StartReloadType ==
  ASSUME NEW s, Typed(s), NEW why \in {"conflict", "rejected", "cycles", "blocked"}
  PROVE  Typed(StartReload(s, why))
<1> DEFINE k == [NoCall EXCEPT !.kind = "reload", !.st = "sent", !.why = why,
                               !.base = s.revision, !.data = s.data]
<1>1. k \in Call
  BY EmptyTypes DEF Call, Store, Typed
<1> HIDE DEF k
<1>2. Typed([s EXCEPT !.call = k])
  BY <1>1 DEF Store, Typed
<1> QED BY <1>2, SlotsHave, StartReadType DEF StartReload, k

LEMMA StartConvergeType ==
  ASSUME NEW s, Typed(s)
  PROVE  Typed(StartConverge(s))
<1> DEFINE n == IF s.convergenciaPendiente THEN s.revisionEnConflicto ELSE s.revision
<1>1. Typed([s EXCEPT !.revisionEnConflicto = n])
  BY DEF Store, Typed
<1> QED BY <1>1, StartReloadType DEF StartConverge

LEMMA ResyncType ==
  ASSUME NEW s, Typed(s), NEW porReconexion \in BOOLEAN
  PROVE  Typed(Resync(s, porReconexion))
<1>1. Typed([s EXCEPT !.puestaAlDiaPendiente = @ \/ porReconexion])
  BY DEF Store, Typed
<1>2. Typed([s EXCEPT !.lock = "exclusive"])
  BY DEF Store, Typed
<1>3. LiveSlot(s) \in Slots /\ s.data \in Data
  BY LiveSlotType, SlotsHave DEF Store, Typed
<1> QED BY <1>1, <1>2, <1>3, StartConvergeType, PersistType, StartReadType DEF Resync

LEMMA StartRequestType ==
  ASSUME NEW s, Typed(s), s.asked # {}
  PROVE  Typed(StartRequest(s))
<1> DEFINE q == The(s.asked)
           k == [NoCall EXCEPT !.kind = q.kind, !.st = "sent", !.base = s.revision, !.op = q.op]
<1>1. q \in [kind : {"closure", "start", "cycles"}, op : SUBSET Ops]
  BY TheIn DEF Store, Typed
<1> HIDE DEF q
<1>2. k \in Call
  BY <1>1, EmptyTypes DEF Call, Store, Typed
<1> HIDE DEF k
<1>3. Typed([s EXCEPT !.lock = "exclusive", !.asked = {}, !.call = k])
  BY <1>2 DEF Store, Typed
<1> QED BY <1>3 DEF StartRequest, k, q

LEMMA ReleaseType ==
  ASSUME NEW s, Typed(s)
  PROVE  Typed(Release(s))
<1> DEFINE f == [s EXCEPT !.lock = "free", !.call = NoCall]
           h == [f EXCEPT !.puestaAlDiaPendiente = FALSE]
           g == IF f.pendingSave # {} THEN Drain(f)
                ELSE IF f.puestaAlDiaPendiente /\ ~(f.convergenciaPendiente /\ f.asked # {})
                     THEN Resync(h, TRUE) ELSE f
<1>1. Typed(f)
  BY EmptyTypes DEF Store, Typed
<1>2. Typed(h)
  BY <1>1 DEF Store, Typed
<1> HIDE DEF f, h
<1>3. Typed(g)
  BY <1>1, <1>2, DrainType, ResyncType
<1>4. Release(s) = IF g.lock = "free" /\ g.asked # {} THEN StartRequest(g) ELSE g
  BY DEF Release, f, h
<1> QED BY <1>3, <1>4, StartRequestType

LEMMA AlCargarType ==
  ASSUME NEW s, Typed(s), NEW rev \in Nat
  PROVE  Typed(AlCargar(s, rev))
<1>1. Typed([s EXCEPT !.storageError = "none"]) /\ Typed([s EXCEPT !.storageError = @])
  BY DEF Store, Typed
<1>2. Typed([s EXCEPT !.convergenciaPendiente = FALSE, !.storageError = "none"])
  BY DEF Store, Typed
<1> QED BY <1>1, <1>2 DEF AlCargar

LEMMA ForgetType ==
  ASSUME NEW s, Typed(s)
  PROVE  Typed(Forget(s))
<1> DEFINE f == SetData(s, Seed)
           orphans == [x \in Slots |-> [f.reads[x] EXCEPT !.orphan = TRUE]]
<1>1. Typed(f)
  BY EmptyTypes, SetDataType
<1> HIDE DEF f
<1>2. orphans \in [Slots -> Read]
  BY <1>1, MarkType DEF Store, Typed
<1> HIDE DEF orphans
<1>3. Typed([f EXCEPT !.pendingSave = {}, !.sinGuardar = FALSE,
                !.puestaAlDiaPendiente = FALSE, !.convergenciaPendiente = FALSE,
                !.reads = orphans, !.hydrated = FALSE, !.storageError = "none", !.in = FALSE])
  BY <1>1, <1>2 DEF Store, Typed
<1> QED BY <1>3 DEF Forget, f, orphans

LEMMA AdoptType ==
  ASSUME NEW s, Typed(s), NEW r \in Read
  PROVE  Typed(Adopt(s, r))
<1>1. r.rev \in Nat
  BY DEF Read
<1>2. Typed([s EXCEPT !.revision = r.rev])
  BY <1>1 DEF Store, Typed
<1> QED BY <1>1, <1>2, LoadedType, SetDataType, AlCargarType DEF Adopt

LEMMA NoticeTypes ==
  ASSUME NEW s, Typed(s), NEW e \in {"none", "network", "malformed", "conflict"}
  PROVE  /\ Typed([s EXCEPT !.storageError = e])
         /\ Typed([s EXCEPT !.hydrated = TRUE, !.storageError = e])
         /\ Typed([s EXCEPT !.convergenciaPendiente = TRUE, !.storageError = e])
         /\ Typed([s EXCEPT !.sinGuardar = TRUE, !.storageError = e])
         /\ Typed([s EXCEPT !.hydrated = TRUE])
BY DEF Store, Typed

LEMMA ConvergedType ==
  ASSUME NEW s, Typed(s)
  PROVE  Typed(Converged(s))
BY DEF Converged, Store, Typed

LEMMA ReloadMissedType ==
  ASSUME NEW s, Typed(s), NEW notice \in {"network", "malformed"}
  PROVE  Typed(ReloadMissed(s, notice))
BY NoticeTypes, ConvergedType DEF ReloadMissed

LEMMA HydrateGivesWayType ==
  ASSUME NEW s, Typed(s)
  PROVE  Typed(HydrateGivesWay(s))
<1>1. s.data \in Data
  BY DEF Store, Typed
<1> QED BY <1>1, PersistType DEF HydrateGivesWay
-----------------------------------------------------------------------------
(* The actions.                                                            *)

\* TypeOK split by who writes what.
ServerTypes ==
  /\ revision \in Nat /\ rowsRev \in Nat /\ rowsRev <= revision
  /\ rows \in [Tables -> SUBSET Ops] /\ closure \subseteq Ops

ClientTypes == store \in [Clients -> Store] /\ \A c \in Clients : Typed(store[c])

RestTypes ==
  /\ abandoned \subseteq Call
  /\ session \in [Clients -> BOOLEAN] /\ nudge \in [Clients -> BOOLEAN]
  /\ stream \in [Clients -> {"off", "connecting", "open", "dropped"}]
  /\ used \subseteq Ops /\ silent \subseteq Ops /\ faults \in 0 .. MaxFaults

LEMMA TypeParts == TypeOK <=> ServerTypes /\ ClientTypes /\ RestTypes
BY DEF TypeOK, ServerTypes, ClientTypes, RestTypes, Typed

LEMMA TypePartsNext == TypeOK' <=> ServerTypes' /\ ClientTypes' /\ RestTypes'
BY DEF TypeOK, ServerTypes, ClientTypes, RestTypes, Typed

\* A step that gives one client a well-typed store.
LEMMA StoreStep ==
  ASSUME ClientTypes, NEW c \in Clients, NEW s, Typed(s),
         store' = [store EXCEPT ![c] = s]
  PROVE  ClientTypes'
BY DEF ClientTypes, Typed

LEMMA TypedStore ==
  ASSUME ClientTypes, NEW c \in Clients
  PROVE  /\ Typed(store[c]) /\ store[c].data \in Data /\ store[c].call \in Call
         /\ store[c].reads \in [Slots -> Read] /\ store[c].revision \in Nat
BY DEF ClientTypes, Typed, Store

\* The answer of the server to a write, in the store of the client that waits.
LEMMA AnswerType ==
  ASSUME ClientTypes, NEW c \in Clients, NEW rev \in Nat,
         NEW st \in {"ok", "conflict", "rejected", "blocked", "unauthorized"},
         Answer(c, st, rev)
  PROVE  ClientTypes'
<1> DEFINE k == [store[c].call EXCEPT !.st = st, !.rev = rev]
<1>1. k \in Call
  BY TypedStore DEF Call
<1>2. store' = [store EXCEPT ![c] = [store[c] EXCEPT !.call = k]]
  BY TypedStore DEF Answer, Typed, Store, Call
<1> HIDE DEF k
<1>3. Typed([store[c] EXCEPT !.call = k])
  BY <1>1, TypedStore DEF Typed, Store
<1> QED BY <1>2, <1>3, StoreStep

\* What the server changes when it accepts a write.
LEMMA CommitType ==
  ASSUME ServerTypes, nudge \in [Clients -> BOOLEAN],
         NEW r \in [Tables -> SUBSET Ops], NEW cl \in SUBSET Ops, Commit(r, cl)
  PROVE  ServerTypes' /\ nudge' \in [Clients -> BOOLEAN]
BY DEF ServerTypes, Commit, Publish

LEMMA ApplyType ==
  ASSUME ServerTypes, nudge \in [Clients -> BOOLEAN], NEW k \in Call, Apply(k)
  PROVE  ServerTypes' /\ nudge' \in [Clients -> BOOLEAN]
<1>1. k.data.rows \in [Tables -> SUBSET Ops] /\ k.op \in SUBSET Ops
  BY DEF Call, Data
<1>2. WithRow(k.op) \in [Tables -> SUBSET Ops] /\ closure \cup k.op \in SUBSET Ops
  BY <1>1 DEF WithRow, ServerTypes
<1> QED BY <1>1, <1>2, CommitType DEF Apply, ServerTypes

LEMMA ServerSteps ==
  ASSUME TypeOK
  PROVE  /\ \A c \in Clients : ServeWrite(c) \/ ServeBlocked(c) => TypeOK'
         /\ \A k \in abandoned : ServeAbandoned(k) => TypeOK'
         /\ \A o \in Ops : ExternalWrite(o) => TypeOK'
<1> USE TypeParts, TypePartsNext
<1>1. ASSUME NEW c \in Clients, ServeWrite(c) PROVE TypeOK'
  <2>1. store[c].call \in Call /\ revision + 1 \in Nat
    BY TypedStore DEF ServerTypes
  <2>2. ClientTypes'
    BY <1>1, <2>1, AnswerType DEF ServeWrite
  <2>3. ServerTypes' /\ nudge' \in [Clients -> BOOLEAN]
    BY <1>1, <2>1, ApplyType DEF ServeWrite, RestTypes, ServerTypes, serverVars
  <2> QED BY <1>1, <2>2, <2>3 DEF ServeWrite, RestTypes
<1>2. ASSUME NEW c \in Clients, ServeBlocked(c) PROVE TypeOK'
  <2>1. ClientTypes'
    BY <1>2, AnswerType DEF ServeBlocked
  <2> QED BY <1>2, <2>1 DEF ServeBlocked, RestTypes, ServerTypes, serverVars
<1>3. ASSUME NEW k \in abandoned, ServeAbandoned(k) PROVE TypeOK'
  <2>0. k \in Call
    BY DEF RestTypes
  <2>1. ServerTypes' /\ nudge' \in [Clients -> BOOLEAN]
    <3>1. CASE Apply(k)
      BY <2>0, <3>1, ApplyType DEF RestTypes
    <3>2. CASE UNCHANGED <<serverVars, nudge>>
      BY <3>2 DEF RestTypes, ServerTypes, serverVars
    <3>3. Apply(k) \/ UNCHANGED <<serverVars, nudge>>
      BY <1>3 DEF ServeAbandoned
    <3> QED BY <3>1, <3>2, <3>3
  <2> QED BY <1>3, <2>1 DEF ServeAbandoned, RestTypes, ClientTypes
<1>4. ASSUME NEW o \in Ops, ExternalWrite(o) PROVE TypeOK'
  <2>1. WithRow({o}) \in [Tables -> SUBSET Ops]
    BY DEF WithRow, ServerTypes
  <2>2. ServerTypes' /\ nudge' \in [Clients -> BOOLEAN]
    BY <1>4, <2>1, CommitType DEF ExternalWrite, ServerTypes, RestTypes
  <2>3. faults' \in 0 .. MaxFaults
    BY <1>4, ConstantsAssumption DEF ExternalWrite, Fault, RestTypes, ConstantsAssumption
  <2> QED BY <1>4, <2>2, <2>3 DEF ExternalWrite, RestTypes, ClientTypes
<1> QED BY <1>1, <1>2, <1>3, <1>4

\* The steps of a reload of client c in slot x.
LEMMA ReadSteps ==
  ASSUME TypeOK, NEW c \in Clients, NEW x \in Slots
  PROVE  /\ ReadHead(c, x) => TypeOK'
         /\ \A t \in Tables : ReadTable(c, x, t) => TypeOK'
<1> USE TypeParts, TypePartsNext
<1> DEFINE r == store[c].reads[x]
<1>1. r \in Read /\ Typed(store[c])
  BY TypedStore
<1>2. ASSUME NEW n \in Read, store' = [store EXCEPT ![c].reads[x] = n] PROVE ClientTypes'
  <2>1. Typed([store[c] EXCEPT !.reads[x] = n])
    BY <1>1, <1>2 DEF Typed, Store
  <2>2. store' = [store EXCEPT ![c] = [store[c] EXCEPT !.reads[x] = n]]
    BY <1>2
  <2> QED BY <2>1, <2>2, StoreStep
<1>3. ASSUME ReadHead(c, x) PROVE TypeOK'
  <2> DEFINE n == CASE ~session[c] -> [r EXCEPT !.st = "unauthorized"]
                    [] session[c] /\ revision = 0 -> [r EXCEPT !.st = "empty"]
                    [] OTHER -> [r EXCEPT !.st = "rows", !.rev = revision, !.closure = closure]
  <2>1. n \in Read
    BY <1>1 DEF Read, ServerTypes
  <2>2. store' = [store EXCEPT ![c].reads[x] = n]
    BY <1>3 DEF ReadHead
  <2> HIDE DEF n
  <2>3. ClientTypes'
    BY <2>1, <2>2, <1>2
  <2> QED BY <1>3, <2>3 DEF ReadHead, RestTypes, ServerTypes, serverVars
<1>4. ASSUME NEW t \in Tables, ReadTable(c, x, t) PROVE TypeOK'
  <2> DEFINE n == [r EXCEPT !.got[t] = rows[t], !.seen = r.seen \cup {t},
                     !.st = IF Tables \subseteq r.seen \cup {t} THEN "done" ELSE "rows"]
  <2>1. n \in Read
    BY <1>1 DEF Read, ServerTypes
  <2>2. store' = [store EXCEPT ![c].reads[x] = n]
    BY <1>4 DEF ReadTable
  <2> HIDE DEF n
  <2>3. ClientTypes'
    BY <2>1, <2>2, <1>2
  <2> QED BY <1>4, <2>3 DEF ReadTable, RestTypes, ServerTypes, serverVars
<1> QED BY <1>3, <1>4

\* A handler that only changes the store of its client.
LEMMA StoreOnlyStep ==
  ASSUME TypeOK, NEW c \in Clients, NEW s, Typed(s),
         store' = [store EXCEPT ![c] = s], StoreOnly
  PROVE  TypeOK'
<1>1. ClientTypes'
  BY TypeParts, StoreStep
<1> QED BY <1>1, TypeParts, TypePartsNext DEF StoreOnly, serverVars, ServerTypes, RestTypes

\* A handler that closes the stream of its client too.
LEMMA ExpireStep ==
  ASSUME TypeOK, NEW c \in Clients, NEW s, Typed(s), Expire(c, s)
  PROVE  TypeOK'
<1>1. ClientTypes'
  BY TypeParts, StoreStep DEF Expire
<1> QED BY <1>1, TypeParts, TypePartsNext DEF Expire, serverVars, ServerTypes, RestTypes

LEMMA FaultType ==
  ASSUME TypeOK, NEW kind, Fault(kind)
  PROVE  faults' \in 0 .. MaxFaults
BY ConstantsAssumption DEF Fault, TypeOK, ConstantsAssumption

\* The answers to a write.
LEMMA AnswerSteps ==
  ASSUME TypeOK, NEW c \in Clients
  PROVE  /\ SaveOk(c) \/ SaveConflict(c) \/ SaveRejected(c) => TypeOK'
         /\ RequestOk(c) \/ CyclesOk(c) \/ RequestConflict(c) => TypeOK'
         /\ RequestBlocked(c) \/ RequestRejected(c) => TypeOK'
         /\ WriteUnauthorized(c) => TypeOK'
<1> DEFINE s == store[c]
<1>0. /\ Typed(s) /\ s.data \in Data /\ s.call.rev \in Nat /\ s.call.op \in SUBSET Ops
      /\ Typed([s EXCEPT !.pendingSave = {}])
  BY TypeParts, TypedStore DEF Typed, Store, Call
<1>1. ASSUME SaveOk(c) PROVE TypeOK'
  <2> DEFINE e == IF s.storageError \in {"network", "conflict"} THEN "none" ELSE s.storageError
             n == [s EXCEPT !.revision = s.call.rev, !.sinGuardar = FALSE,
                            !.convergenciaPendiente = FALSE, !.storageError = e]
  <2>1. Typed(n)
    BY <1>0 DEF Typed, Store
  <2>2. store' = [store EXCEPT ![c] = Release(n)] /\ StoreOnly
    BY <1>1 DEF SaveOk
  <2> HIDE DEF n
  <2> QED BY <2>1, <2>2, ReleaseType, StoreOnlyStep
<1>2. ASSUME SaveConflict(c) PROVE TypeOK'
  BY <1>0, <1>2, StartConvergeType, StoreOnlyStep DEF SaveConflict
<1>3. ASSUME SaveRejected(c) PROVE TypeOK'
  BY <1>0, <1>3, StartReloadType, StoreOnlyStep DEF SaveRejected
<1>4. ASSUME RequestOk(c) PROVE TypeOK'
  <2> DEFINE d == [s.data EXCEPT !.closure = s.data.closure \cup s.call.op]
             q == [s EXCEPT !.revision = s.call.rev]
             p == SetData(q, d)
             n == IF s.call.kind = "start" THEN [p EXCEPT !.storageError = "none"] ELSE p
  <2>1. d \in Data
    BY <1>0 DEF Data
  <2>2. Typed(q)
    BY <1>0 DEF Typed, Store
  <2>3. store' = [store EXCEPT ![c] = Release(n)] /\ StoreOnly
    BY <1>4 DEF RequestOk
  <2> HIDE DEF d, q
  <2>4. Typed(n)
    BY <2>1, <2>2, SetDataType, NoticeTypes
  <2> QED BY <2>3, <2>4, ReleaseType, StoreOnlyStep
<1>5. ASSUME CyclesOk(c) PROVE TypeOK'
  BY <1>0, <1>5, StartReloadType, StoreOnlyStep DEF CyclesOk
<1>6. ASSUME RequestConflict(c) PROVE TypeOK'
  BY <1>0, <1>6, StartConvergeType, StoreOnlyStep DEF RequestConflict
<1>7. ASSUME RequestBlocked(c) PROVE TypeOK'
  BY <1>0, <1>7, StartReloadType, StoreOnlyStep DEF RequestBlocked
<1>8. ASSUME RequestRejected(c) PROVE TypeOK'
  BY <1>0, <1>8, ReleaseType, StoreOnlyStep DEF RequestRejected
<1>9. ASSUME WriteUnauthorized(c) PROVE TypeOK'
  BY <1>0, <1>9, ForgetType, ReleaseType, ExpireStep DEF WriteUnauthorized, Expire
<1> QED BY <1>1, <1>2, <1>3, <1>4, <1>5, <1>6, <1>7, <1>8, <1>9

LEMMA WriteLostStep ==
  ASSUME TypeOK, NEW c \in Clients, WriteLost(c)
  PROVE  TypeOK'
<1> DEFINE s == store[c]
           n == CASE s.call.kind = "put" ->
                       [s EXCEPT !.sinGuardar = TRUE,
                            !.storageError = IF s.convergenciaPendiente THEN "conflict" ELSE "network"]
                  [] s.call.kind = "closure" -> s
                  [] OTHER -> [s EXCEPT !.storageError = "network"]
<1>1. Typed(s) /\ s.call \in Call
  BY TypeParts, TypedStore
<1>2. Typed(n)
  BY <1>1, NoticeTypes
<1>3. store' = [store EXCEPT ![c] = Release(n)]
  BY DEF WriteLost
<1> HIDE DEF n
<1>4. ClientTypes'
  BY <1>2, <1>3, TypeParts, ReleaseType, StoreStep
<1>5. abandoned' \subseteq Call /\ faults' \in 0 .. MaxFaults
  BY <1>1, FaultType DEF WriteLost, TypeOK
<1> QED BY <1>4, <1>5, TypeParts, TypePartsNext DEF WriteLost, serverVars, ServerTypes, RestTypes

\* How a converging reload ends.
LEMMA ReloadSteps ==
  ASSUME TypeOK, NEW c \in Clients
  PROVE  /\ ReloadOk(c) \/ ReloadLost(c) => TypeOK'
         /\ ReloadOrphan(c) \/ ReloadEmpty(c) \/ ReloadUnauthorized(c) => TypeOK'
<1> DEFINE s == store[c]
           r == s.reads["converge"]
           e == EndRead(s, "converge")
<1>0. Typed(s) /\ r \in Read /\ Typed(e) /\ "converge" \in Slots
  BY TypeParts, TypedStore, SlotsHave, EndReadType
<1>1. ASSUME ReloadOk(c) PROVE TypeOK'
  <2> DEFINE q == [e EXCEPT !.pendingSave = {}, !.sinGuardar = FALSE]
             a == Adopt(q, r)
             n == CASE s.call.why = "conflict" -> Converged(a)
                    [] s.call.why = "cycles"   -> [a EXCEPT !.storageError = "none"]
                    [] OTHER                   -> a
  <2>1. Typed(q)
    BY <1>0 DEF Typed, Store
  <2>2. store' = [store EXCEPT ![c] = Release(n)]
    BY <1>1 DEF ReloadOk
  <2> HIDE DEF q
  <2>3. Typed(n)
    BY <1>0, <2>1, AdoptType, ConvergedType, NoticeTypes
  <2> HIDE DEF n
  <2>4. ClientTypes'
    BY <2>2, <2>3, TypeParts, ReleaseType, StoreStep
  <2>5. silent' \in SUBSET Ops
    BY <1>0, <1>1 DEF ReloadOk, Erased, EditsOf, Typed, Store, Data, TypeOK
  <2> QED BY <1>1, <2>4, <2>5, TypeParts, TypePartsNext
          DEF ReloadOk, serverVars, ServerTypes, RestTypes
<1>2. ASSUME ReloadLost(c) PROVE TypeOK'
  <2>1. PICK notice \in {"network", "malformed"} :
          store' = [store EXCEPT ![c] = Release(ReloadMissed(e, notice))]
    BY <1>2 DEF ReloadLost
  <2>2. ClientTypes'
    BY <1>0, <2>1, TypeParts, ReloadMissedType, ReleaseType, StoreStep
  <2>3. faults' \in 0 .. MaxFaults
    BY <1>2, FaultType DEF ReloadLost
  <2> QED BY <1>2, <2>2, <2>3, TypeParts, TypePartsNext
          DEF ReloadLost, serverVars, ServerTypes, RestTypes
<1>3. ASSUME ReloadOrphan(c) PROVE TypeOK'
  <2>1. Typed(IF e.call.why = "cycles" THEN [e EXCEPT !.storageError = "network"] ELSE e)
    BY <1>0, NoticeTypes
  <2> QED BY <1>3, <2>1, ReleaseType, StoreOnlyStep DEF ReloadOrphan
<1>4. ASSUME ReloadEmpty(c) PROVE TypeOK'
  <2>1. Typed([e EXCEPT !.revision = 0]) /\ e.data \in Data
    BY <1>0 DEF Typed, Store
  <2>2. Typed(Persist([e EXCEPT !.revision = 0], e.data))
    BY <2>1, PersistType
  <2>3. Typed(ReloadMissed(e, "network"))
    BY <1>0, ReloadMissedType
  <2> QED BY <1>4, <2>2, <2>3, ReleaseType, StoreOnlyStep DEF ReloadEmpty
<1>5. ASSUME ReloadUnauthorized(c) PROVE TypeOK'
  BY <1>0, <1>5, ForgetType, ReleaseType, ExpireStep DEF ReloadUnauthorized
<1> QED BY <1>1, <1>2, <1>3, <1>4, <1>5

\* How a live reload ends.
LEMMA LiveSteps ==
  ASSUME TypeOK, NEW c \in Clients, NEW x \in LiveSlots
  PROVE  LiveOk(c, x) \/ LiveLost(c, x) \/ LiveEmpty(c, x) \/ LiveUnauthorized(c, x) => TypeOK'
<1> DEFINE s == store[c]
           r == s.reads[x]
           e == EndRead(s, x)
<1>0. Typed(s) /\ r \in Read /\ Typed(e)
  BY TypeParts, TypedStore, SlotsHave, EndReadType
<1>1. ASSUME LiveOk(c, x) PROVE TypeOK'
  <2>1. Typed(Adopt(e, r))
    BY <1>0, AdoptType
  <2>2. ClientTypes'
    BY <1>0, <1>1, <2>1, TypeParts, StoreStep DEF LiveOk
  <2>3. silent' \in SUBSET Ops
    BY <1>0, <1>1 DEF LiveOk, Erased, EditsOf, Typed, Store, Data, TypeOK
  <2> QED BY <1>1, <2>2, <2>3, TypeParts, TypePartsNext
          DEF LiveOk, serverVars, ServerTypes, RestTypes
<1>2. ASSUME LiveLost(c, x) PROVE TypeOK'
  <2>1. Typed([e EXCEPT !.storageError = "malformed"])
    BY <1>0, NoticeTypes
  <2>2. ClientTypes'
    BY <1>0, <1>2, <2>1, TypeParts, StoreStep DEF LiveLost
  <2>3. faults' \in 0 .. MaxFaults
    BY <1>2, FaultType DEF LiveLost
  <2> QED BY <1>2, <2>2, <2>3, TypeParts, TypePartsNext
          DEF LiveLost, serverVars, ServerTypes, RestTypes
<1>3. ASSUME LiveEmpty(c, x) PROVE TypeOK'
  BY <1>0, <1>3, StoreOnlyStep DEF LiveEmpty
<1>4. ASSUME LiveUnauthorized(c, x) PROVE TypeOK'
  BY <1>0, <1>4, ForgetType, ExpireStep DEF LiveUnauthorized
<1> QED BY <1>1, <1>2, <1>3, <1>4

\* hydrate().
LEMMA HydrateSteps ==
  ASSUME TypeOK, NEW c \in Clients
  PROVE  /\ Hydrate(c) \/ HydrateOk(c) \/ HydrateEmpty(c) \/ ServeSeed(c) => TypeOK'
         /\ HydrateSeeded(c) \/ HydrateLost(c) \/ HydrateUnauthorized(c) => TypeOK'
<1> DEFINE s == store[c]
           r == s.reads["hydrate"]
           e == EndRead(s, "hydrate")
<1>0. Typed(s) /\ r \in Read /\ Typed(e) /\ "hydrate" \in Slots /\ Seed \in Data
  BY TypeParts, TypedStore, SlotsHave, EndReadType, EmptyTypes
<1>1. ASSUME Hydrate(c) PROVE TypeOK'
  <2>1. ClientTypes'
    BY <1>0, <1>1, TypeParts, StartReadType, StoreStep DEF Hydrate
  <2> QED BY <1>1, <2>1, TypeParts, TypePartsNext
          DEF Hydrate, serverVars, ServerTypes, RestTypes
<1>2. ASSUME HydrateOk(c) PROVE TypeOK'
  <2>1. Typed([Adopt(e, r) EXCEPT !.hydrated = TRUE]) /\ Typed(HydrateGivesWay(e))
    BY <1>0, AdoptType, NoticeTypes, HydrateGivesWayType
  <2>2. ClientTypes'
    BY <1>0, <1>2, <2>1, TypeParts, StoreStep DEF HydrateOk
  <2>3. silent' \in SUBSET Ops
    BY <1>0, <1>2 DEF HydrateOk, Erased, EditsOf, Typed, Store, Data, TypeOK
  <2> QED BY <1>2, <2>2, <2>3, TypeParts, TypePartsNext
          DEF HydrateOk, serverVars, ServerTypes, RestTypes
<1>3. ASSUME HydrateEmpty(c) PROVE TypeOK'
  <2> DEFINE a == AlCargar([s EXCEPT !.revision = 0], 0)
  <2>1. Typed([s EXCEPT !.revision = 0])
    BY <1>0 DEF Typed, Store
  <2>2. Typed(a)
    BY <2>1, AlCargarType
  <2> HIDE DEF a
  <2>3. [a.reads["hydrate"] EXCEPT !.st = "seeding"] \in Read
    <3>1. a.reads["hydrate"] \in Read
      BY <1>0, <2>2 DEF Typed, Store
    <3> QED BY <3>1 DEF Read
  <2>4. Typed([a EXCEPT !.reads["hydrate"] = [a.reads["hydrate"] EXCEPT !.st = "seeding"]])
    BY <1>0, <2>2, <2>3 DEF Typed, Store
  <2>5. [a EXCEPT !.reads["hydrate"].st = "seeding"]
          = [a EXCEPT !.reads["hydrate"] = [a.reads["hydrate"] EXCEPT !.st = "seeding"]]
    BY <1>0, <2>2 DEF Typed, Store
  <2>6. Typed(HydrateGivesWay(e))
    BY <1>0, HydrateGivesWayType
  <2> QED BY <1>3, <2>4, <2>5, <2>6, StoreOnlyStep DEF HydrateEmpty, a
<1>4. ASSUME ServeSeed(c) PROVE TypeOK'
  <2> DEFINE n == IF session[c] /\ revision = 0
                  THEN [r EXCEPT !.st = "seeded", !.rev = revision + 1]
                  ELSE [r EXCEPT !.st = "unseeded"]
  <2>0. /\ [r EXCEPT !.st = "seeded", !.rev = revision + 1] \in Read
        /\ [r EXCEPT !.st = "unseeded"] \in Read
    <3>1. revision + 1 \in Nat
      BY TypeParts DEF ServerTypes
    <3> HIDE DEF s
    <3> QED BY <1>0, <3>1 DEF Read
  <2>1. n \in Read
    BY <2>0
  <2>2. store' = [store EXCEPT ![c] = [s EXCEPT !.reads["hydrate"] = n]]
    BY <1>4 DEF ServeSeed
  <2> HIDE DEF n
  <2>3. Typed([s EXCEPT !.reads["hydrate"] = n])
    BY <1>0, <2>1 DEF Typed, Store
  <2>4. ClientTypes'
    BY <2>2, <2>3, TypeParts, StoreStep
  <2>5. Commit(Seed.rows, closure) \/ UNCHANGED <<serverVars, nudge>>
    BY <1>4 DEF ServeSeed
  <2>6. CASE Commit(Seed.rows, closure)
    <3>1. ServerTypes' /\ nudge' \in [Clients -> BOOLEAN]
      BY <1>0, <2>6, TypeParts, CommitType DEF ServerTypes, RestTypes, Data
    <3> QED BY <1>4, <2>4, <3>1, TypeParts, TypePartsNext DEF ServeSeed, RestTypes
  <2>7. CASE UNCHANGED <<serverVars, nudge>>
    BY <1>4, <2>4, <2>7, TypeParts, TypePartsNext
    DEF ServeSeed, serverVars, ServerTypes, RestTypes
  <2> QED BY <2>5, <2>6, <2>7
<1>5. ASSUME HydrateSeeded(c) PROVE TypeOK'
  <2> DEFINE p == [SetData(e, Seed) EXCEPT !.hydrated = TRUE]
  <2>1. Typed(p) /\ r.rev \in Nat
    BY <1>0, SetDataType, NoticeTypes DEF Read
  <2> HIDE DEF p
  <2>2. Typed([p EXCEPT !.revision = r.rev])
    BY <2>1 DEF Typed, Store
  <2> QED BY <1>5, <2>1, <2>2, StoreOnlyStep DEF HydrateSeeded, p
<1>6. ASSUME HydrateLost(c) PROVE TypeOK'
  <2>1. Typed([SetData(e, Seed) EXCEPT !.hydrated = TRUE])
    BY <1>0, SetDataType, NoticeTypes
  <2>2. /\ Typed([e EXCEPT !.hydrated = TRUE])
        /\ Typed([e EXCEPT !.hydrated = TRUE, !.storageError = "malformed"])
    BY <1>0, NoticeTypes
  <2>3. ClientTypes'
    BY <1>0, <1>6, <2>1, <2>2, TypeParts, StoreStep DEF HydrateLost
  <2>4. [NoCall EXCEPT !.kind = "put", !.st = "sent"] \in Call
    BY EmptyTypes DEF Call
  <2>5. abandoned' \subseteq Call /\ faults' \in 0 .. MaxFaults
    BY <1>6, <2>4, FaultType DEF HydrateLost, TypeOK
  <2> QED BY <1>6, <2>3, <2>5, TypeParts, TypePartsNext
          DEF HydrateLost, serverVars, ServerTypes, RestTypes
<1>7. ASSUME HydrateUnauthorized(c) PROVE TypeOK'
  BY <1>0, <1>7, ForgetType, ExpireStep DEF HydrateUnauthorized
<1> QED BY <1>1, <1>2, <1>3, <1>4, <1>5, <1>6, <1>7

\* The stream and the session.
LEMMA StreamSteps ==
  ASSUME TypeOK, NEW c \in Clients
  PROVE  /\ Deliver(c) \/ StreamOpens(c) \/ StreamDrops(c) \/ StreamReopens(c) => TypeOK'
         /\ Revoke(c) \/ Logout(c) \/ Login(c) => TypeOK'
<1> USE TypeParts, TypePartsNext DEF serverVars, ServerTypes, RestTypes
<1>0. Typed(store[c])
  BY TypedStore
<1>1. ASSUME Deliver(c) PROVE TypeOK'
  <2>1. ClientTypes'
    BY <1>0, <1>1, ResyncType, StoreStep DEF Deliver
  <2> QED BY <1>1, <2>1 DEF Deliver
<1>2. ASSUME StreamOpens(c) PROVE TypeOK'
  BY <1>2 DEF StreamOpens, ClientTypes
<1>3. ASSUME StreamDrops(c) PROVE TypeOK'
  <2>1. ClientTypes'
    <3>1. CASE UNCHANGED store
      BY <3>1 DEF ClientTypes
    <3>2. CASE store' = [store EXCEPT ![c] = Resync(store[c], TRUE)]
      BY <1>0, <3>2, ResyncType, StoreStep
    <3> QED BY <1>3, <3>1, <3>2 DEF StreamDrops
  <2>2. faults' \in 0 .. MaxFaults
    BY <1>3, FaultType DEF StreamDrops
  <2> QED BY <1>3, <2>1, <2>2 DEF StreamDrops
<1>4. ASSUME StreamReopens(c) PROVE TypeOK'
  <2>1. ClientTypes'
    BY <1>0, <1>4, ResyncType, StoreStep DEF StreamReopens
  <2> QED BY <1>4, <2>1 DEF StreamReopens
<1>5. ASSUME Revoke(c) PROVE TypeOK'
  <2>1. faults' \in 0 .. MaxFaults
    BY <1>5, FaultType DEF Revoke
  <2> QED BY <1>5, <2>1 DEF Revoke, ClientTypes
<1>6. ASSUME Logout(c) PROVE TypeOK'
  <2>1. ClientTypes'
    BY <1>0, <1>6, ForgetType, StoreStep DEF Logout
  <2>2. faults' \in 0 .. MaxFaults
    BY <1>6, FaultType DEF Logout
  <2> QED BY <1>6, <2>1, <2>2 DEF Logout
<1>7. ASSUME Login(c) PROVE TypeOK'
  <2>1. Typed([store[c] EXCEPT !.in = TRUE, !.storageError = "none"])
    BY <1>0 DEF Typed, Store
  <2>2. ClientTypes'
    BY <1>7, <2>1, StoreStep DEF Login
  <2> QED BY <1>7, <2>2 DEF Login
<1> QED BY <1>1, <1>2, <1>3, <1>4, <1>5, <1>6, <1>7

\* The user.
LEMMA UserSteps ==
  ASSUME TypeOK, NEW c \in Clients, NEW o \in Ops
  PROVE  /\ Edit(c, o) => TypeOK'
         /\ \A kind \in Requests : Request(c, kind, o) => TypeOK'
<1> USE TypeParts, TypePartsNext DEF serverVars, ServerTypes, RestTypes
<1>0. Typed(store[c]) /\ store[c].data \in Data
  BY TypedStore
<1>1. ASSUME Edit(c, o) PROVE TypeOK'
  <2> DEFINE d == WithEdit(store[c].data, o)
  <2>1. d \in Data
    BY <1>0, DataTypes
  <2>2. store' = [store EXCEPT ![c] = Persist(SetData(store[c], d), d)]
    BY <1>1 DEF Edit
  <2> HIDE DEF d
  <2>3. ClientTypes'
    BY <1>0, <2>1, <2>2, SetDataType, PersistType, StoreStep
  <2> QED BY <1>1, <2>3 DEF Edit
<1>2. ASSUME NEW kind \in Requests, Request(c, kind, o) PROVE TypeOK'
  <2> DEFINE s == [store[c] EXCEPT !.asked = {[kind |-> kind, op |-> {o}]}]
  <2>0. [kind |-> kind, op |-> {o}] \in [kind : {"closure", "start", "cycles"}, op : SUBSET Ops]
    BY ConstantsAssumption DEF ConstantsAssumption
  <2>1. Typed(s) /\ s.asked # {}
    BY <1>0, <2>0 DEF Typed, Store
  <2>2. store' = [store EXCEPT ![c] = IF s.lock = "free" THEN StartRequest(s) ELSE s]
    BY <1>2 DEF Request
  <2> HIDE DEF s
  <2>3. ClientTypes'
    BY <2>1, <2>2, StartRequestType, StoreStep
  <2> QED BY <1>2, <2>3 DEF Request
<1> QED BY <1>1, <1>2

-----------------------------------------------------------------------------
LEMMA InitTypes == Init => TypeOK
<1> SUFFICES ASSUME Init PROVE TypeOK
  OBVIOUS
<1>1. ServerTypes
  BY DEF Init, ServerTypes, Seed
<1>2. ClientTypes
  BY EmptyTypes DEF Init, ClientTypes, Typed, Store
<1>3. RestTypes
  BY ConstantsAssumption DEF Init, RestTypes, ConstantsAssumption
<1> QED BY <1>1, <1>2, <1>3, TypeParts

LEMMA NextTypes == TypeOK /\ [Next]_vars => TypeOK'
<1> SUFFICES ASSUME TypeOK, [Next]_vars PROVE TypeOK'
  OBVIOUS
<1>1. CASE UNCHANGED vars
  BY <1>1 DEF vars, TypeOK
<1>2. ASSUME NEW c \in Clients, WriteStep(c) PROVE TypeOK'
  BY <1>2, ServerSteps, AnswerSteps DEF WriteStep
<1>3. ASSUME NEW c \in Clients, ConvergeStep(c) PROVE TypeOK'
  BY <1>3, SlotsHave, ReadSteps, ReloadSteps DEF ConvergeStep
<1>4. ASSUME NEW c \in Clients, HydrateStep(c) PROVE TypeOK'
  BY <1>4, SlotsHave, ReadSteps, HydrateSteps DEF HydrateStep
<1>5. ASSUME NEW c \in Clients, StreamStep(c) PROVE TypeOK'
  BY <1>5, StreamSteps DEF StreamStep
<1>6. ASSUME NEW c \in Clients, Outside(c) PROVE TypeOK'
  BY <1>6, ServerSteps, WriteLostStep, ReloadSteps, LiveSteps, HydrateSteps, StreamSteps,
     UserSteps DEF Outside
<1>7. ASSUME NEW c \in Clients, NEW x \in LiveSlots, LiveStep(c, x) PROVE TypeOK'
  BY <1>7, SlotsHave, ReadSteps, LiveSteps DEF LiveStep
<1>8. ASSUME NEW k \in abandoned, ServeAbandoned(k) PROVE TypeOK'
  BY <1>8, ServerSteps
<1>9. ASSUME NEW o \in Ops, ExternalWrite(o) PROVE TypeOK'
  BY <1>9, ServerSteps
<1> QED BY <1>1, <1>2, <1>3, <1>4, <1>5, <1>6, <1>7, <1>8, <1>9 DEF Next

\* Every behaviour of the system keeps the types of the server's ledger and of
\* every client's store, and never has two snapshots waiting in one save queue.
THEOREM TypeCorrect == Spec => []TypeOK
BY InitTypes, NextTypes, PTL DEF Spec
=============================================================================

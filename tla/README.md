# T-Ledger in TLA+

T-Ledger is a personal budget: a Next.js application whose browser keeps the
whole ledger of a user in a zustand store, changes it with pure domain functions,
and saves it as snapshots to a server (PostgreSQL through Drizzle) that several
tabs and devices of the same user share. This directory models that program,
checks it with TLC on small instances and proves the central results with TLAPS.

Paths are those of the repository (`src/...` inside it).

## 1. The system

| Part | Code | State it keeps | Operations |
|---|---|---|---|
| Client store | `src/state/store.ts` | the ledger, `pendingSave`, `saveInFlight`, `sinGuardar`, `convergenciaPendiente`, `puestaAlDiaPendiente`, `revisionEnConflicto`, `storageError`, `hydrated`, `cargaGen`/`sesionEpoca` | hydrate, every edit, the queue of saves, exclusive writes (close, reopen, start, cycles), resync, forget, undo |
| Client repository | `src/data/serverRepository.ts` | `revision`, what the last answer was (`conflicted`, `closedViolation`, ...) | load, save, closure, saveStart, applyCycles |
| Live synchronisation | `src/data/syncClient.ts`, `src/server/sync.ts` | the event source, its retries; the callbacks of each user | open, drop, reopen; publish, register, cancel |
| Ledger persistence | `src/server/data/ledgerRepo.ts` | the rows of a ledger and its anchor row (revision, closure, opening) | loadLedger, saveLedger, insertMovement, writeMovement, closeMonthFor, reopenMonthFor, saveStartFor |
| HTTP routes | `src/app/api/v1/**` , `src/server/http.ts` | none | authorise, validate, write, publish |
| Month closing | `src/domain/closure.ts`, `openingGuard.ts`, `opening.ts`, `range.ts` | closedThrough, reopened months, frozen carries | close, reopen, the judgement of every other write |
| Cell journal | `src/domain/adjust.ts`, `mismatch.ts` | movements and real amounts of a cell | add, edit, delete, adjust, the mismatch verdict |
| Categories | `src/domain/mutations.ts`, `tree.ts`, `rollup.ts` | the tree, the planned and real amounts | create, rename, move, delete, set an amount, the repairs |
| Reserves | `src/domain/reserve.ts`, `guard.ts` | contributions and withdrawals per month | apply, edit, remove, plan, the chain of monthly ceilings and floors |
| Calendar and cycles | `src/domain/cycles.ts`, `periods.ts`, `src/server/data/cyclesRepo.ts` | the versions of the pay plan | plan a change, relocate amounts, preview, apply |
| Balance | `src/domain/balance.ts` | none | the monthly series |
| Migrations | `src/domain/migrate.ts` | none | V3 to V4 to V5 |
| Identifiers | `src/domain/ids.ts` | one counter per process | next, seed |
| Recovery, rate limit, authentication | `src/server/resetTokens.ts`, `rateLimit.ts`, `auth.ts` | tokens, windows, sessions | issue, revoke, allow |
| Screen stack | `src/components/mobile/screenStack.ts` | the entries of the browser's history, each with its depth | open, replace, go back, deep links, redirections |
| Forms | `src/components/BudgetGrid.tsx`, `ReserveCells.tsx`, `CellDetail.tsx`, `PeriodModeSection.tsx`, `ClosureControl.tsx`, `mobile/*.tsx` | what each open form remembers: fields, questions, previews, requests | open, type, commit, cancel, confirm, over a ledger replaced underneath |
| Preferences, mail, environment | `src/server/data/preferencesRepo.ts`, ... | scalars | no decision another part depends on |

How they interact. A page mounts the login gate, which hydrates the store (GET
/ledger) and opens an event stream. Each edit replaces the store's data and queues
a snapshot; one PUT travels at a time with the revision the client believes
current. The server, in one transaction that locks the anchor row, compares that
revision, judges what the snapshot changes, rewrites the tables and raises the
revision; then it publishes an event to every open stream of the user, the writer's
own included. A client that hears one reloads, unless a save is travelling. A
conflict (409) makes the client reload the server's version. Closing or reopening a
month, declaring the start and changing the calendar are writes of their own,
made with the queue held. Movements have an API with no base revision.

What is hard here: loads that cross edits, loads that are not transactions, answers
that are lost after the commit, answers of a session that has been closed, events
skipped while something travels, and a queue with five ways to be let go; money that
is judged month by month along a chain, by the client one operation at a time and by
the server over whatever a snapshot gathered; figures that change node, period or
calendar and have to add up to the same; and forms that stay open while the ledger
under them is replaced. The hazards are listed with their lines in `PROJECT.json`.

## 2. The modules

The synchronisation came first, for a mistake there loses anything the rest computes;
then what the server promises of closed months, what the domain does to a ledger, and
the forms the user sees it through.

| Modules | Subject | Runs | Proved |
|---|---|---|---|
| `VersionedLedger`, `LedgerSync`, `LedgerSyncInvariant`, `LedgerSyncTypes`, `LedgerSyncProofs`, `MCLedgerSync` | stores, streams and server: who overwrites whom | `devices`, `requests`, `pages`, `session`, `reconnect` | yes |
| `ClosedBook`, `LedgerClosure`, `LedgerClosureProofs`, `MCLedgerClosure` | closed months, the journal of a cell, the guard of every write | `closure`, `journal` | yes |
| `Reserve`, `ReserveProofs`, `MCReserve` | pockets: contributions, withdrawals, ceilings and floors, the old plan | `reserve` | yes |
| `CategoryTree`, `CategoryTreeProofs`, `MCCategoryTree` | creating, moving and deleting nodes that hold figures; the repairs of a load | `tree` | yes |
| `Cycles`, `CyclesProofs`, `MCCycles` | the calendar of paydays and the relocation of a ledger | `cycles` | yes |
| `Forms`, `Screens`, `ScreensProofs`, `MCScreens` | the forms of desktop and phone, the history of the phone | `screens`, `retyped` | yes |
| `FiniteInduction` | lemmas on recursion and sums that the proofs of LedgerClosure, Reserve, CategoryTree and Cycles use | | yes |

The modules meet at the ledger. LedgerSync takes it as a set of edits and asks who
erases whose; LedgerClosure, Reserve, CategoryTree and Cycles say what one accepted
edit does to it and what the server refuses; Forms takes from them only the verdict
and asks what a form writes when the ledger it was opened on is no longer the one in
force. `Screens` extends `Forms`: on the desktop the forms open over the grid, on the
phone each is a screen of the history. `LedgerSync` implements `VersionedLedger` and
`LedgerClosure` implements `ClosedBook`, both as refinements checked by TLC and proved.

The definitions whose comment begins with "Variant" are not part of the
specifications: each is a plausible mistake in the definition that follows it, kept to
show that a property notices it.

## 3. LedgerSync: one user's ledger on several devices

**State.** The server is `revision`, `rows` (per table: a load reads each table in
a statement of its own) and `closure` (the columns of the anchor row a PUT never
writes). A ledger is the set of edits it contains; a domain mutation touches every
table at once. `store[c]` is client c's zustand store together with its repository,
field by field under the code's names: `lock` is `saveInFlight` with who holds it,
`call` the write or converging reload in flight, `reads` the GETs in flight, `asked`
the exclusive write that awaits the queue. A GET carries `dirty` (the test
`get().data !== before`), `orphan` (`sesionEpoca` changed) and `first`
(`!hydrated` when it left). `rowsRev` and `silent` are history variables.

**Steps.** The code between two awaits is one step; a handler is a function from a
store to its next value, so that a step composes what the code calls: the answer to
a save ends in `Release`, which restarts the drainer, runs the owed catch-up or
starts the waiting exclusive write, in the code's order. The server's transaction
is one step, publication included; an event not yet delivered absorbs the ones
after it, as the reload it causes reads the newest state. `ReadHead` and `ReadTable`
are the statements of `loadLedger`. A request whose client gave up may still be
executed later (`ServeAbandoned`).

| Code | Definitions |
|---|---|
| `persist`, `drainSaves`, `kickDrain` | `Persist`, `Drain`, `SaveOk`, `SaveConflict`, `SaveRejected`, `WriteLost`, `Release` |
| `exclusive`, `closeMonth`, `reopenMonth`, `setStart`, `applyPeriodMode` | `Request`, `StartRequest`, `RequestOk`, `CyclesOk`, `RequestConflict`, `RequestBlocked`, `RequestRejected` |
| `cargar`, `alCargar`, `convergerTrasConflicto`, `doResync` | `StartReload`, `ReloadOk`, `ReloadMissed`, `ReloadLost`, `ReloadEmpty`, `ReloadOrphan`, `AlCargar`, `Adopt`, `Discarded`, `LiveOk`... |
| `hydrate` | `Hydrate`, `HydrateOk`, `HydrateEmpty`, `ServeSeed`, `HydrateSeeded`, `HydrateLost` |
| `forget`, `onSessionExpired`, `clearForLogout` | `Forget`, `Expire`, `Logout`, `Login`, `Revoke` |
| `resync`, `SyncClient` | `Resync`, `Deliver`, `StreamOpens`, `StreamDrops`, `StreamReopens` |
| `saveLedger`, `loadLedger`, the base check of the other transactions | `Current`, `Refused`, `Apply`, `Commit`, `ServeWrite`, `ReadHead`, `ReadTable` |

**What is checked.** `VersionedLedger` is the promise to all the devices together: a
write adds one to the revision and erases no fact. `NoLostUpdate` says LedgerSync
implements it. `Inv`, the invariant of the proofs, is about loads that are not
transactions (it implies `ServerWhole`: no torn load is ever saved), `SameRevisionSameLedger` about the revision that travels with its data,
`NoSilentLoss` about what a reload may erase from the screen, `NothingStranded`
about the queue, `DebtAnnounced` about the fixed notice, `RevisionNeverBack` about
late answers; `QueueReleased` and `ReconnectionSettles` are liveness. `KeptInv`, in the
same module as `Inv`, is the invariant the proofs of those five rest on (section 10); it
is no property of a run.

| Run | Instance | Question |
|---|---|---|
| `devices` | 2 clients, 2 edits, 2 tables, one failure: a lost connection or the movements API | no lost update, torn loads never stored, the proofs' invariant |
| `requests` | 2 clients, all exclusive writes, blocked months, 1 failure | nothing stranded in the queue, the revision travels with its data |
| `pages` | 1 client, 3 edits or foreign writes, page changes | never back to an older revision, nothing typed is lost, types |
| `session` | 1 client of a new user, a dying session, a lost connection or a dropped stream, with fairness | the queue is always let go |
| `reconnect` | 1 client, dropped streams, refused, lost and garbled answers, 3 failures, with fairness | debts are announced, reconnecting settles what is owed |

**Bounds.** `Ops` bounds the edits (each typed once), `MaxFaults` the failures,
`LiveSlots` the live reloads in flight of a client. Two devices and two edits are
what every conflict needs: one edit that is committed and one based on what was
there before. Two tables are what a torn load needs. One failure separates a commit
from its answer; three let the stream drop, a save be lost and its reload fail. With
finitely many edits and failures the system may come to rest, hence
`CHECK_DEADLOCK FALSE`. Symmetry is used in safety runs only.

**Fairness.** Per client: the server answers a request that reached it, the browser
runs the handler of an answer that arrived and of an event, and the SyncClient
reopens a stream (its timer, or the browser's own retry). A lost answer is a
failure that ends the request, as a fetch does. Users owe nothing: editing, asking,
hydrating, signing in and out are under no fairness.

The passing runs leave out the cases section 9 describes: the request, the failure or
the user each needs is not among their `Requests`, `Faults` or `NewUser`.

## 4. LedgerClosure: the book on the server

**State.** `ledger` is what a snapshot replaces: the cells of income and expense
(`actuals`, `budgets`) and the movements behind them. `closedThrough`, `reopened` and
`baseline` are the columns of the anchor row that only a closing or a reopening
writes, `startMonth` and `openingBalance` those of the declared start, `current` the
month of the server's clock. `asked[d]` is what device d has asked for and not been
answered: which month its button named (`month`), whether the request has left
(`sent`), and whether the revision it carries, or would carry, is still the server's
(`fresh`). `reach` and `closedWith` are history variables. A month is a number, a range
a set of them.

**Steps.** One action per transaction of `ledgerRepo.ts`: `Put` (`saveLedger`), `Post`
(`insertMovement`), `Patch` and `Remove` (`writeMovement`), `SaveStart`, `ServeClose`,
`ServeReopen`, and `ServeRefused` for the 409 and 422 of the last two; plus the click
(`AskClose`, `AskReopen`), the wait for the save queue (`Send`, `Reload`) and the clock
(`Tick`). A snapshot is one domain mutation of the ledger it is based on, `setLeafAmount`
on Actual included, which the server refuses unless the cell was already unbalanced:
the guards, not the client, are what is checked. `ClosureScope` and `ActiveRange` are
the two computations of the range, server's and screen's.

**What is checked.** `ClosedBook` is the promise: the figures of a closed month and the
balance it hands to the next stay while it is closed, months close in order, and only
the last month ever closed can be opened. `BookKept` says LedgerClosure implements it,
with the balance of each month computed as the Balance computes it, the declared
opening included: that is how a write to the start of the history, which touches no
cell, can break it. `ClosesWhatWasShown` relates the click to what the server derives
on its own. `BaselineIsWhatWasClosed` relates a reopening to the closing before it.
`OneReopened` says that closings and reopenings, in any order, leave at most one month
open behind the last one closed. `ClosedMonthsBalanced` is about judgements that are relative while closing is absolute.

| Run | Instance | Question |
|---|---|---|
| `closure` | 2 devices, 3 months, 1 category, 1 movement, plans, 1 opening balance | the closed book, one month reopened, the month shown, the baseline |
| `journal` | 2 categories, 2 months, 2 movements of up to 2 units, cells that arrive unbalanced | types and no negative cell, no unbalanced closed month |

Three months let one be closed, one be reopened and one lie ahead; two devices press
the same button. Two movements in one cell are what an adjustment that outlives what it
corrected needs, and amounts of two let a removal overdraw a cell. `Put` needs no
device: any of them may have sent it.

The passing run has `EarlyData = FALSE` (nothing recorded before the declared start) and
`Waits = FALSE` (a click does not wait for the save queue): section 9 says what happens
otherwise. `journal` has both, with properties they do not touch.

**Left out.** Reserves, and with them the reserved half of the balance and the guard
`worsenedBy` (Reserve). The pay-cycle calendar (Cycles). Dates and notes of movements:
a change of note in a closed month is caught by the comparison of movements that the
model makes on whole records. The first save of a new user, which no guard judges. A
click and the closing it asks for fall in one month of the clock, and a tab has one
request at a time (`busy` in `ClosureControl.tsx`; a page change resets it: Screens has that).

## 5. Reserve: what pockets hold

**State.** `ledger` is the client's copy and `saved` the server's: for each plane
(`actual`, `budget`) the flow of each month and the cell of each pocket, the
operations of the journal (`ops`, from a pocket to another or to the balance), the
planned withdrawals (`plan`) and the ones an old version recorded for no pocket
(`global`). `start` is the declared start, `typed` the kinds of edits since the server
last answered. What a pocket holds, the balance and the chain of months are derived,
as in the code: `Series`, `Balance`, `Scan`, `CarryUsage`, `ChainCheck`. `Order` is the
order of the pockets in the grid; the ledgers first loaded hold no pocket below zero in
what is real (`LedgersAssumption`), as a ledger every write of which was judged does.

**Steps.** One action per operation of `reserve.ts` (the cell, `applyReserveOp`,
removing and editing an operation, planning and editing a withdrawal), each judged by
`ChainCheck` over the pockets it touches; a change of the flow, which is never judged; the
save, judged by `WorsenedBy` over the whole snapshot; its refusal; the declared
start; and the load, which shares out the withdrawals of no pocket (`Converted`): month
by month, the pockets are asked by what their plan holds, ties by the grid
(`AskedBefore`), each gives what it has after those before it gave (`Given`), and what
is left when all were asked goes to the first (`Takes`).

| Run | Instance | Question |
|---|---|---|
| `reserve` | 2 pockets, 2 months, amounts up to 1, flows of 0 or 2; a new user who declares a start, and one with every old plan of those sizes | no pocket below zero, the balance and the chain agree, the announced maxima are exact, the server refuses nothing the client accepted, sharing out moves no figure |

Two months are what a withdrawal allowed by its own month and refused by the next
needs, two pockets a move and a share-out; a flow of two makes room for both. A
snapshot gathers one edit (`MaxTyped`); no action depends on another plane's figures,
so a user works on one. `BalanceExplained` compares two computations that the code
keeps apart, `MaximaExact` an announced figure with the judgement of that figure and
of one more, `ServerAgrees` the client's judgement with the server's (for a plan
with no debt of an old version: section 9).

## 6. CategoryTree: figures that change node

**State.** `tree` gives each living node its level, parent and type; `rows` its amounts
(actual, budget, planned withdrawals) and counts of comments by month; `journal` the
movements with the labels they carry; `closed` the frontier. Nodes are numbered in the
order of the grid.

**Steps.** `CreateNode`, the four moves (to the root, a group elsewhere, to a category,
to a group) and `DeleteNode`, each with everything the code moves along: the first child
takes over what its parent had (`Adopt`), a category that enters another is flattened with
its children, deleting a pocket rewrites the ends of others' movements (`WithoutNode`)
unless that would corrupt them (`WouldCorrupt`), and nothing happens that changes a closed
month (`TouchesClosed`). `Load` runs the repairs on the ledger an old version left, node
after node. `Legacy` says what such a ledger may be: pockets with children and still a
journal or a plan, comments and labels anywhere, movements of a reserve between pockets and
what is available, none of which is below zero. It is less than what was once possible: the
repair of pockets says that an inner node with cells of its own is no concern of it, and
nothing repairs the journals that inner nodes of income or expenses kept before BG-017.
The entries (amounts, movements, contributions, plans, comments) and
`Close` are what the structure changes under.

`ClosedKept` says what a closed month may never lose to a reorganisation: the totals of each
type, what is reserved and, once the repairs ran, what it lists of every leaf (`Listed`: its
figures and its movements) and what each pocket held. A leaf of which a closed month has
something is then not given a first child, which would take it (BG-095); without that test
(`TouchesClosedNever`) the month lists those figures under another leaf. The repairs
themselves run past the guards and may move what an older version left in a leaf, so
the leaves are asked of a repaired ledger.

| Run | Instance | Question |
|---|---|---|
| `tree` | up to 4 nodes, 2 months; pockets that move money among them, expenses with movements, and two ledgers of an old version: with one pocket to repair, and with one above another whose leaf inherits from both | three levels and no cycle, nothing where no screen shows it, every roll-up, no total or pocket changed by reorganising, closed months |

Four nodes give a group, a category, a subcategory and another place to go; a second
month lets one be closed. Left out: names, icons and the order among siblings; the
ceiling of reserves (the income covers all of them), so that a deletion the server
alone would refuse for a month in deficit does not occur. Deleting a pocket
whose balance is zero takes its history with it, in open months too; the code documents it.

## 7. Cycles: figures that change calendar

**State.** `versions` is the list of paydays since cycles were activated, `calendar` the
table they make (kept as a variable: each step would compute it again), `ledger` cells,
movements, the memory of what a relocation merged (`origins`), start and frontier;
`before` and `touched` are history variables for `RoundTrip`. A day is a number, a key
2m for month m or the cycle that ends in it, 2m + 1 for a transition.

**Steps.** `Activate`, `ChangeDay` and `Return` are what `planVersionChange` asks of each
kind of change; with any of them `Apply` builds the next calendar, computes `Relocate`
(every movement to the cycle of its day or the one it opens, every cell with its
movements, the rest of a cell to where its income goes) and commits if nothing
blocks; `TypeCell`, `AddItem` and `Close` are what happens between.

| Run | Instance | Question |
|---|---|---|
| `cycles` | seven months of two or three days; up to three paydays and two changes of payday after the activation; five users: income and plan, closed months, a pocket, a plan of a pocket, notes and undated movements | the table is sound, everything is in its place, sums are kept, closed cycles stay, and going back restores what there was |

Short months keep every case of a payday (one the month lacks, with both policies;
one on the first or the last day; a third cycle in a month) in few days. What is recorded
belongs to the middle months (`Middle`, all but the first and the last two), before and
after a relocation: `InTheMiddle`, the one bound of `Apply`, stands for the months
`buildCalendar` adds on both sides of the ledger's (`TABLE_MARGIN_MONTHS`), so that no date
falls off the table. The run has the same states without it. Each user
has the entries that matter to one property: the entries of all together would
multiply the states and add no case. What `relocate` checks before it commits
(that every movement is placed and sums are kept) is a property here and not a guard;
negative cells and overdrawn pockets are guards (`Blocked`). The monthly key of an amount
without a day is kept between two tables of cycles that hold it, and is so in every
reachable state. Left out: a reopened cycle (it is not moved with the rest),
adjustments below zero, labels.

## 8. Forms and Screens: what a form writes over a ledger that changed

**State.** `book` is the ledger as one tab holds it, reduced to what forms tell apart: a
cell with a movement, a pocket with a withdrawal, the place and the children of a
category, the frontier, the payday. `form` is the React state of the form that is
open: its fields, whether anything was typed, the question asked, the preview and
the request under way. On the phone `hist`, `pos` and `backs` are the browser's history,
each entry with the depth its state carries, and the `history.back` calls not yet performed.
`requests` is the part of the store's chain of exclusive writes that closes and reopens: what
each asks for, the month it was asked for (`month`, none once the ledger was replaced),
whether it has left (`sent`) and whether the button that asked for it still waits (`held`).
`left` bounds the changes from elsewhere and the ones this tab saves.

**Steps.** Each handler of each form: the cell of the grid with its Detail, the pocket's
cell, the popover of withdrawals, deleting and moving a row, the period section with its
preview, request and retry, closing and reopening; and on the phone the same as screens,
with opening, replacing, «‹», the browser's buttons, reloading, deep links and the settings.
`Synchronised` paints another device's ledger under whatever is open: `Shown` says what
each form keeps of its fields (effects and keys of the components), and a screen whose
element is gone is redirected in the same step. What an edit does to a figure is the
domain's; here only its verdict counts (`MoveFits`, `PocketFits`, `OutFits`).

A closing, a reopening and a request of the period section are exclusive writes
(`store.ts:608-625`): each waits for the one before it and for the queue of saves, and
only then leaves. Pressing (`PressClosure`, `AnswerClosure`, `Preview`, `Confirm`) and
sending (`SendClosure`, `SendCycle`) are therefore two steps, and between them everything
goes on: the user types, navigates or reloads the page, and `Synchronised` may replace the
ledger, as a save that meets a conflict in the wait does (`store.ts:552-557`). What is
sent then is what was asked, over the ledger found there (`Overtaken`). Once it has left
(`Travelling`, `Busy`) the queue is held and nothing replaces the ledger but its own
answer. The guards against a second press belong to a component and go with it: who leaves
the phone's screen and comes back, or opens the period section meanwhile, may ask again
behind the first request (`Released`, `held`).

| Run | Instance | Question |
|---|---|---|
| `screens` | figures up to 1, 2 months, 2 paydays, 2 groups, 1 change from elsewhere, 2 of this tab (the closings it waits for among them), a history of 4 entries | types, honest depths, one creation per form, nothing retyped, nothing in a closed month, what was previewed, what was asked |
| `retyped` | the same, with figures up to 2 and 2 changes from elsewhere | a pocket's cell left untouched writes a stale figure (finding) |

A change from elsewhere overtakes a form, a question or a request in its wait; that it be
one is the bound of the state space (1.5 million states), and the theorems of section 10
hold for any number. Two changes of this tab let a second tap find the first done and a request
wait behind another: a tab asks for no more closings than it has changes left (`Edits`). Four
entries hold a form three screens deep above the page the user came from.

Simplified: one form is open at a time; a form is mounted again when its screen changes;
taps other than «‹» and submit wait for a pending back; a request whose answer is lost leaves
the book as it was, its effect coming as another device's change; the period section is
not left with a request under way; no form saves while a request travels (the edit
would wait in the queue, and be refused or reconciled afterwards: LedgerSync and LedgerClosure
have that); rows of planned withdrawals behave as those of withdrawals; a category moves to a
group (the levels are CategoryTree's). Left out: the register form, comments, dates, names
and icons.

## 9. Where the code departs from what it says

`retyped` is a run: `src/components/ReserveCells.tsx:236-237` says that leaving the
pocket's editor commits «igual que EditableCell», which does nothing when nothing was typed;
the pocket's editor compares the figure of when it opened with the cell of now, and
writes it back over another device's.

The following were met while modelling and are left without a run; the passing
instances exclude the case each needs. The instance that TLC refutes is named.

Synchronisation (LedgerSync):

- A new user's two devices seed at once; `hydrate` ignores the outcome of its seed
  (`src/state/store.ts:1030`), one keeps the other's revision with the seed's data and
  its next save erases the other's edit, although `serverRepository.ts:47-48` says the
  revision is adopted with its data. `NoLostUpdate` with `NewUser = TRUE`.
- The answer to a save sent before signing out sets the repository's revision after
  signing in again (`serverRepository.ts:183-188`); `store.ts:303-305` says a late answer
  decides nothing. `NoLostUpdate` with `Faults = {"session"}`.
- What is typed while a change of calendar travels is erased by the converging reload
  (`store.ts:775`, `:375`) without a word; `exclusive` (`store.ts:605-607`) says it waits
  and goes out. `NoSilentLoss` with `Requests = {"cycles"}`. So are edits typed
  during the reload after a 422 or when a closure is blocked.
- `NothingStranded` with a refused edit and a lost connection: the reload after a 422
  (`store.ts:541`) is lost and nothing marks the refused edit.
- `RevisionNeverBack` with `closure` (`serverRepository.ts:263` sets the revision of a
  closure's answer although a live reload may have adopted a newer one), with `cycles`
  (a converging reload wins over whatever was adopted before it arrived), and for a
  new user (a late 204).
- `DebtAnnounced` with `start`: a successful declaration clears the notice
  (`store.ts:808-811`).
- `ReconnectionSettles` with page changes: a new page replaces the dropped stream by one
  that asks for no catch-up.
- An event skipped while something travels (`store.ts:1051-1053`), or published between
  the hydration and the first opening of the stream (`syncClient.ts:62`), leaves the
  client behind until the next event.
- A save whose answer is lost and that is repeated with its old base meets its own
  first attempt as a conflict (`store.ts:478`).

Closing (LedgerClosure):

- Reopening computes the range without the current month (`ledgerRepo.ts:1387`), closing
  with it (`:1263`), although `:1383-1386` says the range is the same: with an amount
  before the declared start and none since, the baseline is the balance of an earlier
  month. `BaselineIsWhatWasClosed` with `EarlyData = TRUE`.
- A click on the closing button waits for the save queue (`store.ts:611`) and takes the
  revision it finds then; the server may close a month the button did not name, against
  `ledgerRepo.ts:893-894`. `ClosesWhatWasShown` with `Waits = TRUE`.

Reserves (Reserve):

- The floor of `chainCheck` is absolute (`reserve.ts:1055-1065`) and the server's guard
  passes it every pocket, while `guard.ts:100-101` says only what worsens is reported:
  with one pocket of an old plan in debt, setting money aside in another is accepted by
  the client and refused by the server.
- `guard.ts:36-39` says that lowering the income and raising a reserve, rejected combined,
  would be rejected in two steps too; in the other order the client accepts both (raise, then
  lower) and the server refuses the snapshot that gathers them.

Categories (CategoryTree):

- `deleteWouldCorrupt` (`mutations.ts:303-333`) compares what the leaves hold, and a
  pocket that an older version left with children and a journal is none until the repairs
  of a load ran. If that load could not run them (`ledgerRepo.ts:239-311`: the ledger is then
  served as it was), a pocket below may be deleted whose movements that one gave the
  money for. The ledgers of the instance have no such pair; with one, TLC finds
  `FiguresKept` violated, and the proofs take `RepairedFirst` as their hypothesis.

Calendar (Cycles):

- AC-2433 (`aitri/features/ciclos/spec/01_REQUIREMENTS.json:519`, «el snapshot es byte a
  byte el original») fails when a pocket's cell was typed below what was set aside in
  it: the rests of two months, one negative, may cancel out in one cycle, and
  `cycles.ts:845-851` then gives no part back. `RoundTrip` excludes it.
- After a change of payday a cell that comes to zero is deleted with its memory
  (`cycles.ts:840`) and may be missing after the return, where it had been a zero.

Forms (Forms, Screens):

- The same wait, seen from the forms: the button of the desktop and the question of the
  phone name a month (`ClosureScreen.tsx:106-109`: «una confirmación abierta nunca pasa
  a referirse a otro mes»), and the request leaves after the queue of saves. If a save
  that was in flight met a conflict, or if the user left the screen, came back and pressed
  again behind the first request, it reaches the month after. `QuestionHonoured` excludes
  requests whose ledger was replaced in the wait; without that (`Overtaken(q) == q`) TLC
  refutes it: press, another device's closing in the wait, send, answer. So it does if only the
  answer to an earlier request keeps the name: press, open the period section and come back,
  press again before the first is answered.
- And from the period section: a conflict in the wait of «Confirmar» takes the preview off the
  screen, and the target confirmed is then applied over a ledger nobody previewed
  (`PeriodModeSection.tsx:181-184`), although `:8` says «nada se persiste sin pasar por la
  previsualización (NFR-2412)». `AppliedAsPreviewed` asks that what is confirmed be what is
  previewed, and that what is applied be so while the preview is shown.
- «Guardar» tapped twice, or «‹» twice, before the browser has gone back goes back two
  entries, the second perhaps out of the application; the doc of `goBack`
  (`screenStack.ts:187-188`) says it never does.
- A field touched while the preview is computed (`PeriodModeSection.tsx:205-212`) leaves
  on screen, when the answer arrives, a preview that is not of the fields shown; what is
  confirmed is what was previewed (`AppliedAsPreviewed`).
- A cell whose month closes with the editor open shows what was typed as if it were the
  closed figure (`EditableCell`), and it is not written.
- A row of withdrawals takes the new amount over what was being typed (`PlanRow`, `OpRow`);
  a figure typed in a cell that became a parent meanwhile is dropped without a word.

## 10. Proofs

Every theorem holds for all values of the constants that satisfy the named assumptions
of its module and the hypotheses written in it; nothing else is assumed.

### LedgerSync

`LedgerSyncTypes` proves `TypeCorrect`: `Spec => []TypeOK`, from
`ConstantsAssumption` alone, with one lemma per function on stores and one per
action.

`LedgerSyncProofs` proves, under `Settled` (the user has a ledger, and sessions are
not interrupted):

| Theorem | States | And under |
|---|---|---|
| `Invariant` | `[]Inv` | |
| `TablesWhole` | `[]ServerWhole` | |
| `NothingLost` | `NoLostUpdate`, a refinement of `VersionedLedger` | |
| `QueueLeavesNothing` | `[]NothingStranded` | no save is refused with 422 (`BadOps = {}`) |
| `RevisionStandsForLedger` | `[]SameRevisionSameLedger` | the same |
| `DebtsAnnounced` | `[]DebtAnnounced` | no start is declared |
| `NothingInSilence` | `[]NoSilentLoss` | no 422, no change of calendar, no closure blocked |
| `NeverBack` | `RevisionNeverBack` | only saves are made (`Requests = {}`) |

Each hypothesis is one of section 9: without it TLC refutes the conclusion on the instance
named there. `RevisionStandsForLedger` needs its own because the edit that stays on screen
when the reload after a 422 is lost is on a store that owes nothing.

`NoLostUpdate` is not inductive: the step that could break it is the commit of a PUT,
and why that PUT contains everything stored is a fact about how its client got its
data. `Inv` (module `LedgerSyncInvariant`) says that whatever carries a revision b (a
store, a save in flight, an abandoned one, an answer, a load half read) carries tables
that are no older: unless some table changed after b, they contain what is stored and
agree with each other (`Fresh`). The rest makes that inductive: a load that still
reads has what the tables had unless one changed after its head (`ReadInv`); a save
whose answer is awaited contains no more than the screen (`Grown`); a live reload in
flight is dirty if something typed is unsaved (`EditsShielded`); nothing is typed
before the first load. `devices` checks `Inv` on an instance.

The other five rest on `KeptInv`, of one client against the server, in five parts. Two
hold always: what the queue holds and which reload can be under way (`QueueInv`), and that
whoever is at the server's revision has its declarations (`AnchorInv`). The others hold
under what the code needs for them: what is on screen has reached the server, or is
queued, unsaved, owed or in flight (`ScreenInv`); a debt is under a notice (`NoticeInv`);
and while a conflict is reconciled no other load is adopted (`SteadyInv`). The part that
took longest to state is the reload of a conflict another load overtakes (`Overtaken`): it
will be dropped, so it can answer for nothing on screen, and what is there must have
reached the server or be queued again. Its steps fall in three kinds. What goes on when a
request is let go (`Release`, `Resync`, `Drain`) is taken once, from what has to hold of a
store at that moment (`Ready`, `Bare`) to what holds after it (`Onward`). A write accepted
of anybody moves the revision on, so that for every other client what speaks of the
server's revision speaks of nothing (`KeptMoves`), and only the writer's own answer has
to be followed (`AnsweredKept`). A reload either is adopted, and then the tables it
brought are a part of the server's, or leaves the screen alone. TLC found no
counterexample to `KeptInv` on the instances of `requests`, `pages`, `reconnect` and
`devices`.

### LedgerClosure

`LedgerClosureProofs` proves, from the `ConstantsAssumption` of LedgerClosure:

- `OneReopenedAlways`: `Spec => []OneReopened`;
- `BookAlwaysKept`: `Spec => BookKept`, a refinement of `ClosedBook`;
- `ClosedMonthsAlwaysBalanced`: `Spec => []ClosedMonthsBalanced`;
- `TypeAlwaysOK`: `Spec => []TypeOK`;
- `BaselineAlwaysWhatWasClosed`: `[](~EarlyData => BaselineIsWhatWasClosed)`;
- `AlwaysClosesWhatWasShown`: `ClosesWhatWasShown` when no click waits (`~Waits`).

The hypotheses of the last two are the exclusions of the run `closure`, for the reasons of
section 9.

The inductive invariant of the first three is `Anchored`: `OneReopened`, the types of the anchor row and
the history, and no opening balance without a declared start. What makes it inductive is
`Successor`: the month the server derives is the one after the frontier, because the
range reaches back to the frontier and has no holes, whatever the data; without that,
closing could pass over the month reopened and leave its mark behind. For `BookKept`, a
write that passes `closedPeriodsViolated` keeps every row up to the frontier
(`ClosedKept`), and the balance handed on is computed from those rows and from the
opening that counts by then, which `closedStartBlocker` keeps (`StartOpening`). For the
balance of closed months, a cell that is unbalanced has data, the range holds every month
with data, and so no month left behind the new frontier was unbalanced.

`TypeOK` becomes inductive when the movements are finitely many (`Typed`), for a cell is a
sum of them. The baseline rests on two more invariants: nothing lies before a declared
start (`NothingEarly`), and the balance the last month closed with is still the one its
figures give (`ClosedWithKept`). The server computes it from the range as it is when the
month is closed and when it is reopened; that these ranges give the same balance
(`CarryIsBalance`) is where the data before the start would differ. `Shown` says that a
request whose revision is the server's names the month the server will derive.

### Reserve

`ReserveProofs` proves every property of the run `reserve`, from `ReserveAssumption` and
`LedgersAssumption`: `TypeAlwaysOK`, `FloorAlwaysKept`, `BalanceAlwaysExplained`,
`ServerAlwaysAgrees`, `ConversionAlwaysConserves` and `MaximaAlwaysExact`, for any number
of pockets and months, any amounts and any start.

- `TypeOK`, with the floor of what is real, is inductive: an operation touches the pockets
  `ChainCheck` looks at and no other, and a save or a load stores what a client had. The
  floors, the balance, the conversion and the maxima follow from it in each state.
- `BalanceExplained`: the scan of the ceiling and the balance of the screen are two
  recursions over the months; they satisfy the same equations (`Scans`), which have one
  solution (`ScansUnique`).
- `ServerAgrees` speaks of a whole snapshot, of which the client judged each edit on its
  own. `NoWorseTyped` is what accumulates: no month of the client's ledger is worse than
  the stored one and no pocket is below zero in the plan.
- `ConversionConserves`: what the pockets give adds up to what was asked (`TakesSum`), so
  the plan moves by nothing in the month (`SharedNet`); and no pocket falls below zero,
  because in turn each month finds together in the pockets what the rule before it left
  (`HeldInTurn`, `SharedFloor`).
- `MaximaExact`: adding a to the net of month m leaves the months before it as they were
  and takes a from the carry of those after it, until a start declared later cuts the
  chain (`ScanMoved`); whether a month is made worse is then a comparison of a with its
  figures (`MovedFigures`), and the maximum is the least of them (`SlackLimits`).

### CategoryTree

`CategoryTreeProofs` proves five theorems, for any number of nodes and months. From
`TreeAssumption` and `BooksAssumption` (the ledger first found has a tree),
`TreeIsATree`: `Spec => []TypeOK`. A node is at most of the third level and hangs from a
living one of its own type and of the level above, so there is no cycle and no orphan.
`TreeOK` is inductive as it stands; the work is in the moves, which rewrite the levels of a
whole branch in one step (`SubtreeKept`: what is below a branch stays below it).

With `LegacyAssumption` (section 6) besides, `NothingIsOrphaned`:
`Spec => []NothingOrphaned`. The property speaks of a ledger that was loaded; `Hanging` says
what holds before too, and is inductive with `TreeOK`: until the repairs run, a pocket with
children may keep a plan and be the end of a movement, and no other inner node may.

- A reorganisation takes a leaf away at most, the one that gains its first child, and that
  one cedes what it had to a leaf of the new tree (`ReorganiseHangs`). Each move has to show
  that the receiver is a leaf and that the other leaves still are.
- A deletion leaves no movement of the deleted node: it is dropped, or becomes one of the
  pocket that gave the money (`WithoutMoves`).
- The repairs are recursions over the nodes. They exist (`PocketsMended`,
  `CommentsMended`), and `Mended(b, i)` says that of the nodes up to i nothing is left to
  repair: what one of them gives goes to a leaf, so no later step brings any of it back.

The other three are about figures: `ClosedMonthsKept` (`ClosedKept`), and `NoFigureMoves`
(`FiguresKept`) and `GridIsRight` (`GridAddsUp`) as long as no pocket is deleted before the
repairs of a first load ran (`RepairedFirst`; without it both are false, section 9). The
invariant is `Sound`: `TypeOK`, what hangs, and `Balanced`, a journal whose movements have a
number of their own (`FreshNumber`: the one a new movement takes is free) and whose
operations of a reserve have a pocket at both ends, or at one and nothing at the other. For
the floor of the pockets `Floor` is added to it.

- Creating, moving and each step of the repairs are one thing (`HandedOver`): what node a
  has, figures and movements, becomes node b's, of the same type, or nothing moves at
  all. A sum over a type, or what all its pockets hold, is then the same sum with one term
  moved (`HandedTotals`, `HandedReserved`); what b holds month by month is what both
  held, because a movement between the two, which is dropped, took from one
  what it gave the other (`CombinedSeries`).
- What a pocket holds is a sum over the months of its contributions and of what the
  journal moved (`SeriesIs`), and what is reserved, by the contributions and what went
  back to what is available, is the sum of what the pockets hold (`ReservedHeld`): money
  moved between two pockets counts twice, with opposite signs.
- A deleted node has no figure, and what other pockets hold is what the deletion checks.
  It looks at the leaves alone: after the repairs that is every pocket (`DeletedHolds`).
- The repairs of several pockets, one above another, give to a leaf what all of them held:
  `Givers(i, p)` says whose money p has once the nodes up to i were repaired.
- `Frozen` compares what a month has, not what it shows. `FrozenHad` and `FrozenSeries` derive
  from it what the closed months have of each node and what the pockets hold in them; once
  repaired a month has nothing of a node that is no leaf (`ListsAllItHas`), so what it lists of
  the leaves is all of that.
- The recursions of `rollupTable` have one solution, by levels (`OnlySums`), and the sums of
  the branches are one (`SumsAreFixed`); the groups of a type part its nodes (`Rooted`).

### Cycles

`CyclesProofs` proves `CalendarIsSound`: `Spec => []CalendarSound`, from `LengthsAssumption`
(at least two months, each with a day) and `UsersAssumption` (what may be chosen is a day
from 1 on with one of the two policies, in a middle month of the table), for months of any
length and any number of changes of payday. The invariant, `CalendarInv`, only adds types; the
work is in what `buildCalendar` computes.

- A day is in one month (`MonthOfIs`, `MonthOfHas`) and later days in later months
  (`MonthsGrow`), by induction over the months.
- `NamedTiles` is the step of the table: what is named after the month it ends in starts
  where the table ended and has a greater key, or is added to the transition that month had.
- The paydays are the anchors of the versions, and go up (`PaydaysAre`), so each is followed
  by its eve or a later day, and the table is a tiling by induction along them
  (`TableTiles`); months are one too (`MonthsTile`).
- A table of cycles needs a payday at least, and `CyclesAreSound` finds it: an activation
  has all those of its version, and a change of payday is refused (`ChangeDay`) unless the
  version before it keeps one.

With `LedgersAssumption` besides (the ledgers first found are finite and of the schema, of
middle months, each dated movement in the month of its day, the movements told apart by
their numbers, nothing relocated yet), for any leaves, amounts and number of movements:

- `EverythingStaysPlaced`: `Spec => []EverythingPlaced`;
- `RelocationsConserve`: `Spec => Conserved`;
- `ClosedCyclesStay`: `Spec => ClosedKept`;
- `LedgerIsTyped`: `Spec /\ Floors => []TypeOK`.

`relocate` checks its own result before it commits (`checkRelocationInvariants`,
`cycles.ts:974`): that sums are kept, rules (i) and (ii), and that every movement and every
key is of the table, rules (iii) and (iv) (`cycles.ts:1009-1025`). The model has no such
guard, and the first two theorems say that it would never act: the first is (iii) and (iv),
the second (i) and (ii). `Floors` says that at first no pocket is below zero, in what was
done or in the plan. It is a hypothesis of that theorem and not of the ledgers, because an
old plan in the red is let through (BG-062) and the other three hold of it as well.

The invariant is `PlacedInv`: `CalendarInv`; `LedgerInv` (the ledger is `Shaped`, the memory
included); `EverythingPlaced`; `VersionsInv`, that the calendar is that of the versions and
each starts on a payday of its own after one of the version before it (`Chain`); and
`MiddleOf`, that the keys and the days of the ledger are of the middle months and that the
memory is of months of the table. Without the last two, a day beyond the last cycle
would have no key, and `EverythingPlaced` would not survive a change of calendar.

- A table of cycles covers the days from its first payday to the eve of its last
  (`CyclesCalendar`): that of the first month by the first version, and that of the last one
  by the last version, whatever was changed in between. So a table covers the middle months
  (`TableReaches`, from `Chain`) and every day of them has a key (`DayHasKey`).
- What has no day goes by its month or by its memory, and has a key too (`MapKeyPlaced`,
  `PlacePlaced`); hence whatever a cell sends and a movement becomes (`SentPlaced`,
  `MovePlaced`), and the ledger (`RelocatePlaced`). A change accepted keeps `Chain`
  (`ChangeLeads`); what is recorded or closed after it is of the table (`RecordedKeeps`,
  `CloseKeeps`).
- What one cell sends adds up to what was typed in it (`SentHas`): one piece, or the parts
  of its memory. `RestoredHas` follows the need of `restoreParts` from the latest month
  back: the parts add up to the cell and to what no part could give (`missing`), which
  is 0 in a relocation that is not blocked.
- What the sources of a row send and what its movements bring are all the pieces of the row
  (`RowPieces`), told apart by their sources; `CellsAfter` puts them in cells of the row and
  leaves out only cells of nothing (`RowAfter`); and the row was the same sum before it
  (`TypedTotal`, `DoneTotal`).
- A new movement has a number (`FreeNumber`): the guard on the size leaves one.

`ClosedCyclesStay` needs `MarkedInv` too: the start, what is closed and the start to go back
to are keys of the calendar, or none. Without it the end of what is closed would be that of
no cycle. It has two halves.

- A new payday adds a version that pays after what is closed, so up to there the paydays
  are the ones there were (`AnchorsShare`, `PaydaysShare`), and the tables have the same
  cycles, except that the last may go on: a third cycle of a month is added to its
  transition. `ClosedAsItWas` refuses the payday that would do it to a closed cycle, and
  this is where the proof uses it (`TablesShare`, `PastShared`). Then what is of a closed
  cycle stays in it and nothing of an open one comes into it (`PastMoves`, `PastStays`),
  so that a closed cell gets the pieces it had (`StaysSum`, `PastKept`).
- An activation maps the last closed month to the cycle that its payday opens. Later days
  have later keys, so a day of a closed month, and the payday of one, is in that cycle or
  before it (`DayOpened`, `PaydayOpened`), and what has no day goes to one of those
  (`DatelessOpened`). The plan of a closed cycle has then at least that of the closed
  months (`OpensRows`); what was done is of the movements and may be more or less, which is
  why `ClosedKept` asks it of the movements one by one (`OpensMoves`).

### Screens

`ScreensProofs` proves, from `FormsAssumption` and `ScreensAssumption` alone, for every
size of the book, every length of the history and every number of changes from elsewhere:

- `Agreement`: `Spec => []IInv`;
- `Typed`, `BackStaysInside`, `OneCreation`: `TypeOK`, `DepthHonest` and `CreatedOnce` always;
- `NoClosedFigure`, `AppliesThePreview`, `ClosesWhatWasAsked`, `UntypedWritesNothing`: the
  action properties `ClosedNotWritten`, `AppliedAsPreviewed`, `QuestionHonoured` and
  `NothingRetyped`.

None of them is inductive, since each rests on what a form remembers of an earlier book.
`IInv` says what that is. Saving a movement from the panel of a cell has no test of the
month of its own: it is safe because the inner editor is taken away with its month
(`InnerOK`). A request to apply, or an offer to repeat one, is of the preview and of the
book of now, because any other book takes preview, target and offer away together; one
that waits when that happens has no target any more, and is the case the property leaves
out (`CycleOK`). A closing or a reopening in the chain would reach the month it was
asked for as long as it still names one (`RequestsOK`): a ledger replaced in its wait, or
the answer of the request before it, takes the name off (`Overtaken`), and nothing is painted
once it travels. `ClosesWhatWasAsked` and `AppliesThePreview` carry these exclusions in
their statements, for the code does not keep them (section 9). On the phone the form is the
one of the screen shown (`Belongs`), because a screen that changes mounts its form anew,
redirections included.

`NothingRetyped` needs `Following` besides: a field in which nothing was typed shows the
figure of the book of now, because every ledger painted under it rewrites it
(`ShownFollows`). What is written on leaving it is then what is there. The cell of a pocket
has no such rule, which is what the run `retyped` shows.

### FiniteInduction

The library's induction theorems take an operator as a parameter, and no installed prover
instantiates one. `FiniteInduction` states induction over the naturals, an interval and
the subsets of a finite set with the hypothesis as a set, from the well-foundedness of
`<` and of inclusion; shows that a function defined by recursion exists
(`RecursionExists`), without which its definition, a `CHOOSE`, means nothing; and gives a
sum over a finite set its equations (`TotalRemove`, `TotalAdd`, `TotalExchange` and
others). LedgerClosure, Reserve, CategoryTree and Cycles need no other induction.

### Only model-checked

- Liveness (`QueueReleased`, `ReconnectionSettles`), which is out of the prover's reach.
- In Cycles, `RoundTrip` (a return gives back what there was): it relates two relocations,
  and those between them, through the memory of what each of them merged.

## 11. What is not modelled

What each module leaves out is said in its section. LedgerSync moreover abstracts:

- Edits only add, each once: what matters there is whether a write erases another
  device's; deletions and corrections are in the domain modules. The undo window and the
  guard of 600 ms against a double tap (`DOUBLE_TAP_MS`) read a clock no other part reads.
- One exclusive write of a client awaits the queue at a time, and one hydration is in
  flight; a live reload beyond `LiveSlots` replaces an older one.
- An abandoned request is executed without looking at the session again; a PUT is
  judged by the client's session at that moment.
- The repairs of a load are in CategoryTree and Reserve; that the server saves them is
  one more write of the kind LedgerSync has.
- Which snapshots the server refuses is a set of edits (`BadOps`); what a refusal means
  is in LedgerClosure and Reserve.

No module composes the synchronisation with the whole domain: the product of their states
is out of reach, and the interface between them is narrow (a snapshot replaces the
ledger, a guard refuses it), so that each side takes the other as a nondeterministic choice.

Components left aside, with the reason:

- Migrations between versions of the document: a chain of pure conversions of a document
  read once. What they have to leave right (withdrawals of no pocket, children of a leaf) is
  in Reserve and CategoryTree.
- Identifiers: a counter that only grows; the modules take identifiers not in use.
- Password recovery and rate limiting: single statements of the database, and a count of
  instants in one process; no ledger depends on them.
- Preferences: one scalar written outside the snapshot.
- The history of closures: a list that is only appended to and read with a limit of 200.
- Mail, environment, clock, database schema, build and deployment: input, output and
  declarations.

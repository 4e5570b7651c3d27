---------------------------- MODULE LedgerClosure ----------------------------
(***************************************************************************)
(* One user's book on the server: the cells of income and expense with the *)
(* movements behind them, the frontier of closed months, the start of the  *)
(* history; and every write that reaches it, each a transaction with its   *)
(* guards (src/server/data/ledgerRepo.ts over src/domain/closure.ts,       *)
(* openingGuard.ts, mismatch.ts, adjust.ts and mutations.ts).              *)
(*                                                                         *)
(* Months are consecutive numbers, as in the monthly calendar; a range is  *)
(* a set of months. Reserves are a module of their own.                    *)
(***************************************************************************)
EXTENDS Integers, FiniteSets, Sequences, FiniteSetsExt

CONSTANTS
  Leaves,      \* the leaf categories of income and expense
  Incomes,     \* those of income
  Ids,         \* the movements that may exist
  MaxMonth,    \* the last month of the horizon
  MaxAmount,   \* bound on amounts and cells
  MaxBudget,   \* bound on planned amounts
  Openings,    \* the opening balances a user may declare
  Legacy,      \* cells an old ledger may bring without movements
  Devices,     \* the user's devices
  Waits,       \* TRUE: a click may wait for the device's save queue
  EarlyData    \* TRUE: amounts may be recorded before the declared start

Months == 1 .. MaxMonth
NoMonth == -1    \* older than every month, so that NoMonth < p always holds
NoAmount == -1

ASSUME ConstantsAssumption ==
  /\ Leaves # {} /\ IsFiniteSet(Leaves) /\ Incomes \subseteq Leaves
  /\ MaxMonth \in Nat /\ MaxAmount \in Nat /\ MaxBudget \in Nat
  /\ Openings \subseteq Nat
  /\ Legacy \subseteq Leaves \X Months
  /\ Waits \in BOOLEAN /\ EarlyData \in BOOLEAN

VARIABLES
  ledger,          \* the rows a snapshot replaces: cells and movements
  closedThrough,   \* ledger.closed_through: the frontier
  reopened,        \* ledger.reopened_period
  baseline,        \* ledger.reopen_base_available
  startMonth,      \* ledger.start_month
  openingBalance,  \* ledger.opening_balance
  current,         \* the month of today (serverToday)
  asked,           \* the closing or reopening each device has asked for
  reach,           \* history: the last month ever closed
  closedWith       \* history: the balance with which the last closed month closed

anchor == <<closedThrough, reopened, baseline>>
opening == <<startMonth, openingBalance>>
vars == <<ledger, anchor, opening, current, asked, reach, closedWith>>

-----------------------------------------------------------------------------
(* Cells and movements.                                                    *)

Movement == [id : Ids, target : Leaves, period : Months,
             amount : Int, kind : {"manual", "adjustment"}]

Amounts == [Leaves -> [Months -> Int]]

Snapshot == [actuals : Amounts, budgets : Amounts, movements : SUBSET Movement]

SumAmounts(movements) == MapThenSumSet(LAMBDA m : m.amount, movements)

MovementsAt(l, p) == {m \in l.movements : m.period = p}

\* movementSum: what the journal says of a cell.
MovementSum(l, t, p) == SumAmounts({m \in MovementsAt(l, p) : m.target = t})

\* cellMismatches: the cells that do not hold the sum of their movements.
Mismatches(l) ==
  {c \in Leaves \X Months : l.actuals[c[1]][c[2]] # MovementSum(l, c[1], c[2])}

Bump(l, t, p, delta) == [l EXCEPT !.actuals[t][p] = @ + delta]

\* addMovement: the movement and its cell together.
Added(l, m) ==
  [Bump(l, m.target, m.period, m.amount) EXCEPT !.movements = @ \cup {m}]

Removed(l, m) ==
  [Bump(l, m.target, m.period, -m.amount) EXCEPT !.movements = @ \ {m}]

WouldGoNegative(prev, next) ==
  \E t \in Leaves, p \in Months : next.actuals[t][p] < 0 /\ prev.actuals[t][p] >= 0

FreshIds(l) == Ids \ {m.id : m \in l.movements}

\* adjustCell: typing a total records the difference as an adjustment.
Adjusted(l, i, t, p, value) ==
  LET diff == value - MovementSum(l, t, p)
      m == [id |-> i, target |-> t, period |-> p, amount |-> diff, kind |-> "adjustment"]
  IN  [l EXCEPT !.actuals[t][p] = value,
                !.movements = IF diff = 0 THEN @ ELSE @ \cup {m}]

\* montoValido: a manual movement is positive, an adjustment only not zero.
AmountsOf(kind) ==
  IF kind = "manual" THEN 1 .. MaxAmount ELSE (-MaxAmount .. MaxAmount) \ {0}

Movements(id, kind, targets, range) ==
  [id : {id}, target : targets, period : range \cap Months, amount : AmountsOf(kind), kind : {kind}]

\* An expense does not become income by changing its category.
SameType(t) == IF t \in Incomes THEN Incomes ELSE Leaves \ Incomes

\* addMovement on the leaves and months of the ledger.
Additions(l) == {Added(l, m) : m \in UNION {Movements(i, "manual", Leaves, Months) : i \in FreshIds(l)}}

\* Variant: the cell is lowered without looking at what is left in it.
RemovalsUnchecked(l, m) == {Removed(l, m)}

\* deleteMovement: undoes what the movement added, unless a cell goes below zero.
Removals(l, m) == {n \in {Removed(l, m)} : ~WouldGoNegative(l, n)}

\* editMovement: amount, category and period, within the range of the one who
\* edits; the kind stays. (Amount 0 deletes.)
Edits(l, m, range) ==
  LET changed == {Added(Removed(l, m), n) : n \in Movements(m.id, m.kind, SameType(m.target), range)}
  IN  {n \in changed : ~WouldGoNegative(l, n)} \cup Removals(l, m)

\* The bounds of the model: cells within MaxAmount, and what EarlyData says.
Bounded(next) ==
  \A t \in Leaves, p \in Months :
    /\ next.actuals[t][p] <= MaxAmount
    /\ EarlyData \/ startMonth <= p
         \/ (next.actuals[t][p] = ledger.actuals[t][p] /\ next.budgets[t][p] = ledger.budgets[t][p])

-----------------------------------------------------------------------------
(* Ranges and the closing of months.                                       *)

\* The months with a figure or a movement.
DataPeriods(l) ==
  {p \in Months : \/ \E t \in Leaves : l.actuals[t][p] # 0 \/ l.budgets[t][p] # 0
                  \/ \E m \in l.movements : m.period = p}

Hull(S) == {p \in 0 .. MaxMonth : \E a, b \in S : a <= p /\ p <= b}

Declared(m) == {m} \ {NoMonth}

\* serverScope: from the oldest to the newest month with data, and today's.
ServerScope(extra) == Hull(DataPeriods(ledger) \cup extra)

\* Variants: without the frontier as an anchor (BG-094), and without the start.
ScopeFromData(extra) ==
  LET floor == DataPeriods(ledger) \cup Declared(startMonth)
  IN  IF Declared(startMonth) = {} THEN ServerScope(extra)
      ELSE {p \in 0 .. MaxMonth :
              /\ \E a \in floor : a <= p
              /\ (\E b \in ServerScope(extra) : p <= b) \/ (\A a \in floor : p <= a)}
ScopeWithoutStart(extra) ==
  IF closedThrough = NoMonth THEN ServerScope(extra)
  ELSE Hull(DataPeriods(ledger) \cup Declared(closedThrough) \cup extra)

\* closureScope: the declared start and the frontier lower the floor; today's
\* month raises the ceiling and is not a floor.
ClosureScope(extra) ==
  LET floor == DataPeriods(ledger) \cup Declared(startMonth) \cup Declared(closedThrough)
  IN  IF Declared(startMonth) \cup Declared(closedThrough) = {} THEN ServerScope(extra)
      ELSE {p \in 0 .. MaxMonth :
              /\ \E a \in floor : a <= p
              /\ (\E b \in ServerScope(extra) : p <= b) \/ (\A a \in floor : p <= a)}

\* activeBounds: the range the screen shows, to the end of the horizon.
ActiveRange ==
  LET base == IF startMonth # NoMonth THEN startMonth ELSE current
      floor == {base} \cup DataPeriods(ledger) \cup Declared(closedThrough)
  IN  {p \in 0 .. MaxMonth : \E a \in floor : a <= p}

IsClosed(p) == closedThrough # NoMonth /\ p <= closedThrough

\* nextClosable: the oldest open month of the range, unless it is yet to come.
NextClosable(range) ==
  {p \in range : /\ p \in Months /\ p > closedThrough /\ p <= current
                 /\ \A q \in range : q > closedThrough => p <= q}

\* closureFromRow: a reopened month is believed only next to the frontier.
Reopened == IF closedThrough # NoMonth /\ reopened = closedThrough + 1 THEN reopened ELSE NoMonth

\* Variant: reopening goes on backwards.
NextReopenableAny == Declared(closedThrough) \cap Months

\* nextReopenable: the last closed month, one at a time.
NextReopenable == IF Reopened = NoMonth THEN Declared(closedThrough) \cap Months ELSE {}

\* Variant: closing does not look at the journal.
CloseBlockersNone(p) == {}

CloseBlockers(p) == {c \in Mismatches(ledger) : c[2] = p}

\* Income minus expense of a month, from what its cells hold.
Flow(column) ==
  LET sign(t) == IF t \in Incomes THEN column[t] ELSE -column[t]
  IN  MapThenSumSet(sign, Leaves)

Flows(l, last) ==
  [p \in 1 .. last |-> Flow([t \in Leaves |-> l.actuals[t][p]])]

\* computeBalanceSeries on Actual, with nothing in reserve: what is available at
\* the end of `last`, starting from `first`; the declared month opens with the
\* declared balance in place of what was carried.
Available(flows, first, last, start, amount) ==
  LET carry[p \in first - 1 .. last] ==
        IF p < first THEN 0
        ELSE (IF p = start /\ amount # NoAmount THEN amount ELSE carry[p - 1])
             + (IF p \in DOMAIN flows THEN flows[p] ELSE 0)
  IN  carry[last]

\* closingCarry: the balance at the last month of the range up to `p`.
ClosingCarry(range, p) ==
  LET upTo == {q \in range : q <= p}
  IN  IF upTo = {} THEN 0
      ELSE Available(Flows(ledger, Max(upTo \cup {1})), Min(upTo), Max(upTo), startMonth, openingBalance)

-----------------------------------------------------------------------------
(* The guards every write of figures passes.                               *)

\* closedPeriodsViolated: the closed months whose figures or movements differ.
ClosedPeriodsViolated(prev, next) ==
  {p \in Months :
     /\ IsClosed(p)
     /\ \/ \E t \in Leaves : \/ prev.actuals[t][p] # next.actuals[t][p]
                             \/ prev.budgets[t][p] # next.budgets[t][p]
        \/ MovementsAt(prev, p) # MovementsAt(next, p)}

WorsenedCellMismatches(prev, next) == Mismatches(next) \ Mismatches(prev)

\* The snapshots a client may send: one domain mutation of what it loaded. The
\* last two are setLeafAmount, on Actual for a client older than the journal.
Snapshots(l, range) ==
  Additions(l)
  \cup (UNION {Edits(l, m, range) : m \in l.movements})
  \cup {Adjusted(l, i, t, p, v) :
          i \in FreshIds(l), t \in Leaves, p \in range \cap Months, v \in 0 .. MaxAmount}
  \cup {[l EXCEPT !.budgets[t][p] = v] : t \in Leaves, p \in Months, v \in 0 .. MaxBudget}
  \cup {[l EXCEPT !.actuals[t][p] = v] : t \in Leaves, p \in Months, v \in 0 .. MaxAmount}

NoAsk == [what |-> "none", month |-> NoMonth, sent |-> FALSE, fresh |-> FALSE]

\* A commit raises the revision: what the devices have asked for is now stale.
Stale == [d \in Devices |-> [asked[d] EXCEPT !.fresh = FALSE]]

Store(next) ==
  /\ Bounded(next)
  /\ ledger' = next
  /\ asked' = Stale
  /\ UNCHANGED <<anchor, opening, current, reach, closedWith>>

\* saveLedger on the current revision: the closing first, then the journal.
Put ==
  \E next \in Snapshots(ledger, ActiveRange) :
    /\ ClosedPeriodsViolated(ledger, next) = {}
    /\ WorsenedCellMismatches(ledger, next) = {}
    /\ Store(next)

\* insertMovement: no base revision, and no judgement of the journal.
Post ==
  \E next \in Additions(ledger) :
    /\ ClosedPeriodsViolated(ledger, next) = {}
    /\ Store(next)

\* writeMovement: the month of the movement, then what the change brings about.
Write(m, nexts) ==
  /\ ~IsClosed(m.period)
  /\ \E next \in nexts :
       /\ ClosedPeriodsViolated(ledger, next) = {}
       /\ WorsenedCellMismatches(ledger, next) = {}
       /\ Store(next)

Patch ==
  \E m \in ledger.movements : Write(m, Edits(ledger, m, ClosureScope({m.period})))

Remove == \E m \in ledger.movements : Write(m, Removals(ledger, m))

\* The start in force: declared, or the first month with data.
StartInForce ==
  IF startMonth # NoMonth THEN {startMonth}
  ELSE {p \in DataPeriods(ledger) : \A q \in DataPeriods(ledger) : p <= q}

\* Variant: only the start in force is looked at, not the one proposed.
StartBlockedInForce(candidate) == \E p \in StartInForce : IsClosed(p)

\* closedStartBlocker: the start in force and the one proposed have to be open.
StartBlocked(candidate) == \E p \in StartInForce \cup {candidate} : IsClosed(p)

\* newlyOrphanedByStart: the months with data that the change leaves out.
NewlyOrphaned(candidate) ==
  {p \in DataPeriods(ledger) : p < candidate /\ \A q \in StartInForce : q <= p}

\* saveStartFor, on the current revision.
SaveStart ==
  \E candidate \in Months, amount \in Openings \cup {NoAmount} :
    /\ ~StartBlocked(candidate)
    /\ NewlyOrphaned(candidate) = {}
    /\ startMonth' = candidate /\ openingBalance' = amount
    /\ asked' = Stale
    /\ UNCHANGED <<ledger, anchor, current, reach, closedWith>>

-----------------------------------------------------------------------------
(* Closing and reopening, from the button to the server.                   *)

Ask(d, what, month) ==
  /\ asked[d] = NoAsk
  /\ \E sent \in {TRUE, ~Waits} :
       asked' = [asked EXCEPT ![d] = [what |-> what, month |-> month, sent |-> sent, fresh |-> TRUE]]
  /\ UNCHANGED <<ledger, anchor, opening, current, reach, closedWith>>

\* The button names the month; it is off while a cell of it is unbalanced.
AskClose(d) ==
  \E p \in NextClosable(ActiveRange) : CloseBlockers(p) = {} /\ Ask(d, "close", p)

AskReopen(d) == \E p \in NextReopenable : Ask(d, "reopen", p)

\* exclusive(): the request leaves, with the revision the device has by then,
\* once the save queue is empty; a save that met a conflict reloads meanwhile.
Send(d) ==
  /\ asked[d].what # "none" /\ ~asked[d].sent
  /\ asked' = [asked EXCEPT ![d].sent = TRUE]
  /\ UNCHANGED <<ledger, anchor, opening, current, reach, closedWith>>

Reload(d) ==
  /\ asked[d].what # "none" /\ ~asked[d].sent /\ ~asked[d].fresh
  /\ asked' = [asked EXCEPT ![d].fresh = TRUE]
  /\ UNCHANGED <<ledger, anchor, opening, current, reach, closedWith>>

Answered(d) == asked' = [Stale EXCEPT ![d] = NoAsk]

Arrived(d, what) == asked[d].what = what /\ asked[d].sent

\* closeMonth: the frontier moves to p; closing the reopened month clears the mark.
CloseMonth(p) ==
  /\ closedThrough' = p
  /\ IF Reopened = p
     THEN reopened' = NoMonth /\ baseline' = <<>>
     ELSE reopened' = Reopened /\ baseline' = baseline

\* closeMonthFor: the request does not say which month, the server derives it.
ServeClose(d) ==
  \E p \in NextClosable(ClosureScope({current})) :
    /\ Arrived(d, "close") /\ asked[d].fresh
    /\ CloseBlockers(p) = {}
    /\ CloseMonth(p)
    /\ Answered(d)
    /\ reach' = p
    /\ closedWith' = ClosingCarry(ClosureScope({current}), p)
    /\ UNCHANGED <<ledger, opening, current>>

\* reopenMonthFor: the frontier goes back one month and the balance of the month
\* that is freed is photographed.
ServeReopen(d) ==
  \E p \in NextReopenable :
    /\ Arrived(d, "reopen") /\ asked[d].fresh
    /\ closedThrough' = p - 1 /\ reopened' = p
    /\ baseline' = <<ClosingCarry(ClosureScope({}), p)>>
    /\ Answered(d)
    /\ UNCHANGED <<ledger, opening, current, reach, closedWith>>

\* 409 on an old revision, or 422: nothing closable or reopenable, or unbalanced.
ServeRefused(d) ==
  /\ \/ asked[d].sent /\ ~asked[d].fresh
     \/ Arrived(d, "close") /\ \A p \in NextClosable(ClosureScope({current})) : CloseBlockers(p) # {}
     \/ Arrived(d, "reopen") /\ NextReopenable = {}
  /\ asked' = [asked EXCEPT ![d] = NoAsk]
  /\ UNCHANGED <<ledger, anchor, opening, current, reach, closedWith>>

\* The clock of the server, in LEDGER_TZ. A click and its closing fall in one month.
Tick ==
  /\ current < MaxMonth
  /\ \A d \in Devices : asked[d] = NoAsk
  /\ current' = current + 1
  /\ UNCHANGED <<ledger, anchor, opening, asked, reach, closedWith>>

-----------------------------------------------------------------------------
Zero == [t \in Leaves |-> [p \in Months |-> 0]]

Init ==
  /\ \E S \in SUBSET Legacy :
       ledger = [actuals |-> [t \in Leaves |-> [p \in Months |-> IF <<t, p>> \in S THEN 1 ELSE 0]],
                 budgets |-> Zero, movements |-> {}]
  /\ closedThrough = NoMonth /\ reopened = NoMonth /\ baseline = <<>>
  /\ startMonth = NoMonth /\ openingBalance = NoAmount
  /\ current = 1
  /\ asked = [d \in Devices |-> NoAsk]
  /\ reach = NoMonth /\ closedWith = 0

Next ==
  \/ Put \/ Post \/ Patch \/ Remove \/ SaveStart \/ Tick
  \/ \E d \in Devices :
       \/ AskClose(d) \/ AskReopen(d) \/ Send(d) \/ Reload(d)
       \/ ServeClose(d) \/ ServeReopen(d) \/ ServeRefused(d)

Spec == Init /\ [][Next]_vars

-----------------------------------------------------------------------------
(* Properties.                                                             *)

\* The types, with the conditions the schema states as CHECKs (a reopened month
\* follows the frontier and has a baseline, and only then is there one) and no cell
\* below zero after any order of additions, adjustments, edits and deletions,
\* although an adjustment may be negative and may outlive what it corrected.
TypeOK ==
  /\ ledger \in Snapshot
  /\ \A t \in Leaves, p \in Months : ledger.actuals[t][p] >= 0
  /\ closedThrough \in {NoMonth} \cup 0 .. MaxMonth
  /\ reopened \in {NoMonth} \cup Months
  /\ reopened # NoMonth => closedThrough # NoMonth /\ reopened = closedThrough + 1
  /\ baseline \in Seq(Int) /\ Len(baseline) = IF reopened = NoMonth THEN 0 ELSE 1
  /\ startMonth \in {NoMonth} \cup Months
  /\ openingBalance \in {NoAmount} \cup (IF startMonth = NoMonth THEN {} ELSE Openings)
  /\ current \in Nat
  /\ asked \in [Devices -> [what : {"none", "close", "reopen"}, month : {NoMonth} \cup Months,
                            sent : BOOLEAN, fresh : BOOLEAN]]
  /\ reach \in {NoMonth} \cup Months

\* At most one month is open behind the last one closed, and it is that one: however
\* closings and reopenings alternate, the rest of the closed months are a prefix.
OneReopened ==
  IF reopened = NoMonth THEN closedThrough = reach
  ELSE closedThrough # NoMonth /\ reopened = closedThrough + 1 /\ reach = reopened

\* The opening that counts in month m.
OpeningAt(start, amount, m) ==
  IF start <= m THEN <<start, amount>> ELSE <<NoMonth, NoAmount>>

\* What the book shows of a month, with the balance it hands to the next one.
FiguresOf(l, start, amount, m) ==
  [actuals |-> [t \in Leaves |-> l.actuals[t][m]],
   budgets |-> [t \in Leaves |-> l.budgets[t][m]],
   movements |-> MovementsAt(l, m),
   balance |-> Available(Flows(l, m), 1, m, OpeningAt(start, amount, m)[1],
                         OpeningAt(start, amount, m)[2])]

\* Whatever route a write takes (snapshot, movements API, start of the history), the
\* figures and the balance of a closed month stay; months close in order; and no
\* sequence of reopenings reaches a month before the last one closed (ADR-13).
Book == INSTANCE ClosedBook WITH
  frontier <- closedThrough, figures <- [m \in Months |-> FiguresOf(ledger, startMonth, openingBalance, m)]
BookKept == Book!Spec

\* A month that was closed balances: each of its cells holds the sum of its
\* movements, and no later write, which is judged relatively, unbalances it.
ClosedMonthsBalanced == \A c \in Mismatches(ledger) : ~IsClosed(c[2])

\* The month the server closes, or reopens, is the one the button named, although
\* the request does not carry it and the two compute different ranges (FR-2703).
ClosesWhatWasShown ==
  [][\A d \in Devices :
       (asked[d].what # "none" /\ asked'[d].what = "none" /\ closedThrough' # closedThrough)
         => asked[d].month = (IF asked[d].what = "close" THEN closedThrough' ELSE reopened')]_vars

\* The balance photographed when a month is reopened, against which the impact of
\* the corrections is measured, is the one it was closed with.
BaselineIsWhatWasClosed == reopened # NoMonth => baseline = <<closedWith>>

=============================================================================

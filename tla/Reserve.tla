------------------------------- MODULE Reserve -------------------------------
(***************************************************************************)
(* The reserves of a budget (src/src/domain/reserve.ts), the guard the     *)
(* server judges a snapshot with (src/src/domain/guard.ts) and the balance *)
(* both have to agree with (src/src/domain/balance.ts).                    *)
(*                                                                         *)
(* A pocket is a leaf of type "transfer".  Its cell of a month is what was *)
(* set aside that month; taking money out or moving it to another pocket   *)
(* is an operation of the journal; in the plan, taking it out is a planned *)
(* withdrawal of the pocket.  What a pocket holds is derived from these.   *)
(*                                                                         *)
(* `ledger` is the client's copy and `saved` the server's.  The client     *)
(* judges every operation by itself; the server sees only the snapshot     *)
(* that several of them left.                                              *)
(***************************************************************************)
EXTENDS Integers, FiniteSetsExt, SequencesExt

CONSTANTS
  Order,       \* the pockets, in the order of the grid
  MaxMonth,    \* the range goes from month 1 to MaxMonth
  MaxAmount,   \* the largest amount typed
  Flows,       \* what a month's income minus its expense may be typed to
  Users,       \* for each user, the planes worked on, the starts that may be
               \* declared, [month, amount] or month 0, and the ledgers first loaded
  MaxTyped     \* edits a snapshot may gather before it is sent

Pockets == Range(Order)
Months == 1..MaxMonth
Amounts == 0..MaxAmount
Available == "@disponible"
Ends == Pockets \cup {Available}
Starts == UNION {u.starts : u \in Users}

ASSUME ReserveAssumption ==
  /\ Order \in Seq(Pockets)
  /\ \A i, j \in DOMAIN Order : Order[i] = Order[j] => i = j
  /\ MaxMonth \in Nat \ {0} /\ MaxAmount \in Nat
  /\ Flows \subseteq Int /\ 0 \in Flows
  /\ \A u \in Users : u.planes \subseteq {"budget", "actual"}
  /\ MaxTyped \in Nat
  /\ Available \notin Pockets
  /\ \A s \in Starts : s.month \in 0..MaxMonth /\ s.amount \in Nat

VARIABLES
  ledger,   \* the client's copy
  saved,    \* the server's copy
  start,    \* the declared start, written by a request of its own
  typed,    \* the kinds of edits since the last answer of the server, in order
  planes    \* the planes this user works on: no rule of one reads the other

vars == <<ledger, saved, start, typed, planes>>

Max0(n) == IF n > 0 THEN n ELSE 0

\* The sum over the pockets of what f gives each.
OverPockets(f) ==
  LET sum[i \in 0..Len(Order)] == IF i = 0 THEN 0 ELSE sum[i - 1] + f[Order[i]]
  IN  sum[Len(Order)]

-----------------------------------------------------------------------------
(* What a pocket holds *)

\* The journal is kept as what it moved in each month between two ends: no
\* derivation tells two operations of the same ends and month apart.  What is
\* set aside from Available comes by the cell, and nothing reads its entry.
Outs(l, p, m) == l.ops[p][Available][m] + OverPockets([q \in Pockets |-> l.ops[p][q][m]])

Ins(l, p, m) == OverPockets([q \in Pockets |-> l.ops[q][p][m]])

\* The change of pocket p in month m of a plane.
Change(l, pl, p, m) ==
  l.cells[pl][p][m]
    + (IF pl = "actual" THEN Ins(l, p, m) - Outs(l, p, m)
                        ELSE - l.plan[p][m])

\* The running total of a change, month by month.
Accumulated(change) ==
  LET acc[m \in 0..MaxMonth] ==
        IF m = 0 THEN <<>>
        ELSE LET done == acc[m - 1] IN
             Append(done, (IF m = 1 THEN 0 ELSE done[m - 1]) + change[m])
  IN  acc[MaxMonth]

\* resolvedSeries: what pocket p holds at the end of every month.
Series(l, pl, p) == Accumulated([m \in Months |-> Change(l, pl, p, m)])

Reserved(l, pl, m) == OverPockets([p \in Pockets |-> Series(l, pl, p)[m]])

-----------------------------------------------------------------------------
(* What is available: the ceiling's chain and the balance *)

Contributions(l, pl, m) == OverPockets([p \in Pockets |-> l.cells[pl][p][m]])

\* Variant: a move counts as a withdrawal of the pocket it left (BG-001).
WithdrawalsMoves(l, pl, m) ==
  IF pl = "actual" THEN OverPockets([p \in Pockets |-> Outs(l, p, m)])
                   ELSE OverPockets([p \in Pockets |-> l.plan[p][m]]) + l.global[m]

Withdrawals(l, pl, m) ==
  IF pl = "actual" THEN OverPockets([p \in Pockets |-> l.ops[p][Available][m]])
                   ELSE OverPockets([p \in Pockets |-> l.plan[p][m]]) + l.global[m]

Net(l, pl, m) == Contributions(l, pl, m) - Withdrawals(l, pl, m)

\* The balance every plane carries from month to month (computeBalanceSeries):
\* the month declared as the start opens with the declared amount.
Balance(l, pl) ==
  LET b[m \in 0..MaxMonth] ==
        IF m = 0 THEN <<>>
        ELSE LET done == b[m - 1]
                 prev == IF m = 1 THEN [available |-> 0, reserved |-> 0] ELSE done[m - 1]
                 opens == IF start.month = m THEN start.amount ELSE prev.available
                 net == Net(l, pl, m)
             IN  Append(done, [available |-> opens + l.flow[pl][m] - net,
                               reserved  |-> prev.reserved + net])
  IN  b[MaxMonth]

\* openingCarry and declaredOpeningAt: what a month of the ceiling's chain opens with.
Opens(s, m, carried) == IF s.month = m THEN s.amount ELSE IF m = 1 THEN 0 ELSE carried

\* techoScan: the margin of a month is what its reserves may use, its net what
\* they do use, its carry what it leaves available.
Scan(l, pl) ==
  LET scan[m \in 0..MaxMonth] ==
        IF m = 0 THEN <<>>
        ELSE LET done == scan[m - 1]
                 before == Opens(start, m, IF m = 1 THEN 0 ELSE done[m - 1].carry) + l.flow[pl][m]
                 margin == Max0(before)
                 net == Net(l, pl, m)
             IN  Append(done, [margin |-> margin, net |-> net, carry |-> before - net,
                               excess |-> Max0(net - margin), deficit |-> Max0(net - before)])
  IN  scan[MaxMonth]

\* What month m had before its own flow, for the note that explains its reserves.
Before(s, m, carried) == Max0(Opens(s, m, carried))

\* monthCarryUsage: what month m reserved, its flow first and what it had before next.
CarryUsage(l, pl, m) ==
  LET scan == Scan(l, pl)
      net == scan[m].net
      fromFlow == Max0(Min({net, l.flow[pl][m]}))
  IN  [reserved |-> net, fromFlow |-> fromFlow,
       fromBefore |-> Min({net - fromFlow,
                           Before(start, m, IF m = 1 THEN 0 ELSE scan[m - 1].carry)})]

-----------------------------------------------------------------------------
(* The rule: chainCheck *)

Floors(cand, pl, affected) ==
  {[rule |-> "piso", month |-> m, leaf |-> p, limit |-> Series(cand, pl, p)[m]] :
     m \in Months, p \in affected}

\* The first month each affected pocket would be below zero.
FloorBroken(cand, pl, affected) ==
  {f \in Floors(cand, pl, affected) :
     /\ f.limit < 0
     /\ \A m \in 1..(f.month - 1) : Series(cand, pl, f.leaf)[m] >= 0}

\* Months whose ceiling or whose deficit the candidate worsens.
Worsened(base, cand, pl) ==
  LET b == Scan(base, pl)
      c == Scan(cand, pl)
      limits == {Max0(b[m].margin - b[m].net) : m \in {k \in Months : c[k].excess > b[k].excess}}
                  \cup {Max0(b[m].carry) : m \in {k \in Months : c[k].deficit > b[k].deficit}}
  IN  {[rule |-> "techo", month |-> m, leaf |-> Available, limit |-> Min(limits)] :
         m \in {k \in Months : c[k].excess > b[k].excess}}
      \cup
      {[rule |-> "deficit", month |-> m, leaf |-> Available, limit |-> Min(limits)] :
         m \in {k \in Months : c[k].deficit > b[k].deficit}}

ChainCheck(base, cand, pl, affected) ==
  FloorBroken(cand, pl, affected) \cup Worsened(base, cand, pl)

RuleOrder == [piso |-> 1, techo |-> 2, deficit |-> 3]

\* The violation that is announced: the earliest, in the order of the rules.
Blocking(violations) ==
  CHOOSE v \in violations : \A w \in violations :
    \/ v.month < w.month
    \/ v.month = w.month /\ RuleOrder[v.rule] <= RuleOrder[w.rule]

Allowed(base, cand, pl, affected) == ChainCheck(base, cand, pl, affected) = {}

-----------------------------------------------------------------------------
(* The guard of the server *)

TouchesReserves(prev, next) ==
  \/ prev.cells # next.cells
  \/ prev.plan # next.plan \/ prev.global # next.global
  \/ prev.ops # next.ops

\* worsenedBy: every pocket and both planes, whatever the snapshot touched.
WorsenedBy(prev, next) ==
  IF TouchesReserves(prev, next)
  THEN UNION {ChainCheck(prev, next, pl, Pockets) : pl \in {"actual", "budget"}}
  ELSE {}

\* convertPlannedRetiros, one month: the pockets are asked by what their plan
\* holds, those that hold as much in the order of the grid; each gives what it
\* has, and what is left when all were asked goes to the first.
Holds(l, m) == [p \in Pockets |-> Series(l, "budget", p)[m]]

Place(p) == CHOOSE i \in DOMAIN Order : Order[i] = p

AskedBefore(holds, q, p) ==
  \/ holds[q] > holds[p]
  \/ holds[q] = holds[p] /\ Place(q) < Place(p)

\* What the pockets asked before p could give together.
Given(holds, p) ==
  OverPockets([q \in Pockets |-> IF AskedBefore(holds, q, p) THEN Max0(holds[q]) ELSE 0])

Takes(holds, amount) ==
  LET all == OverPockets([q \in Pockets |-> Max0(holds[q])]) IN
  [p \in Pockets |->
    Min({Max0(holds[p]), Max0(amount - Given(holds, p))})
      + (IF \E q \in Pockets : AskedBefore(holds, q, p) THEN 0 ELSE Max0(amount - all))]

Shared(l, m) ==
  LET takes == Takes(Holds(l, m), l.global[m]) IN
  IF l.global[m] = 0 THEN l
  ELSE [l EXCEPT !.global[m] = 0,
                 !.plan = [p \in Pockets |-> [l.plan[p] EXCEPT ![m] = @ + takes[p]]]]

\* Variant: every month is shared out over the balances before the conversion.
ConvertedAtOnce(l) ==
  [l EXCEPT !.plan = [p \in Pockets |-> [m \in Months |-> Shared(l, m).plan[p][m]]],
            !.global = [m \in Months |-> 0]]

\* The months in order, so that October sees what September left.
Converted(l) ==
  LET c[m \in 0..MaxMonth] == IF m = 0 THEN l ELSE Shared(c[m - 1], m) IN
  IF Pockets = {} THEN l ELSE c[MaxMonth]

-----------------------------------------------------------------------------
(* The operations, as the candidates they build *)

WithCell(l, pl, p, m, v) == [l EXCEPT !.cells[pl][p][m] = v]
WithPlan(l, p, m, v) == [l EXCEPT !.plan[p][m] = v]
WithOp(l, from, to, m, a) == [l EXCEPT !.ops[from][to][m] = a]

Type(kind) == Len(typed) < MaxTyped /\ typed' = Append(typed, kind)

\* Income and expense are never judged (NFR-1803).
EditFlow(pl, m, v) ==
  /\ ledger.flow[pl][m] # v
  /\ ledger' = [ledger EXCEPT !.flow[pl][m] = v]
  /\ Type("flow")
  /\ UNCHANGED <<saved, start, planes>>

\* Variant: the cell is judged by its own month alone.
EditCellMonth(pl, p, m, v) ==
  LET cand == WithCell(ledger, pl, p, m, v) IN
  /\ v # ledger.cells[pl][p][m]
  /\ \A x \in ChainCheck(ledger, cand, pl, {p}) : x.month > m
  /\ ledger' = cand
  /\ Type("reserve")
  /\ UNCHANGED <<saved, start, planes>>

\* applyReserveCellEdit.
EditCell(pl, p, m, v) ==
  LET cand == WithCell(ledger, pl, p, m, v) IN
  /\ v # ledger.cells[pl][p][m]
  /\ Allowed(ledger, cand, pl, {p})
  /\ ledger' = cand
  /\ Type("reserve")
  /\ UNCHANGED <<saved, start, planes>>

\* applyReserveOp.  Setting aside writes the cell; taking out and moving write
\* the journal alone.
SetAside(p, m, a) ==
  LET cand == WithCell(ledger, "actual", p, m, ledger.cells["actual"][p][m] + a) IN
  /\ Allowed(ledger, cand, "actual", {p})
  /\ ledger' = cand
  /\ Type("reserve")
  /\ UNCHANGED <<saved, start, planes>>

\* Variant: removing an operation is not judged, as before techo-de-flujo.
OperateFree(p, q, m, a) ==
  LET cand == WithOp(ledger, p, q, m, a) IN
  /\ p # q /\ a # ledger.ops[p][q][m]
  /\ a = 0 \/ Allowed(ledger, cand, "actual", {p, q} \ {Available})
  /\ ledger' = cand
  /\ Type("reserve")
  /\ UNCHANGED <<saved, start, planes>>

\* Taking out or moving (applyReserveOp), correcting or removing an operation
\* (editReserveOp, removeReserveOp): what p gave to q in month m becomes a.
Operate(p, q, m, a) ==
  LET cand == WithOp(ledger, p, q, m, a) IN
  /\ p # q /\ a # ledger.ops[p][q][m]
  /\ Allowed(ledger, cand, "actual", {p, q} \ {Available})
  /\ ledger' = cand
  /\ Type("reserve")
  /\ UNCHANGED <<saved, start, planes>>

\* planRetiro adds to the planned withdrawal, editPlannedRetiro sets it.
ChangePlan(p, m, v) ==
  LET cand == WithPlan(ledger, p, m, v) IN
  /\ v # ledger.plan[p][m]
  /\ Allowed(ledger, cand, "budget", {p})
  /\ ledger' = cand
  /\ Type("reserve")
  /\ UNCHANGED <<saved, start, planes>>

PlanRetiro(p, m, a) == ChangePlan(p, m, ledger.plan[p][m] + a)
EditPlannedRetiro(p, m, v) == ChangePlan(p, m, v)

\* saveStartFor: a request of its own, judged by the closure and the data it
\* would leave out, never by the reserves.
SetStart(s) ==
  /\ s # start /\ s.month = start.month
  /\ start' = s
  /\ Type("flow")
  /\ UNCHANGED <<ledger, saved, planes>>

\* saveLedger: the snapshot is converted, judged against what is stored, and
\* stored; the client keeps its own.
Save ==
  LET next == Converted(ledger) IN
  /\ typed # <<>>
  /\ WorsenedBy(saved, next) = {}
  /\ saved' = next
  /\ typed' = <<>>
  /\ UNCHANGED <<ledger, start, planes>>

\* A rejection is definitive: what was typed is dropped and what is stored loaded.
Rejected ==
  /\ typed # <<>>
  /\ WorsenedBy(saved, Converted(ledger)) # {}
  /\ ledger' = saved
  /\ typed' = <<>>
  /\ UNCHANGED <<saved, start, planes>>

\* loadLedger: the conversion may fail, and then what is stored is served as it is.
Load ==
  /\ typed = <<>>
  /\ \E converted \in BOOLEAN :
       /\ saved' = IF converted THEN Converted(saved) ELSE saved
       /\ ledger' = saved'
  /\ UNCHANGED <<start, typed, planes>>

Empty ==
  [flow   |-> [pl \in {"budget", "actual"} |-> [m \in Months |-> 0]],
   cells  |-> [pl \in {"budget", "actual"} |-> [p \in Pockets |-> [m \in Months |-> 0]]],
   plan   |-> [p \in Pockets |-> [m \in Months |-> 0]],
   global |-> [m \in Months |-> 0],
   ops    |-> [p \in Pockets |-> [q \in Ends |-> [m \in Months |-> 0]]]]

Init ==
  /\ \E u \in Users : planes = u.planes /\ start \in u.starts /\ saved \in u.ledgers
  /\ ledger = saved
  /\ typed = <<>>

Next ==
  \/ \E pl \in planes, m \in Months :
       \/ \E v \in Flows : EditFlow(pl, m, v)
       \/ \E p \in Pockets, v \in Amounts : EditCell(pl, p, m, v)
  \/ "actual" \in planes /\ \E p \in Pockets, m \in Months :
       \/ \E a \in Amounts \ {0} : ledger.cells["actual"][p][m] + a <= MaxAmount /\ SetAside(p, m, a)
       \/ \E q \in Ends, a \in Amounts : Operate(p, q, m, a)
  \/ "budget" \in planes /\ \E p \in Pockets, m \in Months :
       \/ \E a \in Amounts \ {0} : ledger.plan[p][m] + a <= MaxAmount /\ PlanRetiro(p, m, a)
       \/ \E v \in Amounts : EditPlannedRetiro(p, m, v)
  \/ \E s \in Starts : SetStart(s)
  \/ Save
  \/ Rejected
  \/ Load

Spec == Init /\ [][Next]_vars

-----------------------------------------------------------------------------
(* Properties *)

Ledgers ==
  [flow   : [{"budget", "actual"} -> [Months -> Int]],
   cells  : [{"budget", "actual"} -> [Pockets -> [Months -> Nat]]],
   plan   : [Pockets -> [Months -> Nat]],
   global : [Months -> Nat],
   ops    : [Pockets -> [Ends -> [Months -> Nat]]]]

NonNegative(l, pl, p) == \A m \in Months : Series(l, pl, p)[m] >= 0

\* What is first loaded holds no pocket below zero in what is real.
ASSUME LedgersAssumption ==
  \A u \in Users : \A l \in u.ledgers :
    l \in Ledgers /\ \A p \in Pockets : NonNegative(l, "actual", p)

\* The types, and no pocket holds less than nothing, in any month, after any sequence of
\* contributions, withdrawals, moves and corrections: the floor of chainCheck,
\* which looks only at the pockets an operation names.
TypeOK ==
  /\ ledger \in Ledgers /\ saved \in Ledgers
  /\ \A l \in {ledger, saved}, p \in Pockets : NonNegative(l, "actual", p)
  /\ planes \in {u.planes : u \in Users}
  /\ start \in Starts
  /\ typed \in Seq({"flow", "reserve"}) /\ Len(typed) <= MaxTyped

\* In the plan too a pocket never falls below zero: one an old version left
\* there may stay, nothing typed takes another there (FR-3008).
FloorKept ==
  [][Len(typed') > Len(typed) =>
       \A pl \in planes, p \in Pockets :
         NonNegative(ledger, pl, p) => NonNegative(ledger', pl, p)]_vars

\* The balance the screen shows and the chain the ceiling is judged by are two
\* computations that must agree (BG-031), and the reserved balance is what the
\* pockets hold together, with nothing counted twice or lost on a move (BG-001).
\* A month whose reserves are not marked as over its ceiling is explained to the
\* last peso: what its flow gave and what came from before add up to what it
\* reserved (FR-1804, BG-041).
BalanceExplained ==
  \A pl \in planes :
    LET balance == Balance(ledger, pl)
        scan == Scan(ledger, pl)
    IN  \A m \in Months :
          /\ balance[m].available = scan[m].carry
          /\ (\A k \in Months : ledger.global[k] = 0) =>
               balance[m].reserved = Reserved(ledger, pl, m)
          /\ scan[m].net > 0 /\ scan[m].excess = 0 =>
               LET usage == CarryUsage(ledger, pl, m)
               IN  usage.fromFlow + usage.fromBefore = scan[m].net

\* Variant: the maximum looks at its own month alone.
SlackMonth(l, pl, m) == LET s == Scan(l, pl) IN Max0(s[m].margin - s[m].net)

\* chainedAporteSlack: what may still be set aside in month m, seen along the chain.
Slack(l, pl, m) ==
  LET s == Scan(l, pl) IN
  Min({Max0(s[m].margin - s[m].net)}
        \cup {Max0(s[k].margin - s[k].net) : k \in {j \in Months : j > m /\ s[j].margin > 0}}
        \cup {Max0(s[k].carry) : k \in m..MaxMonth})

\* The maximum a cell announces (cellHeadroom) is accepted as it is and refused
\* with one more (reserve.ts:655), along a chain of months its editor does not
\* show; and the limit of the refusal is that same figure (reserve.ts:1106).  A
\* start declared after the month cuts the chain: there it may announce less.
HeadroomExact ==
  \A pl \in planes, m \in Months, p \in Pockets :
    LET slack == Slack(ledger, pl, m)
        more(a) == ChainCheck(ledger, WithCell(ledger, pl, p, m, ledger.cells[pl][p][m] + a), pl, {p})
        refused == more(slack + 1)
    IN  NonNegative(ledger, pl, p) =>
          /\ slack > 0 => more(slack) = {}
          /\ start.month <= m => refused # {} /\ Blocking(refused).limit = slack

\* maxWithdrawal.
MaxWithdrawal(l, pl, p, m) == Max0(Min({Series(l, pl, p)[k] : k \in m..MaxMonth}))

\* The maximum a withdrawal announces is accepted as it is and refused with one
\* more, in what is real and in the plan: later months may have used the money.
MaxWithdrawalExact ==
  \A p \in Pockets, m \in Months :
    LET top(pl) == MaxWithdrawal(ledger, pl, p, m)
        out(a) == WithOp(ledger, p, Available, m, ledger.ops[p][Available][m] + a)
        planned(a) == WithPlan(ledger, p, m, ledger.plan[p][m] + a)
        real(a) == Allowed(ledger, out(a), "actual", {p})
        plan(a) == Allowed(ledger, planned(a), "budget", {p})
    IN  /\ "actual" \in planes => real(top("actual")) /\ ~real(top("actual") + 1)
        /\ "budget" \in planes /\ NonNegative(ledger, "budget", p) =>
             plan(top("budget")) /\ ~plan(top("budget") + 1)

\* Both maxima the editors announce are exact.
MaximaExact == HeadroomExact /\ MaxWithdrawalExact

\* Whatever operations on reserves the client accepted one by one, the server
\* accepts the snapshot they leave (NFR-2102: no stricter than the app), once
\* the plan has no withdrawal of no pocket and no pocket in debt from before.
Settled(l) ==
  /\ \A m \in Months : l.global[m] = 0
  /\ \A p \in Pockets : NonNegative(l, "budget", p)

ServerAgrees ==
  Range(typed) \subseteq {"reserve"} /\ Settled(saved) /\ ledger.global = saved.global
    => WorsenedBy(saved, Converted(ledger)) = {}

\* plannedRetiroLimit: what the old rule let the plan take out of month m.
PlannedLimit(l, m) ==
  LET in == Accumulated([k \in Months |-> Contributions(l, "budget", k)])
      out == Accumulated([k \in Months |-> Withdrawals(l, "budget", k)])
  IN  Max0(in[m] - (IF m = 1 THEN 0 ELSE out[m - 1]))

\* Sharing out the withdrawals of no pocket moves no figure of the plan's
\* balance, has nothing left to do, and leaves no pocket below zero if the old
\* rule allowed every one of them (FR-3006).
ConversionConserves ==
  LET c == Converted(ledger) IN
  "budget" \in planes =>
  /\ Balance(c, "budget") = Balance(ledger, "budget")
  /\ Converted(c) = c
  /\ (\A m \in Months : ledger.global[m] <= PlannedLimit(ledger, m)
                        /\ \A p \in Pockets : ledger.plan[p][m] = 0)
       => \A p \in Pockets : NonNegative(c, "budget", p)

=============================================================================

------------------------- MODULE LedgerClosureProofs -------------------------
(***************************************************************************)
(* What LedgerClosure keeps for every set of categories, movements,        *)
(* devices and months: at most one month reopened, the book of closed      *)
(* months and that they balance, the types, the balance photographed when  *)
(* a month is reopened, and the month the button names.                    *)
(***************************************************************************)
EXTENDS LedgerClosure, FiniteInduction

\* The inductive form of OneReopened: the anchor row and the history are typed.
Anchored ==
  /\ closedThrough \in {NoMonth} \cup 0 .. MaxMonth
  /\ reach \in {NoMonth} \cup Months
  /\ startMonth \in {NoMonth} \cup Months
  /\ startMonth = NoMonth => openingBalance = NoAmount
  /\ OneReopened

\* What every action but the closing and the reopening leaves alone.
AnchorKept == UNCHANGED <<anchor, reach>>

\* nextClosable over the server's range is the month after the frontier: the range
\* reaches back to the frontier and has no holes (BG-094).
LEMMA Successor ==
  ASSUME Anchored, NEW extra, closedThrough # NoMonth,
         NEW p \in NextClosable(ClosureScope(extra))
  PROVE  p = closedThrough + 1
<1> DEFINE next == closedThrough + 1
<1>1. closedThrough \in 0 .. MaxMonth /\ p \in Months /\ p > closedThrough /\ p \in ClosureScope(extra)
  BY DEF Anchored, NextClosable
<1>2. next \in 0 .. MaxMonth /\ next <= p /\ next > closedThrough /\ closedThrough <= next
  BY <1>1, ConstantsAssumption DEF Months
<1>3. closedThrough \in Declared(closedThrough)
  BY DEF Declared
<1>4. next \in ClosureScope(extra)
  <2> DEFINE floor == DataPeriods(ledger) \cup Declared(startMonth) \cup Declared(closedThrough)
  <2>1. Declared(startMonth) \cup Declared(closedThrough) # {} /\ closedThrough \in floor
    BY <1>3
  <2>2. ClosureScope(extra) = {q \in 0 .. MaxMonth :
              /\ \E a \in floor : a <= q
              /\ (\E b \in ServerScope(extra) : q <= b) \/ (\A a \in floor : q <= a)}
    BY <2>1 DEF ClosureScope
  <2> HIDE DEF floor
  <2>3. ~(p <= closedThrough)
    BY <1>1, ConstantsAssumption DEF Months
  <2>4. PICK b \in ServerScope(extra) : p <= b
    BY <1>1, <2>1, <2>2, <2>3
  <2>5. b \in 0 .. MaxMonth
    BY DEF ServerScope, Hull
  <2>6. next <= b
    BY <1>1, <1>2, <2>4, <2>5, ConstantsAssumption DEF Months
  <2>7. \E a \in floor : a <= next
    BY <1>2, <2>1
  <2> QED BY <1>2, <2>2, <2>4, <2>6, <2>7
<1>5. p <= next
  BY <1>2, <1>4 DEF NextClosable
<1> QED BY <1>1, <1>2, <1>5, ConstantsAssumption DEF Months

-----------------------------------------------------------------------------
LEMMA InitAnchored == Init => Anchored
BY DEF Init, Anchored, OneReopened

LEMMA CloseAnchored ==
  ASSUME Anchored, NEW d \in Devices, ServeClose(d)
  PROVE  Anchored'
<1>1. PICK p \in NextClosable(ClosureScope({current})) :
        CloseMonth(p) /\ reach' = p /\ UNCHANGED opening
  BY DEF ServeClose
<1>2. p \in Months /\ p # NoMonth /\ p > closedThrough
  BY ConstantsAssumption DEF NextClosable, Months, NoMonth
<1>3. closedThrough' = p /\ startMonth' = startMonth /\ openingBalance' = openingBalance
  BY <1>1 DEF CloseMonth, opening
<1>4. OneReopened'
  <2>1. reopened' = NoMonth
    <3>1. CASE reopened = NoMonth
      BY <1>1, <3>1 DEF CloseMonth, Reopened, Anchored, OneReopened
    <3>2. CASE reopened # NoMonth
      <4>1. closedThrough # NoMonth /\ reopened = closedThrough + 1
        BY <3>2 DEF Anchored, OneReopened
      <4>2. p = reopened /\ Reopened = reopened
        BY <4>1, Successor DEF Reopened
      <4> QED BY <1>1, <4>2 DEF CloseMonth
    <3> QED BY <3>1, <3>2
  <2> QED BY <1>1, <1>3, <2>1 DEF OneReopened
<1> QED BY <1>1, <1>2, <1>3, <1>4, ConstantsAssumption DEF Anchored, Months

LEMMA ReopenAnchored ==
  ASSUME Anchored, NEW d \in Devices, ServeReopen(d)
  PROVE  /\ Anchored'
         /\ closedThrough \in Months /\ closedThrough = reach /\ closedThrough' = closedThrough - 1
<1>1. PICK p \in NextReopenable :
        /\ closedThrough' = p - 1 /\ reopened' = p
        /\ UNCHANGED <<ledger, opening, current, reach, closedWith>>
  BY DEF ServeReopen
<1>2. Reopened = NoMonth /\ p = closedThrough /\ closedThrough \in Months
  BY <1>1 DEF NextReopenable, Declared
<1>3. reopened = NoMonth /\ closedThrough = reach
  BY <1>2, ConstantsAssumption DEF Reopened, Anchored, OneReopened, Months, NoMonth
<1>4. closedThrough' # NoMonth /\ reopened' # NoMonth /\ reopened' = closedThrough' + 1
      /\ closedThrough' \in 0 .. MaxMonth /\ reach' = reopened'
  BY <1>1, <1>2, <1>3, ConstantsAssumption DEF Months, NoMonth
<1> QED BY <1>1, <1>2, <1>3, <1>4 DEF Anchored, OneReopened, opening

LEMMA KeptAnchored ==
  ASSUME Anchored, AnchorKept, startMonth' \in {NoMonth} \cup Months,
         startMonth' = NoMonth => openingBalance' = NoAmount
  PROVE  Anchored'
BY DEF Anchored, AnchorKept, OneReopened, anchor

\* The steps other than the closing, the reopening and the declaration of the start.
Ordinary ==
  \/ Put \/ Post \/ Patch \/ Remove \/ Tick
  \/ \E d \in Devices : AskClose(d) \/ AskReopen(d) \/ Send(d) \/ Reload(d) \/ ServeRefused(d)

LEMMA OrdinaryKeeps == Ordinary => AnchorKept /\ UNCHANGED opening
BY DEF Ordinary, AnchorKept, Put, Post, Patch, Remove, Write, Store, Tick, AskClose, AskReopen, Ask,
       Send, Reload, ServeRefused

LEMMA StartKeeps == SaveStart => AnchorKept /\ startMonth' \in Months /\ startMonth' # NoMonth
BY ConstantsAssumption DEF SaveStart, AnchorKept, Months, NoMonth

LEMMA StepAnchored == Anchored /\ [Next]_vars => Anchored'
<1> SUFFICES ASSUME Anchored, [Next]_vars PROVE Anchored'
  OBVIOUS
<1>1. CASE Ordinary
  BY <1>1, OrdinaryKeeps, KeptAnchored DEF Anchored, opening
<1>2. CASE SaveStart
  BY <1>2, StartKeeps, KeptAnchored
<1>3. CASE \E d \in Devices : ServeClose(d)
  BY <1>3, CloseAnchored
<1>4. CASE \E d \in Devices : ServeReopen(d)
  BY <1>4, ReopenAnchored
<1>5. CASE UNCHANGED vars
  BY <1>5, KeptAnchored DEF Anchored, AnchorKept, vars, opening
<1> QED BY <1>1, <1>2, <1>3, <1>4, <1>5 DEF Next, Ordinary

LEMMA AlwaysAnchored == Spec => []Anchored
BY InitAnchored, StepAnchored, PTL DEF Spec

\* Closing and reopening, in whatever order devices ask for them, leave at most one
\* month open behind the last one closed (FR-2005, ADR-13).
THEOREM OneReopenedAlways == Spec => []OneReopened
<1>1. Anchored => OneReopened
  BY DEF Anchored
<1> QED BY <1>1, AlwaysAnchored, PTL

-----------------------------------------------------------------------------
(* The guard of every write keeps the figures of the closed months.        *)

LEMMA SameFlows ==
  ASSUME NEW l, NEW k, NEW m \in Months,
         \A p \in 1 .. m : \A t \in Leaves : l.actuals[t][p] = k.actuals[t][p]
  PROVE  Flows(l, m) = Flows(k, m)
<1>1. ASSUME NEW p \in 1 .. m
      PROVE  [t \in Leaves |-> l.actuals[t][p]] = [t \in Leaves |-> k.actuals[t][p]]
  OBVIOUS
<1>2. \A p \in 1 .. m :
        Flow([t \in Leaves |-> l.actuals[t][p]]) = Flow([t \in Leaves |-> k.actuals[t][p]])
  BY <1>1
<1> QED BY <1>2 DEF Flows

LEMMA SameFigures ==
  ASSUME NEW l, NEW k, NEW m \in Months, NEW s1, NEW a1, NEW s2, NEW a2,
         \A p \in 1 .. m : \A t \in Leaves :
           l.actuals[t][p] = k.actuals[t][p] /\ l.budgets[t][p] = k.budgets[t][p],
         MovementsAt(l, m) = MovementsAt(k, m),
         OpeningAt(s1, a1, m) = OpeningAt(s2, a2, m)
  PROVE  FiguresOf(l, s1, a1, m) = FiguresOf(k, s2, a2, m)
<1>1. Flows(l, m) = Flows(k, m)
  BY SameFlows
<1>2. m \in 1 .. m
  BY ConstantsAssumption DEF Months
<1>3. [t \in Leaves |-> l.actuals[t][m]] = [t \in Leaves |-> k.actuals[t][m]]
  BY <1>2
<1>4. [t \in Leaves |-> l.budgets[t][m]] = [t \in Leaves |-> k.budgets[t][m]]
  BY <1>2
<1> QED BY <1>1, <1>3, <1>4 DEF FiguresOf

\* What a write that passes closedPeriodsViolated leaves alone.
ClosedKept ==
  \A p \in Months : IsClosed(p) =>
    /\ \A t \in Leaves : /\ ledger.actuals[t][p] = ledger'.actuals[t][p]
                        /\ ledger.budgets[t][p] = ledger'.budgets[t][p]
    /\ MovementsAt(ledger, p) = MovementsAt(ledger', p)

LEMMA GuardKeeps ==
  ASSUME NEW next, ClosedPeriodsViolated(ledger, next) = {}, ledger' = next
  PROVE  ClosedKept
BY DEF ClosedPeriodsViolated, ClosedKept

LEMMA OrdinaryClosedKept == Ordinary => ClosedKept
<1> SUFFICES ASSUME Ordinary PROVE ClosedKept
  OBVIOUS
<1>1. CASE Put \/ Post
  BY <1>1, GuardKeeps DEF Put, Post, Store
<1>2. CASE Patch \/ Remove
  BY <1>2, GuardKeeps DEF Patch, Remove, Write, Store
<1>3. CASE UNCHANGED ledger
  BY <1>3 DEF ClosedKept
<1>4. CASE Tick \/ \E d \in Devices : AskClose(d) \/ AskReopen(d) \/ Send(d) \/ Reload(d) \/ ServeRefused(d)
  BY <1>3, <1>4 DEF Tick, AskClose, AskReopen, Ask, Send, Reload, ServeRefused
<1> QED BY <1>1, <1>2, <1>4 DEF Ordinary

\* A month up to the frontier keeps its figures if the closed months keep their rows
\* and the opening that counts in it is the same.
LEMMA ClosedFigures ==
  ASSUME Anchored, ClosedKept, NEW m \in Months, m <= closedThrough,
         OpeningAt(startMonth, openingBalance, m) = OpeningAt(startMonth', openingBalance', m)
  PROVE  FiguresOf(ledger, startMonth, openingBalance, m)
           = FiguresOf(ledger', startMonth', openingBalance', m)
<1>1. closedThrough # NoMonth /\ closedThrough \in 0 .. MaxMonth
  BY ConstantsAssumption DEF Anchored, Months, NoMonth
<1>2. \A p \in 1 .. m : p \in Months /\ IsClosed(p)
  BY <1>1, ConstantsAssumption DEF Months, IsClosed
<1>3. m \in 1 .. m
  BY ConstantsAssumption DEF Months
<1>4. \A p \in 1 .. m : \A t \in Leaves :
        ledger.actuals[t][p] = ledger'.actuals[t][p] /\ ledger.budgets[t][p] = ledger'.budgets[t][p]
  BY <1>2 DEF ClosedKept
<1>5. MovementsAt(ledger, m) = MovementsAt(ledger', m)
  BY <1>2, <1>3 DEF ClosedKept
<1> QED BY <1>4, <1>5, SameFigures

\* Declaring the start changes the opening of open months only (BG-065).
LEMMA StartOpening ==
  ASSUME Anchored, SaveStart, NEW m \in Months, m <= closedThrough
  PROVE  OpeningAt(startMonth, openingBalance, m) = OpeningAt(startMonth', openingBalance', m)
<1>1. PICK candidate \in Months : startMonth' = candidate /\ ~StartBlocked(candidate)
  BY DEF SaveStart
<1>2. closedThrough # NoMonth /\ closedThrough \in 0 .. MaxMonth
  BY ConstantsAssumption DEF Anchored, Months, NoMonth
<1>3. ~(candidate <= closedThrough)
  BY <1>1, <1>2 DEF StartBlocked, IsClosed
<1>4. ~(startMonth' <= m)
  BY <1>1, <1>2, <1>3, ConstantsAssumption DEF Months
<1>5. CASE startMonth = NoMonth
  BY <1>4, <1>5 DEF OpeningAt, Anchored
<1>6. CASE startMonth # NoMonth
  <2>1. startMonth \in StartInForce /\ startMonth \in Months
    BY <1>6 DEF StartInForce, Anchored
  <2>2. ~(startMonth <= closedThrough)
    BY <1>1, <1>2, <2>1 DEF StartBlocked, IsClosed
  <2>3. ~(startMonth <= m)
    BY <1>2, <2>1, <2>2, ConstantsAssumption DEF Months
  <2> QED BY <1>4, <2>3 DEF OpeningAt
<1> QED BY <1>5, <1>6

-----------------------------------------------------------------------------
(* The book of closed months.                                              *)

LEMMA BookInit == Init => Book!Init
BY DEF Init, Book!Init

LEMMA BookWrite ==
  ASSUME Anchored, ClosedKept, AnchorKept,
         \A m \in Months : m <= closedThrough =>
           OpeningAt(startMonth, openingBalance, m) = OpeningAt(startMonth', openingBalance', m)
  PROVE  Book!Write
<1>1. \A m \in Months : m <= closedThrough =>
        FiguresOf(ledger', startMonth', openingBalance', m) = FiguresOf(ledger, startMonth, openingBalance, m)
  BY ClosedFigures
<1>2. Book!Kept(closedThrough)
  BY <1>1 DEF Book!Kept
<1> QED BY <1>2 DEF Book!Write, AnchorKept, anchor

\* Neither closing nor reopening touches a figure.
FiguresKept == UNCHANGED <<ledger, startMonth, openingBalance>>

LEMMA BookClose ==
  ASSUME Anchored, NEW d \in Devices, ServeClose(d)
  PROVE  Book!Close
<1>1. PICK p \in NextClosable(ClosureScope({current})) :
        CloseMonth(p) /\ reach' = p /\ FiguresKept
  BY DEF ServeClose, FiguresKept, opening
<1>2. p \in Months /\ p > closedThrough
  BY DEF NextClosable
<1>3. closedThrough' = p
  BY <1>1 DEF CloseMonth
<1>4. closedThrough = NoMonth \/ p = closedThrough + 1
  BY Successor
<1>5. reach <= p
  BY <1>2, <1>4, ConstantsAssumption DEF Anchored, OneReopened, Months, NoMonth
<1>6. [m \in Months |-> FiguresOf(ledger, startMonth, openingBalance, m)]'
        = [m \in Months |-> FiguresOf(ledger, startMonth, openingBalance, m)]
  BY <1>1 DEF FiguresKept
<1> QED BY <1>1, <1>2, <1>3, <1>4, <1>5, <1>6 DEF Book!Close

LEMMA BookReopen ==
  ASSUME Anchored, NEW d \in Devices, ServeReopen(d)
  PROVE  Book!Reopen
<1>1. closedThrough \in Months /\ closedThrough = reach /\ closedThrough' = closedThrough - 1
  BY ReopenAnchored
<1>2. FiguresKept /\ reach' = reach
  BY DEF ServeReopen, FiguresKept, opening
<1>3. [m \in Months |-> FiguresOf(ledger, startMonth, openingBalance, m)]'
        = [m \in Months |-> FiguresOf(ledger, startMonth, openingBalance, m)]
  BY <1>2 DEF FiguresKept
<1> QED BY <1>1, <1>2, <1>3 DEF Book!Reopen

LEMMA BookStep == Anchored /\ [Next]_vars => [Book!Next]_(Book!vars)
<1> SUFFICES ASSUME Anchored, [Next]_vars PROVE [Book!Next]_(Book!vars)
  OBVIOUS
<1>1. CASE Ordinary
  <2>1. ClosedKept /\ AnchorKept
    BY <1>1, OrdinaryKeeps, OrdinaryClosedKept
  <2>2. \A m \in Months : OpeningAt(startMonth, openingBalance, m) = OpeningAt(startMonth', openingBalance', m)
    BY <1>1, OrdinaryKeeps DEF opening
  <2> QED BY <2>1, <2>2, BookWrite DEF Book!Next
<1>2. CASE SaveStart
  <2>1. ClosedKept /\ AnchorKept
    BY <1>2, StartKeeps DEF SaveStart, ClosedKept
  <2> QED BY <1>2, <2>1, StartOpening, BookWrite DEF Book!Next
<1>3. CASE \E d \in Devices : ServeClose(d)
  BY <1>3, BookClose DEF Book!Next
<1>4. CASE \E d \in Devices : ServeReopen(d)
  BY <1>4, BookReopen DEF Book!Next
<1>5. CASE UNCHANGED vars
  <2>1. FiguresKept /\ AnchorKept
    BY <1>5 DEF vars, opening, FiguresKept, AnchorKept
  <2>2. [m \in Months |-> FiguresOf(ledger, startMonth, openingBalance, m)]'
          = [m \in Months |-> FiguresOf(ledger, startMonth, openingBalance, m)]
    BY <2>1 DEF FiguresKept
  <2> QED BY <2>1, <2>2 DEF AnchorKept, anchor, Book!vars
<1> QED BY <1>1, <1>2, <1>3, <1>4, <1>5 DEF Next, Ordinary

\* The server's transactions implement ClosedBook: no route of writing changes what a
\* closed month shows or the balance it hands on, months close one after another, and
\* only the last one closed reopens (FR-2004, ADR-13, BG-065, BG-094).
THEOREM BookAlwaysKept == Spec => BookKept
<1>1. Init => Book!Init
  BY BookInit
<1>2. Anchored /\ [Next]_vars => [Book!Next]_(Book!vars)
  BY BookStep
<1> QED BY <1>1, <1>2, AlwaysAnchored, PTL DEF Spec, BookKept, Book!Spec

-----------------------------------------------------------------------------
(* Closed months balance.                                                  *)

LEMMA SumOfNone == SumAmounts({}) = 0
<1> DEFINE body(f) == [s \in SUBSET {} |->
             IF s = {} THEN 0
             ELSE LET x == CHOOSE x \in s : TRUE IN x.amount + f[s \ {x}]]
           sum == CHOOSE f : f = body(f)
           none == [s \in SUBSET {} |-> 0]
<1>1. \A s \in SUBSET {} : s = {}
  OBVIOUS
<1>2. none = body(none)
  BY <1>1
<1>3. sum = body(sum)
  <2> HIDE DEF body, none
  <2> QED BY <1>2
<1>4. sum[{}] = 0
  <2> HIDE DEF sum
  <2> QED BY <1>3
<1>5. SumAmounts({}) = sum[{}]
  BY DEF SumAmounts, MapThenSumSet, MapThenFoldSet
<1> QED BY <1>4, <1>5

\* A month without figures or movements is balanced.
LEMMA MismatchHasData ==
  ASSUME NEW c \in Mismatches(ledger)
  PROVE  c[2] \in DataPeriods(ledger)
<1>1. c[1] \in Leaves /\ c[2] \in Months
      /\ ledger.actuals[c[1]][c[2]] # MovementSum(ledger, c[1], c[2])
  BY DEF Mismatches
<1>2. CASE \E m \in ledger.movements : m.period = c[2]
  BY <1>1, <1>2 DEF DataPeriods
<1>3. CASE ~ \E m \in ledger.movements : m.period = c[2]
  <2>1. MovementSum(ledger, c[1], c[2]) = 0
    BY <1>3, SumOfNone DEF MovementSum, MovementsAt
  <2> QED BY <1>1, <2>1 DEF DataPeriods
<1> QED BY <1>2, <1>3

\* The range the server closes in holds every month with data.
LEMMA ScopeHoldsData ==
  ASSUME NEW p \in DataPeriods(ledger), NEW extra
  PROVE  p \in ClosureScope(extra)
<1>1. p \in Months /\ p \in 0 .. MaxMonth /\ p <= p
  BY ConstantsAssumption DEF DataPeriods, Months
<1>2. p \in ServerScope(extra)
  BY <1>1 DEF ServerScope, Hull
<1> QED BY <1>1, <1>2 DEF ClosureScope

LEMMA InitBalanced == Init => ClosedMonthsBalanced
BY DEF Init, ClosedMonthsBalanced, IsClosed

LEMMA KeptBalanced ==
  ASSUME ClosedMonthsBalanced, ClosedKept, AnchorKept
  PROVE  ClosedMonthsBalanced'
<1> SUFFICES ASSUME NEW c \in Mismatches(ledger'), closedThrough # NoMonth, c[2] <= closedThrough
             PROVE  FALSE
  BY DEF ClosedMonthsBalanced, IsClosed, AnchorKept, anchor
<1>1. c \in Leaves \X Months /\ ledger'.actuals[c[1]][c[2]] # MovementSum(ledger', c[1], c[2])
  BY DEF Mismatches
<1>2. c[1] \in Leaves /\ c[2] \in Months /\ IsClosed(c[2])
  BY <1>1 DEF IsClosed
<1>3. MovementsAt(ledger, c[2]) = MovementsAt(ledger', c[2])
  BY <1>2 DEF ClosedKept
<1>4. MovementSum(ledger, c[1], c[2]) = MovementSum(ledger', c[1], c[2])
  BY <1>3 DEF MovementSum
<1>5. ledger.actuals[c[1]][c[2]] = ledger'.actuals[c[1]][c[2]]
  BY <1>2 DEF ClosedKept
<1>6. c \in Mismatches(ledger)
  BY <1>1, <1>4, <1>5 DEF Mismatches
<1> QED BY <1>2, <1>6 DEF ClosedMonthsBalanced

LEMMA CloseBalanced ==
  ASSUME Anchored, ClosedMonthsBalanced, NEW d \in Devices, ServeClose(d)
  PROVE  ClosedMonthsBalanced'
<1> DEFINE range == ClosureScope({current})
<1>1. PICK p \in NextClosable(range) :
        CloseBlockers(p) = {} /\ CloseMonth(p) /\ UNCHANGED ledger
  BY DEF ServeClose
<1>2. p \in Months /\ closedThrough' = p /\ Mismatches(ledger') = Mismatches(ledger)
  BY <1>1 DEF CloseMonth, NextClosable
<1> SUFFICES ASSUME NEW c \in Mismatches(ledger), c[2] <= p
             PROVE  FALSE
  BY <1>2 DEF ClosedMonthsBalanced, IsClosed
<1>3. c[2] \in range /\ c[2] \in Months
  BY MismatchHasData, ScopeHoldsData DEF Mismatches
<1>4. ~IsClosed(c[2])
  BY DEF ClosedMonthsBalanced
<1>5. c[2] > closedThrough
  BY <1>3, <1>4, ConstantsAssumption DEF IsClosed, Anchored, Months, NoMonth
<1>6. p <= c[2]
  BY <1>3, <1>5 DEF NextClosable
<1>7. c[2] = p
  BY <1>2, <1>3, <1>6, ConstantsAssumption DEF Months
<1> QED BY <1>1, <1>7 DEF CloseBlockers

LEMMA ReopenBalanced ==
  ASSUME Anchored, ClosedMonthsBalanced, NEW d \in Devices, ServeReopen(d)
  PROVE  ClosedMonthsBalanced'
<1>1. closedThrough \in Months /\ closedThrough' = closedThrough - 1 /\ ledger' = ledger
  BY ReopenAnchored DEF ServeReopen
<1>2. \A c \in Mismatches(ledger) : c[2] \in Months /\ ~(c[2] <= closedThrough)
  BY <1>1, ConstantsAssumption DEF ClosedMonthsBalanced, IsClosed, Mismatches, Months, NoMonth
<1>3. \A q \in Months : q <= closedThrough' => q <= closedThrough
  BY <1>1, ConstantsAssumption DEF Months
<1> QED BY <1>1, <1>2, <1>3 DEF ClosedMonthsBalanced, IsClosed

LEMMA StepBalanced == Anchored /\ ClosedMonthsBalanced /\ [Next]_vars => ClosedMonthsBalanced'
<1> SUFFICES ASSUME Anchored, ClosedMonthsBalanced, [Next]_vars PROVE ClosedMonthsBalanced'
  OBVIOUS
<1>1. CASE Ordinary
  BY <1>1, OrdinaryKeeps, OrdinaryClosedKept, KeptBalanced
<1>2. CASE SaveStart
  BY <1>2, StartKeeps, KeptBalanced DEF SaveStart, ClosedKept
<1>3. CASE \E d \in Devices : ServeClose(d)
  BY <1>3, CloseBalanced
<1>4. CASE \E d \in Devices : ServeReopen(d)
  BY <1>4, ReopenBalanced
<1>5. CASE UNCHANGED vars
  BY <1>5, KeptBalanced DEF vars, AnchorKept, ClosedKept
<1> QED BY <1>1, <1>2, <1>3, <1>4, <1>5 DEF Next, Ordinary

\* A closed month balances, although a ledger may bring unbalanced cells, the journal
\* is judged relatively by every write and not at all by insertMovement (FR-2003).
THEOREM ClosedMonthsAlwaysBalanced == Spec => []ClosedMonthsBalanced
BY InitBalanced, StepBalanced, AlwaysAnchored, PTL DEF Spec

-----------------------------------------------------------------------------
(* Types.                                                                  *)

\* What the journal says of a cell is a number.
LEMMA SumAmountsIsTotal ==
  ASSUME NEW S, IsFiniteSet(S), \A m \in S : m.amount \in Int
  PROVE  SumAmounts(S) \in Int
<1> DEFINE f == [m \in S |-> m.amount]
           body(t) == [T \in SUBSET S |->
             IF T = {} THEN 0
             ELSE LET x == CHOOSE x \in T : TRUE IN x.amount + t[T \ {x}]]
           sum == CHOOSE t : t = body(t)
<1>1. \A x \in S : f[x] \in Int
  OBVIOUS
<1>2. ASSUME NEW t
      PROVE  body(t) = [T \in SUBSET S |-> IF T = {} THEN 0 ELSE f[Picked(T)] + t[T \ {Picked(T)}]]
  <2>1. \A T \in SUBSET S : T # {} => Picked(T) \in S
    BY DEF Picked
  <2> QED BY <2>1 DEF Picked
<1>3. \E t : t = body(t)
  <2>1. PICK t \in [SUBSET S -> Int] : SumsOf(t, f, S)
    <3> HIDE DEF f
    <3> QED BY <1>1, SumsExist
  <2> HIDE DEF body, f
  <2> QED BY <1>2, <2>1 DEF SumsOf
<1>4. sum = body(sum)
  <2> HIDE DEF body
  <2> QED BY <1>3
<1>5. SumsOf(sum, f, S)
  <2> HIDE DEF body, f, sum
  <2> QED BY <1>2, <1>4 DEF SumsOf
<1>6. sum[S] = Total(f, S) /\ Total(f, S) \in Int
  <2> HIDE DEF body, f, sum
  <2> QED BY <1>1, <1>5, SumsTotal, TotalInt
<1>7. SumAmounts(S) = sum[S]
  BY DEF SumAmounts, MapThenSumSet, MapThenFoldSet
<1> QED BY <1>6, <1>7

\* A snapshot with finitely many movements and no cell below zero.
Sound(l) ==
  /\ l \in Snapshot /\ IsFiniteSet(l.movements)
  /\ \A t \in Leaves, p \in Months : l.actuals[t][p] >= 0

LEMMA BumpTyped ==
  ASSUME NEW l \in Snapshot, NEW t \in Leaves, NEW p \in Months, NEW delta \in Int
  PROVE  /\ Bump(l, t, p, delta) \in Snapshot
         /\ Bump(l, t, p, delta).movements = l.movements
         /\ \A u \in Leaves, q \in Months :
              Bump(l, t, p, delta).actuals[u][q]
                = l.actuals[u][q] + (IF u = t /\ q = p THEN delta ELSE 0)
<1>1. l.actuals \in Amounts /\ l.budgets \in Amounts /\ l.movements \in SUBSET Movement
  BY DEF Snapshot
<1>2. \A u \in Leaves, q \in Months : l.actuals[u][q] \in Int
  BY <1>1 DEF Amounts
<1> DEFINE a == [l.actuals EXCEPT ![t][p] = @ + delta]
<1>3. Bump(l, t, p, delta) = [actuals |-> a, budgets |-> l.budgets, movements |-> l.movements]
  BY DEF Bump, Snapshot
<1>4. a \in Amounts
  BY <1>1, <1>2 DEF Amounts
<1>5. \A u \in Leaves, q \in Months : a[u][q] = l.actuals[u][q] + (IF u = t /\ q = p THEN delta ELSE 0)
  BY <1>1, <1>2 DEF Amounts
<1> HIDE DEF a
<1> QED BY <1>1, <1>3, <1>4, <1>5 DEF Snapshot

LEMMA AddedTyped ==
  ASSUME NEW l \in Snapshot, IsFiniteSet(l.movements), NEW m \in Movement
  PROVE  /\ Added(l, m) \in Snapshot /\ IsFiniteSet(Added(l, m).movements)
         /\ \A u \in Leaves, q \in Months :
              Added(l, m).actuals[u][q]
                = l.actuals[u][q] + (IF u = m.target /\ q = m.period THEN m.amount ELSE 0)
<1>1. m.target \in Leaves /\ m.period \in Months /\ m.amount \in Int
  BY DEF Movement
<1> DEFINE b == Bump(l, m.target, m.period, m.amount)
<1>2. b \in Snapshot /\ b.movements = l.movements
  BY <1>1, BumpTyped
<1>3. \A u \in Leaves, q \in Months :
        b.actuals[u][q] = l.actuals[u][q] + (IF u = m.target /\ q = m.period THEN m.amount ELSE 0)
  BY <1>1, BumpTyped
<1>4. Added(l, m) = [b EXCEPT !.movements = @ \cup {m}]
  BY DEF Added
<1> HIDE DEF b
<1>5. IsFiniteSet(l.movements \cup {m})
  BY FS_AddElement
<1> QED BY <1>2, <1>3, <1>4, <1>5 DEF Snapshot

LEMMA RemovedTyped ==
  ASSUME NEW l \in Snapshot, IsFiniteSet(l.movements), NEW m \in Movement
  PROVE  Removed(l, m) \in Snapshot /\ IsFiniteSet(Removed(l, m).movements)
<1>1. m.target \in Leaves /\ m.period \in Months /\ -m.amount \in Int
  BY DEF Movement
<1> DEFINE b == Bump(l, m.target, m.period, -m.amount)
<1>2. b \in Snapshot /\ b.movements = l.movements
  BY <1>1, BumpTyped
<1>3. Removed(l, m) = [b EXCEPT !.movements = @ \ {m}]
  BY DEF Removed
<1> HIDE DEF b
<1>4. IsFiniteSet(l.movements \ {m})
  BY FS_RemoveElement
<1> QED BY <1>2, <1>3, <1>4 DEF Snapshot

LEMMA MovementsTyped ==
  ASSUME NEW i \in Ids, NEW kind \in {"manual", "adjustment"}, NEW targets \in SUBSET Leaves, NEW range,
         NEW m \in Movements(i, kind, targets, range)
  PROVE  m \in Movement /\ (kind = "manual" => m.amount > 0)
<1>1. AmountsOf(kind) \subseteq Int /\ (kind = "manual" => \A x \in AmountsOf(kind) : x > 0)
  BY ConstantsAssumption DEF AmountsOf
<1> QED BY <1>1 DEF Movements, Movement

\* An addition is of a positive amount.
LEMMA AdditionsSound ==
  ASSUME NEW l, Sound(l), NEW next \in Additions(l)
  PROVE  Sound(next)
<1>0. PICK i \in FreshIds(l) : \E m \in Movements(i, "manual", Leaves, Months) : next = Added(l, m)
  BY DEF Additions
<1>1. PICK m \in Movements(i, "manual", Leaves, Months) : next = Added(l, m)
  BY <1>0
<1>2. m \in Movement /\ m.amount > 0
  BY <1>1, MovementsTyped DEF FreshIds
<1>3. l \in Snapshot /\ IsFiniteSet(l.movements)
  BY DEF Sound
<1>4. next \in Snapshot /\ IsFiniteSet(next.movements)
  BY <1>1, <1>2, <1>3, AddedTyped
<1>5. ASSUME NEW u \in Leaves, NEW q \in Months PROVE next.actuals[u][q] >= 0
  <2>1. next.actuals[u][q] = l.actuals[u][q] + (IF u = m.target /\ q = m.period THEN m.amount ELSE 0)
    BY <1>1, <1>2, <1>3, AddedTyped
  <2>2. l.actuals[u][q] \in Int /\ l.actuals[u][q] >= 0 /\ m.amount \in Int
    BY <1>2 DEF Sound, Snapshot, Amounts, Movement
  <2> QED BY <1>2, <2>1, <2>2
<1> QED BY <1>4, <1>5 DEF Sound

LEMMA GuardedSound ==
  ASSUME NEW l, Sound(l), NEW next \in Snapshot, IsFiniteSet(next.movements), ~WouldGoNegative(l, next)
  PROVE  Sound(next)
<1>1. ASSUME NEW u \in Leaves, NEW q \in Months PROVE next.actuals[u][q] >= 0
  <2>1. l.actuals[u][q] >= 0 /\ next.actuals[u][q] \in Int
    BY DEF Sound, Snapshot, Amounts
  <2> QED BY <2>1 DEF WouldGoNegative
<1> QED BY <1>1 DEF Sound

LEMMA RemovalsSound ==
  ASSUME NEW l, Sound(l), NEW m \in l.movements, NEW next \in Removals(l, m)
  PROVE  Sound(next)
<1>1. l \in Snapshot /\ IsFiniteSet(l.movements) /\ m \in Movement
  BY DEF Sound, Snapshot
<1>2. next = Removed(l, m) /\ ~WouldGoNegative(l, next)
  BY DEF Removals
<1> QED BY <1>1, <1>2, RemovedTyped, GuardedSound

LEMMA EditsSound ==
  ASSUME NEW l, Sound(l), NEW m \in l.movements, NEW range, NEW next \in Edits(l, m, range)
  PROVE  Sound(next)
<1>1. l \in Snapshot /\ IsFiniteSet(l.movements) /\ m \in Movement
  BY DEF Sound, Snapshot
<1>2. CASE next \in Removals(l, m)
  BY <1>2, RemovalsSound
<1>3. CASE next \notin Removals(l, m)
  <2>1. PICK n \in Movements(m.id, m.kind, SameType(m.target), range) :
          next = Added(Removed(l, m), n) /\ ~WouldGoNegative(l, next)
    BY <1>3 DEF Edits
  <2>2. SameType(m.target) \in SUBSET Leaves
    BY ConstantsAssumption DEF SameType
  <2>3. n \in Movement
    BY <1>1, <2>1, <2>2, MovementsTyped DEF Movement
  <2>4. Removed(l, m) \in Snapshot /\ IsFiniteSet(Removed(l, m).movements)
    BY <1>1, RemovedTyped
  <2>5. next \in Snapshot /\ IsFiniteSet(next.movements)
    BY <2>1, <2>3, <2>4, AddedTyped
  <2> QED BY <2>1, <2>5, GuardedSound
<1> QED BY <1>2, <1>3

LEMMA AdjustedSound ==
  ASSUME NEW l, Sound(l), NEW i \in Ids, NEW t \in Leaves, NEW p \in Months, NEW v \in Nat
  PROVE  Sound(Adjusted(l, i, t, p, v))
<1> DEFINE diff == v - MovementSum(l, t, p)
           m == [id |-> i, target |-> t, period |-> p, amount |-> diff, kind |-> "adjustment"]
           ms == IF diff = 0 THEN l.movements ELSE l.movements \cup {m}
           a == [l.actuals EXCEPT ![t][p] = v]
<1>1. l \in Snapshot /\ IsFiniteSet(l.movements)
  BY DEF Sound
<1>2. MovementSum(l, t, p) \in Int
  <2> DEFINE S == {n \in MovementsAt(l, p) : n.target = t}
  <2>1. IsFiniteSet(S)
    BY <1>1, FS_Subset DEF MovementsAt
  <2>2. \A n \in S : n.amount \in Int
    BY <1>1 DEF MovementsAt, Snapshot, Movement
  <2> QED BY <2>1, <2>2, SumAmountsIsTotal DEF MovementSum
<1>3. diff \in Int
  BY <1>2
<1> HIDE DEF diff
<1>4. m \in Movement
  BY <1>3 DEF Movement
<1> HIDE DEF m
<1>5. IsFiniteSet(ms) /\ ms \in SUBSET Movement
  BY <1>1, <1>4, FS_AddElement DEF Snapshot
<1>6. a \in Amounts /\ \A u \in Leaves, q \in Months : a[u][q] >= 0
  BY DEF Sound, Snapshot, Amounts
<1>7. Adjusted(l, i, t, p, v) = [actuals |-> a, budgets |-> l.budgets, movements |-> ms]
  <2>1. Adjusted(l, i, t, p, v) = [l EXCEPT !.actuals[t][p] = v, !.movements = ms]
    BY DEF Adjusted, diff, m
  <2> HIDE DEF ms
  <2>2. l = [actuals |-> l.actuals, budgets |-> l.budgets, movements |-> l.movements]
    BY <1>1 DEF Snapshot
  <2> QED BY <2>1, <2>2
<1>8. l.budgets \in Amounts
  BY <1>1 DEF Snapshot
<1> HIDE DEF a, ms
<1> QED BY <1>5, <1>6, <1>7, <1>8 DEF Sound, Snapshot

LEMMA CellSound ==
  ASSUME NEW l, Sound(l), NEW t \in Leaves, NEW p \in Months, NEW v \in Nat
  PROVE  Sound([l EXCEPT !.budgets[t][p] = v]) /\ Sound([l EXCEPT !.actuals[t][p] = v])
<1> DEFINE a == [l.actuals EXCEPT ![t][p] = v]
           b == [l.budgets EXCEPT ![t][p] = v]
<1>1. l \in Snapshot /\ l.actuals \in Amounts /\ l.budgets \in Amounts /\ l.movements \in SUBSET Movement
  BY DEF Sound, Snapshot
<1>2. a \in Amounts /\ b \in Amounts /\ \A u \in Leaves, q \in Months : a[u][q] >= 0
  BY <1>1 DEF Amounts, Sound
<1>3. [l EXCEPT !.budgets[t][p] = v] = [actuals |-> l.actuals, budgets |-> b, movements |-> l.movements]
  BY <1>1 DEF Snapshot
<1>4. [l EXCEPT !.actuals[t][p] = v] = [actuals |-> a, budgets |-> l.budgets, movements |-> l.movements]
  BY <1>1 DEF Snapshot
<1> HIDE DEF a, b
<1> QED BY <1>1, <1>2, <1>3, <1>4 DEF Sound, Snapshot

\* What a client may send is sound, whichever mutation it comes from.
LEMMA SnapshotsSound ==
  ASSUME Sound(ledger), NEW range, NEW next \in Snapshots(ledger, range)
  PROVE  Sound(next)
<1>1. 0 .. MaxAmount \subseteq Nat /\ 0 .. MaxBudget \subseteq Nat
  BY ConstantsAssumption
<1>2. CASE next \in Additions(ledger)
  BY <1>2, AdditionsSound
<1>3. CASE \E m \in ledger.movements : next \in Edits(ledger, m, range)
  BY <1>3, EditsSound
<1>4. CASE \E i \in FreshIds(ledger), t \in Leaves, p \in range \cap Months, v \in 0 .. MaxAmount :
             next = Adjusted(ledger, i, t, p, v)
  BY <1>1, <1>4, AdjustedSound DEF FreshIds
<1>5. CASE \E t \in Leaves, p \in Months, v \in 0 .. MaxBudget : next = [ledger EXCEPT !.budgets[t][p] = v]
  <2>1. PICK t \in Leaves : \E p \in Months, v \in Nat : next = [ledger EXCEPT !.budgets[t][p] = v]
    BY <1>1, <1>5
  <2>2. PICK p \in Months, v \in Nat : next = [ledger EXCEPT !.budgets[t][p] = v]
    BY <2>1
  <2> QED BY <2>2, CellSound
<1>6. CASE \E t \in Leaves, p \in Months, v \in 0 .. MaxAmount : next = [ledger EXCEPT !.actuals[t][p] = v]
  <2>1. PICK t \in Leaves : \E p \in Months, v \in Nat : next = [ledger EXCEPT !.actuals[t][p] = v]
    BY <1>1, <1>6
  <2>2. PICK p \in Months, v \in Nat : next = [ledger EXCEPT !.actuals[t][p] = v]
    BY <2>1
  <2> QED BY <2>2, CellSound
<1> QED BY <1>2, <1>3, <1>4, <1>5, <1>6 DEF Snapshots

\* Every value a run starts from: what Flow adds up is the signed column.
Signed(column) == [t \in Leaves |-> IF t \in Incomes THEN column[t] ELSE -column[t]]

LEMMA FlowIsTotal ==
  ASSUME NEW column, \A t \in Leaves : column[t] \in Int
  PROVE  /\ Flow(column) \in Int
         /\ (\A t \in Leaves : column[t] = 0) => Flow(column) = 0
<1> DEFINE f == Signed(column)
           sign(t) == IF t \in Incomes THEN column[t] ELSE -column[t]
           body(s) == [T \in SUBSET Leaves |->
             IF T = {} THEN 0
             ELSE LET x == CHOOSE x \in T : TRUE IN sign(x) + s[T \ {x}]]
           sum == CHOOSE s : s = body(s)
<1>0. IsFiniteSet(Leaves)
  BY ConstantsAssumption
<1>1. \A x \in Leaves : f[x] \in Int /\ f[x] = sign(x)
  BY DEF Signed
<1>2. ASSUME NEW s PROVE body(s) = [T \in SUBSET Leaves |-> IF T = {} THEN 0 ELSE f[Picked(T)] + s[T \ {Picked(T)}]]
  <2>1. \A T \in SUBSET Leaves : T # {} => Picked(T) \in Leaves
    BY DEF Picked
  <2> HIDE DEF f, sign
  <2> QED BY <1>1, <2>1 DEF Picked
<1>3. \E s : s = body(s)
  <2>1. PICK s \in [SUBSET Leaves -> Int] : SumsOf(s, f, Leaves)
    <3> HIDE DEF f
    <3> QED BY <1>0, <1>1, SumsExist
  <2> HIDE DEF body, f
  <2> QED BY <1>2, <2>1 DEF SumsOf
<1>4. sum = body(sum)
  <2> HIDE DEF body
  <2> QED BY <1>3
<1>5. SumsOf(sum, f, Leaves)
  <2> HIDE DEF body, f, sum
  <2> QED BY <1>2, <1>4 DEF SumsOf
<1>6. sum[Leaves] = Total(f, Leaves) /\ Total(f, Leaves) \in Int
  <2> HIDE DEF body, f, sum
  <2> QED BY <1>0, <1>1, <1>5, SumsTotal, TotalInt
<1>7. Flow(column) = sum[Leaves]
  BY DEF Flow, MapThenSumSet, MapThenFoldSet
<1>8. (\A t \in Leaves : column[t] = 0) => Total(f, Leaves) = 0
  <2> SUFFICES ASSUME \A t \in Leaves : column[t] = 0 PROVE Total(f, Leaves) = 0
    OBVIOUS
  <2>1. \A x \in Leaves : f[x] = 0
    BY DEF Signed
  <2> HIDE DEF f
  <2> QED BY <1>0, <2>1, TotalZero
<1> HIDE DEF sum, f
<1> QED BY <1>6, <1>7, <1>8

\* The balance carried to month p from the one before.
Carried(flows, start, amount, p, before) ==
  (IF p = start /\ amount # NoAmount THEN amount ELSE before) + (IF p \in DOMAIN flows THEN flows[p] ELSE 0)

CarriesTo(h, flows, first, last, start, amount) ==
  /\ h \in [first - 1 .. last -> Int]
  /\ h[first - 1] = 0
  /\ \A p \in first .. last : h[p] = Carried(flows, start, amount, p, h[p - 1])

\* Available is the last value of the balances carried month by month.
LEMMA AvailableCarries ==
  ASSUME NEW first \in Int, NEW last \in Int, first - 1 <= last,
         NEW flows, \A p \in DOMAIN flows : flows[p] \in Int, NEW start, NEW amount \in Int
  PROVE  \E h :
           /\ CarriesTo(h, flows, first, last, start, amount)
           /\ Available(flows, first, last, start, amount) = h[last]
<1> DEFINE body(h) == [p \in first - 1 .. last |->
             IF p < first THEN 0
             ELSE (IF p = start /\ amount # NoAmount THEN amount ELSE h[p - 1])
                  + (IF p \in DOMAIN flows THEN flows[p] ELSE 0)]
           carry == CHOOSE h : h = body(h)
           g == [x \in (((first - 1) + 1) .. last) \X Int |-> Carried(flows, start, amount, x[1], x[2])]
<1>1. g \in [(((first - 1) + 1) .. last) \X Int -> Int]
  BY DEF Carried
<1>2. PICK h \in [first - 1 .. last -> Int] : Steps(h, first - 1, last, 0, g)
  <2>1. first - 1 \in Int /\ 0 \in Int
    OBVIOUS
  <2> HIDE DEF g, body, carry
  <2> QED BY <1>1, <2>1, RecursionExists
<1>3. ASSUME NEW p \in first .. last PROVE h[p] = Carried(flows, start, amount, p, h[p - 1])
  <2>1. p \in ((first - 1) + 1) .. last /\ p - 1 \in first - 1 .. last
    OBVIOUS
  <2>2. h[p - 1] \in Int
    BY <2>1
  <2>3. g[<<p, h[p - 1]>>] = Carried(flows, start, amount, p, h[p - 1])
    BY <2>1, <2>2
  <2> HIDE DEF g
  <2> QED BY <1>2, <2>1, <2>3 DEF Steps
<1>4. ASSUME NEW p \in first - 1 .. last PROVE h[p] = body(h)[p]
  <2>1. CASE p < first
    <3>1. p = first - 1
      BY <2>1
    <3> QED BY <1>2, <2>1, <3>1 DEF Steps
  <2>2. CASE ~(p < first)
    <3>1. p \in first .. last
      BY <2>2
    <3> QED BY <1>3, <2>2, <3>1 DEF Carried
  <2> QED BY <2>1, <2>2
<1>5. h = body(h)
  <2>1. body(h) = [p \in first - 1 .. last |-> body(h)[p]]
    OBVIOUS
  <2> HIDE DEF body
  <2> QED BY <1>4, <2>1
<1>6. carry = body(carry)
  <2> HIDE DEF body
  <2> QED BY <1>5
<1>7. carry[first - 1] = 0
  <2>1. body(carry)[first - 1] = 0
    <3> HIDE DEF carry
    <3> QED OBVIOUS
  <2> HIDE DEF body, carry
  <2> QED BY <1>6, <2>1
<1>8. ASSUME NEW p \in first .. last PROVE carry[p] = Carried(flows, start, amount, p, carry[p - 1])
  <2>1. body(carry)[p] = Carried(flows, start, amount, p, carry[p - 1])
    <3> HIDE DEF carry
    <3> QED BY DEF Carried
  <2> HIDE DEF body, carry
  <2> QED BY <1>6, <2>1
<1>9. carry = [p \in first - 1 .. last |-> carry[p]]
  <2> HIDE DEF carry
  <2> QED BY <1>6
<1>10. Available(flows, first, last, start, amount) = carry[last]
  BY DEF Available
<1> DEFINE I == {p \in first - 1 .. last : carry[p] \in Int}
<1>11. \A p \in first - 1 .. last : p \in I
  <2>1. first - 1 \in I
    <3> HIDE DEF carry
    <3> QED BY <1>7
  <2>2. ASSUME NEW p \in first - 1 .. last, p \in I, p + 1 <= last PROVE p + 1 \in I
    <3>1. p + 1 \in first .. last /\ (p + 1) - 1 = p
      BY <2>2
    <3>2. carry[p + 1] = Carried(flows, start, amount, p + 1, carry[p])
      BY <1>8, <3>1
    <3> HIDE DEF carry
    <3>3. carry[p] \in Int
      BY <2>2
    <3> QED BY <2>2, <3>1, <3>2, <3>3 DEF Carried
  <2>3. first - 1 \in Int
    OBVIOUS
  <2> HIDE DEF I
  <2> QED BY <2>1, <2>2, <2>3, UpTo
<1>12. carry \in [first - 1 .. last -> Int]
  <2> HIDE DEF carry
  <2> QED BY <1>9, <1>11
<1> HIDE DEF carry
<1> QED BY <1>7, <1>8, <1>10, <1>12 DEF CarriesTo

LEMMA AvailableTyped ==
  ASSUME NEW first \in Int, NEW last \in Int, first <= last,
         NEW flows, \A p \in DOMAIN flows : flows[p] \in Int, NEW start, NEW amount \in Int
  PROVE  Available(flows, first, last, start, amount) \in Int
<1>1. first - 1 <= last /\ last \in first - 1 .. last
  OBVIOUS
<1>2. PICK h : /\ CarriesTo(h, flows, first, last, start, amount)
               /\ Available(flows, first, last, start, amount) = h[last]
  BY <1>1, AvailableCarries
<1> QED BY <1>1, <1>2 DEF CarriesTo

\* The column of a month adds up to a number; that of a month without data, to nothing.
LEMMA FlowsTyped ==
  ASSUME Sound(ledger), NEW last \in Months
  PROVE  /\ DOMAIN Flows(ledger, last) = 1 .. last
         /\ \A p \in 1 .. last :
              /\ Flows(ledger, last)[p] = Flow([t \in Leaves |-> ledger.actuals[t][p]])
              /\ Flows(ledger, last)[p] \in Int
              /\ p \notin DataPeriods(ledger) => Flows(ledger, last)[p] = 0
<1>1. ASSUME NEW p \in 1 .. last
      PROVE  /\ Flow([t \in Leaves |-> ledger.actuals[t][p]]) \in Int
             /\ p \notin DataPeriods(ledger) => Flow([t \in Leaves |-> ledger.actuals[t][p]]) = 0
  <2> DEFINE column == [t \in Leaves |-> ledger.actuals[t][p]]
  <2>1. p \in Months
    BY ConstantsAssumption DEF Months
  <2>2. \A t \in Leaves : column[t] = ledger.actuals[t][p] /\ column[t] \in Int
    BY <2>1 DEF Sound, Snapshot, Amounts
  <2>3. p \notin DataPeriods(ledger) => \A t \in Leaves : column[t] = 0
    BY <2>1, <2>2 DEF DataPeriods
  <2> HIDE DEF column
  <2>4. Flow(column) \in Int /\ ((\A t \in Leaves : column[t] = 0) => Flow(column) = 0)
    BY <2>2, FlowIsTotal
  <2>5. Flow(column) \in Int /\ (p \notin DataPeriods(ledger) => Flow(column) = 0)
    BY <2>3, <2>4
  <2> QED BY <2>5 DEF column
<1>2. Flows(ledger, last) = [p \in 1 .. last |-> Flow([t \in Leaves |-> ledger.actuals[t][p]])]
  BY DEF Flows
<1> QED BY <1>1, <1>2

\* The range of a closing up to p: where it starts and where it ends.
LEMMA UpToBounds ==
  ASSUME NEW range \in SUBSET (0 .. MaxMonth), NEW p \in Months,
         {q \in range : q <= p} # {}
  PROVE  LET upTo == {q \in range : q <= p}
         IN  /\ Min(upTo) \in upTo /\ Max(upTo) \in upTo /\ Min(upTo) <= Max(upTo)
             /\ \A q \in upTo : Min(upTo) <= q /\ q <= Max(upTo)
             /\ Max(upTo \cup {1}) \in Months /\ Max(upTo \cup {1}) <= p
             /\ Max(upTo \cup {1}) = IF Max(upTo) = 0 THEN 1 ELSE Max(upTo)
<1> DEFINE upTo == {q \in range : q <= p}
           both == upTo \cup {1}
<1>1. p \in Nat /\ 1 <= p /\ p <= MaxMonth
  BY ConstantsAssumption DEF Months
<1>2. upTo \in SUBSET Nat /\ upTo # {} /\ \A x \in upTo : x <= p
  <2>1. \A x \in upTo : x \in 0 .. MaxMonth /\ x <= p
    OBVIOUS
  <2>2. \A x \in 0 .. MaxMonth : x \in Nat
    BY ConstantsAssumption
  <2> HIDE DEF upTo
  <2>3. upTo \in SUBSET Nat /\ \A x \in upTo : x <= p
    BY <2>1, <2>2
  <2> QED BY <2>3 DEF upTo
<1>3. both \in SUBSET Nat /\ both # {} /\ \A x \in both : x <= p
  BY <1>1, <1>2
<1> HIDE DEF upTo, both
<1>4. /\ Min(upTo) \in upTo /\ \A y \in upTo : Min(upTo) <= y
      /\ Max(upTo) \in upTo /\ \A y \in upTo : y <= Max(upTo)
  BY <1>1, <1>2, MinMax
<1>5. Max(both) \in both /\ \A y \in both : y <= Max(both)
  BY <1>1, <1>3, MinMax
<1>6. 1 <= Max(both) /\ Max(both) <= p /\ Max(both) \in Nat
  BY <1>3, <1>5 DEF both
<1>7. Max(both) = IF Max(upTo) = 0 THEN 1 ELSE Max(upTo)
  <2>1. Max(upTo) \in both /\ Max(upTo) <= Max(both) /\ Max(upTo) \in Nat
    BY <1>2, <1>4, <1>5 DEF both
  <2>2. Max(both) = 1 \/ Max(both) <= Max(upTo)
    BY <1>4, <1>5 DEF both
  <2> QED BY <1>6, <2>1, <2>2
<1>8. Max(both) \in Months
  BY <1>1, <1>6, ConstantsAssumption DEF Months
<1> QED BY <1>4, <1>6, <1>7, <1>8 DEF upTo, both

LEMMA CarryTyped ==
  ASSUME Sound(ledger), openingBalance \in Int, NEW range \in SUBSET (0 .. MaxMonth), NEW p \in Months
  PROVE  ClosingCarry(range, p) \in Int
<1> DEFINE upTo == {q \in range : q <= p}
           last == Max(upTo \cup {1})
<1>1. CASE upTo = {}
  BY <1>1 DEF ClosingCarry
<1>2. CASE upTo # {}
  <2> DEFINE first == Min(upTo)
             end == Max(upTo)
             flows == Flows(ledger, last)
  <2>1. first \in upTo /\ end \in upTo /\ first <= end /\ last \in Months
    BY <1>2, UpToBounds
  <2>2. first \in Int /\ end \in Int /\ first <= end
    <3>1. \A x \in upTo : x \in 0 .. MaxMonth
      OBVIOUS
    <3>2. \A x \in 0 .. MaxMonth : x \in Int
      BY ConstantsAssumption
    <3> HIDE DEF upTo, first, end
    <3> QED BY <2>1, <3>1, <3>2
  <2>3. ClosingCarry(range, p) = Available(flows, first, end, startMonth, openingBalance)
    BY <1>2 DEF ClosingCarry
  <2> HIDE DEF last, upTo, first, end
  <2>4. \A q \in DOMAIN flows : flows[q] \in Int
    BY <2>1, FlowsTyped
  <2> HIDE DEF flows
  <2> QED BY <2>2, <2>3, <2>4, AvailableTyped
<1> QED BY <1>1, <1>2

LEMMA ScopeTyped ==
  ASSUME NEW extra
  PROVE  ClosureScope(extra) \in SUBSET (0 .. MaxMonth)
BY DEF ClosureScope, ServerScope, Hull

-----------------------------------------------------------------------------
\* What the devices may have asked for.
Asks == [Devices -> [what : {"none", "close", "reopen"}, month : {NoMonth} \cup Months,
                     sent : BOOLEAN, fresh : BOOLEAN]]

\* The rest of the types, without the ledger and what has been asked.
RestTyped ==
  /\ closedThrough \in {NoMonth} \cup 0 .. MaxMonth
  /\ reopened \in {NoMonth} \cup Months
  /\ reopened # NoMonth => closedThrough # NoMonth /\ reopened = closedThrough + 1
  /\ baseline \in Seq(Int) /\ Len(baseline) = IF reopened = NoMonth THEN 0 ELSE 1
  /\ startMonth \in {NoMonth} \cup Months
  /\ openingBalance \in {NoAmount} \cup (IF startMonth = NoMonth THEN {} ELSE Openings)
  /\ current \in Nat
  /\ reach \in {NoMonth} \cup Months

\* What every step preserves: the types, with finitely many movements.
Typed == Sound(ledger) /\ RestTyped /\ asked \in Asks

LEMMA TypedMeans == Typed => TypeOK
BY DEF Typed, TypeOK, Sound, RestTyped, Asks

LEMMA InitTyped == Init => Typed
<1> SUFFICES ASSUME Init PROVE Typed
  OBVIOUS
<1>1. Sound(ledger)
  <2>1. PICK S \in SUBSET Legacy :
          ledger = [actuals |-> [t \in Leaves |-> [p \in Months |-> IF <<t, p>> \in S THEN 1 ELSE 0]],
                    budgets |-> Zero, movements |-> {}]
    BY DEF Init
  <2>2. IsFiniteSet({})
    BY FS_EmptySet
  <2> QED BY <2>1, <2>2 DEF Sound, Snapshot, Amounts, Zero
<1>2. asked \in [Devices -> [what : {"none", "close", "reopen"}, month : {NoMonth} \cup Months,
                             sent : BOOLEAN, fresh : BOOLEAN]]
  BY DEF Init, NoAsk
<1>3. baseline \in Seq(Int) /\ Len(baseline) = 0
  BY DEF Init
<1> QED BY <1>1, <1>2, <1>3, ConstantsAssumption DEF Init, Typed, RestTyped, Asks, NoMonth, NoAmount, Months

LEMMA AskedTyped ==
  ASSUME asked \in Asks, NEW d \in Devices, NEW what \in {"none", "close", "reopen"},
         NEW month \in {NoMonth} \cup Months, NEW sent \in BOOLEAN, NEW fresh \in BOOLEAN
  PROVE  [asked EXCEPT ![d] = [what |-> what, month |-> month, sent |-> sent, fresh |-> fresh]] \in Asks
BY DEF Asks

LEMMA StoreTyped ==
  ASSUME Typed, NEW next, Sound(next), Store(next)
  PROVE  Typed'
<1>1. RestTyped /\ asked \in Asks
  BY DEF Typed
<1>2. RestTyped'
  BY <1>1 DEF Store, RestTyped, anchor, opening
<1>3. asked' \in Asks
  BY <1>1 DEF Store, Stale, Asks
<1>4. Sound(ledger)'
  BY DEF Store, Sound
<1> QED BY <1>2, <1>3, <1>4 DEF Typed

LEMMA WritesTyped ==
  ASSUME Typed, Put \/ Post \/ Patch \/ Remove
  PROVE  Typed'
<1>1. Sound(ledger)
  BY DEF Typed
<1>2. CASE Put
  BY <1>1, <1>2, SnapshotsSound, StoreTyped DEF Put
<1>3. CASE Post
  BY <1>1, <1>3, AdditionsSound, StoreTyped DEF Post
<1>4. CASE Patch
  BY <1>1, <1>4, EditsSound, StoreTyped DEF Patch, Write
<1>5. CASE Remove
  BY <1>1, <1>5, RemovalsSound, StoreTyped DEF Remove, Write
<1> QED BY <1>2, <1>3, <1>4, <1>5

LEMMA AskTyped ==
  ASSUME Typed, NEW d \in Devices, AskClose(d) \/ AskReopen(d)
  PROVE  Typed'
<1>1. RestTyped /\ asked \in Asks /\ Sound(ledger)
  BY DEF Typed
<1>2. PICK what \in {"close", "reopen"}, month \in Months : Ask(d, what, month)
  BY DEF AskClose, AskReopen, NextClosable, NextReopenable
<1>3. asked' \in Asks
  <2>1. PICK sent \in {TRUE, ~Waits} :
          asked' = [asked EXCEPT ![d] = [what |-> what, month |-> month, sent |-> sent, fresh |-> TRUE]]
    BY <1>2 DEF Ask
  <2>2. sent \in BOOLEAN
    BY ConstantsAssumption
  <2> QED BY <1>1, <2>1, <2>2, AskedTyped
<1>4. RestTyped' /\ ledger' = ledger
  BY <1>1, <1>2 DEF Ask, RestTyped, anchor, opening
<1> QED BY <1>1, <1>3, <1>4 DEF Typed

LEMMA QueueTyped ==
  ASSUME Typed, NEW d \in Devices, Send(d) \/ Reload(d) \/ ServeRefused(d)
  PROVE  Typed'
<1>1. RestTyped /\ asked \in Asks /\ Sound(ledger)
  BY DEF Typed
<1>2. asked' \in Asks
  <2>1. CASE Send(d)
    BY <1>1, <2>1 DEF Send, Asks
  <2>2. CASE Reload(d)
    BY <1>1, <2>2 DEF Reload, Asks
  <2>3. CASE ServeRefused(d)
    BY <1>1, <2>3, AskedTyped DEF ServeRefused, NoAsk
  <2> QED BY <2>1, <2>2, <2>3
<1>3. RestTyped' /\ ledger' = ledger
  BY <1>1 DEF Send, Reload, ServeRefused, RestTyped, anchor, opening
<1> QED BY <1>1, <1>2, <1>3 DEF Typed

LEMMA AnsweredTyped ==
  ASSUME asked \in Asks, NEW d \in Devices, Answered(d)
  PROVE  asked' \in Asks
BY DEF Asks, Answered, Stale, NoAsk

LEMMA ServeCloseTyped ==
  ASSUME Typed, Anchored, NEW d \in Devices, ServeClose(d)
  PROVE  Typed'
<1>1. RestTyped /\ asked \in Asks /\ Sound(ledger)
  BY DEF Typed
<1>2. PICK p \in NextClosable(ClosureScope({current})) :
        CloseMonth(p) /\ Answered(d) /\ reach' = p /\ UNCHANGED <<ledger, opening, current>>
  BY DEF ServeClose
<1>3. p \in Months /\ p \in 0 .. MaxMonth /\ p # NoMonth
  BY ConstantsAssumption DEF NextClosable, Months, NoMonth
<1>4. Reopened = reopened
  BY ConstantsAssumption DEF Reopened, Anchored, OneReopened
<1>5. reopened = NoMonth \/ p = reopened
  BY <1>2, Successor DEF Anchored, OneReopened
<1>6. closedThrough' = p /\ reopened' = NoMonth /\ baseline' \in Seq(Int) /\ Len(baseline') = 0
  <2>1. CASE reopened = p
    <3>1. baseline' = <<>>
      BY <1>2, <1>4, <2>1 DEF CloseMonth
    <3> QED BY <1>2, <1>4, <2>1, <3>1 DEF CloseMonth
  <2>2. CASE reopened # p
    BY <1>1, <1>2, <1>4, <1>5, <2>2 DEF CloseMonth, RestTyped
  <2> QED BY <2>1, <2>2
<1>7. RestTyped'
  BY <1>1, <1>2, <1>3, <1>6 DEF RestTyped, opening
<1> QED BY <1>1, <1>2, <1>7, AnsweredTyped DEF Typed

LEMMA ServeReopenTyped ==
  ASSUME Typed, Anchored, NEW d \in Devices, ServeReopen(d)
  PROVE  Typed'
<1>1. RestTyped /\ asked \in Asks /\ Sound(ledger)
  BY DEF Typed
<1>2. PICK p \in NextReopenable :
        /\ closedThrough' = p - 1 /\ reopened' = p
        /\ baseline' = <<ClosingCarry(ClosureScope({}), p)>>
        /\ Answered(d) /\ UNCHANGED <<ledger, opening, current, reach, closedWith>>
  BY DEF ServeReopen
<1>3. p \in Months /\ p - 1 \in 0 .. MaxMonth /\ p - 1 # NoMonth /\ p # NoMonth /\ p = (p - 1) + 1
  BY ConstantsAssumption DEF NextReopenable, Months, NoMonth
<1>4. openingBalance \in Int
  BY <1>1, ConstantsAssumption DEF RestTyped, NoAmount
<1>5. ClosingCarry(ClosureScope({}), p) \in Int
  BY <1>1, <1>3, <1>4, ScopeTyped, CarryTyped
<1>6. baseline' \in Seq(Int) /\ Len(baseline') = 1
  BY <1>2, <1>5
<1>7. RestTyped'
  BY <1>1, <1>2, <1>3, <1>6 DEF RestTyped, opening
<1> QED BY <1>1, <1>2, <1>7, AnsweredTyped DEF Typed

LEMMA StepTyped == Anchored /\ Typed /\ [Next]_vars => Typed'
<1> SUFFICES ASSUME Anchored, Typed, [Next]_vars PROVE Typed'
  OBVIOUS
<1>1. RestTyped /\ asked \in Asks /\ Sound(ledger)
  BY DEF Typed
<1>2. CASE Put \/ Post \/ Patch \/ Remove
  BY <1>2, WritesTyped
<1>3. CASE SaveStart
  <2>1. RestTyped' /\ ledger' = ledger
    BY <1>1, <1>3, ConstantsAssumption DEF SaveStart, RestTyped, anchor, Months, NoMonth
  <2>2. asked' \in Asks
    BY <1>1, <1>3 DEF SaveStart, Stale, Asks
  <2> QED BY <1>1, <2>1, <2>2 DEF Typed
<1>4. CASE Tick \/ UNCHANGED vars
  <2>1. RestTyped' /\ ledger' = ledger /\ asked' = asked
    BY <1>1, <1>4 DEF Tick, RestTyped, vars, anchor, opening
  <2> QED BY <1>1, <2>1 DEF Typed
<1>5. CASE \E d \in Devices : AskClose(d) \/ AskReopen(d)
  BY <1>5, AskTyped
<1>6. CASE \E d \in Devices : Send(d) \/ Reload(d) \/ ServeRefused(d)
  BY <1>6, QueueTyped
<1>7. CASE \E d \in Devices : ServeClose(d)
  BY <1>7, ServeCloseTyped
<1>8. CASE \E d \in Devices : ServeReopen(d)
  BY <1>8, ServeReopenTyped
<1> QED BY <1>2, <1>3, <1>4, <1>5, <1>6, <1>7, <1>8 DEF Next

LEMMA AlwaysTyped == Spec => []Typed
BY InitTyped, StepTyped, AlwaysAnchored, PTL DEF Spec

\* Types, with the conditions the schema states as CHECKs and no cell below zero after
\* any order of additions, adjustments, edits and deletions (wouldGoNegative).
THEOREM TypeAlwaysOK == Spec => []TypeOK
BY TypedMeans, AlwaysTyped, PTL

-----------------------------------------------------------------------------
(* The balance with which a month closes, and the one photographed when it  *)
(* is reopened.                                                            *)

\* Unless amounts may be recorded before it, the declared start has nothing behind.
NothingEarly ==
  (~EarlyData /\ startMonth # NoMonth) => \A p \in DataPeriods(ledger) : startMonth <= p

\* A write adds to the months with data only where the range of the write allows it.
LEMMA BoundedEarly ==
  ASSUME Sound(ledger), NothingEarly, ~EarlyData, startMonth \in Months, NEW next, Sound(next), Bounded(next),
         NEW p \in DataPeriods(next), ~(startMonth <= p),
         \A m \in next.movements : m.period = p =>
           (m \in ledger.movements \/ \E t \in Leaves : next.actuals[t][p] # ledger.actuals[t][p])
  PROVE  FALSE
<1>1. p \in Months
  BY DEF DataPeriods
<1>2. p \notin DataPeriods(ledger)
  BY ConstantsAssumption DEF NothingEarly, Months, NoMonth
<1>3. \A t \in Leaves : ledger.actuals[t][p] = 0 /\ ledger.budgets[t][p] = 0
  BY <1>1, <1>2 DEF DataPeriods
<1>4. \A t \in Leaves : next.actuals[t][p] = ledger.actuals[t][p] /\ next.budgets[t][p] = ledger.budgets[t][p]
  BY <1>1 DEF Bounded
<1>5. PICK m \in next.movements : m.period = p
  BY <1>1, <1>3, <1>4 DEF DataPeriods
<1>6. m \in ledger.movements
  BY <1>4, <1>5
<1> QED BY <1>1, <1>2, <1>5, <1>6 DEF DataPeriods

\* A movement added to a month without data changes one of its cells.
Told(prev, next) ==
  \A p \in Months : (p \notin DataPeriods(prev)) =>
    \A m \in next.movements : m.period = p =>
      (m \in prev.movements \/ \E t \in Leaves : next.actuals[t][p] # prev.actuals[t][p])

LEMMA AdditionsTold ==
  ASSUME NEW l, Sound(l), NEW next \in Additions(l)
  PROVE  Told(l, next)
<1>1. PICK i \in FreshIds(l) : \E m \in Movements(i, "manual", Leaves, Months) : next = Added(l, m)
  BY DEF Additions
<1>2. PICK m \in Movements(i, "manual", Leaves, Months) : next = Added(l, m)
  BY <1>1
<1>3. m \in Movement /\ m.amount > 0
  BY <1>1, MovementsTyped DEF FreshIds
<1>4. l \in Snapshot /\ IsFiniteSet(l.movements)
  BY DEF Sound
<1>5. m.target \in Leaves /\ m.period \in Months /\ m.amount \in Int
  BY <1>3 DEF Movement
<1>6. next.actuals[m.target][m.period] = l.actuals[m.target][m.period] + m.amount
  BY <1>2, <1>3, <1>4, <1>5, AddedTyped
<1>7. l.actuals[m.target][m.period] \in Int
  BY <1>4, <1>5 DEF Snapshot, Amounts
<1>8. next.actuals[m.target][m.period] # l.actuals[m.target][m.period]
  BY <1>3, <1>5, <1>6, <1>7
<1>9. next.movements = l.movements \cup {m}
  BY <1>2, <1>4 DEF Added, Bump, Snapshot
<1> QED BY <1>5, <1>8, <1>9 DEF Told

LEMMA RemovalsTold ==
  ASSUME NEW l, Sound(l), NEW m \in l.movements, NEW next \in Removals(l, m)
  PROVE  Told(l, next)
<1>1. next = Removed(l, m) /\ l \in Snapshot
  BY DEF Removals, Sound
<1>2. next.movements = l.movements \ {m}
  BY <1>1 DEF Removed, Bump, Snapshot
<1> QED BY <1>2 DEF Told

LEMMA EditsTold ==
  ASSUME NEW l, Sound(l), NEW m \in l.movements, NEW range, NEW next \in Edits(l, m, range)
  PROVE  Told(l, next)
<1>1. l \in Snapshot /\ IsFiniteSet(l.movements) /\ m \in Movement
  BY DEF Sound, Snapshot
<1>2. CASE next \in Removals(l, m)
  BY <1>2, RemovalsTold
<1>3. CASE next \notin Removals(l, m)
  <2>1. PICK n \in Movements(m.id, m.kind, SameType(m.target), range) : next = Added(Removed(l, m), n)
    BY <1>3 DEF Edits
  <2>2. SameType(m.target) \in SUBSET Leaves
    BY ConstantsAssumption DEF SameType
  <2>3. n \in Movement
    BY <1>1, <2>1, <2>2, MovementsTyped DEF Movement
  <2>4. n.amount # 0
    BY <1>1, ConstantsAssumption DEF Movements, AmountsOf, Movement
  <2> DEFINE r == Removed(l, m)
  <2>5. r \in Snapshot /\ IsFiniteSet(r.movements)
    BY <1>1, RemovedTyped
  <2>6. r.movements = l.movements \ {m}
    BY <1>1 DEF Removed, Bump, Snapshot
  <2>7. next.movements = r.movements \cup {n}
    BY <2>1, <2>5 DEF Added, Bump, Snapshot
  <2>8. n.target \in Leaves /\ n.period \in Months /\ n.amount \in Int
    BY <2>3 DEF Movement
  <2>9. n.period # m.period => r.actuals[n.target][n.period] = l.actuals[n.target][n.period]
    BY <1>1, <2>8 DEF Removed, Bump, Snapshot, Amounts, Movement
  <2> HIDE DEF r
  <2>10. next.actuals[n.target][n.period] = r.actuals[n.target][n.period] + n.amount
    BY <2>1, <2>3, <2>5, <2>8, AddedTyped DEF r
  <2>11. r.actuals[n.target][n.period] \in Int
    BY <2>5, <2>8 DEF Snapshot, Amounts
  <2>12. n.period \notin DataPeriods(l) => next.actuals[n.target][n.period] # l.actuals[n.target][n.period]
    <3> SUFFICES ASSUME n.period \notin DataPeriods(l)
                 PROVE  next.actuals[n.target][n.period] # l.actuals[n.target][n.period]
      OBVIOUS
    <3>1. n.period # m.period
      BY <2>8 DEF DataPeriods
    <3> QED BY <2>4, <2>8, <2>9, <2>10, <2>11, <3>1
  <2> QED BY <2>6, <2>7, <2>8, <2>12 DEF Told
<1> QED BY <1>2, <1>3

LEMMA AdjustedTold ==
  ASSUME NEW l, Sound(l), NEW i \in Ids, NEW t \in Leaves, NEW p \in Months, NEW v \in Nat
  PROVE  Told(l, Adjusted(l, i, t, p, v))
<1> DEFINE next == Adjusted(l, i, t, p, v)
           diff == v - MovementSum(l, t, p)
           m == [id |-> i, target |-> t, period |-> p, amount |-> diff, kind |-> "adjustment"]
<1>1. l \in Snapshot
  BY DEF Sound
<1>2. next.movements = IF diff = 0 THEN l.movements ELSE l.movements \cup {m}
  BY <1>1 DEF Adjusted, Snapshot
<1>3. next.actuals[t][p] = v
  BY <1>1 DEF Adjusted, Snapshot, Amounts
<1>4. m.period = p
  OBVIOUS
<1>5. p \notin DataPeriods(l) => l.actuals[t][p] = 0 /\ MovementSum(l, t, p) = 0
  <2> SUFFICES ASSUME p \notin DataPeriods(l) PROVE l.actuals[t][p] = 0 /\ MovementSum(l, t, p) = 0
    OBVIOUS
  <2>1. l.actuals[t][p] = 0 /\ ~ \E n \in l.movements : n.period = p
    BY DEF DataPeriods
  <2> QED BY <2>1, SumOfNone DEF MovementSum, MovementsAt
<1>6. (p \notin DataPeriods(l) /\ diff # 0) => next.actuals[t][p] # l.actuals[t][p]
  <2> HIDE DEF next
  <2> QED BY <1>3, <1>5
<1> HIDE DEF next, diff, m
<1>7. Told(l, next)
  BY <1>2, <1>4, <1>6 DEF Told
<1> QED BY <1>7 DEF next

LEMMA SnapshotsTold ==
  ASSUME Sound(ledger), NEW range, NEW next \in Snapshots(ledger, range)
  PROVE  Told(ledger, next)
<1>1. 0 .. MaxAmount \subseteq Nat
  BY ConstantsAssumption
<1>2. CASE next \in Additions(ledger)
  BY <1>2, AdditionsTold
<1>3. CASE \E m \in ledger.movements : next \in Edits(ledger, m, range)
  BY <1>3, EditsTold
<1>4. CASE \E i \in FreshIds(ledger), t \in Leaves, p \in range \cap Months, v \in 0 .. MaxAmount :
             next = Adjusted(ledger, i, t, p, v)
  BY <1>1, <1>4, AdjustedTold DEF FreshIds
<1>5. CASE next.movements = ledger.movements
  BY <1>5 DEF Told
<1>6. ledger \in Snapshot
  BY DEF Sound
<1>7. (\E t \in Leaves, p \in Months, v \in 0 .. MaxBudget : next = [ledger EXCEPT !.budgets[t][p] = v])
        => next.movements = ledger.movements
  BY <1>6 DEF Snapshot
<1>8. (\E t \in Leaves, p \in Months, v \in 0 .. MaxAmount : next = [ledger EXCEPT !.actuals[t][p] = v])
        => next.movements = ledger.movements
  BY <1>6 DEF Snapshot
<1> QED BY <1>2, <1>3, <1>4, <1>5, <1>7, <1>8 DEF Snapshots

LEMMA StoreEarly ==
  ASSUME Typed, NothingEarly, NEW next, Sound(next), Told(ledger, next), Store(next)
  PROVE  NothingEarly'
<1>1. ledger' = next /\ startMonth' = startMonth /\ Bounded(next)
  BY DEF Store, opening
<1> SUFFICES ASSUME ~EarlyData, startMonth # NoMonth, NEW p \in DataPeriods(next), ~(startMonth <= p)
             PROVE  FALSE
  BY <1>1 DEF NothingEarly
<1>2. startMonth \in Months /\ Sound(ledger) /\ p \in Months
  BY DEF Typed, RestTyped, DataPeriods
<1>3. p \notin DataPeriods(ledger)
  BY DEF NothingEarly
<1> QED BY <1>1, <1>2, <1>3, BoundedEarly DEF Told

LEMMA InitEarly == Init => NothingEarly
BY DEF Init, NothingEarly

LEMMA StepEarly == Typed /\ NothingEarly /\ [Next]_vars => NothingEarly'
<1> SUFFICES ASSUME Typed, NothingEarly, [Next]_vars PROVE NothingEarly'
  OBVIOUS
<1>1. Sound(ledger)
  BY DEF Typed
<1>2. CASE Put
  BY <1>1, <1>2, SnapshotsSound, SnapshotsTold, StoreEarly DEF Put
<1>3. CASE Post
  BY <1>1, <1>3, AdditionsSound, AdditionsTold, StoreEarly DEF Post
<1>4. CASE Patch
  BY <1>1, <1>4, EditsSound, EditsTold, StoreEarly DEF Patch, Write
<1>5. CASE Remove
  BY <1>1, <1>5, RemovalsSound, RemovalsTold, StoreEarly DEF Remove, Write
<1>6. CASE SaveStart
  <2>1. PICK candidate \in Months : startMonth' = candidate /\ NewlyOrphaned(candidate) = {} /\ ledger' = ledger
    BY <1>6 DEF SaveStart
  <2> SUFFICES ASSUME ~EarlyData, NEW p \in DataPeriods(ledger), ~(candidate <= p) PROVE FALSE
    BY <2>1 DEF NothingEarly
  <2>2. p \in Months /\ p < candidate
    BY ConstantsAssumption DEF DataPeriods, Months
  <2>3. PICK q \in StartInForce : ~(q <= p)
    BY <2>1, <2>2 DEF NewlyOrphaned
  <2> QED BY <2>3 DEF StartInForce, NothingEarly
<1>7. CASE UNCHANGED <<ledger, opening>>
  BY <1>7 DEF NothingEarly, opening
<1>8. (Tick \/ UNCHANGED vars \/ \E d \in Devices : \/ AskClose(d) \/ AskReopen(d) \/ Send(d) \/ Reload(d)
                                                   \/ ServeClose(d) \/ ServeReopen(d) \/ ServeRefused(d))
        => UNCHANGED <<ledger, opening>>
  BY DEF Tick, vars, AskClose, AskReopen, Ask, Send, Reload, ServeClose, ServeReopen, ServeRefused
<1> QED BY <1>2, <1>3, <1>4, <1>5, <1>6, <1>7, <1>8 DEF Next

\* The balance of month p: what FiguresOf says the book hands to the next month.
BalanceAt(p) == FiguresOf(ledger, startMonth, openingBalance, p).balance

\* From month `first` to month `end`, what is added up is what a balance from the
\* beginning of time to month p adds up, if outside them nothing happens.
LEMMA CarryIsBalance ==
  ASSUME Typed, NEW p \in Months, NEW first \in 0 .. p, NEW end \in 0 .. p, NEW last \in Months, first <= end,
         last = IF end = 0 THEN 1 ELSE end, last <= p,
         \A q \in 1 .. p : (q < first \/ q > end) => q \notin DataPeriods(ledger) /\ q # startMonth
  PROVE  Available(Flows(ledger, last), first, end, startMonth, openingBalance) = BalanceAt(p)
<1> DEFINE F == Flows(ledger, last)
           G == Flows(ledger, p)
           start == OpeningAt(startMonth, openingBalance, p)[1]
           amount == OpeningAt(startMonth, openingBalance, p)[2]
<1>1. Sound(ledger) /\ startMonth \in Int /\ openingBalance \in Int /\ startMonth # 0
  BY ConstantsAssumption DEF Typed, RestTyped, NoMonth, NoAmount, Months
<1>2. amount \in Int /\ \A q \in 1 .. p : q = start <=> q = startMonth
  BY <1>1 DEF OpeningAt, NoMonth, NoAmount
<1>3. \A q \in 1 .. p : q = startMonth => amount = openingBalance
  BY <1>1 DEF OpeningAt
<1>4. p \in Nat /\ 1 <= p /\ last \in Nat /\ 1 <= last
  BY ConstantsAssumption DEF Months
<1>5. DOMAIN F = 1 .. last /\ DOMAIN G = 1 .. p
  BY <1>1, FlowsTyped
<1>6. ASSUME NEW q \in 1 .. p
      PROVE  G[q] \in Int /\ (q \notin DataPeriods(ledger) => G[q] = 0) /\ (q <= last => F[q] = G[q] /\ q \in 1 .. last)
  <2>1. G[q] = Flow([t \in Leaves |-> ledger.actuals[t][q]])
        /\ G[q] \in Int /\ (q \notin DataPeriods(ledger) => G[q] = 0)
    BY <1>1, FlowsTyped
  <2>2. q <= last => q \in 1 .. last
    BY <1>4
  <2>3. q \in 1 .. last => F[q] = Flow([t \in Leaves |-> ledger.actuals[t][q]])
    BY <1>1, FlowsTyped
  <2> HIDE DEF F, G
  <2> QED BY <2>1, <2>2, <2>3
<1>7. \A q \in DOMAIN F : F[q] \in Int
  BY <1>1, FlowsTyped
<1>8. \A q \in DOMAIN G : G[q] \in Int
  BY <1>1, FlowsTyped
<1>9. BalanceAt(p) = Available(G, 1, p, start, amount)
  BY DEF BalanceAt, FiguresOf
<1> HIDE DEF F, G, start, amount
<1>10. PICK h :
         /\ CarriesTo(h, F, first, end, startMonth, openingBalance)
         /\ Available(F, first, end, startMonth, openingBalance) = h[end]
  <2>1. first \in Int /\ end \in Int /\ first - 1 <= end
    OBVIOUS
  <2> QED BY <1>1, <1>7, <2>1, AvailableCarries
<1>11. PICK g :
         /\ CarriesTo(g, G, 1, p, start, amount)
         /\ Available(G, 1, p, start, amount) = g[p]
  <2>1. 1 \in Int /\ p \in Int /\ 1 - 1 <= p
    BY <1>4
  <2> QED BY <1>2, <1>8, <2>1, AvailableCarries
<1>12. \A q \in 0 .. p : g[q] \in Int
  BY <1>11 DEF CarriesTo
<1>13. g[0] = 0
  BY <1>11 DEF CarriesTo
<1>14. ASSUME NEW q \in 1 .. p
       PROVE  g[q] = (IF q = startMonth /\ openingBalance # NoAmount THEN openingBalance ELSE g[q - 1]) + G[q]
  <2>1. g[q] = Carried(G, start, amount, q, g[q - 1])
    BY <1>11 DEF CarriesTo
  <2>2. q \in DOMAIN G
    BY <1>5
  <2> QED BY <1>2, <1>3, <2>1, <2>2 DEF Carried
<1>15. ASSUME NEW q \in 1 .. p, q < first \/ q > end PROVE g[q] = g[q - 1]
  <2>1. q \notin DataPeriods(ledger) /\ q # startMonth /\ G[q] = 0
    BY <1>6, <1>15
  <2>2. g[q - 1] \in Int
    BY <1>12
  <2> QED BY <1>14, <2>1, <2>2
<1> DEFINE base == IF first = 0 THEN 0 ELSE first - 1
\* Before the range: nothing.
<1>16. g[base] = 0
  <2> DEFINE S == {q \in 0 .. base : g[q] = 0}
  <2>1. base \in 0 .. p /\ 0 \in Int /\ base \in Int
    OBVIOUS
  <2>2. 0 \in S
    BY <1>13, <2>1
  <2>3. ASSUME NEW q \in 0 .. base, q \in S, q + 1 <= base PROVE q + 1 \in S
    <3>1. q + 1 \in 1 .. p /\ q + 1 < first /\ (q + 1) - 1 = q
      BY <2>1, <2>3
    <3>2. g[q + 1] = g[q]
      BY <1>15, <3>1
    <3> QED BY <2>3, <3>1, <3>2
  <2> HIDE DEF S, base
  <2>4. \A q \in 0 .. base : q \in S
    BY <2>1, <2>2, <2>3, UpTo
  <2>5. base \in S
    BY <2>1, <2>4
  <2> QED BY <2>5 DEF S
\* Within it: the same.
<1>17. h[base] = g[base]
  <2>1. CASE first = 0
    <3>1. h[0 - 1] = 0 /\ h[0] = Carried(F, startMonth, openingBalance, 0, h[0 - 1])
      BY <1>10, <2>1 DEF CarriesTo
    <3>2. 0 \notin DOMAIN F
      BY <1>5
    <3>3. h[0] = 0
      BY <1>1, <3>1, <3>2 DEF Carried
    <3> QED BY <1>13, <2>1, <3>3
  <2>2. CASE first # 0
    BY <1>10, <1>16, <2>2 DEF CarriesTo
  <2> QED BY <2>1, <2>2
<1>18. h[end] = g[end]
  <2> DEFINE S == {q \in base .. end : h[q] = g[q]}
  <2>1. base \in 0 .. p /\ base \in Int /\ end \in Int /\ base <= end
    OBVIOUS
  <2>2. base \in S
    BY <1>17, <2>1
  <2>3. ASSUME NEW q \in base .. end, q \in S, q + 1 <= end PROVE q + 1 \in S
    <3>1. q + 1 \in first .. end /\ q + 1 \in 1 .. p /\ (q + 1) - 1 = q /\ q + 1 <= last
      BY <2>1, <2>3
    <3>2. h[q + 1] = Carried(F, startMonth, openingBalance, q + 1, h[q])
      BY <1>10, <3>1 DEF CarriesTo
    <3>3. q + 1 \in DOMAIN F /\ F[q + 1] = G[q + 1]
      BY <1>5, <1>6, <3>1
    <3>4. h[q] = g[q]
      BY <2>3
    <3>5. g[q + 1] = (IF q + 1 = startMonth /\ openingBalance # NoAmount THEN openingBalance ELSE g[q]) + G[q + 1]
      BY <1>14, <3>1
    <3>6. h[q + 1] = g[q + 1]
      BY <3>2, <3>3, <3>4, <3>5 DEF Carried
    <3> QED BY <2>3, <3>1, <3>6
  <2> HIDE DEF S, base
  <2>4. \A q \in base .. end : q \in S
    BY <2>1, <2>2, <2>3, UpTo
  <2>5. end \in S
    BY <2>1, <2>4
  <2> QED BY <2>5 DEF S
\* After it: nothing more.
<1>19. g[p] = g[end]
  <2> DEFINE S == {q \in end .. p : g[q] = g[end]}
  <2>1. p \in Int /\ end \in Int
    BY <1>4
  <2>2. end \in S
    OBVIOUS
  <2>3. ASSUME NEW q \in end .. p, q \in S, q + 1 <= p PROVE q + 1 \in S
    <3>1. q + 1 \in 1 .. p /\ q + 1 > end /\ (q + 1) - 1 = q
      BY <2>3
    <3>2. g[q + 1] = g[q]
      BY <1>15, <3>1
    <3> QED BY <2>3, <3>1, <3>2
  <2> HIDE DEF S
  <2>4. \A q \in end .. p : q \in S
    BY <2>1, <2>2, <2>3, UpTo
  <2>5. p \in S
    BY <1>4, <2>4
  <2> QED BY <2>5 DEF S
<1>20. Available(F, first, end, startMonth, openingBalance) = g[p] /\ BalanceAt(p) = g[p]
  BY <1>9, <1>10, <1>11, <1>18, <1>19
<1> QED BY <1>20 DEF F

\* The server's range reaches back over all the data and the declared start.
LEMMA ScopeFloor ==
  ASSUME Typed, NEW extra, NEW x \in ClosureScope(extra), NEW q \in DataPeriods(ledger) \cup Declared(startMonth),
         q <= x
  PROVE  q \in ClosureScope(extra)
<1>1. q \in Months /\ q \in 0 .. MaxMonth /\ x \in 0 .. MaxMonth
  BY ScopeTyped, ConstantsAssumption DEF DataPeriods, Declared, Typed, RestTyped, Months
<1>2. CASE q \in DataPeriods(ledger)
  BY <1>2, ScopeHoldsData
<1>3. CASE q \notin DataPeriods(ledger)
  <2> DEFINE floor == DataPeriods(ledger) \cup Declared(startMonth) \cup Declared(closedThrough)
  <2>1. q \in Declared(startMonth) /\ q \in floor /\ Declared(startMonth) \cup Declared(closedThrough) # {}
    BY <1>3
  <2>2. ClosureScope(extra) = {y \in 0 .. MaxMonth :
              /\ \E a \in floor : a <= y
              /\ (\E b \in ServerScope(extra) : y <= b) \/ (\A a \in floor : y <= a)}
    BY <2>1 DEF ClosureScope
  <2>3. \A b \in ServerScope(extra) : b \in 0 .. MaxMonth
    BY DEF ServerScope, Hull
  <2>4. \A a \in floor : a \in 0 .. MaxMonth
    BY ConstantsAssumption DEF DataPeriods, Declared, Typed, RestTyped, Months
  <2> HIDE DEF floor
  <2>5. \E a \in floor : a <= q
    BY <1>1, <2>1
  <2>6. (\E b \in ServerScope(extra) : q <= b) \/ (\A a \in floor : q <= a)
    BY <1>1, <2>2, <2>3, <2>4, ConstantsAssumption
  <2> QED BY <1>1, <2>2, <2>5, <2>6
<1> QED BY <1>2, <1>3

\* The range a month is reopened with may end before it (today's month is not in it):
\* then nothing happens in between.
LEMMA ScopeCeiling ==
  ASSUME Typed, NothingEarly, ~EarlyData, closedThrough \in Months, NEW extra,
         NEW q \in DataPeriods(ledger) \cup Declared(startMonth), q <= closedThrough
  PROVE  q \in ClosureScope(extra)
<1> DEFINE floor == DataPeriods(ledger) \cup Declared(startMonth) \cup Declared(closedThrough)
<1>1. q \in Months /\ q \in 0 .. MaxMonth /\ q \in floor
  BY ConstantsAssumption DEF DataPeriods, Declared, Typed, RestTyped, Months
<1>2. CASE q \in DataPeriods(ledger)
  BY <1>2, ScopeHoldsData
<1>3. CASE q \notin DataPeriods(ledger)
  <2>1. q = startMonth /\ startMonth # NoMonth
    BY <1>3 DEF Declared
  <2>2. \A a \in DataPeriods(ledger) : q <= a
    BY <2>1 DEF NothingEarly
  <2>3. \A a \in floor : q <= a
    BY <1>1, <2>1, <2>2, ConstantsAssumption DEF Declared, Months
  <2>4. closedThrough \in Declared(closedThrough) /\ \E a \in floor : a <= q
    BY <1>1, ConstantsAssumption DEF Declared, Months, NoMonth
  <2> QED BY <1>1, <2>3, <2>4 DEF ClosureScope
<1> QED BY <1>2, <1>3

LEMMA CarryAtClose ==
  ASSUME Typed, NEW extra, NEW p \in Months, p \in ClosureScope(extra)
  PROVE  ClosingCarry(ClosureScope(extra), p) = BalanceAt(p)
<1> DEFINE range == ClosureScope(extra)
           upTo == {q \in range : q <= p}
           first == Min(upTo)
           end == Max(upTo)
           last == Max(upTo \cup {1})
<1>1. range \in SUBSET (0 .. MaxMonth)
  BY ScopeTyped
<1>2. p \in upTo /\ p \in Nat /\ 1 <= p
  BY ConstantsAssumption DEF Months
<1>3. /\ first \in upTo /\ end \in upTo /\ first <= end
      /\ \A q \in upTo : first <= q /\ q <= end
      /\ last \in Months /\ last <= p /\ last = IF end = 0 THEN 1 ELSE end
  <2> HIDE DEF range
  <2> QED BY <1>1, <1>2, UpToBounds
<1>4. ClosingCarry(range, p) = Available(Flows(ledger, last), first, end, startMonth, openingBalance)
  BY <1>2 DEF ClosingCarry
<1>5. \A q \in upTo : q \in range /\ q <= p /\ q \in 0 .. p
  BY <1>1, <1>2, ConstantsAssumption
<1>6. \A q \in 1 .. p : q \in DataPeriods(ledger) \cup Declared(startMonth) => q \in upTo
  <2> SUFFICES ASSUME NEW q \in 1 .. p, q \in DataPeriods(ledger) \cup Declared(startMonth) PROVE q \in upTo
    OBVIOUS
  <2>1. q <= p
    BY <1>2
  <2> QED BY <2>1, ScopeFloor
<1> HIDE DEF range, upTo, first, end, last
<1>7. end = p
  BY <1>2, <1>3, <1>5
<1>8. \A q \in 1 .. p : (q < first \/ q > end) => q \notin DataPeriods(ledger) /\ q # startMonth
  <2> SUFFICES ASSUME NEW q \in 1 .. p, q < first \/ q > end,
                      q \in DataPeriods(ledger) \/ q = startMonth
               PROVE  FALSE
    OBVIOUS
  <2>1. q \in DataPeriods(ledger) \cup Declared(startMonth)
    BY ConstantsAssumption DEF Declared, NoMonth
  <2>2. q \in upTo
    BY <1>6, <2>1
  <2>3. first <= q /\ q <= end /\ first \in 0 .. p /\ end \in 0 .. p
    BY <1>3, <1>5, <2>2
  <2> QED BY <2>3
<1>9. first \in 0 .. p /\ end \in 0 .. p
  BY <1>3, <1>5
<1> QED BY <1>3, <1>4, <1>8, <1>9, CarryIsBalance DEF range

LEMMA CarryAtReopen ==
  ASSUME Typed, NothingEarly, ~EarlyData, NEW extra, closedThrough \in Months
  PROVE  ClosingCarry(ClosureScope(extra), closedThrough) = BalanceAt(closedThrough)
<1> DEFINE p == closedThrough
           range == ClosureScope(extra)
           upTo == {q \in range : q <= p}
           first == Min(upTo)
           end == Max(upTo)
           last == Max(upTo \cup {1})
           floor == DataPeriods(ledger) \cup Declared(startMonth) \cup Declared(closedThrough)
<1>1. range \in SUBSET (0 .. MaxMonth)
  BY ScopeTyped
<1>2. p \in Nat /\ 1 <= p /\ p # NoMonth
  BY ConstantsAssumption DEF Months, NoMonth
<1>3. upTo # {}
  <2>1. floor \in SUBSET Nat /\ p \in floor
    BY <1>2, ConstantsAssumption DEF DataPeriods, Declared, Typed, RestTyped, Months
  <2>2. PICK a \in floor : \A b \in floor : a <= b
    <3> HIDE DEF floor, p
    <3> QED BY <2>1, Least
  <2>3. a \in 0 .. MaxMonth /\ a <= p
    BY <1>2, <2>1, <2>2, ConstantsAssumption DEF Months
  <2>4. a \in range
    BY <1>2, <2>1, <2>2, <2>3 DEF ClosureScope, Declared
  <2> QED BY <2>3, <2>4
<1>4. /\ first \in upTo /\ end \in upTo /\ first <= end
      /\ \A q \in upTo : first <= q /\ q <= end
      /\ last \in Months /\ last <= p /\ last = IF end = 0 THEN 1 ELSE end
  <2> HIDE DEF range
  <2> QED BY <1>1, <1>3, UpToBounds
<1>5. ClosingCarry(range, p) = Available(Flows(ledger, last), first, end, startMonth, openingBalance)
  BY <1>3 DEF ClosingCarry
<1>6. \A q \in upTo : q \in range /\ q <= p /\ q \in 0 .. p
  BY <1>1, <1>2, ConstantsAssumption
<1>7. \A q \in 1 .. p : q \in DataPeriods(ledger) \cup Declared(startMonth) => q \in upTo
  <2> SUFFICES ASSUME NEW q \in 1 .. p, q \in DataPeriods(ledger) \cup Declared(startMonth) PROVE q \in upTo
    OBVIOUS
  <2>1. q <= closedThrough
    BY <1>2
  <2> QED BY <2>1, ScopeCeiling
<1> HIDE DEF range, upTo, first, end, last
<1>8. \A q \in 1 .. p : (q < first \/ q > end) => q \notin DataPeriods(ledger) /\ q # startMonth
  <2> SUFFICES ASSUME NEW q \in 1 .. p, q < first \/ q > end,
                      q \in DataPeriods(ledger) \/ q = startMonth
               PROVE  FALSE
    OBVIOUS
  <2>1. q \in DataPeriods(ledger) \cup Declared(startMonth)
    BY ConstantsAssumption DEF Declared, NoMonth
  <2>2. q \in upTo
    BY <1>7, <2>1
  <2>3. first <= q /\ q <= end /\ first \in 0 .. p /\ end \in 0 .. p
    BY <1>4, <1>6, <2>2
  <2> QED BY <2>3
<1>9. first \in 0 .. p /\ end \in 0 .. p
  BY <1>4, <1>6
<1> QED BY <1>4, <1>5, <1>8, <1>9, CarryIsBalance DEF range

\* The inductive form of BaselineIsWhatWasClosed: the balance with which the last month
\* closed is still the one its figures give, and the baseline is that balance.
ClosedWithKept ==
  ~EarlyData =>
    /\ (reopened = NoMonth /\ closedThrough # NoMonth) => closedWith = BalanceAt(closedThrough)
    /\ BaselineIsWhatWasClosed

LEMMA InitClosedWith == Init => ClosedWithKept
BY DEF Init, ClosedWithKept, BaselineIsWhatWasClosed

LEMMA WriteClosedWith ==
  ASSUME Anchored, ClosedWithKept, ClosedKept, AnchorKept, closedWith' = closedWith,
         \A m \in Months : m <= closedThrough =>
           OpeningAt(startMonth, openingBalance, m) = OpeningAt(startMonth', openingBalance', m)
  PROVE  ClosedWithKept'
<1>1. closedThrough' = closedThrough /\ reopened' = reopened /\ baseline' = baseline
  BY DEF AnchorKept, anchor
<1>2. ASSUME reopened = NoMonth, closedThrough # NoMonth
      PROVE  BalanceAt(closedThrough)' = BalanceAt(closedThrough)
  <2>1. closedThrough \in Months /\ closedThrough <= closedThrough
    BY <1>2, ConstantsAssumption DEF Anchored, OneReopened, Months
  <2>2. FiguresOf(ledger, startMonth, openingBalance, closedThrough)
          = FiguresOf(ledger', startMonth', openingBalance', closedThrough)
    BY <2>1, ClosedFigures
  <2> QED BY <1>1, <2>2 DEF BalanceAt
<1> QED BY <1>1, <1>2 DEF ClosedWithKept, BaselineIsWhatWasClosed

LEMMA CloseClosedWith ==
  ASSUME Anchored, Typed, ClosedWithKept, NEW d \in Devices, ServeClose(d)
  PROVE  ClosedWithKept'
<1>1. PICK p \in NextClosable(ClosureScope({current})) :
        /\ CloseMonth(p) /\ closedWith' = ClosingCarry(ClosureScope({current}), p)
        /\ reach' = p /\ UNCHANGED <<ledger, opening>>
  BY DEF ServeClose
<1>2. p \in Months /\ p \in ClosureScope({current}) /\ closedThrough' = p
  BY <1>1 DEF NextClosable, CloseMonth
<1>3. closedWith' = BalanceAt(p)
  BY <1>1, <1>2, CarryAtClose
<1>4. BalanceAt(closedThrough)' = BalanceAt(p)
  BY <1>1, <1>2 DEF BalanceAt, opening
<1>5. reopened' = NoMonth
  <2>1. Anchored'
    BY CloseAnchored
  <2> QED BY <1>1, <1>2, <2>1, ConstantsAssumption DEF Anchored, OneReopened, Months
<1> QED BY <1>3, <1>4, <1>5 DEF ClosedWithKept, BaselineIsWhatWasClosed

LEMMA ReopenClosedWith ==
  ASSUME Anchored, Typed, NothingEarly, ClosedWithKept, NEW d \in Devices, ServeReopen(d)
  PROVE  ClosedWithKept'
<1>1. PICK p \in NextReopenable :
        /\ closedThrough' = p - 1 /\ reopened' = p /\ baseline' = <<ClosingCarry(ClosureScope({}), p)>>
        /\ closedWith' = closedWith
  BY DEF ServeReopen
<1>2. p = closedThrough /\ closedThrough \in Months /\ Reopened = NoMonth /\ p # NoMonth
  BY <1>1, ConstantsAssumption DEF NextReopenable, Declared, Months, NoMonth
<1>3. reopened = NoMonth /\ closedThrough # NoMonth
  BY <1>2, ConstantsAssumption DEF Reopened, Anchored, OneReopened, Months, NoMonth
<1>4. ~EarlyData => closedWith = BalanceAt(closedThrough)
                    /\ ClosingCarry(ClosureScope({}), p) = BalanceAt(closedThrough)
  BY <1>2, <1>3, CarryAtReopen DEF ClosedWithKept
<1> QED BY <1>1, <1>2, <1>4 DEF ClosedWithKept, BaselineIsWhatWasClosed

LEMMA StepClosedWith ==
  Anchored /\ Typed /\ NothingEarly /\ ClosedWithKept /\ [Next]_vars => ClosedWithKept'
<1> SUFFICES ASSUME Anchored, Typed, NothingEarly, ClosedWithKept, [Next]_vars PROVE ClosedWithKept'
  OBVIOUS
<1>1. CASE Ordinary
  <2>1. closedWith' = closedWith
    BY <1>1 DEF Ordinary, Put, Post, Patch, Remove, Write, Store, Tick, AskClose, AskReopen, Ask,
                Send, Reload, ServeRefused
  <2>2. startMonth' = startMonth /\ openingBalance' = openingBalance
    BY <1>1, OrdinaryKeeps DEF opening
  <2> QED BY <1>1, <2>1, <2>2, OrdinaryKeeps, OrdinaryClosedKept, WriteClosedWith
<1>2. CASE SaveStart
  <2>1. ClosedKept /\ AnchorKept /\ closedWith' = closedWith
    BY <1>2, StartKeeps DEF SaveStart, ClosedKept
  <2> QED BY <1>2, <2>1, StartOpening, WriteClosedWith
<1>3. CASE \E d \in Devices : ServeClose(d)
  BY <1>3, CloseClosedWith
<1>4. CASE \E d \in Devices : ServeReopen(d)
  BY <1>4, ReopenClosedWith
<1>5. CASE UNCHANGED vars
  BY <1>5 DEF vars, anchor, opening, ClosedWithKept, BaselineIsWhatWasClosed, BalanceAt
<1> QED BY <1>1, <1>2, <1>3, <1>4, <1>5 DEF Next, Ordinary

\* However closings, reopenings and writes alternate, the balance photographed at a
\* reopening is the one the month was closed with (reopen_base_available), as long as
\* nothing is recorded before the declared start.
THEOREM BaselineAlwaysWhatWasClosed == Spec => [](~EarlyData => BaselineIsWhatWasClosed)
<1>1. Spec => []NothingEarly
  BY InitEarly, StepEarly, AlwaysTyped, PTL DEF Spec
<1>2. Spec => []ClosedWithKept
  BY <1>1, InitClosedWith, StepClosedWith, AlwaysAnchored, AlwaysTyped, PTL DEF Spec
<1>3. ClosedWithKept => (~EarlyData => BaselineIsWhatWasClosed)
  BY DEF ClosedWithKept
<1> QED BY <1>2, <1>3, PTL

-----------------------------------------------------------------------------
(* The month the button names.                                             *)

\* The device and the server derive the same month from the same ledger, each from its
\* own range.
LEMMA SameClosable ==
  ASSUME Anchored, Typed, NEW p \in NextClosable(ClosureScope({current})), NEW m \in NextClosable(ActiveRange)
  PROVE  m = p
<1>1. /\ p \in Months /\ p \in ClosureScope({current}) /\ p > closedThrough /\ p \in 0 .. MaxMonth
      /\ \A q \in ClosureScope({current}) : q > closedThrough => p <= q
  BY ConstantsAssumption DEF NextClosable, Months
<1>2. /\ m \in Months /\ m \in ActiveRange /\ m > closedThrough /\ m \in 0 .. MaxMonth
      /\ \A q \in ActiveRange : q > closedThrough => m <= q
  BY ConstantsAssumption DEF NextClosable, Months
<1>3. CASE closedThrough # NoMonth
  <2>1. p = closedThrough + 1
    BY <1>3, Successor
  <2>2. closedThrough \in 0 .. MaxMonth /\ closedThrough <= p
    BY <1>1, <1>3 DEF Anchored
  <2>3. p \in ActiveRange
    BY <1>1, <1>3, <2>2 DEF ActiveRange, Declared
  <2>4. m <= p
    BY <1>1, <1>2, <2>3
  <2> QED BY <1>2, <2>1, <2>2, <2>4
<1>4. CASE closedThrough = NoMonth
  <2> DEFINE floor == {IF startMonth # NoMonth THEN startMonth ELSE current} \cup DataPeriods(ledger)
  <2>1. ActiveRange = {q \in 0 .. MaxMonth : \E a \in floor : a <= q}
    BY <1>4 DEF ActiveRange, Declared
  <2>2. \A q \in 0 .. MaxMonth : q > closedThrough
    BY <1>4 DEF NoMonth
  <2>3. \E a \in floor : a <= p
    <3>1. CASE startMonth # NoMonth
      BY <1>1, <1>4, <3>1 DEF ClosureScope, Declared
    <3>2. CASE startMonth = NoMonth
      BY <1>1, <1>4, <3>2 DEF ClosureScope, Declared, ServerScope, Hull
    <3> QED BY <3>1, <3>2
  <2>4. m <= p
    BY <1>1, <1>2, <2>1, <2>2, <2>3
  <2>5. PICK a \in floor : a <= m
    BY <1>2, <2>1
  <2>6. \A b \in floor : b \in 0 .. MaxMonth => m <= b
    <3> HIDE DEF floor
    <3>1. \A b \in 0 .. MaxMonth : b <= b
      OBVIOUS
    <3> QED BY <1>2, <2>1, <2>2, <3>1
  <2>7. current \in Nat
    BY DEF Typed, RestTyped
  <2>8. a = m /\ \A b \in floor : m <= b
    <3>1. \A b \in floor : b \in Nat
      BY <2>7, ConstantsAssumption DEF Anchored, DataPeriods, Months
    <3> HIDE DEF floor
    <3> QED BY <1>2, <2>5, <2>6, <3>1, ConstantsAssumption
  <2>9. m \in ClosureScope({current})
    <3>1. CASE startMonth # NoMonth
      <4>1. DataPeriods(ledger) \cup Declared(startMonth) \cup Declared(closedThrough) = floor
        BY <1>4, <3>1 DEF Declared
      <4>2. Declared(startMonth) \cup Declared(closedThrough) # {}
        BY <3>1 DEF Declared
      <4> HIDE DEF floor
      <4>3. ClosureScope({current}) = {y \in 0 .. MaxMonth :
              /\ \E b \in floor : b <= y
              /\ (\E b \in ServerScope({current}) : y <= b) \/ (\A b \in floor : y <= b)}
        BY <4>1, <4>2 DEF ClosureScope
      <4> QED BY <1>2, <2>5, <2>8, <4>3
    <3>2. CASE startMonth = NoMonth
      <4>1. m \in DataPeriods(ledger) \cup {current} /\ m <= m
        BY <1>2, <2>8, <3>2
      <4> QED BY <1>2, <1>4, <3>2, <4>1 DEF ClosureScope, Declared, ServerScope, Hull
    <3> QED BY <3>1, <3>2
  <2>10. p <= m
    BY <1>1, <1>2, <2>2, <2>9
  <2> QED BY <1>1, <1>2, <2>4, <2>10
<1> QED BY <1>3, <1>4

\* With no wait in the queue, what was asked of the ledger as it is names its month.
Shown ==
  \A d \in Devices : asked[d].what # "none" =>
    /\ asked[d].sent
    /\ asked[d].fresh => asked[d].month \in IF asked[d].what = "close" THEN NextClosable(ActiveRange)
                                            ELSE NextReopenable

LEMMA StaleShown ==
  ASSUME Typed, Shown, asked' = Stale \/ \E d \in Devices : Answered(d)
  PROVE  Shown'
<1>1. asked \in Asks
  BY DEF Typed
<1>2. \A d \in Devices : \/ asked'[d].what = "none"
                         \/ asked'[d].what = asked[d].what /\ asked'[d].sent = asked[d].sent /\ ~asked'[d].fresh
  <2>1. \A d \in Devices : /\ Stale[d].what = asked[d].what /\ Stale[d].sent = asked[d].sent
                            /\ ~Stale[d].fresh
    BY <1>1 DEF Stale, Asks
  <2>2. CASE asked' = Stale
    BY <2>1, <2>2
  <2>3. CASE \E d \in Devices : Answered(d)
    <3>1. PICK e \in Devices : asked' = [Stale EXCEPT ![e] = NoAsk]
      BY <2>3 DEF Answered
    <3>2. \A d \in Devices : asked'[d] = IF d = e THEN NoAsk ELSE Stale[d]
      BY <3>1 DEF Stale
    <3>3. NoAsk.what = "none"
      BY DEF NoAsk
    <3> QED BY <2>1, <3>2, <3>3
  <2> QED BY <2>2, <2>3
<1> QED BY <1>2 DEF Shown

LEMMA StillShown ==
  ASSUME Shown, UNCHANGED <<ledger, anchor, opening, current>>,
         \A d \in Devices : asked'[d].what = "none" \/ asked'[d] = asked[d]
  PROVE  Shown'
<1>1. ActiveRange' = ActiveRange /\ NextReopenable' = NextReopenable
  BY DEF ActiveRange, NextReopenable, Reopened, anchor, opening
<1>2. NextClosable(ActiveRange)' = NextClosable(ActiveRange)
  BY <1>1 DEF NextClosable, anchor
<1> QED BY <1>1, <1>2 DEF Shown

LEMMA AskShown ==
  ASSUME ~Waits, Typed, Shown, NEW d \in Devices, AskClose(d) \/ AskReopen(d)
  PROVE  Shown'
<1>1. PICK what \in {"close", "reopen"}, month \in Months :
        /\ month \in IF what = "close" THEN NextClosable(ActiveRange) ELSE NextReopenable
        /\ Ask(d, what, month)
  BY DEF AskClose, AskReopen, NextClosable, NextReopenable
<1>2. asked' = [asked EXCEPT ![d] = [what |-> what, month |-> month, sent |-> TRUE, fresh |-> TRUE]]
  BY <1>1 DEF Ask
<1>3. UNCHANGED <<ledger, anchor, opening, current>>
  BY <1>1 DEF Ask
<1>4. ActiveRange' = ActiveRange /\ NextReopenable' = NextReopenable
  BY <1>3 DEF ActiveRange, NextReopenable, Reopened, anchor, opening
<1>5. NextClosable(ActiveRange)' = NextClosable(ActiveRange)
  BY <1>3, <1>4 DEF NextClosable, anchor
<1>6. ASSUME NEW e \in Devices
      PROVE  IF e = d THEN asked'[e] = [what |-> what, month |-> month, sent |-> TRUE, fresh |-> TRUE]
             ELSE asked'[e] = asked[e]
  BY <1>2 DEF Typed, Asks
<1> QED BY <1>1, <1>4, <1>5, <1>6 DEF Shown

LEMMA StepShown == ASSUME ~Waits PROVE Typed /\ Shown /\ [Next]_vars => Shown'
<1> SUFFICES ASSUME Typed, Shown, [Next]_vars PROVE Shown'
  OBVIOUS
<1>1. asked \in Asks
  BY DEF Typed
<1>2. CASE Put \/ Post \/ Patch \/ Remove \/ SaveStart
  <2>1. asked' = Stale
    BY <1>2 DEF Put, Post, Patch, Remove, Write, Store, SaveStart
  <2> QED BY <2>1, StaleShown
<1>3. CASE Tick
  <2>1. \A d \in Devices : asked'[d].what = "none"
    BY <1>3 DEF Tick, NoAsk
  <2> QED BY <2>1 DEF Shown
<1>4. CASE UNCHANGED vars
  BY <1>4, StillShown DEF vars
<1>5. ASSUME NEW d \in Devices, AskClose(d) \/ AskReopen(d) PROVE Shown'
  BY <1>5, AskShown
<1>6. ASSUME NEW d \in Devices, Send(d) \/ Reload(d) PROVE FALSE
  BY <1>6 DEF Send, Reload, Shown
<1>7. ASSUME NEW d \in Devices, ServeClose(d) \/ ServeReopen(d) PROVE Shown'
  <2>1. Answered(d)
    BY <1>7 DEF ServeClose, ServeReopen
  <2> QED BY <2>1, StaleShown
<1>8. ASSUME NEW d \in Devices, ServeRefused(d) PROVE Shown'
  <2>1. \A e \in Devices : asked'[e].what = "none" \/ asked'[e] = asked[e]
    BY <1>1, <1>8 DEF ServeRefused, Asks, NoAsk
  <2> QED BY <1>8, <2>1, StillShown DEF ServeRefused
<1> QED BY <1>2, <1>3, <1>4, <1>5, <1>6, <1>7, <1>8 DEF Next

\* What a step that moves the frontier answers.
NamedMonth ==
  \A d \in Devices :
    (asked[d].what # "none" /\ asked'[d].what = "none" /\ closedThrough' # closedThrough)
      => asked[d].month = (IF asked[d].what = "close" THEN closedThrough' ELSE reopened')

LEMMA StepNamed == Anchored /\ Typed /\ Shown /\ [Next]_vars => [NamedMonth]_vars
<1> SUFFICES ASSUME Anchored, Typed, Shown, Next, NEW d \in Devices,
                    asked[d].what # "none", asked'[d].what = "none", closedThrough' # closedThrough
             PROVE  asked[d].month = (IF asked[d].what = "close" THEN closedThrough' ELSE reopened')
  BY DEF NamedMonth
<1>1. asked \in Asks
  BY DEF Typed
<1>2. ~Ordinary /\ ~SaveStart
  BY OrdinaryKeeps, StartKeeps DEF AnchorKept, anchor
<1>3. PICK e \in Devices : ServeClose(e) \/ ServeReopen(e)
  BY <1>2 DEF Next, Ordinary
<1>4. Answered(e)
  BY <1>3 DEF ServeClose, ServeReopen
<1>5. e = d
  BY <1>1, <1>4 DEF Answered, Stale, Asks
<1>6. CASE ServeClose(d)
  <2>1. PICK p \in NextClosable(ClosureScope({current})) :
          Arrived(d, "close") /\ asked[d].fresh /\ CloseMonth(p)
    BY <1>6 DEF ServeClose
  <2>2. asked[d].month \in NextClosable(ActiveRange) /\ asked[d].what = "close" /\ closedThrough' = p
    BY <2>1 DEF Shown, Arrived, CloseMonth
  <2> QED BY <2>2, SameClosable
<1>7. CASE ServeReopen(d)
  <2>1. PICK p \in NextReopenable : Arrived(d, "reopen") /\ asked[d].fresh /\ reopened' = p
    BY <1>7 DEF ServeReopen
  <2>2. asked[d].month \in NextReopenable /\ asked[d].what = "reopen"
    BY <2>1 DEF Shown, Arrived
  <2> QED BY <2>1, <2>2 DEF NextReopenable, Declared
<1> QED BY <1>3, <1>5, <1>6, <1>7

\* With an empty save queue, the month the server closes or reopens is the one the
\* button named, although the two derive it from different ranges (FR-2703).
THEOREM AlwaysClosesWhatWasShown == ASSUME ~Waits PROVE Spec => ClosesWhatWasShown
<1>1. Init => Shown
  BY DEF Init, Shown, NoAsk
<1>2. Typed /\ Shown /\ [Next]_vars => Shown'
  BY StepShown
<1>3. Anchored /\ Typed /\ Shown /\ [Next]_vars => [NamedMonth]_vars
  BY StepNamed
<1>4. Spec => [][NamedMonth]_vars
  BY <1>1, <1>2, <1>3, AlwaysAnchored, AlwaysTyped, PTL DEF Spec
<1> QED BY <1>4 DEF ClosesWhatWasShown, NamedMonth

=============================================================================

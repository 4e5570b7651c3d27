-------------------------------- MODULE Cycles --------------------------------
(***************************************************************************)
(* The calendar of a budget (src/src/domain/cycles.ts): months, or cycles  *)
(* that go from one payday to the eve of the next, a payday that changes,  *)
(* and the relocation of everything recorded when the calendar changes     *)
(* (cyclesRepo.ts runs it in one transaction).                             *)
(*                                                                         *)
(* A day is a number, a month its index in Lengths.  A key is 2m for month *)
(* m, or for the cycle that ends in it, and 2m + 1 for a transition that   *)
(* ends in it, so that keys are in order.                                  *)
(***************************************************************************)
EXTENDS Integers, Sequences, FiniteSets, FiniteSetsExt, SequencesExt

CONSTANTS
  Lengths,   \* how many days each month has
  Window,    \* days before a payday in which an income may count in what it opens
  Leaves,
  Pockets,   \* the leaves that are reserves
  Users      \* for each user: paydays and months that may be chosen, entries that
             \* may be made, their number, and the ledgers first found

ASSUME LengthsAssumption == Lengths \in Seq(Nat \ {0}) /\ Len(Lengths) > 1

VARIABLES
  versions,  \* the paydays since cycles were activated; none in months
  calendar,  \* the calendar they make
  restore,   \* the start month declared before the activation
  ledger,    \* cells, moves, origins, start and closed
  before,    \* the ledger as it was before the activation
  touched,   \* something was recorded, or a month closed, since
  user

vars == <<versions, calendar, restore, ledger, before, touched, user>>

Months == 1..(Len(Lengths) - 1)
\* What is recorded is of these: the table reaches past it on both sides.
Middle == 2..(Len(Lengths) - 2)
None == 0

FirstDay ==
  LET first[m \in 1..(Len(Lengths) + 1)] == IF m = 1 THEN 1 ELSE first[m - 1] + Lengths[m - 1]
  IN  [m \in 1..(Len(Lengths) + 1) |-> first[m]]
LastDay == FirstDay[Len(Lengths) + 1] - 1
Days == 1..LastDay
MonthOf(d) == CHOOSE m \in DOMAIN Lengths : FirstDay[m] <= d /\ d < FirstDay[m + 1]
MonthKey(d) == 2 * MonthOf(d)

\* isAnchorDay, isEomPolicy.
Policies == {"last_day", "shift"}
ASSUME UsersAssumption ==
  \A u \in Users : /\ {"paydays", "months"} \subseteq DOMAIN u
                   /\ u.paydays \subseteq (Nat \ {0}) \X Policies
                   /\ u.months \subseteq Middle

-----------------------------------------------------------------------------
(* The calendar *)

\* anchorDateOf: the payday of a month; one the month does not have is its last
\* day or the first of the next.
AnchorDate(m, v) ==
  CASE v.day <= Lengths[m]     -> FirstDay[m] + v.day - 1
    [] v.policy = "last_day" /\ v.day > Lengths[m] -> FirstDay[m + 1] - 1
    [] v.policy = "shift" /\ v.day > Lengths[m]    -> FirstDay[m + 1]

\* The paydays of every version: the first one covers the whole table, each of
\* the others starts at its first payment.
Anchors(vs) ==
  UNION {{d \in {AnchorDate(m, vs[i]) : m \in Months} :
            /\ i > 1 => d >= vs[i].firstPay
            /\ i < Len(vs) => d < vs[i + 1].firstPay} : i \in 1..Len(vs)}

\* Variant: a third cycle that ends in a month takes the key of its transition (BG-078).
NamedAgain(done, month, start, end) ==
  LET taken == done # <<>> /\ Last(done).key \div 2 = month IN
  Append(done, [key |-> 2 * month + (IF taken THEN 1 ELSE 0), start |-> start, end |-> end])

\* A cycle is named after the month it ends in; the second one of that month is
\* the transition, and a third one is added to it.
Named(done, month, start, end) ==
  LET taken == done # <<>> /\ Last(done).key \div 2 = month IN
  IF taken /\ Last(done).key % 2 = 1
  THEN Append(Front(done), [Last(done) EXCEPT !.end = end])
  ELSE Append(done, [key |-> 2 * month + (IF taken THEN 1 ELSE 0), start |-> start, end |-> end])

\* buildCalendar: the paydays in order, and from each to the eve of the next.
Paydays(vs) ==
  LET anchors == Anchors(vs)
      upTo[d \in 0..LastDay] ==
        IF d = 0 THEN <<>> ELSE IF d \in anchors THEN Append(upTo[d - 1], d) ELSE upTo[d - 1]
  IN  upTo[LastDay]

Entries(vs) ==
  LET paydays == Paydays(vs)
      table[i \in 0..(Len(paydays) - 1)] ==
        IF i = 0 THEN <<>>
        ELSE LET end == paydays[i + 1] - 1 IN Named(table[i - 1], MonthOf(end), paydays[i], end)
  IN  table[Len(paydays) - 1]

MonthEntries ==
  LET table[m \in 0..(Len(Lengths) - 1)] ==
        IF m = 0 THEN <<>> ELSE Named(table[m - 1], m, FirstDay[m], FirstDay[m + 1] - 1)
  IN  table[Len(Lengths) - 1]

\* makeCalendar: the range of every key (rangeOf), the key of every day (periodForDate).
Calendar(vs) ==
  IF vs = <<>> THEN [cycles |-> FALSE, first |-> None, entries |-> MonthEntries]
  ELSE [cycles |-> TRUE, first |-> vs[1], entries |-> Entries(vs)]

Keys(cal) == {cal.entries[i].key : i \in DOMAIN cal.entries}
RangeOf(cal, k) == CHOOSE e \in Range(cal.entries) : e.key = k
PeriodOf(cal, d) == (CHOOSE e \in Range(cal.entries) : e.start <= d /\ d <= e.end).key

Following(cal, k) == {j \in Keys(cal) : j > k}

\* proposeOpeningCycle: the cycle an income recorded on the eve of a payday may count in.
ProposeOpening(cal, d) ==
  LET next == Following(cal, PeriodOf(cal, d)) IN
  IF cal.cycles /\ next # {} /\ RangeOf(cal, Min(next)).start - d \in 1..Window THEN Min(next) ELSE None

\* isValidMovementPeriod.
ValidPeriod(cal, x) ==
  IF x.date = None THEN ~cal.cycles
  ELSE \/ x.period = PeriodOf(cal, x.date)
       \/ x.kind = "income" /\ x.period = ProposeOpening(cal, x.date)

-----------------------------------------------------------------------------
(* What is recorded *)

Rows == {"budget", "plan", "actual"}
Kinds == {"income", "adjustment", "aside", "out", "note"}
Item == [id : Nat, kind : Kinds, leaf : Leaves, date : Nat, period : Nat, amount : Int]

\* Cells are of a row: what is planned, what is planned to be taken out of a
\* pocket, what was done.  A cell that never had an amount is not in the map.
\* A note of a cell is kept with the movements: it has no date and no amount.
Delta(x) == IF x.kind \in {"income", "adjustment", "aside"} THEN x.amount ELSE 0

Weight(moves) == MapThenSumSet(LAMBDA x : x.amount, moves)
Deltas(moves, leaf, k) ==
  MapThenSumSet(Delta, {x \in moves : x.leaf = leaf /\ x.period = k})

Cell(l, row, leaf, k) ==
  IF <<row, leaf, k>> \in DOMAIN l.cells THEN l.cells[<<row, leaf, k>>] ELSE 0

\* What a pocket holds, in what was done and in the plan, at the end of a key.
Held(l, p, k) ==
  MapThenSumSet(LAMBDA c : l.cells[c], {c \in DOMAIN l.cells : c[1] = "actual" /\ c[2] = p /\ c[3] <= k})
    - Weight({x \in l.moves : x.kind = "out" /\ x.leaf = p /\ x.period <= k})
Planned(l, p, k) ==
  MapThenSumSet(LAMBDA c : IF c[1] = "budget" THEN l.cells[c] ELSE - l.cells[c],
                {c \in DOMAIN l.cells : c[1] \in {"budget", "plan"} /\ c[2] = p /\ c[3] <= k})

HeldOK(l, cal) == \A p \in Pockets, k \in Keys(cal) : Held(l, p, k) >= 0
PlanOK(l, cal, p) == \A k \in Keys(cal) : Planned(l, p, k) >= 0

\* A bound: buildCalendar makes its tables with TABLE_MARGIN_MONTHS around the months
\* of a ledger, and this one is of the months of Lengths.
InTheMiddle(l) ==
  \A k \in {c[3] : c \in DOMAIN l.cells} \cup {x.period : x \in l.moves} \cup ({l.start, l.closed} \ {None}) :
    k \div 2 \in Middle

\* The ledgers first found are of the schema and of months, what has a day in the month
\* of that day, and none has been relocated yet.
ASSUME LedgersAssumption ==
  \A u \in Users :
    /\ {"entries", "size", "ledgers"} \subseteq DOMAIN u
    /\ u.entries \subseteq (Rows \cup Kinds) \X Leaves /\ u.size \in Nat
    /\ \A l \in u.ledgers :
         /\ l = [cells |-> l.cells, moves |-> l.moves, origins |-> {}, start |-> l.start, closed |-> l.closed]
         /\ l.cells \in [DOMAIN l.cells -> Nat]
         /\ DOMAIN l.cells \subseteq Rows \X Leaves \X Nat /\ IsFiniteSet(DOMAIN l.cells)
         /\ l.moves \subseteq Item /\ IsFiniteSet(l.moves)
         /\ \A x, y \in l.moves : x.id = y.id => x = y
         /\ {c[3] : c \in DOMAIN l.cells} \cup {x.period : x \in l.moves} \cup ({l.start, l.closed} \ {None})
              \subseteq {2 * m : m \in Middle}
         /\ \A x \in l.moves : x.date # None => x.date \in Days /\ x.period = MonthKey(x.date)

\* oldestKey: the first key with something in it.
UsedKeys(l) == {c[3] : c \in {d \in DOMAIN l.cells : l.cells[d] # 0}} \cup {x.period : x \in l.moves}
Oldest(keys) == IF keys = {} THEN None ELSE Min(keys)

-----------------------------------------------------------------------------
(* Where things without a day go *)

\* mapDaylessKey.
MapKey(from, to, k) ==
  CASE ~from.cycles /\ to.cycles -> PeriodOf(to, AnchorDate(k \div 2, to.first))
    [] from.cycles /\ ~to.cycles -> MonthKey(RangeOf(from, k).start)
    [] from.cycles /\ to.cycles  -> IF k \in Keys(to) THEN k ELSE PeriodOf(to, RangeOf(from, k).start)

\* The movements with a date that changed a cell of the leaf (placementContext).
Tracked(l, leaf) == {x \in l.moves : x.leaf = leaf /\ x.date # None /\ Delta(x) # 0}

\* argmaxOldest: where most of the money of some movements is.
Heaviest(at) ==
  LET sum(k) == Weight({x \in DOMAIN at : at[x] = k})
      keys == {at[x] : x \in DOMAIN at}
  IN  CHOOSE k \in keys : \A j \in keys : sum(k) > sum(j) \/ (sum(k) = sum(j) /\ k <= j)

\* Most of what the leaf moves comes after the payday of its month.
Habitual(at) ==
  LET late == {x \in DOMAIN at : at[x] \div 2 > MonthOf(x.date)} IN
  Weight(late) > Weight(DOMAIN at \ late)

PlaceDateless(l, to, leaf, k) ==
  LET at == [x \in Tracked(l, leaf) |-> PeriodOf(to, x.date)]
      here == {x \in DOMAIN at : MonthKey(x.date) = k}
  IN  CASE here # {}                  -> Heaviest([x \in here |-> at[x]])
        [] here = {} /\ Habitual(at)  -> PeriodOf(to, AnchorDate(k \div 2, to.first))
        [] here = {} /\ ~Habitual(at) -> IF k \in Keys(to) THEN k ELSE PeriodOf(to, FirstDay[k \div 2])

ReturnDateless(l, from, leaf, k) ==
  LET here == {x \in Tracked(l, leaf) : x.period = k}
      habitual == Habitual([x \in Tracked(l, leaf) |-> x.period])
  IN  CASE here # {}               -> Heaviest([x \in here |-> MonthKey(x.date)])
        [] here = {} /\ habitual  -> MonthKey(RangeOf(from, k).start)
        [] here = {} /\ ~habitual -> 2 * (k \div 2)

Place(l, from, to, leaf, k) ==
  CASE ~from.cycles /\ to.cycles -> PlaceDateless(l, to, leaf, k)
    [] from.cycles /\ ~to.cycles -> ReturnDateless(l, from, leaf, k)
    [] from.cycles /\ to.cycles  -> MapKey(from, to, k)

-----------------------------------------------------------------------------
(* The relocation *)

Returning(from, to) == from.cycles /\ ~to.cycles

\* Variant: an income stays in the cycle it opened, whatever the new paydays.
PeriodAfterOpening(l, from, to, x) ==
  LET opens == /\ from.cycles /\ x.kind = "income" /\ x.date # None
               /\ ProposeOpening(from, x.date) = x.period
  IN
  CASE opens -> MapKey(from, to, x.period)
    [] ~opens /\ x.date # None -> PeriodOf(to, x.date)
    [] ~opens /\ x.date = None -> Place(l, from, to, x.leaf, x.period)

\* Where a movement or a note goes: by its date, an income that counts in the
\* cycle it opens as long as it may; without a date, where it came from.
PeriodAfter(l, from, to, x) ==
  LET opens == from.cycles /\ x.kind = "income" /\ ProposeOpening(from, x.date) = x.period
      proposed == IF opens THEN ProposeOpening(to, x.date) ELSE None
      memory == {o \in l.origins : o.row = "item" /\ o.ref = x.id}
  IN  IF x.date # None
      THEN IF proposed # None THEN proposed ELSE PeriodOf(to, x.date)
      ELSE IF Returning(from, to) /\ memory # {} THEN (CHOOSE o \in memory : TRUE).origin
      ELSE Place(l, from, to, x.leaf, x.period)

MovesAfter(l, from, to) == {[x EXCEPT !.period = PeriodAfter(l, from, to, x)] : x \in l.moves}

\* Variant: what was typed is taken to be the whole cell.
OwnAll(l, c) == Cell(l, c[1], c[2], c[3])

\* What of a cell no movement explains.
Own(l, c) == Cell(l, c[1], c[2], c[3]) - (IF c[1] = "actual" THEN Deltas(l.moves, c[2], c[3]) ELSE 0)

\* restoreParts: the parts of a cell by month, as they came; what was added since
\* goes to the latest, what was taken is taken from the latest back, none below
\* its floor.  `missing` is what no part could give.
Restored(value, parts, floor) ==
  LET top == Max(DOMAIN parts)
      diff == value - MapThenSumSet(LAMBDA m : parts[m], DOMAIN parts)
      gives(m, need) == IF m \in DOMAIN parts THEN Min({need, Max({0, parts[m] - floor[m]})}) ELSE 0
      need[m \in 0..top + 1] ==
        IF m = top + 1 THEN Max({0, - diff}) ELSE need[m + 1] - gives(m, need[m + 1])
  IN  [parts   |-> [m \in DOMAIN parts |-> parts[m] - gives(m, need[m + 1])
                                             + (IF m = top THEN Max({0, diff}) ELSE 0)],
       missing |-> need[0]]

Memory(l, c) == {o \in l.origins : o.row = c[1] /\ o.ref = c[2] /\ o.period = c[3]}

\* A cell whose movements explain it gives nothing back (BG-046).
Parts(l, c, moves) ==
  LET memory == Memory(l, c)
      months == {o.origin : o \in memory}
      amount(m) == (CHOOSE o \in memory : o.origin = m).amount
      floor(m) == IF c[1] = "actual" THEN - Deltas(moves, c[2], m) ELSE 0
  IN  IF c[1] = "actual" /\ Own(l, c) = 0
      THEN [parts |-> [m \in months |-> 0], missing |-> 0]
      ELSE Restored(Own(l, c), [m \in months |-> amount(m)], [m \in months |-> floor(m)])

HasMemory(l, from, to, c) == Returning(from, to) /\ c \in DOMAIN l.cells /\ Memory(l, c) # {}

\* A cell may have movements that explain it and no amount of its own in the map.
Explained(l) == {<<"actual", x.leaf, x.period>> : x \in {y \in l.moves : Delta(y) # 0}}

\* What goes to each cell: each part, or what was typed, and the movements.
Pieces(l, from, to, moves) ==
  LET piece(row, leaf, k, src, amount, keep) ==
        [cell |-> <<row, leaf, k>>, src |-> src, amount |-> amount, keep |-> keep]
      of(c) == IF HasMemory(l, from, to, c)
               THEN LET parts == Parts(l, c, moves).parts IN
                    {piece(c[1], c[2], m, c, parts[m], TRUE) : m \in DOMAIN parts}
               ELSE {piece(c[1], c[2], Place(l, from, to, c[2], c[3]), c, Own(l, c),
                          c \in DOMAIN l.cells /\ l.cells[c] = 0)}
  IN  (UNION {of(c) : c \in DOMAIN l.cells \cup Explained(l)})
        \cup {piece("actual", x.leaf, x.period, <<"item", x.leaf, x.id>>, Delta(x), FALSE) :
                x \in {y \in moves : Delta(y) # 0}}

\* A cell that comes to nothing stays only if it was there with nothing.
CellsAfter(pieces) ==
  LET at(c) == {p \in pieces : p.cell = c}
      sum(c) == Weight(at(c))
      cells == {c \in {p.cell : p \in pieces} : sum(c) # 0 \/ \E p \in at(c) : p.keep}
  IN  [c \in cells |-> sum(c)]

\* Variant: a change of payday forgets the memory.
OriginsAfterLost(l, from, to) ==
  IF from.cycles THEN {}
  ELSE {[row |-> c[1], ref |-> c[2], period |-> PlaceDateless(l, to, c[2], c[3]), origin |-> c[3],
         amount |-> Own(l, c)] : c \in DOMAIN l.cells}
       \cup {[row |-> "item", ref |-> x.id, period |-> PlaceDateless(l, to, x.leaf, x.period),
              origin |-> x.period, amount |-> 0] : x \in {y \in l.moves : y.date = None}}

\* The memory an activation leaves: where every thing without a day came from.
OriginsAfter(l, from, to) ==
  IF Returning(from, to) THEN {}
  ELSE IF from.cycles THEN {[o EXCEPT !.period = MapKey(from, to, @)] : o \in l.origins}
  ELSE {[row |-> c[1], ref |-> c[2], period |-> PlaceDateless(l, to, c[2], c[3]), origin |-> c[3],
         amount |-> Own(l, c)] : c \in DOMAIN l.cells}
       \cup {[row |-> "item", ref |-> x.id, period |-> PlaceDateless(l, to, x.leaf, x.period),
              origin |-> x.period, amount |-> 0] : x \in {y \in l.moves : y.date = None}}

StartAfter(l, from, to, used) ==
  LET dates == {x.date : x \in {y \in l.moves : y.date # None}}
      firstDated == IF dates = {} THEN {} ELSE {PeriodOf(to, Min(dates))}
      mapped == IF l.start = None THEN None ELSE MapKey(from, to, l.start)
      hasData == \E k \in UsedKeys(l) \cup {MonthKey(d) : d \in dates} : k = l.start
      candidates == used \cup firstDated
      earlier == IF used # {} /\ mapped # None /\ Min(used) < mapped THEN Min(used) ELSE mapped
  IN  CASE ~from.cycles /\ l.start = None -> Oldest(firstDated)
        [] ~from.cycles /\ l.start # None ->
             Min(candidates \cup (IF ~hasData \/ candidates = {} THEN {mapped} ELSE {}))
        [] Returning(from, to) ->
             IF restore = None \/ used = {} \/ Min(used) >= restore THEN restore ELSE earlier
        [] from.cycles /\ to.cycles -> earlier

Relocate(l, from, to) ==
  LET moves == MovesAfter(l, from, to)
      cells == CellsAfter(Pieces(l, from, to, moves))
      next == [l EXCEPT !.cells = cells, !.moves = moves, !.origins = OriginsAfter(l, from, to),
                        !.closed = IF @ = None THEN None ELSE MapKey(from, to, @)]
  IN  [next EXCEPT !.start = StartAfter(l, from, to, UsedKeys(next))]

\* Variant: what pockets hold is not looked at.
BlockedNotPockets(l, next, from, to) == \E c \in DOMAIN next.cells : next.cells[c] < 0

\* What stops it: a part that cannot be given back, a cell or a pocket below zero.
Blocked(l, next, from, to) ==
  \/ \E c \in DOMAIN l.cells :
       HasMemory(l, from, to, c) /\ Parts(l, c, next.moves).missing > 0
  \/ \E c \in DOMAIN next.cells : next.cells[c] < 0
  \/ ~HeldOK(next, to)
  \/ \E p \in Pockets : PlanOK(l, from, p) /\ ~PlanOK(next, to, p)

-----------------------------------------------------------------------------
(* The changes of calendar *)

Apply(vs) ==
  \E to \in {Calendar(vs)} : \E next \in {Relocate(ledger, calendar, to)} :
    /\ ~Blocked(ledger, next, calendar, to)
    /\ InTheMiddle(next)
    /\ versions' = vs
    /\ calendar' = to
    /\ ledger' = next
    /\ UNCHANGED user

Activate(vs) ==
  /\ versions = <<>> /\ Len(vs) = 1
  /\ restore' = ledger.start
  /\ before' = ledger
  /\ touched' = FALSE

\* Variant: the closed cycles are not looked at again with the new table.
ClosedAsItWasAny(cal, k) == TRUE

\* The last closed cycle ends where it ended (BG-078).
ClosedAsItWas(cal, end) == end # None => RangeOf(cal, PeriodOf(cal, end)).end = end

\* A new payday, and the first payment on it: after some payment on the old one
\* and after everything that is closed.
ChangeDay(vs) ==
  LET last == Last(versions)
      new == Last(vs)
      closedEnd == IF ledger.closed = None THEN None ELSE RangeOf(calendar, ledger.closed).end
  IN  /\ versions # <<>> /\ Len(versions) < user.versions /\ Front(vs) = versions
      /\ <<last.day, last.policy>> # <<new.day, new.policy>>
      /\ \E m \in Months : AnchorDate(m, last) >= last.firstPay /\ AnchorDate(m, last) < new.firstPay
      /\ \E m \in {MonthOf(new.firstPay), MonthOf(new.firstPay) - 1} \cap Months :
           new.firstPay = AnchorDate(m, new)
      /\ new.firstPay > closedEnd
      /\ ClosedAsItWas(Calendar(vs), closedEnd)
      /\ UNCHANGED <<restore, before, touched>>

\* Back to months, with nothing closed.
Return(vs) ==
  /\ versions # <<>> /\ vs = <<>> /\ ledger.closed = None
  /\ restore' = None
  /\ before' = None
  /\ touched' = FALSE

-----------------------------------------------------------------------------
(* What is recorded meanwhile *)

Size(l) == Cardinality(l.moves) + MapThenSumSet(LAMBDA c : l.cells[c], DOMAIN l.cells)

Open(k) == k > ledger.closed

Record(next) ==
  /\ Size(next) <= user.size
  /\ HeldOK(next, calendar) /\ \A p \in Pockets : PlanOK(next, calendar, p)
  /\ ledger' = next
  /\ touched' = (versions # <<>>)
  /\ UNCHANGED <<versions, calendar, restore, before, user>>

\* A cell of the plan, a planned withdrawal, or what is set aside in a pocket.
TypeCell(row, leaf, k, v) ==
  LET c == <<row, leaf, k>> IN
  /\ <<row, leaf>> \in user.entries /\ Open(k)
  /\ v # Cell(ledger, row, leaf, k)
  /\ Record([ledger EXCEPT !.cells = [x \in DOMAIN @ \cup {c} |-> IF x = c THEN v ELSE @[x]]])

\* A movement of a day of a key that is open, the adjustment that lowers a cell, or
\* a note of a cell.
AddItem(kind, leaf, d, k) ==
  LET id == Min((1..user.size + 1) \ {x.id : x \in ledger.moves})
      x == [id |-> id, kind |-> kind, leaf |-> leaf, date |-> d, period |-> k,
            amount |-> CASE kind = "note" -> 0 [] kind = "adjustment" -> -1 [] OTHER -> 1]
      c == <<"actual", leaf, k>>
      cells == IF Delta(x) = 0 THEN ledger.cells
               ELSE [y \in DOMAIN ledger.cells \cup {c} |->
                       IF y = c THEN Cell(ledger, "actual", leaf, k) + Delta(x) ELSE ledger.cells[y]]
  IN  /\ <<kind, leaf>> \in user.entries /\ Open(k)
      /\ kind = "adjustment" => Cell(ledger, "actual", leaf, k) > 0
      /\ IF kind = "note" THEN d = None ELSE d # None /\ ValidPeriod(calendar, x)
      /\ Record([ledger EXCEPT !.cells = cells, !.moves = @ \cup {x}])

\* The range starts at the declared start or at the first key with something.
Close ==
  LET next == IF ledger.closed # None THEN {k \in Keys(calendar) : k > ledger.closed}
              ELSE IF ledger.start # None THEN {ledger.start} ELSE UsedKeys(ledger)
  IN  /\ "close" \in user.closing /\ next # {} /\ Min(next) \div 2 \in user.months
      /\ ledger' = [ledger EXCEPT !.closed = Min(next)]
      /\ touched' = (versions # <<>>)
      /\ UNCHANGED <<versions, calendar, restore, before, user>>

Init ==
  \E u \in Users :
    /\ user = [x \in DOMAIN u \ {"ledgers"} |-> u[x]]
    /\ ledger \in u.ledgers
    /\ versions = <<>> /\ calendar = Calendar(<<>>) /\ restore = None /\ before = None /\ touched = FALSE

\* The paydays that may be asked for: none, the first, or one more from a day on.
Asked ==
  {<<>>} \cup
  {Append(versions, [day |-> v[1], policy |-> v[2],
                     firstPay |-> IF versions = <<>> THEN None
                                  ELSE AnchorDate(m, [day |-> v[1], policy |-> v[2]])]) :
     v \in user.paydays, m \in user.months}

Change == \E vs \in Asked : (Activate(vs) \/ ChangeDay(vs) \/ Return(vs)) /\ Apply(vs)

Next ==
  \/ Change
  \/ \E e \in user.entries, k \in {k \in Keys(calendar) : k \div 2 \in user.months} :
       \/ e[1] \in Rows /\ \E v \in 0..1 : TypeCell(e[1], e[2], k, v)
       \/ e[1] \notin Rows
            /\ \E d \in {None} \cup {x \in Days : MonthOf(x) \in user.months} : AddItem(e[1], e[2], d, k)
  \/ Close

Spec == Init /\ [][Next]_vars

-----------------------------------------------------------------------------
(* Properties *)

\* Cycles follow one another without a gap or an overlap, each with a key of its
\* own and in order, whatever changes of payday (RV-03, RV-06, BG-078): the key of
\* a day is the one whose range has it.
CalendarSound ==
  LET e == calendar.entries IN
  /\ \A i \in DOMAIN e : e[i].start <= e[i].end /\ e[i].key \div 2 = MonthOf(e[i].end)
  /\ \A i \in 1..(Len(e) - 1) : e[i + 1].start = e[i].end + 1 /\ e[i].key < e[i + 1].key

\* Every movement is in the cycle of its day, or in the one it opens, and every
\* cell in a key of the calendar: what checkRelocationInvariants looks for before
\* a relocation is committed, and the server on every later save, is never missing.
EverythingPlaced ==
  /\ \A x \in ledger.moves : x.date # None => ValidPeriod(calendar, x)
  /\ \A c \in DOMAIN ledger.cells : c[3] \in Keys(calendar)
  /\ \A x \in ledger.moves : x.period \in Keys(calendar)

\* A change of calendar keeps what every row of every leaf adds up to and every
\* movement and note: the sums that the server compares before committing.
RowTotal(l, row, leaf) ==
  MapThenSumSet(LAMBDA c : l.cells[c], {c \in DOMAIN l.cells : c[1] = row /\ c[2] = leaf})

Conserved ==
  [][versions' # versions =>
       /\ \A row \in Rows, leaf \in Leaves :
            RowTotal(ledger', row, leaf) = RowTotal(ledger, row, leaf)
       /\ {[x EXCEPT !.period = None] : x \in ledger'.moves}
            = {[x EXCEPT !.period = None] : x \in ledger.moves}]_vars

\* One can always go back to months, and if nothing was recorded everything is as it
\* was when cycles were activated (AC-2433), as long as no cell of a pocket had been
\* typed below what was set aside in it.  After a change of payday only a cell that
\* comes to nothing may be missing.
WithoutZeros(l) == [l EXCEPT !.cells = Restrict(@, {c \in DOMAIN @ : @[c] # 0})]

RoundTrip ==
  versions # <<>> /\ ~touched /\ ledger.closed = None =>
    \/ \E months \in {Calendar(<<>>)} : \E back \in {Relocate(ledger, calendar, months)} :
         /\ ~Blocked(ledger, back, calendar, months)
         /\ WithoutZeros(back) = WithoutZeros(before)
         /\ Len(versions) = 1 => back = before
    \/ \E c \in DOMAIN before.cells \cup Explained(before) : Own(before, c) < 0

\* A closed cycle keeps its days and its figures when the payday changes, and
\* what was in a closed month is in a closed cycle when cycles are activated.
ClosedFigures(l) == [c \in {d \in DOMAIN l.cells : d[3] <= l.closed} |-> l.cells[c]]

ClosedKept ==
  [][versions' # versions /\ ledger.closed # None =>
       LET from == calendar
           to == calendar'
       IN  IF versions # <<>>
           THEN /\ ledger'.closed = ledger.closed
                /\ \A k \in Keys(from) : k <= ledger.closed =>
                     k \in Keys(to) /\ RangeOf(to, k) = RangeOf(from, k)
                /\ ClosedFigures(ledger') = ClosedFigures(ledger)
                /\ {x \in ledger'.moves : x.period <= ledger.closed}
                     = {x \in ledger.moves : x.period <= ledger.closed}
           ELSE /\ \A row \in {"budget", "plan"}, leaf \in Leaves :
                     RowTotal([cells |-> ClosedFigures(ledger')], row, leaf)
                       >= RowTotal([cells |-> ClosedFigures(ledger)], row, leaf)
                /\ {x.id : x \in {y \in ledger.moves : y.period <= ledger.closed}}
                     \subseteq {x.id : x \in {y \in ledger'.moves : y.period <= ledger'.closed}}]_vars

TypeOK ==
  /\ versions \in Seq([day : Nat \ {0}, policy : Policies, firstPay : Nat])
  /\ \A c \in DOMAIN ledger.cells : ledger.cells[c] \in Nat
  /\ \A x \in ledger.moves : x.kind \in Kinds /\ x.leaf \in Leaves
  /\ HeldOK(ledger, calendar)
  /\ \A p \in Pockets : PlanOK(ledger, calendar, p)

=============================================================================

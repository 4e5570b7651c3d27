---------------------------- MODULE ReserveProofs ----------------------------
(***************************************************************************)
(* What Reserve promises, proved for every number of pockets, months and   *)
(* amounts.  The months of a chain and the pockets of a sum are recursive  *)
(* definitions in Reserve; the lemmas of FiniteInduction give them the     *)
(* equations the proofs use.                                               *)
(***************************************************************************)
EXTENDS Reserve, FiniteInduction

N == Len(Order)
Upto(i) == {Order[j] : j \in 1 .. i}
PartialSums(t, f) == t = [i \in 0 .. N |-> IF i = 0 THEN 0 ELSE t[i - 1] + f[Order[i]]]

LEMMA OrderType ==
  /\ N \in Nat /\ DOMAIN Order = 1 .. N
  /\ \A i \in 1 .. N : Order[i] \in Pockets
  /\ \A p \in Pockets : \E i \in 1 .. N : Order[i] = p
  /\ Upto(N) = Pockets /\ Upto(0) = {}
<1>1. N \in Nat /\ DOMAIN Order = 1 .. N
  BY ReserveAssumption DEF N
<1>2. Pockets = {Order[i] : i \in 1 .. N}
  BY <1>1 DEF Pockets, Range
<1> QED BY <1>1, <1>2 DEF Upto

LEMMA UptoNext ==
  ASSUME NEW n \in 0 .. N, n + 1 <= N
  PROVE  /\ Order[n + 1] \in Pockets
         /\ Upto(n + 1) = Upto(n) \cup {Order[n + 1]}
         /\ Order[n + 1] \notin Upto(n)
<1>1. N \in Nat /\ DOMAIN Order = 1 .. N /\ n + 1 \in 1 .. N
  BY OrderType
<1>2. Upto(n + 1) = Upto(n) \cup {Order[n + 1]}
  <2>1. 1 .. n + 1 = (1 .. n) \cup {n + 1}
    BY <1>1
  <2> QED BY <2>1 DEF Upto
<1>3. ASSUME NEW j \in 1 .. n PROVE Order[j] # Order[n + 1]
  <2>1. j \in DOMAIN Order /\ n + 1 \in DOMAIN Order /\ j # n + 1
    BY <1>1
  <2> QED BY <2>1, ReserveAssumption
<1>4. Order[n + 1] \notin Upto(n)
  BY <1>3 DEF Upto
<1> QED BY <1>1, <1>2, <1>4, OrderType

LEMMA PocketsFinite == IsFiniteSet(Pockets)
<1>1. N \in Nat /\ Upto(N) = Pockets
  BY OrderType
<1> DEFINE S == {i \in 0 .. N : IsFiniteSet(Upto(i))}
<1>2. 0 \in S
  BY OrderType, FS_EmptySet
<1>3. ASSUME NEW n \in 0 .. N, n \in S, n + 1 <= N PROVE n + 1 \in S
  <2>1. Upto(n + 1) = Upto(n) \cup {Order[n + 1]}
    BY <1>3, UptoNext
  <2>2. IsFiniteSet(Upto(n))
    BY <1>3
  <2>3. IsFiniteSet(Upto(n) \cup {Order[n + 1]})
    BY <2>2, FS_AddElement
  <2> QED BY <1>1, <1>3, <2>1, <2>3
<1>4. \A n \in 0 .. N : n \in S
  <2> HIDE DEF S
  <2>1. 0 \in Int /\ N \in Int
    BY <1>1
  <2> QED BY <1>2, <1>3, <2>1, UpTo
<1> QED BY <1>1, <1>4

\* The sum over the pockets is the sum over the set of them, whatever their order.
LEMMA OverPocketsTotal ==
  ASSUME NEW f, \A p \in Pockets : f[p] \in Int
  PROVE  OverPockets(f) = Total(f, Pockets)
<1>1. N \in Nat /\ N \in Int /\ 0 \in Int /\ 0 <= N
  BY OrderType
<1> DEFINE g == [x \in ((0 + 1) .. N) \X Int |-> x[2] + f[Order[x[1]]]]
<1>2. g \in [((0 + 1) .. N) \X Int -> Int]
  <2>1. ASSUME NEW x \in ((0 + 1) .. N) \X Int PROVE x[2] + f[Order[x[1]]] \in Int
    <3>1. x[2] \in Int /\ x[1] \in 1 .. N
      OBVIOUS
    <3>2. f[Order[x[1]]] \in Int
      BY <3>1, OrderType
    <3> QED BY <3>1, <3>2
  <2> QED BY <2>1
<1>3. \A i \in 1 .. N, n \in Int : g[<<i, n>>] = n + f[Order[i]]
  OBVIOUS
<1> HIDE DEF g
<1>4. PICK h \in [0 .. N -> Int] : Steps(h, 0, N, 0, g)
  BY <1>1, <1>2, RecursionExists
<1>5. h[0] = 0 /\ \A i \in 1 .. N : h[i] = h[i - 1] + f[Order[i]]
  <2>1. h[0] = 0 /\ \A i \in (0 + 1) .. N : h[i] = g[<<i, h[i - 1]>>]
    BY <1>4 DEF Steps
  <2>2. ASSUME NEW i \in 1 .. N PROVE h[i] = h[i - 1] + f[Order[i]]
    <3>1. i \in (0 + 1) .. N /\ h[i - 1] \in Int
      BY <1>1
    <3> QED BY <1>3, <2>1, <3>1
  <2> QED BY <2>1, <2>2
<1>6. PartialSums(h, f)
  BY <1>4, <1>5 DEF PartialSums
<1> DEFINE t == CHOOSE s : PartialSums(s, f)
<1>7. PartialSums(t, f)
  BY <1>6
<1>8. OverPockets(f) = t[N]
  BY DEF OverPockets, PartialSums, N
<1> HIDE DEF t
<1>9. t[0] = 0 /\ \A i \in 1 .. N : t[i] = t[i - 1] + f[Order[i]]
  <2>1. \A i \in 0 .. N : t[i] = IF i = 0 THEN 0 ELSE t[i - 1] + f[Order[i]]
    BY <1>7, Zenon DEF PartialSums
  <2> QED BY <1>1, <2>1
<1> DEFINE S == {i \in 0 .. N : t[i] = Total(f, Upto(i))}
<1>10. 0 \in S
  <2>1. t[0] = Total(f, Upto(0))
    BY <1>9, TotalEmpty, OrderType
  <2> QED BY <1>1, <2>1
<1>11. ASSUME NEW n \in 0 .. N, n \in S, n + 1 <= N PROVE n + 1 \in S
  <2> DEFINE p == Order[n + 1]
  <2>1. n + 1 \in 1 .. N /\ n + 1 \in 0 .. N /\ (n + 1) - 1 = n
    BY <1>1, <1>11
  <2>2. p \in Pockets /\ Upto(n + 1) = Upto(n) \cup {p} /\ p \notin Upto(n)
    BY <1>11, UptoNext
  <2>3. Upto(n + 1) \subseteq Pockets /\ Upto(n) \subseteq Pockets
    BY <2>1, OrderType DEF Upto
  <2>4. t[n + 1] = t[n] + f[p] /\ t[n] = Total(f, Upto(n))
    BY <1>9, <1>11, <2>1
  <2> HIDE DEF p
  <2>5. IsFiniteSet(Upto(n + 1)) /\ IsFiniteSet(Upto(n))
    BY <2>3, PocketsFinite, FS_Subset
  <2>6. p \in Upto(n + 1) /\ Upto(n + 1) \ {p} = Upto(n)
    BY <2>2
  <2>7. Total(f, Upto(n + 1)) = f[p] + Total(f, Upto(n))
    <3>1. \A q \in Upto(n + 1) : f[q] \in Int
      BY <2>3
    <3>2. Total(f, Upto(n + 1)) = f[p] + Total(f, Upto(n + 1) \ {p})
      BY <2>5, <2>6, <3>1, TotalRemove
    <3> QED BY <2>6, <3>2
  <2>8. Total(f, Upto(n)) \in Int /\ f[p] \in Int
    <3>1. \A q \in Upto(n) : f[q] \in Int
      BY <2>3
    <3> QED BY <2>2, <2>5, <3>1, TotalInt
  <2>9. t[n + 1] = Total(f, Upto(n + 1))
    BY <2>4, <2>7, <2>8
  <2> QED BY <2>1, <2>9
<1>12. \A n \in 0 .. N : n \in S
  <2> HIDE DEF S
  <2> QED BY <1>1, <1>10, <1>11, UpTo
<1>13. t[N] = Total(f, Upto(N))
  BY <1>1, <1>12
<1> QED BY <1>8, <1>13, OrderType

Ints(f) == \A p \in Pockets : f[p] \in Int

LEMMA SumInt == ASSUME NEW f, Ints(f) PROVE OverPockets(f) \in Int
BY OverPocketsTotal, PocketsFinite, TotalInt DEF Ints

LEMMA SumZero == ASSUME NEW f, \A p \in Pockets : f[p] = 0 PROVE OverPockets(f) = 0
<1>1. \A p \in Pockets : f[p] \in Int
  OBVIOUS
<1> QED BY <1>1, OverPocketsTotal, PocketsFinite, TotalZero

LEMMA SumSame ==
  ASSUME NEW f, NEW g, Ints(f), \A p \in Pockets : g[p] = f[p]
  PROVE  OverPockets(g) = OverPockets(f)
<1>1. Ints(g)
  BY DEF Ints
<1> QED BY <1>1, OverPocketsTotal, PocketsFinite, TotalSame DEF Ints

LEMMA SumMonotone ==
  ASSUME NEW f, NEW g, Ints(f), Ints(g), \A p \in Pockets : f[p] <= g[p]
  PROVE  OverPockets(f) <= OverPockets(g)
BY OverPocketsTotal, PocketsFinite, TotalMonotone DEF Ints

LEMMA SumNat == ASSUME NEW f, \A p \in Pockets : f[p] \in Nat PROVE OverPockets(f) \in Nat
<1> DEFINE z == [p \in Pockets |-> 0]
<1>1. Ints(f) /\ Ints(z) /\ \A p \in Pockets : z[p] = 0 /\ z[p] <= f[p]
  BY DEF Ints
<1> HIDE DEF z
<1>2. OverPockets(z) = 0 /\ OverPockets(z) <= OverPockets(f) /\ OverPockets(f) \in Int
  BY <1>1, SumZero, SumMonotone, SumInt
<1> QED BY <1>2

LEMMA SumAdd ==
  ASSUME NEW f, NEW g, NEW h, Ints(f), Ints(g), \A p \in Pockets : h[p] = f[p] + g[p]
  PROVE  OverPockets(h) = OverPockets(f) + OverPockets(g)
<1>1. Ints(h)
  BY DEF Ints
<1> QED BY <1>1, OverPocketsTotal, PocketsFinite, TotalAdd DEF Ints

LEMMA SumOne ==
  ASSUME NEW f, NEW g, Ints(f), NEW p \in Pockets, NEW d \in Int,
         g[p] = f[p] + d, \A q \in Pockets \ {p} : g[q] = f[q]
  PROVE  OverPockets(g) = OverPockets(f) + d
<1>1. Ints(g)
  BY DEF Ints
<1> QED BY <1>1, OverPocketsTotal, PocketsFinite, TotalOne DEF Ints

\* What the pockets gave one another is what they got from one another.
LEMMA SumExchange ==
  ASSUME NEW f, \A p, q \in Pockets : f[p][q] \in Int
  PROVE  OverPockets([p \in Pockets |-> OverPockets(f[p])])
           = OverPockets([q \in Pockets |-> OverPockets([p \in Pockets |-> f[p][q]])])
<1> DEFINE row == [p \in Pockets |-> OverPockets(f[p])]
           column == [q \in Pockets |-> OverPockets([p \in Pockets |-> f[p][q]])]
           row2 == [p \in Pockets |-> Total(f[p], Pockets)]
           column2 == [q \in Pockets |-> Total([p \in Pockets |-> f[p][q]], Pockets)]
<1>1. row = row2
  BY OverPocketsTotal
<1>2. column = column2
  <2>1. ASSUME NEW q \in Pockets
        PROVE  OverPockets([p \in Pockets |-> f[p][q]]) = Total([p \in Pockets |-> f[p][q]], Pockets)
    BY OverPocketsTotal
  <2> QED BY <2>1
<1>3. (\A p \in Pockets : row[p] \in Int) /\ \A q \in Pockets : column[q] \in Int
  <2>1. ASSUME NEW p \in Pockets PROVE OverPockets(f[p]) \in Int
    BY SumInt DEF Ints
  <2>2. ASSUME NEW q \in Pockets PROVE OverPockets([p \in Pockets |-> f[p][q]]) \in Int
    BY SumInt DEF Ints
  <2> QED BY <2>1, <2>2
<1>4. Total(row2, Pockets) = Total(column2, Pockets)
  BY PocketsFinite, TotalExchange
<1> HIDE DEF row, column, row2, column2
<1>5. OverPockets(row) = OverPockets(column)
  BY <1>1, <1>2, <1>3, <1>4, OverPocketsTotal
<1> QED BY <1>5 DEF row, column

-----------------------------------------------------------------------------
(* Running totals *)

LEMMA MonthType == MaxMonth \in Nat /\ MaxMonth >= 1 /\ 1 \in Months /\ Months \subseteq Nat
BY ReserveAssumption DEF Months

\* Induction over the months.
LEMMA ByMonth ==
  ASSUME NEW S, 1 \in S, \A m \in Months : m \in S /\ m + 1 \in Months => m + 1 \in S
  PROVE  \A m \in Months : m \in S
<1>1. 1 \in Int /\ MaxMonth \in Int
  BY MonthType
<1>2. ASSUME NEW m \in 1 .. MaxMonth, m \in S, m + 1 <= MaxMonth PROVE m + 1 \in S
  BY <1>2, MonthType DEF Months
<1>3. \A m \in 1 .. MaxMonth : m \in S
  BY <1>1, <1>2, UpTo
<1> QED BY <1>3 DEF Months

Runs(s, c) ==
  /\ s \in [Months -> Int]
  /\ s[1] = c[1]
  /\ \A m \in Months : m # 1 => s[m] = s[m - 1] + c[m]

LEMMA AccumulatedRuns ==
  ASSUME NEW c, \A m \in Months : c[m] \in Int
  PROVE  Runs(Accumulated(c), c)
<1> DEFINE g == [x \in Months \X Int |-> x[2] + c[x[1]]]
           Body(t) == [m \in 0 .. MaxMonth |->
             IF m = 0 THEN <<>>
             ELSE Append(t[m - 1], (IF m = 1 THEN 0 ELSE t[m - 1][m - 1]) + c[m])]
<1>1. g \in [(1 .. MaxMonth) \X Int -> Int]
  BY DEF Months
<1>2. \A m \in Months, n \in Int : g[<<m, n>>] = n + c[m]
  OBVIOUS
<1> HIDE DEF g
<1>3. MaxMonth \in Nat /\ 0 \in Int
  BY MonthType
<1>4. PICK h : Lengthening(h, MaxMonth, Int) /\ Appended(h, MaxMonth, Int, 0, g)
  BY <1>1, <1>3, AppendedExists
<1>5. h = Body(h)
  <2>1. ASSUME NEW m \in 0 .. MaxMonth, m # 0
        PROVE  h[m] = Append(h[m - 1], (IF m = 1 THEN 0 ELSE h[m - 1][m - 1]) + c[m])
    <3>1. m \in 1 .. MaxMonth /\ m \in Months /\ m - 1 \in 0 .. MaxMonth
      BY <1>3, <2>1 DEF Months
    <3>2. h[m] = Append(h[m - 1], g[<<m, IF m = 1 THEN 0 ELSE h[m - 1][m - 1]>>])
      BY <1>4, <3>1 DEF Appended, Lengthening
    <3>3. (IF m = 1 THEN 0 ELSE h[m - 1][m - 1]) \in Int
      BY <1>4, <3>1 DEF Lengthening
    <3> QED BY <1>2, <3>1, <3>2, <3>3
  <2>2. h[0] = <<>>
    BY <1>4 DEF Appended
  <2>3. h = [m \in 0 .. MaxMonth |-> h[m]]
    BY <1>4 DEF Lengthening
  <2> QED BY <2>1, <2>2, <2>3, Zenon
<1> DEFINE t == CHOOSE s : s = Body(s)
<1>6. t = Body(t)
  BY <1>5
<1>7. Accumulated(c) = t[MaxMonth]
  BY DEF Accumulated
<1> HIDE DEF t
<1>8. Appended(t, MaxMonth, Int, 0, g)
  <2>1. \A m \in 0 .. MaxMonth :
          t[m] = IF m = 0 THEN <<>>
                 ELSE Append(t[m - 1], (IF m = 1 THEN 0 ELSE t[m - 1][m - 1]) + c[m])
    BY <1>6, Zenon
  <2>2. t[0] = <<>>
    BY <1>3, <2>1
  <2>3. ASSUME NEW m \in 1 .. MaxMonth, t[m - 1] \in Seq(Int) /\ Len(t[m - 1]) = m - 1
        PROVE  t[m] = Append(t[m - 1], g[<<m, IF m = 1 THEN 0 ELSE t[m - 1][m - 1]>>])
    <3>1. m \in Months /\ m \in 0 .. MaxMonth /\ m # 0
      BY <1>3 DEF Months
    <3>2. (IF m = 1 THEN 0 ELSE t[m - 1][m - 1]) \in Int
      BY <2>3
    <3> QED BY <1>2, <2>1, <3>1, <3>2
  <2> QED BY <2>2, <2>3 DEF Appended
<1>9. Chained(t[MaxMonth], MaxMonth, Int, 0, g)
  BY <1>1, <1>3, <1>8, AppendedGives
<1> DEFINE s == t[MaxMonth]
<1>10. s \in [Months -> Int] /\ \A m \in Months : s[m] = g[<<m, IF m = 1 THEN 0 ELSE s[m - 1]>>]
  BY <1>9 DEF Chained, Months
<1> HIDE DEF s
<1>11. s[1] = c[1]
  <2>1. s[1] = g[<<1, 0>>] /\ g[<<1, 0>>] = 0 + c[1] /\ c[1] \in Int
    BY <1>2, <1>10, MonthType
  <2> QED BY <2>1
<1>12. ASSUME NEW m \in Months, m # 1 PROVE s[m] = s[m - 1] + c[m]
  <2>1. m - 1 \in Months
    BY <1>3, <1>12 DEF Months
  <2> QED BY <1>2, <1>10, <1>12, <2>1
<1>13. Runs(s, c)
  BY <1>10, <1>11, <1>12 DEF Runs
<1> QED BY <1>7, <1>13 DEF s

Planes == {"budget", "actual"}

LEMMA LedgerParts ==
  ASSUME NEW l \in Ledgers
  PROVE  /\ \A pl \in Planes, m \in Months : l.flow[pl][m] \in Int
         /\ \A pl \in Planes, p \in Pockets, m \in Months : l.cells[pl][p][m] \in Nat
         /\ \A p \in Pockets, m \in Months : l.plan[p][m] \in Nat
         /\ \A m \in Months : l.global[m] \in Nat
         /\ \A p, q \in Pockets, m \in Months : l.ops[p][q][m] \in Nat
         /\ \A p \in Pockets, m \in Months : l.ops[p][Available][m] \in Nat
BY DEF Ledgers, Planes, Ends

LEMMA OutsIns ==
  ASSUME NEW l \in Ledgers, NEW p \in Pockets, NEW m \in Months
  PROVE  Outs(l, p, m) \in Nat /\ Ins(l, p, m) \in Nat
<1> DEFINE out == [q \in Pockets |-> l.ops[p][q][m]]
           in == [q \in Pockets |-> l.ops[q][p][m]]
<1>1. (\A q \in Pockets : out[q] \in Nat /\ in[q] \in Nat) /\ l.ops[p][Available][m] \in Nat
  BY LedgerParts
<1>2. Outs(l, p, m) = l.ops[p][Available][m] + OverPockets(out) /\ Ins(l, p, m) = OverPockets(in)
  BY DEF Outs, Ins
<1> HIDE DEF out, in
<1>3. OverPockets(out) \in Nat /\ OverPockets(in) \in Nat
  BY <1>1, SumNat
<1> QED BY <1>1, <1>2, <1>3

Changes(l, pl, p) == [m \in Months |-> Change(l, pl, p, m)]

LEMMA ChangeInt ==
  ASSUME NEW l \in Ledgers, NEW pl \in Planes, NEW p \in Pockets, NEW m \in Months
  PROVE  Change(l, pl, p, m) \in Int
BY OutsIns, LedgerParts DEF Change

LEMMA SeriesRuns ==
  ASSUME NEW l \in Ledgers, NEW pl \in Planes, NEW p \in Pockets
  PROVE  Runs(Series(l, pl, p), Changes(l, pl, p))
<1> DEFINE c == Changes(l, pl, p)
<1>1. \A m \in Months : c[m] \in Int
  BY ChangeInt DEF Changes
<1>2. Series(l, pl, p) = Accumulated(c)
  BY DEF Series, Changes
<1> HIDE DEF c
<1>3. Runs(Accumulated(c), c)
  BY <1>1, AccumulatedRuns
<1> QED BY <1>2, <1>3 DEF c

LEMMA SumsOfLedger ==
  ASSUME NEW l \in Ledgers, NEW pl \in Planes, NEW m \in Months
  PROVE  /\ Contributions(l, pl, m) \in Nat
         /\ Withdrawals(l, pl, m) \in Nat
         /\ Net(l, pl, m) \in Int
<1> DEFINE cells == [p \in Pockets |-> l.cells[pl][p][m]]
           out == [p \in Pockets |-> l.ops[p][Available][m]]
           plan == [p \in Pockets |-> l.plan[p][m]]
<1>1. \A p \in Pockets : cells[p] \in Nat /\ out[p] \in Nat /\ plan[p] \in Nat
  BY LedgerParts
<1>2. Contributions(l, pl, m) = OverPockets(cells)
  BY DEF Contributions
<1>3. Withdrawals(l, pl, m) = IF pl = "actual" THEN OverPockets(out) ELSE OverPockets(plan) + l.global[m]
  BY DEF Withdrawals
<1> HIDE DEF cells, out, plan
<1>4. OverPockets(cells) \in Nat /\ OverPockets(out) \in Nat /\ OverPockets(plan) \in Nat
  BY <1>1, SumNat
<1>5. l.global[m] \in Nat
  BY LedgerParts
<1>6. Contributions(l, pl, m) \in Nat /\ Withdrawals(l, pl, m) \in Nat
  BY <1>2, <1>3, <1>4, <1>5
<1> QED BY <1>6 DEF Net

-----------------------------------------------------------------------------
(* The chain of the ceiling and the balance *)

StartType(s) == s.month \in 0 .. MaxMonth /\ s.amount \in Nat

MonthRecords == [margin : Nat, net : Int, carry : Int, excess : Nat, deficit : Nat]

\* The month that opens with o, whose income minus expense is f and whose reserves use n.
MonthOf(o, f, n) ==
  [margin |-> Max0(o + f), net |-> n, carry |-> (o + f) - n,
   excess |-> Max0(n - Max0(o + f)), deficit |-> Max0(n - (o + f))]

LEMMA MonthOfType ==
  ASSUME NEW o \in Int, NEW f \in Int, NEW n \in Int
  PROVE  MonthOf(o, f, n) \in MonthRecords
BY DEF MonthOf, MonthRecords, Max0

\* The scan from a given start.
ScanAt(s, l, pl) ==
  LET scan[m \in 0..MaxMonth] ==
        IF m = 0 THEN <<>>
        ELSE LET done == scan[m - 1]
                 before == Opens(s, m, IF m = 1 THEN 0 ELSE done[m - 1].carry) + l.flow[pl][m]
                 margin == Max0(before)
                 net == Net(l, pl, m)
             IN  Append(done, [margin |-> margin, net |-> net, carry |-> before - net,
                               excess |-> Max0(net - margin), deficit |-> Max0(net - before)])
  IN  scan[MaxMonth]

LEMMA ScanNow == ASSUME NEW l, NEW pl PROVE Scan(l, pl) = ScanAt(start, l, pl)
BY DEF Scan, ScanAt

Scans(scan, s, flow, net) ==
  /\ scan \in [Months -> MonthRecords]
  /\ \A m \in Months :
       scan[m] = MonthOf(Opens(s, m, IF m = 1 THEN 0 ELSE scan[m - 1].carry), flow[m], net[m])

Nets(l, pl) == [m \in Months |-> Net(l, pl, m)]

LEMMA OpensInt ==
  ASSUME NEW s, StartType(s), NEW m \in Months, NEW c \in Int PROVE Opens(s, m, c) \in Int
BY DEF Opens, StartType

LEMMA ScanScans ==
  ASSUME NEW s, StartType(s), NEW l \in Ledgers, NEW pl \in Planes
  PROVE  Scans(ScanAt(s, l, pl), s, l.flow[pl], Nets(l, pl))
<1> DEFINE V == MonthRecords
           v == MonthOf(0, 0, 0)
           e(m, c) == MonthOf(Opens(s, m, IF m = 1 THEN 0 ELSE c), l.flow[pl][m], Net(l, pl, m))
           g == [x \in Months \X V |-> e(x[1], x[2].carry)]
           Body(t) == [m \in 0 .. MaxMonth |->
             IF m = 0 THEN <<>>
             ELSE Append(t[m - 1], MonthOf(Opens(s, m, IF m = 1 THEN 0 ELSE t[m - 1][m - 1].carry),
                                           l.flow[pl][m], Net(l, pl, m)))]
           Source(t) == [m \in 0 .. MaxMonth |->
        IF m = 0 THEN <<>>
        ELSE LET done == t[m - 1]
                 before == Opens(s, m, IF m = 1 THEN 0 ELSE done[m - 1].carry) + l.flow[pl][m]
                 margin == Max0(before)
                 net == Net(l, pl, m)
             IN  Append(done, [margin |-> margin, net |-> net, carry |-> before - net,
                               excess |-> Max0(net - margin), deficit |-> Max0(net - before)])]
<1>1. \A m \in Months, c \in Int : e(m, c) \in V
  BY OpensInt, LedgerParts, SumsOfLedger, MonthOfType
<1>2. v \in V
  BY MonthOfType
<1>3. \A x \in V : x.carry \in Int
  BY DEF MonthRecords
<1>4. g \in [(1 .. MaxMonth) \X V -> V]
  <2> HIDE DEF e, V
  <2>1. \A x \in Months \X V : e(x[1], x[2].carry) \in V
    BY <1>1, <1>3
  <2> QED BY <2>1 DEF Months
<1>5. \A m \in Months, x \in V : g[<<m, x>>] = e(m, x.carry)
  OBVIOUS
<1>6. \A t, m : m = 1 => e(m, t) = MonthOf(Opens(s, m, 0), l.flow[pl][m], Net(l, pl, m))
  OBVIOUS
<1>7. \A m \in Months : g[<<m, v>>] \in V
  BY <1>2, <1>4 DEF Months
<1> HIDE DEF g, v, V
<1>8. MaxMonth \in Nat /\ 0 \in Int
  BY MonthType
<1>9. ASSUME NEW m \in Months, NEW q, q \in Seq(V), Len(q) = m - 1
      PROVE  g[<<m, IF m = 1 THEN v ELSE q[m - 1]>>]
               = MonthOf(Opens(s, m, IF m = 1 THEN 0 ELSE q[m - 1].carry), l.flow[pl][m], Net(l, pl, m))
  <2>1. CASE m = 1
    BY <1>2, <1>5, <2>1
  <2>2. CASE m # 1
    <3>1. q[m - 1] \in V
      BY <1>9, <2>2, MonthType
    <3> QED BY <1>5, <2>2, <3>1
  <2> QED BY <2>1, <2>2
<1>10. PICK h : Lengthening(h, MaxMonth, V) /\ Appended(h, MaxMonth, V, v, g)
  BY <1>2, <1>4, <1>8, AppendedExists
<1>11. h = Body(h)
  <2>1. ASSUME NEW m \in 0 .. MaxMonth, m # 0
        PROVE  h[m] = Append(h[m - 1], MonthOf(Opens(s, m, IF m = 1 THEN 0 ELSE h[m - 1][m - 1].carry),
                                               l.flow[pl][m], Net(l, pl, m)))
    <3>1. m \in 1 .. MaxMonth /\ m \in Months /\ m - 1 \in 0 .. MaxMonth
      BY <1>8, <2>1 DEF Months
    <3>2. h[m - 1] \in Seq(V) /\ Len(h[m - 1]) = m - 1
      BY <1>10, <3>1 DEF Lengthening
    <3>3. h[m] = Append(h[m - 1], g[<<m, IF m = 1 THEN v ELSE h[m - 1][m - 1]>>])
      BY <1>10, <3>1, <3>2 DEF Appended
    <3> QED BY <1>9, <3>1, <3>2, <3>3
  <2>2. h[0] = <<>>
    BY <1>10 DEF Appended
  <2>3. h = [m \in 0 .. MaxMonth |-> h[m]]
    BY <1>10 DEF Lengthening
  <2> QED BY <2>1, <2>2, <2>3, Zenon
<1> DEFINE t == CHOOSE u : u = Source(u)
<1>19. \A u : Source(u) = Body(u)
  BY DEF MonthOf
<1>12. t = Body(t)
  <2> HIDE DEF Body, Source
  <2>1. h = Source(h)
    BY <1>11, <1>19
  <2>2. t = Source(t)
    BY <2>1
  <2> HIDE DEF t
  <2> QED BY <2>2, <1>19
<1>13. ScanAt(s, l, pl) = t[MaxMonth]
  BY DEF ScanAt
<1> HIDE DEF t
<1>14. Appended(t, MaxMonth, V, v, g)
  <2>1. \A m \in 0 .. MaxMonth :
          t[m] = IF m = 0 THEN <<>>
                 ELSE Append(t[m - 1], MonthOf(Opens(s, m, IF m = 1 THEN 0 ELSE t[m - 1][m - 1].carry),
                                               l.flow[pl][m], Net(l, pl, m)))
    BY <1>12, Zenon
  <2>2. t[0] = <<>>
    BY <1>8, <2>1
  <2>3. ASSUME NEW m \in 1 .. MaxMonth, t[m - 1] \in Seq(V) /\ Len(t[m - 1]) = m - 1
        PROVE  t[m] = Append(t[m - 1], g[<<m, IF m = 1 THEN v ELSE t[m - 1][m - 1]>>])
    <3>1. m \in Months /\ m \in 0 .. MaxMonth /\ m # 0
      BY <1>8 DEF Months
    <3>2. t[m] = Append(t[m - 1], MonthOf(Opens(s, m, IF m = 1 THEN 0 ELSE t[m - 1][m - 1].carry),
                                          l.flow[pl][m], Net(l, pl, m)))
      BY <2>1, <3>1
    <3> DEFINE q == t[m - 1]
    <3>3. q \in Seq(V) /\ Len(q) = m - 1
      BY <2>3
    <3> HIDE DEF q
    <3>4. g[<<m, IF m = 1 THEN v ELSE q[m - 1]>>]
            = MonthOf(Opens(s, m, IF m = 1 THEN 0 ELSE q[m - 1].carry), l.flow[pl][m], Net(l, pl, m))
      BY <1>9, <3>1, <3>3
    <3> QED BY <3>2, <3>4 DEF q
  <2> QED BY <2>2, <2>3 DEF Appended
<1>15. Chained(t[MaxMonth], MaxMonth, V, v, g)
  BY <1>2, <1>4, <1>8, <1>14, AppendedGives
<1> DEFINE scan == t[MaxMonth]
<1>16. scan \in [Months -> V] /\ \A m \in Months : scan[m] = g[<<m, IF m = 1 THEN v ELSE scan[m - 1]>>]
  BY <1>15 DEF Chained, Months
<1> HIDE DEF scan
<1>17. ASSUME NEW m \in Months
       PROVE  scan[m] = MonthOf(Opens(s, m, IF m = 1 THEN 0 ELSE scan[m - 1].carry),
                                l.flow[pl][m], Nets(l, pl)[m])
  <2>1. Nets(l, pl)[m] = Net(l, pl, m)
    BY DEF Nets
  <2>2. CASE m = 1
    <3>1. scan[m] = g[<<m, v>>] /\ g[<<m, v>>] = e(m, v.carry)
      BY <1>2, <1>5, <1>16, <2>2
    <3>2. e(m, v.carry) = MonthOf(Opens(s, m, 0), l.flow[pl][m], Net(l, pl, m))
      BY <2>2
    <3> HIDE DEF e
    <3> QED BY <2>1, <2>2, <3>1, <3>2
  <2>3. CASE m # 1
    <3>1. m - 1 \in Months
      BY <1>8, <2>3 DEF Months
    <3>2. scan[m - 1] \in V
      BY <1>16, <3>1
    <3> DEFINE w == scan[m - 1]
    <3>3. scan[m] = g[<<m, w>>] /\ g[<<m, w>>] = e(m, w.carry)
      BY <1>5, <1>16, <2>3, <3>2
    <3>4. e(m, w.carry) = MonthOf(Opens(s, m, w.carry), l.flow[pl][m], Net(l, pl, m))
      BY <2>3
    <3>5. (IF m = 1 THEN 0 ELSE scan[m - 1].carry) = w.carry
      BY <2>3
    <3> HIDE DEF e, w
    <3>6. scan[m] = MonthOf(Opens(s, m, w.carry), l.flow[pl][m], Nets(l, pl)[m])
      BY <2>1, <3>3, <3>4
    <3> QED BY <3>5, <3>6
  <2> QED BY <2>2, <2>3
<1>18. Scans(scan, s, l.flow[pl], Nets(l, pl))
  BY <1>16, <1>17 DEF Scans, V
<1> QED BY <1>13, <1>18 DEF scan

BalanceRecords == [available : Int, reserved : Int]
Nothing == [available |-> 0, reserved |-> 0]

\* Month m after the balance prev.
BalanceOf(s, m, prev, f, n) ==
  [available |-> (IF s.month = m THEN s.amount ELSE prev.available) + f - n,
   reserved |-> prev.reserved + n]

BalanceAt(s, l, pl) ==
  LET b[m \in 0..MaxMonth] ==
        IF m = 0 THEN <<>>
        ELSE LET done == b[m - 1]
                 prev == IF m = 1 THEN [available |-> 0, reserved |-> 0] ELSE done[m - 1]
                 opens == IF s.month = m THEN s.amount ELSE prev.available
                 net == Net(l, pl, m)
             IN  Append(done, [available |-> opens + l.flow[pl][m] - net,
                               reserved  |-> prev.reserved + net])
  IN  b[MaxMonth]

LEMMA BalanceNow == ASSUME NEW l, NEW pl PROVE Balance(l, pl) = BalanceAt(start, l, pl)
BY DEF Balance, BalanceAt

Balances(b, s, flow, net) ==
  /\ b \in [Months -> BalanceRecords]
  /\ \A m \in Months : b[m] = BalanceOf(s, m, IF m = 1 THEN Nothing ELSE b[m - 1], flow[m], net[m])

LEMMA BalanceBalances ==
  ASSUME NEW s, StartType(s), NEW l \in Ledgers, NEW pl \in Planes
  PROVE  Balances(BalanceAt(s, l, pl), s, l.flow[pl], Nets(l, pl))
<1> DEFINE V == BalanceRecords
           v == Nothing
           g == [x \in Months \X V |-> BalanceOf(s, x[1], x[2], l.flow[pl][x[1]], Net(l, pl, x[1]))]
           Body(t) == [m \in 0 .. MaxMonth |->
             IF m = 0 THEN <<>>
             ELSE Append(t[m - 1], BalanceOf(s, m, IF m = 1 THEN Nothing ELSE t[m - 1][m - 1],
                                             l.flow[pl][m], Net(l, pl, m)))]
           Source(t) == [m \in 0 .. MaxMonth |->
             IF m = 0 THEN <<>>
             ELSE LET done == t[m - 1]
                      prev == IF m = 1 THEN [available |-> 0, reserved |-> 0] ELSE done[m - 1]
                      opens == IF s.month = m THEN s.amount ELSE prev.available
                      net == Net(l, pl, m)
                  IN  Append(done, [available |-> opens + l.flow[pl][m] - net,
                                    reserved  |-> prev.reserved + net])]
<1>1. \A m \in Months, x \in V : BalanceOf(s, m, x, l.flow[pl][m], Net(l, pl, m)) \in V
  <2> SUFFICES ASSUME NEW m \in Months, NEW x \in V
               PROVE  BalanceOf(s, m, x, l.flow[pl][m], Net(l, pl, m)) \in V
    OBVIOUS
  <2>1. l.flow[pl][m] \in Int /\ Net(l, pl, m) \in Int
    BY LedgerParts, SumsOfLedger
  <2>2. x.available \in Int /\ x.reserved \in Int /\ s.amount \in Nat
    BY DEF BalanceRecords, StartType
  <2> QED BY <2>1, <2>2 DEF BalanceOf, BalanceRecords
<1>2. v \in V
  BY DEF Nothing, BalanceRecords
<1>3. \A m \in Months, x \in V :
        g[<<m, x>>] = BalanceOf(s, m, x, l.flow[pl][m], Net(l, pl, m))
  OBVIOUS
<1>4. g \in [(1 .. MaxMonth) \X V -> V]
  <2> HIDE DEF V
  <2> QED BY <1>1 DEF Months
<1> HIDE DEF g, v, V
<1>5. MaxMonth \in Nat /\ 0 \in Int
  BY MonthType
<1>6. ASSUME NEW m \in Months, NEW q, q \in Seq(V), Len(q) = m - 1
      PROVE  g[<<m, IF m = 1 THEN v ELSE q[m - 1]>>]
               = BalanceOf(s, m, IF m = 1 THEN Nothing ELSE q[m - 1], l.flow[pl][m], Net(l, pl, m))
  <2>1. CASE m = 1
    BY <1>2, <1>3, <2>1 DEF v
  <2>2. CASE m # 1
    <3>1. q[m - 1] \in V
      BY <1>6, <2>2, MonthType
    <3> QED BY <1>3, <2>2, <3>1
  <2> QED BY <2>1, <2>2
<1>7. PICK h : Lengthening(h, MaxMonth, V) /\ Appended(h, MaxMonth, V, v, g)
  BY <1>2, <1>4, <1>5, AppendedExists
<1>8. h = Body(h)
  <2>1. ASSUME NEW m \in 0 .. MaxMonth, m # 0
        PROVE  h[m] = Append(h[m - 1], BalanceOf(s, m, IF m = 1 THEN Nothing ELSE h[m - 1][m - 1],
                                                 l.flow[pl][m], Net(l, pl, m)))
    <3>1. m \in 1 .. MaxMonth /\ m \in Months /\ m - 1 \in 0 .. MaxMonth
      BY <1>5, <2>1 DEF Months
    <3>2. h[m - 1] \in Seq(V) /\ Len(h[m - 1]) = m - 1
      BY <1>7, <3>1 DEF Lengthening
    <3>3. h[m] = Append(h[m - 1], g[<<m, IF m = 1 THEN v ELSE h[m - 1][m - 1]>>])
      BY <1>7, <3>1, <3>2 DEF Appended
    <3> QED BY <1>6, <3>1, <3>2, <3>3
  <2>2. h[0] = <<>>
    BY <1>7 DEF Appended
  <2>3. h = [m \in 0 .. MaxMonth |-> h[m]]
    BY <1>7 DEF Lengthening
  <2> QED BY <2>1, <2>2, <2>3, Zenon
<1>9. \A u : Source(u) = Body(u)
  BY DEF BalanceOf, Nothing
<1> DEFINE t == CHOOSE u : u = Source(u)
<1>10. t = Body(t)
  <2> HIDE DEF Body, Source
  <2>1. h = Source(h)
    BY <1>8, <1>9
  <2>2. t = Source(t)
    BY <2>1
  <2> HIDE DEF t
  <2> QED BY <2>2, <1>9
<1>11. BalanceAt(s, l, pl) = t[MaxMonth]
  BY DEF BalanceAt
<1> HIDE DEF t
<1>12. Appended(t, MaxMonth, V, v, g)
  <2>1. \A m \in 0 .. MaxMonth :
          t[m] = IF m = 0 THEN <<>>
                 ELSE Append(t[m - 1], BalanceOf(s, m, IF m = 1 THEN Nothing ELSE t[m - 1][m - 1],
                                                 l.flow[pl][m], Net(l, pl, m)))
    BY <1>10, Zenon
  <2>2. t[0] = <<>>
    BY <1>5, <2>1
  <2>3. ASSUME NEW m \in 1 .. MaxMonth, t[m - 1] \in Seq(V) /\ Len(t[m - 1]) = m - 1
        PROVE  t[m] = Append(t[m - 1], g[<<m, IF m = 1 THEN v ELSE t[m - 1][m - 1]>>])
    <3>1. m \in Months /\ m \in 0 .. MaxMonth /\ m # 0
      BY <1>5 DEF Months
    <3>2. t[m] = Append(t[m - 1], BalanceOf(s, m, IF m = 1 THEN Nothing ELSE t[m - 1][m - 1],
                                            l.flow[pl][m], Net(l, pl, m)))
      BY <2>1, <3>1
    <3> DEFINE q == t[m - 1]
    <3>3. q \in Seq(V) /\ Len(q) = m - 1
      BY <2>3
    <3> HIDE DEF q
    <3>4. g[<<m, IF m = 1 THEN v ELSE q[m - 1]>>]
            = BalanceOf(s, m, IF m = 1 THEN Nothing ELSE q[m - 1], l.flow[pl][m], Net(l, pl, m))
      BY <1>6, <3>1, <3>3
    <3> QED BY <3>2, <3>4 DEF q
  <2> QED BY <2>2, <2>3 DEF Appended
<1>13. Chained(t[MaxMonth], MaxMonth, V, v, g)
  BY <1>2, <1>4, <1>5, <1>12, AppendedGives
<1> DEFINE b == t[MaxMonth]
<1>14. b \in [Months -> V] /\ \A m \in Months : b[m] = g[<<m, IF m = 1 THEN v ELSE b[m - 1]>>]
  BY <1>13 DEF Chained, Months
<1> HIDE DEF b
<1>15. ASSUME NEW m \in Months
       PROVE  b[m] = BalanceOf(s, m, IF m = 1 THEN Nothing ELSE b[m - 1], l.flow[pl][m], Nets(l, pl)[m])
  <2>1. Nets(l, pl)[m] = Net(l, pl, m)
    BY DEF Nets
  <2>2. CASE m = 1
    BY <1>2, <1>3, <1>14, <2>1, <2>2 DEF v
  <2>3. CASE m # 1
    <3>1. m - 1 \in Months
      BY <1>5, <2>3 DEF Months
    <3>2. b[m - 1] \in V
      BY <1>14, <3>1
    <3> QED BY <1>3, <1>14, <2>1, <2>3, <3>2
  <2> QED BY <2>2, <2>3
<1>16. Balances(b, s, l.flow[pl], Nets(l, pl))
  BY <1>14, <1>15 DEF Balances, V
<1> QED BY <1>11, <1>16 DEF b

\* What the pockets change by in a month, together, is what the reserves use in
\* it, and in the plan what is to be taken from no pocket: a move adds nothing.
LEMMA ChangesSum ==
  ASSUME NEW l \in Ledgers, NEW pl \in Planes, NEW m \in Months
  PROVE  OverPockets([p \in Pockets |-> Change(l, pl, p, m)])
           = Net(l, pl, m) + (IF pl = "actual" THEN 0 ELSE l.global[m])
<1> DEFINE change == [p \in Pockets |-> Change(l, pl, p, m)]
           cells == [p \in Pockets |-> l.cells[pl][p][m]]
<1>1. Ints(change) /\ Ints(cells) /\ Contributions(l, pl, m) = OverPockets(cells)
  BY ChangeInt, LedgerParts DEF Ints, Contributions
<1>2. CASE pl = "actual"
  <2> DEFINE gone == [p \in Pockets |-> l.ops[p][Available][m]]
             moves == [p \in Pockets |-> [q \in Pockets |-> l.ops[p][q][m]]]
             moved == [p \in Pockets |-> OverPockets(moves[p])]
             got == [q \in Pockets |-> OverPockets([p \in Pockets |-> moves[p][q]])]
             gain == [p \in Pockets |-> got[p] - moved[p]]
             kept == [p \in Pockets |-> cells[p] + gain[p]]
  <2>1. \A p, q \in Pockets : moves[p][q] \in Int
    BY LedgerParts
  <2>2. OverPockets(moved) = OverPockets(got)
    <3> HIDE DEF moves
    <3> QED BY <2>1, SumExchange
  <2>3. ASSUME NEW p \in Pockets
        PROVE  /\ moved[p] \in Int /\ got[p] \in Int /\ gone[p] \in Int /\ cells[p] \in Int
               /\ Ins(l, p, m) = got[p] /\ Outs(l, p, m) = gone[p] + moved[p]
               /\ change[p] = Change(l, pl, p, m) /\ Change(l, pl, p, m) \in Int
               /\ cells[p] = l.cells[pl][p][m]
    <3>1. [q \in Pockets |-> moves[q][p]] = [q \in Pockets |-> l.ops[q][p][m]]
      OBVIOUS
    <3>2. moves[p] = [q \in Pockets |-> l.ops[p][q][m]]
      OBVIOUS
    <3>3. Ins(l, p, m) = got[p] /\ Outs(l, p, m) = gone[p] + moved[p]
      BY <3>1, <3>2 DEF Ins, Outs
    <3>4. moved[p] \in Int
      <4>1. Ints(moves[p])
        BY <2>1 DEF Ints
      <4>2. moved[p] = OverPockets(moves[p])
        OBVIOUS
      <4> HIDE DEF moved, moves
      <4> QED BY <4>1, <4>2, SumInt
    <3>5. got[p] \in Int
      <4>1. Ints([q \in Pockets |-> moves[q][p]])
        BY <2>1 DEF Ints
      <4>2. got[p] = OverPockets([q \in Pockets |-> moves[q][p]])
        OBVIOUS
      <4> HIDE DEF got, moves
      <4> QED BY <4>1, <4>2, SumInt
    <3> QED BY <3>3, <3>4, <3>5, ChangeInt, LedgerParts
  <2>4. \A p \in Pockets : /\ gain[p] = got[p] - moved[p]
                           /\ kept[p] = cells[p] + gain[p]
    OBVIOUS
  <2>5. \A p \in Pockets : change[p] = cells[p] + (got[p] - (gone[p] + moved[p]))
    BY <1>2, <2>3 DEF Change
  <2> HIDE DEF change, cells, gone, moves, moved, got, gain, kept
  <2>6. \A p \in Pockets : /\ gain[p] \in Int /\ kept[p] \in Int
                           /\ got[p] = gain[p] + moved[p] /\ kept[p] = change[p] + gone[p]
    BY <2>3, <2>4, <2>5
  <2>7. /\ OverPockets(got) = OverPockets(gain) + OverPockets(moved)
        /\ OverPockets(kept) = OverPockets(cells) + OverPockets(gain)
        /\ OverPockets(kept) = OverPockets(change) + OverPockets(gone)
    BY <1>1, <2>3, <2>4, <2>6, SumAdd DEF Ints
  <2>8. /\ OverPockets(gain) \in Int /\ OverPockets(moved) \in Int /\ OverPockets(cells) \in Int
        /\ OverPockets(change) \in Int /\ OverPockets(gone) \in Int
    BY <1>1, <2>3, <2>6, SumInt DEF Ints
  <2>9. Net(l, pl, m) = OverPockets(cells) - OverPockets(gone)
    BY <1>1, <1>2 DEF Net, Withdrawals, gone
  <2>10. OverPockets(change) = Net(l, pl, m)
    <3>1. OverPockets(gain) = 0
      BY <2>2, <2>7, <2>8
    <3>2. OverPockets(kept) = OverPockets(cells)
      BY <2>7, <2>8, <3>1
    <3> QED BY <2>7, <2>8, <2>9, <3>2
  <2> QED BY <1>2, <2>8, <2>10 DEF change
<1>3. CASE pl = "budget"
  <2> DEFINE plan == [p \in Pockets |-> l.plan[p][m]]
  <2>1. \A p \in Pockets : cells[p] \in Int /\ plan[p] \in Int /\ change[p] = cells[p] + (- plan[p])
    BY <1>3, LedgerParts DEF Change
  <2>2. Net(l, pl, m) = OverPockets(cells) - (OverPockets(plan) + l.global[m])
    BY <1>1, <1>3 DEF Net, Withdrawals
  <2>3. l.global[m] \in Int
    BY LedgerParts
  <2> HIDE DEF change, cells, plan
  <2>4. \A p \in Pockets : change[p] \in Int /\ cells[p] = change[p] + plan[p]
    BY <2>1
  <2>5. OverPockets(cells) = OverPockets(change) + OverPockets(plan)
    BY <2>1, <2>4, SumAdd DEF Ints
  <2>6. OverPockets(cells) \in Int /\ OverPockets(change) \in Int /\ OverPockets(plan) \in Int
    BY <2>1, <2>4, SumInt DEF Ints
  <2> QED BY <1>3, <2>2, <2>3, <2>5, <2>6 DEF change
<1> QED BY <1>2, <1>3 DEF Planes

LEMMA RunsEqual ==
  ASSUME NEW s, NEW t, NEW c, NEW d, Runs(s, c), Runs(t, d), \A m \in Months : c[m] = d[m]
  PROVE  s = t
<1> DEFINE S == {m \in Months : s[m] = t[m]}
<1>1. 1 \in S
  BY MonthType DEF Runs
<1>2. ASSUME NEW m \in Months, m \in S, m + 1 \in Months PROVE m + 1 \in S
  <2>1. m + 1 # 1 /\ (m + 1) - 1 = m
    <3>1. m \in Nat /\ m # 0
      BY DEF Months
    <3> QED BY <3>1
  <2> QED BY <1>2, <2>1 DEF Runs
<1>3. \A m \in Months : m \in S
  <2> HIDE DEF S
  <2> QED BY <1>1, <1>2, ByMonth
<1> QED BY <1>3 DEF Runs

\* The pockets together.
LEMMA ReservedRuns ==
  ASSUME NEW l \in Ledgers, NEW pl \in Planes
  PROVE  Runs([m \in Months |-> Reserved(l, pl, m)],
              [m \in Months |-> OverPockets([p \in Pockets |-> Change(l, pl, p, m)])])
<1> DEFINE held(m) == [p \in Pockets |-> Series(l, pl, p)[m]]
           change(m) == [p \in Pockets |-> Change(l, pl, p, m)]
<1>1. ASSUME NEW m \in Months
      PROVE  Ints(held(m)) /\ Ints(change(m)) /\ Reserved(l, pl, m) = OverPockets(held(m))
  BY SeriesRuns, ChangeInt DEF Runs, Ints, Reserved
<1>2. held(1) = change(1)
  <2>1. ASSUME NEW p \in Pockets PROVE Series(l, pl, p)[1] = Change(l, pl, p, 1)
    BY SeriesRuns, MonthType DEF Runs, Changes
  <2> QED BY <2>1
<1>3. ASSUME NEW m \in Months, m # 1
      PROVE  m - 1 \in Months /\ OverPockets(held(m)) = OverPockets(held(m - 1)) + OverPockets(change(m))
  <2>1. m - 1 \in Months
    BY <1>3, MonthType DEF Months
  <2>2. ASSUME NEW p \in Pockets PROVE held(m)[p] = held(m - 1)[p] + change(m)[p]
    BY <1>3, SeriesRuns DEF Runs, Changes
  <2> HIDE DEF held, change
  <2> QED BY <1>1, <2>1, <2>2, SumAdd
<1>4. ASSUME NEW m \in Months PROVE Reserved(l, pl, m) \in Int
  <2> HIDE DEF held, change
  <2> QED BY <1>1, SumInt
<1> DEFINE r == [m \in Months |-> Reserved(l, pl, m)]
           c == [m \in Months |-> OverPockets(change(m))]
<1>5. \A m \in Months : r[m] = OverPockets(held(m)) /\ c[m] = OverPockets(change(m))
  <2> HIDE DEF held
  <2> QED BY <1>1
<1>6. r \in [Months -> Int]
  BY <1>4
<1>7. Runs(r, c)
  <2> HIDE DEF held, change, r, c
  <2> QED BY <1>2, <1>3, <1>5, <1>6, MonthType DEF Runs
<1> QED BY <1>7

LEMMA AvailableIsCarry ==
  ASSUME NEW s, StartType(s), NEW flow \in [Months -> Int], NEW net \in [Months -> Int],
         NEW scan, NEW b,
         Scans(scan, s, flow, net), Balances(b, s, flow, net)
  PROVE  \A m \in Months : b[m].available = scan[m].carry
<1> DEFINE S == {m \in Months : b[m].available = scan[m].carry}
           before(m) == IF m = 1 THEN 0 ELSE b[m - 1].available
           opens(m) == IF s.month = m THEN s.amount ELSE before(m)
<1>1. ASSUME NEW m \in Months
      PROVE  /\ b[m].available = opens(m) + flow[m] - net[m]
             /\ scan[m].carry = (Opens(s, m, IF m = 1 THEN 0 ELSE scan[m - 1].carry) + flow[m]) - net[m]
  <2>1. b[m] = BalanceOf(s, m, IF m = 1 THEN Nothing ELSE b[m - 1], flow[m], net[m])
    BY DEF Balances
  <2>2. scan[m] = MonthOf(Opens(s, m, IF m = 1 THEN 0 ELSE scan[m - 1].carry), flow[m], net[m])
    BY DEF Scans
  <2>3. CASE m = 1
    BY <2>1, <2>2, <2>3 DEF MonthOf, BalanceOf, Nothing
  <2>4. CASE m # 1
    BY <2>1, <2>2, <2>4 DEF MonthOf, BalanceOf
  <2> QED BY <2>3, <2>4
<1>2. ASSUME NEW m \in Months, m = 1 \/ m - 1 \in S PROVE m \in S
  <2>1. opens(m) = Opens(s, m, IF m = 1 THEN 0 ELSE scan[m - 1].carry)
    BY <1>2 DEF Opens
  <2>2. opens(m) \in Int
    <3>1. b[m - 1].available \in Int \/ m = 1
      BY <1>2 DEF Balances, BalanceRecords
    <3> QED BY <3>1 DEF StartType
  <2> HIDE DEF opens
  <2> QED BY <1>1, <2>1, <2>2
<1>3. \A m \in Months : m \in S
  <2> HIDE DEF S
  <2>1. 1 \in S
    BY <1>2, MonthType
  <2>2. ASSUME NEW m \in Months, m \in S, m + 1 \in Months PROVE m + 1 \in S
    <3>1. (m + 1) - 1 = m
      BY MonthType
    <3> QED BY <1>2, <2>2, <3>1
  <2> QED BY <2>1, <2>2, ByMonth
<1> QED BY <1>3

LEMMA MinTwo == \A a, b \in Int : Min({a, b}) = IF a <= b THEN a ELSE b
<1> SUFFICES ASSUME NEW a \in Int, NEW b \in Int PROVE Min({a, b}) = IF a <= b THEN a ELSE b
  OBVIOUS
<1> DEFINE x == IF a <= b THEN a ELSE b
<1>1. x \in {a, b} /\ \A y \in {a, b} : x =< y
  OBVIOUS
<1>2. \A z \in {a, b} : (\A y \in {a, b} : z =< y) => z = x
  OBVIOUS
<1> HIDE DEF x
<1>3. (CHOOSE z \in {a, b} : \A y \in {a, b} : z =< y) = x
  BY <1>1, <1>2
<1>4. Min({a, b}) = x
  BY <1>3 DEF Min
<1> QED BY <1>4 DEF x

\* What came from before completes what the flow gave.
LEMMA UsageExact ==
  ASSUME NEW o \in Int, NEW f \in Int, NEW n \in Int, n > 0, n <= Max0(o + f)
  PROVE  Max0(Min({n, f})) + Min({n - Max0(Min({n, f})), Max0(o)}) = n
<1> DEFINE x == Max0(Min({n, f}))
<1>1. x = IF f < 0 THEN 0 ELSE IF f < n THEN f ELSE n
  BY MinTwo DEF Max0
<1>2. n - x \in Int /\ Max0(o) \in Int
  BY <1>1 DEF Max0
<1> HIDE DEF x
<1>3. Min({n - x, Max0(o)}) = IF n - x <= Max0(o) THEN n - x ELSE Max0(o)
  BY <1>2, MinTwo
<1>4. n - x <= Max0(o)
  BY <1>1 DEF Max0
<1>5. x + (n - x) = n
  BY <1>1
<1> QED BY <1>3, <1>4, <1>5 DEF x

LEMMA NetsType ==
  ASSUME NEW l \in Ledgers, NEW pl \in Planes
  PROVE  Nets(l, pl) \in [Months -> Int] /\ l.flow[pl] \in [Months -> Int]
<1>1. \A m \in Months : Net(l, pl, m) \in Int
  BY SumsOfLedger
<1> QED BY <1>1 DEF Nets, Ledgers, Planes

LEMMA Explained ==
  ASSUME ledger \in Ledgers, StartType(start), planes \subseteq Planes
  PROVE  BalanceExplained
<1> SUFFICES ASSUME NEW pl \in planes, NEW m \in Months
             PROVE  /\ Balance(ledger, pl)[m].available = Scan(ledger, pl)[m].carry
                    /\ (\A k \in Months : ledger.global[k] = 0) =>
                         Balance(ledger, pl)[m].reserved = Reserved(ledger, pl, m)
                    /\ Scan(ledger, pl)[m].net > 0 /\ Scan(ledger, pl)[m].excess = 0 =>
                         CarryUsage(ledger, pl, m).fromFlow + CarryUsage(ledger, pl, m).fromBefore
                           = Scan(ledger, pl)[m].net
  BY DEF BalanceExplained
<1> DEFINE b == Balance(ledger, pl)
           scan == Scan(ledger, pl)
           net == Nets(ledger, pl)
           flow == ledger.flow[pl]
<1>1. pl \in Planes /\ net \in [Months -> Int] /\ flow \in [Months -> Int]
  BY NetsType
<1>2. Scans(scan, start, flow, net) /\ Balances(b, start, flow, net)
  BY <1>1, ScanScans, BalanceBalances, ScanNow, BalanceNow
<1>3. b[m].available = scan[m].carry
  <2> HIDE DEF b, scan, net, flow
  <2> QED BY <1>1, <1>2, AvailableIsCarry
<1>4. ASSUME \A k \in Months : ledger.global[k] = 0
      PROVE  b[m].reserved = Reserved(ledger, pl, m)
  <2> DEFINE r == [k \in Months |-> Reserved(ledger, pl, k)]
             c == [k \in Months |-> OverPockets([p \in Pockets |-> Change(ledger, pl, p, k)])]
             t == [k \in Months |-> b[k].reserved]
  <2>1. Runs(r, c)
    BY <1>1, ReservedRuns
  <2>2. \A k \in Months : c[k] = net[k] /\ net[k] \in Int
    BY <1>1, <1>4, ChangesSum, SumsOfLedger DEF Nets
  <2>3. Runs(t, net)
    <3>1. t \in [Months -> Int]
      BY <1>2 DEF Balances, BalanceRecords
    <3> HIDE DEF b, net, flow
    <3>2. t[1] = net[1]
      <4>1. b[1] = BalanceOf(start, 1, Nothing, flow[1], net[1]) /\ net[1] \in Int
        BY <1>1, <1>2, MonthType DEF Balances
      <4> QED BY <4>1, MonthType DEF BalanceOf, Nothing
    <3>3. ASSUME NEW k \in Months, k # 1 PROVE t[k] = t[k - 1] + net[k]
      <4>1. k - 1 \in Months
        BY <3>3, MonthType DEF Months
      <4>2. b[k] = BalanceOf(start, k, b[k - 1], flow[k], net[k])
        BY <1>2, <3>3 DEF Balances
      <4> QED BY <4>1, <4>2 DEF BalanceOf
    <3> QED BY <3>1, <3>2, <3>3 DEF Runs
  <2>4. r = t
    <3> HIDE DEF r, c, t, net
    <3> QED BY <2>1, <2>2, <2>3, RunsEqual
  <2> QED BY <2>4
<1>5. ASSUME scan[m].net > 0, scan[m].excess = 0
      PROVE  CarryUsage(ledger, pl, m).fromFlow + CarryUsage(ledger, pl, m).fromBefore = scan[m].net
  <2> DEFINE carried == IF m = 1 THEN 0 ELSE scan[m - 1].carry
             o == Opens(start, m, carried)
             f == flow[m]
             n == scan[m].net
  <2>1. scan[m] = MonthOf(o, f, net[m])
    BY <1>2 DEF Scans
  <2>2. carried \in Int
    <3>1. m # 1 => m - 1 \in Months
      BY MonthType DEF Months
    <3> QED BY <1>2, <3>1 DEF Scans, MonthRecords
  <2>3. o \in Int /\ f \in Int /\ net[m] \in Int
    BY <1>1, <2>2, OpensInt
  <2>4. n = net[m] /\ scan[m].excess = Max0(n - Max0(o + f))
    BY <2>1 DEF MonthOf
  <2>5. /\ CarryUsage(ledger, pl, m).fromFlow = Max0(Min({n, f}))
        /\ CarryUsage(ledger, pl, m).fromBefore = Min({n - Max0(Min({n, f})), Max0(o)})
    BY DEF CarryUsage, Before
  <2> HIDE DEF o, f, n, scan, net, flow
  <2>6. n > 0
    BY <1>5 DEF n
  <2>7. n <= Max0(o + f)
    BY <1>5, <2>3, <2>4 DEF Max0
  <2>8. Max0(Min({n, f})) + Min({n - Max0(Min({n, f})), Max0(o)}) = n
    BY <2>3, <2>4, <2>6, <2>7, UsageExact
  <2> QED BY <2>5, <2>8 DEF n
<1> QED BY <1>3, <1>4, <1>5

\* A pocket whose changes are the same holds the same.
LEMMA SeriesSame ==
  ASSUME NEW l, NEW k, NEW pl, NEW p, \A m \in Months : Change(k, pl, p, m) = Change(l, pl, p, m)
  PROVE  Series(k, pl, p) = Series(l, pl, p)
<1>1. [m \in Months |-> Change(k, pl, p, m)] = [m \in Months |-> Change(l, pl, p, m)]
  OBVIOUS
<1> QED BY <1>1 DEF Series

\* The floor of a pocket an operation names.
LEMMA FloorAllowed ==
  ASSUME NEW base, NEW cand \in Ledgers, NEW pl \in Planes, NEW affected, NEW p \in affected,
         p \in Pockets, FloorBroken(cand, pl, affected) = {}
  PROVE  NonNegative(cand, pl, p)
<1> DEFINE s == Series(cand, pl, p)
           T == {m \in Months : s[m] < 0}
<1>1. \A m \in Months : s[m] \in Int
  BY SeriesRuns DEF Runs
<1>2. ASSUME T # {} PROVE FALSE
  <2>1. T \in SUBSET Nat
    BY MonthType
  <2>2. PICK m \in T : \A k \in T : m <= k
    BY <1>2, <2>1, Least
  <2> DEFINE f == [rule |-> "piso", month |-> m, leaf |-> p, limit |-> s[m]]
  <2>3. m \in Months /\ s[m] < 0
    OBVIOUS
  <2>4. \A k \in 1 .. (m - 1) : s[k] >= 0
    <3> SUFFICES ASSUME NEW k \in 1 .. (m - 1), ~(s[k] >= 0) PROVE FALSE
      OBVIOUS
    <3>1. k \in Months /\ k < m
      BY <2>3, MonthType DEF Months
    <3>2. k \in T
      BY <1>1, <3>1
    <3> QED BY <2>1, <2>2, <3>1, <3>2
  <2>5. f \in Floors(cand, pl, affected)
    BY <2>3 DEF Floors
  <2>6. f.limit = s[m] /\ f.month = m /\ f.leaf = p
    OBVIOUS
  <2> HIDE DEF f
  <2>7. f \in FloorBroken(cand, pl, affected)
    BY <2>3, <2>4, <2>5, <2>6 DEF FloorBroken
  <2> QED BY <2>7
<1>3. \A m \in Months : s[m] >= 0
  BY <1>1, <1>2
<1> QED BY <1>3 DEF NonNegative

LEMMA AllowedFloors ==
  ASSUME NEW base, NEW cand \in Ledgers, NEW pl \in Planes, NEW affected,
         Allowed(base, cand, pl, affected)
  PROVE  \A p \in affected : p \in Pockets => NonNegative(cand, pl, p)
<1>1. FloorBroken(cand, pl, affected) = {}
  BY DEF Allowed, ChainCheck
<1> QED BY <1>1, FloorAllowed

-----------------------------------------------------------------------------
(* What each candidate changes *)

LEMMA WithCellChanges ==
  ASSUME NEW l \in Ledgers, NEW pl \in Planes, NEW p \in Pockets, NEW m \in Months, NEW v \in Nat
  PROVE  /\ WithCell(l, pl, p, m, v) \in Ledgers
         /\ WithCell(l, pl, p, m, v).flow = l.flow /\ WithCell(l, pl, p, m, v).global = l.global
         /\ WithCell(l, pl, p, m, v).ops = l.ops /\ WithCell(l, pl, p, m, v).plan = l.plan
         /\ WithCell(l, pl, p, m, v).cells[pl][p][m] = v
         /\ \A pr \in Planes, q \in Pockets, k \in Months : <<pr, q, k>> # <<pl, p, m>> =>
              WithCell(l, pl, p, m, v).cells[pr][q][k] = l.cells[pr][q][k]
<1> DEFINE w == WithCell(l, pl, p, m, v)
           c == [l.cells EXCEPT ![pl][p][m] = v]
<1>1. /\ l = [flow |-> l.flow, cells |-> l.cells, plan |-> l.plan, global |-> l.global, ops |-> l.ops]
      /\ l.cells \in [Planes -> [Pockets -> [Months -> Nat]]]
      /\ l.flow \in [Planes -> [Months -> Int]] /\ l.plan \in [Pockets -> [Months -> Nat]]
      /\ l.global \in [Months -> Nat] /\ l.ops \in [Pockets -> [Ends -> [Months -> Nat]]]
  BY DEF Ledgers, Planes
<1>2. w = [flow |-> l.flow, cells |-> c, plan |-> l.plan, global |-> l.global, ops |-> l.ops]
  <2>1. w = [l EXCEPT !.cells = c]
    BY DEF WithCell, Ledgers, Planes
  <2> HIDE DEF w, c
  <2> QED BY <1>1, <2>1
<1>3. c \in [Planes -> [Pockets -> [Months -> Nat]]]
  BY <1>1
<1>4. c[pl][p][m] = v /\ \A pr \in Planes, q \in Pockets, k \in Months :
        <<pr, q, k>> # <<pl, p, m>> => c[pr][q][k] = l.cells[pr][q][k]
  BY <1>1
<1> HIDE DEF w, c
<1>5. w \in Ledgers
  BY <1>1, <1>2, <1>3 DEF Ledgers, Planes
<1> QED BY <1>2, <1>4, <1>5 DEF w

LEMMA WithPlanChanges ==
  ASSUME NEW l \in Ledgers, NEW p \in Pockets, NEW m \in Months, NEW v \in Nat
  PROVE  /\ WithPlan(l, p, m, v) \in Ledgers
         /\ WithPlan(l, p, m, v).flow = l.flow /\ WithPlan(l, p, m, v).global = l.global
         /\ WithPlan(l, p, m, v).ops = l.ops /\ WithPlan(l, p, m, v).cells = l.cells
         /\ WithPlan(l, p, m, v).plan[p][m] = v
         /\ \A q \in Pockets, k \in Months : <<q, k>> # <<p, m>> =>
              WithPlan(l, p, m, v).plan[q][k] = l.plan[q][k]
<1> DEFINE w == WithPlan(l, p, m, v)
           c == [l.plan EXCEPT ![p][m] = v]
<1>1. /\ l = [flow |-> l.flow, cells |-> l.cells, plan |-> l.plan, global |-> l.global, ops |-> l.ops]
      /\ l.cells \in [Planes -> [Pockets -> [Months -> Nat]]]
      /\ l.flow \in [Planes -> [Months -> Int]] /\ l.plan \in [Pockets -> [Months -> Nat]]
      /\ l.global \in [Months -> Nat] /\ l.ops \in [Pockets -> [Ends -> [Months -> Nat]]]
  BY DEF Ledgers, Planes
<1>2. w = [flow |-> l.flow, cells |-> l.cells, plan |-> c, global |-> l.global, ops |-> l.ops]
  <2>1. w = [l EXCEPT !.plan = c]
    BY DEF WithPlan, Ledgers, Planes
  <2> HIDE DEF w, c
  <2> QED BY <1>1, <2>1
<1>3. c \in [Pockets -> [Months -> Nat]]
  BY <1>1
<1>4. c[p][m] = v /\ \A q \in Pockets, k \in Months :
        <<q, k>> # <<p, m>> => c[q][k] = l.plan[q][k]
  BY <1>1
<1> HIDE DEF w, c
<1>5. w \in Ledgers
  BY <1>1, <1>2, <1>3 DEF Ledgers, Planes
<1> QED BY <1>2, <1>4, <1>5 DEF w

LEMMA WithOpChanges ==
  ASSUME NEW l \in Ledgers, NEW p \in Pockets, NEW e \in Ends, NEW m \in Months, NEW v \in Nat
  PROVE  /\ WithOp(l, p, e, m, v) \in Ledgers
         /\ WithOp(l, p, e, m, v).flow = l.flow /\ WithOp(l, p, e, m, v).global = l.global
         /\ WithOp(l, p, e, m, v).plan = l.plan /\ WithOp(l, p, e, m, v).cells = l.cells
         /\ WithOp(l, p, e, m, v).ops[p][e][m] = v
         /\ \A q \in Pockets, f \in Ends, k \in Months : <<q, f, k>> # <<p, e, m>> =>
              WithOp(l, p, e, m, v).ops[q][f][k] = l.ops[q][f][k]
<1> DEFINE w == WithOp(l, p, e, m, v)
           c == [l.ops EXCEPT ![p][e][m] = v]
<1>1. /\ l = [flow |-> l.flow, cells |-> l.cells, plan |-> l.plan, global |-> l.global, ops |-> l.ops]
      /\ l.cells \in [Planes -> [Pockets -> [Months -> Nat]]]
      /\ l.flow \in [Planes -> [Months -> Int]] /\ l.plan \in [Pockets -> [Months -> Nat]]
      /\ l.global \in [Months -> Nat] /\ l.ops \in [Pockets -> [Ends -> [Months -> Nat]]]
  BY DEF Ledgers, Planes
<1>2. w = [flow |-> l.flow, cells |-> l.cells, plan |-> l.plan, global |-> l.global, ops |-> c]
  <2>1. w = [l EXCEPT !.ops = c]
    BY DEF WithOp, Ledgers, Planes
  <2> HIDE DEF w, c
  <2> QED BY <1>1, <2>1
<1>3. c \in [Pockets -> [Ends -> [Months -> Nat]]]
  BY <1>1
<1>4. c[p][e][m] = v /\ \A q \in Pockets, f \in Ends, k \in Months :
        <<q, f, k>> # <<p, e, m>> => c[q][f][k] = l.ops[q][f][k]
  BY <1>1
<1> HIDE DEF w, c
<1>5. w \in Ledgers
  BY <1>1, <1>2, <1>3 DEF Ledgers, Planes
<1> QED BY <1>2, <1>4, <1>5 DEF w

\* What a pocket changes by depends on its cells, its plan and what the journal
\* moved from it and to it.
LEMMA ChangeSame ==
  ASSUME NEW l \in Ledgers, NEW k \in Ledgers, NEW pl \in Planes, NEW p \in Pockets,
         \A m \in Months : k.cells[pl][p][m] = l.cells[pl][p][m],
         pl = "budget" => \A m \in Months : k.plan[p][m] = l.plan[p][m],
         pl = "actual" => \A m \in Months :
           /\ k.ops[p][Available][m] = l.ops[p][Available][m]
           /\ \A q \in Pockets : k.ops[p][q][m] = l.ops[p][q][m] /\ k.ops[q][p][m] = l.ops[q][p][m]
  PROVE  Series(k, pl, p) = Series(l, pl, p)
<1>1. ASSUME NEW m \in Months PROVE Change(k, pl, p, m) = Change(l, pl, p, m)
  <2>1. CASE pl = "budget"
    BY <2>1 DEF Change
  <2>2. CASE pl = "actual"
    <3>1. [q \in Pockets |-> k.ops[p][q][m]] = [q \in Pockets |-> l.ops[p][q][m]]
      BY <2>2
    <3>2. [q \in Pockets |-> k.ops[q][p][m]] = [q \in Pockets |-> l.ops[q][p][m]]
      BY <2>2
    <3>3. Outs(k, p, m) = Outs(l, p, m)
      BY <2>2, <3>1 DEF Outs
    <3>4. Ins(k, p, m) = Ins(l, p, m)
      BY <3>2 DEF Ins
    <3> QED BY <2>2, <3>3, <3>4 DEF Change
  <2> QED BY <2>1, <2>2 DEF Planes
<1> QED BY <1>1, SeriesSame

\* Nothing typed takes a pocket below zero that was not.
FloorsKept(l, k) ==
  \A pl \in Planes, p \in Pockets : NonNegative(l, pl, p) => NonNegative(k, pl, p)

LEMMA CellFloors ==
  ASSUME NEW base, NEW l \in Ledgers, NEW pl \in Planes, NEW p \in Pockets, NEW m \in Months, NEW v \in Nat,
         Allowed(base, WithCell(l, pl, p, m, v), pl, {p})
  PROVE  FloorsKept(l, WithCell(l, pl, p, m, v))
<1> DEFINE k == WithCell(l, pl, p, m, v)
<1>1. /\ k \in Ledgers /\ k.ops = l.ops /\ k.plan = l.plan
      /\ \A pr \in Planes, q \in Pockets, n \in Months :
           <<pr, q, n>> # <<pl, p, m>> => k.cells[pr][q][n] = l.cells[pr][q][n]
  BY WithCellChanges
<1> HIDE DEF k
<1>2. NonNegative(k, pl, p)
  BY <1>1, AllowedFloors DEF k
<1>3. ASSUME NEW pr \in Planes, NEW q \in Pockets, <<pr, q>> # <<pl, p>>, NonNegative(l, pr, q)
      PROVE  NonNegative(k, pr, q)
  <2>1. \A n \in Months : k.cells[pr][q][n] = l.cells[pr][q][n]
    BY <1>1, <1>3
  <2>2. Series(k, pr, q) = Series(l, pr, q)
    BY <1>1, <2>1, ChangeSame
  <2> QED BY <1>3, <2>2 DEF NonNegative
<1>4. FloorsKept(l, k)
  BY <1>2, <1>3 DEF FloorsKept
<1> QED BY <1>4 DEF k

LEMMA PlanFloors ==
  ASSUME NEW base, NEW l \in Ledgers, NEW p \in Pockets, NEW m \in Months, NEW v \in Nat,
         Allowed(base, WithPlan(l, p, m, v), "budget", {p})
  PROVE  FloorsKept(l, WithPlan(l, p, m, v))
<1> DEFINE k == WithPlan(l, p, m, v)
<1>1. /\ k \in Ledgers /\ k.ops = l.ops /\ k.cells = l.cells
      /\ \A q \in Pockets, n \in Months : <<q, n>> # <<p, m>> => k.plan[q][n] = l.plan[q][n]
  BY WithPlanChanges
<1> HIDE DEF k
<1>2. NonNegative(k, "budget", p)
  BY <1>1, AllowedFloors DEF k, Planes
<1>3. ASSUME NEW pr \in Planes, NEW q \in Pockets, <<pr, q>> # <<"budget", p>>, NonNegative(l, pr, q)
      PROVE  NonNegative(k, pr, q)
  <2>1. pr = "budget" => \A n \in Months : k.plan[q][n] = l.plan[q][n]
    BY <1>1, <1>3
  <2>2. Series(k, pr, q) = Series(l, pr, q)
    BY <1>1, <2>1, ChangeSame
  <2> QED BY <1>3, <2>2 DEF NonNegative
<1>4. FloorsKept(l, k)
  BY <1>2, <1>3 DEF FloorsKept
<1> QED BY <1>4 DEF k

LEMMA OpFloors ==
  ASSUME NEW base, NEW l \in Ledgers, NEW p \in Pockets, NEW e \in Ends, NEW m \in Months, NEW v \in Nat,
         Allowed(base, WithOp(l, p, e, m, v), "actual", {p, e} \ {Available})
  PROVE  FloorsKept(l, WithOp(l, p, e, m, v))
<1> DEFINE k == WithOp(l, p, e, m, v)
<1>1. /\ k \in Ledgers /\ k.plan = l.plan /\ k.cells = l.cells
      /\ \A q \in Pockets, f \in Ends, n \in Months :
           <<q, f, n>> # <<p, e, m>> => k.ops[q][f][n] = l.ops[q][f][n]
  BY WithOpChanges
<1> HIDE DEF k
<1>2. Available \notin Pockets /\ Pockets \subseteq Ends /\ Available \in Ends
  BY ReserveAssumption DEF Ends
<1>3. NonNegative(k, "actual", p) /\ (e \in Pockets => NonNegative(k, "actual", e))
  BY <1>1, <1>2, AllowedFloors DEF k, Planes
<1>4. ASSUME NEW pr \in Planes, NEW q \in Pockets, pr = "budget" \/ q \notin {p, e}, NonNegative(l, pr, q)
      PROVE  NonNegative(k, pr, q)
  <2>1. pr = "actual" => \A n \in Months :
           /\ k.ops[q][Available][n] = l.ops[q][Available][n]
           /\ \A r \in Pockets : k.ops[q][r][n] = l.ops[q][r][n] /\ k.ops[r][q][n] = l.ops[r][q][n]
    BY <1>1, <1>2, <1>4
  <2>2. Series(k, pr, q) = Series(l, pr, q)
    BY <1>1, <2>1, ChangeSame
  <2> QED BY <1>4, <2>2 DEF NonNegative
<1>5. FloorsKept(l, k)
  BY <1>3, <1>4 DEF FloorsKept, Planes
<1> QED BY <1>5 DEF k

-----------------------------------------------------------------------------
(* The conversion *)

LEMMA TakesType ==
  ASSUME NEW holds, \A p \in Pockets : holds[p] \in Int, NEW amount \in Nat
  PROVE  Takes(holds, amount) \in [Pockets -> Nat]
<1> DEFINE each == [q \in Pockets |-> Max0(holds[q])]
           ahead(p) == [q \in Pockets |-> IF AskedBefore(holds, q, p) THEN Max0(holds[q]) ELSE 0]
<1>1. \A q \in Pockets : each[q] \in Nat
  BY DEF Max0
<1>2. \A p \in Pockets, q \in Pockets : ahead(p)[q] \in Nat
  BY DEF Max0
<1>3. OverPockets(each) \in Nat
  <2> HIDE DEF each
  <2> QED BY <1>1, SumNat
<1>4. ASSUME NEW p \in Pockets PROVE Given(holds, p) \in Nat
  <2>1. Given(holds, p) = OverPockets(ahead(p))
    BY DEF Given
  <2> HIDE DEF ahead
  <2> QED BY <1>2, <2>1, SumNat
<1>5. ASSUME NEW p \in Pockets
      PROVE  Min({Max0(holds[p]), Max0(amount - Given(holds, p))})
               + (IF \E q \in Pockets : AskedBefore(holds, q, p) THEN 0 ELSE Max0(amount - OverPockets(each))) \in Nat
  <2>1. Max0(holds[p]) \in Nat /\ Max0(amount - Given(holds, p)) \in Nat /\ Max0(amount - OverPockets(each)) \in Nat
    BY <1>3, <1>4 DEF Max0
  <2>2. Min({Max0(holds[p]), Max0(amount - Given(holds, p))}) \in Nat
    BY <2>1, MinTwo
  <2> HIDE DEF each
  <2> QED BY <2>1, <2>2
<1> QED BY <1>5 DEF Takes

LEMMA HoldsType ==
  ASSUME NEW l \in Ledgers, NEW m \in Months
  PROVE  \A p \in Pockets : Holds(l, m)[p] = Series(l, "budget", p)[m] /\ Holds(l, m)[p] \in Int
BY SeriesRuns DEF Holds, Runs, Planes

\* Sharing out a month changes the plan and the withdrawals of no pocket of that month alone.
LEMMA SharedChanges ==
  ASSUME NEW l \in Ledgers, NEW m \in Months
  PROVE  /\ Shared(l, m) \in Ledgers
         /\ Shared(l, m).flow = l.flow /\ Shared(l, m).cells = l.cells /\ Shared(l, m).ops = l.ops
         /\ l.global[m] = 0 => Shared(l, m) = l
         /\ l.global[m] # 0 => \A p \in Pockets :
              Shared(l, m).plan[p][m] = l.plan[p][m] + Takes(Holds(l, m), l.global[m])[p]
         /\ \A p \in Pockets, k \in Months \ {m} : Shared(l, m).plan[p][k] = l.plan[p][k]
         /\ Shared(l, m).global[m] = 0
         /\ \A k \in Months \ {m} : Shared(l, m).global[k] = l.global[k]
<1> DEFINE takes == Takes(Holds(l, m), l.global[m])
           w == [l EXCEPT !.global[m] = 0,
                          !.plan = [p \in Pockets |-> [l.plan[p] EXCEPT ![m] = @ + takes[p]]]]
           g == [l.global EXCEPT ![m] = 0]
           f == [p \in Pockets |-> [l.plan[p] EXCEPT ![m] = @ + takes[p]]]
<1>1. takes \in [Pockets -> Nat]
  <2>1. l.global[m] \in Nat
    BY LedgerParts
  <2> QED BY <2>1, HoldsType, TakesType
<1>2. Shared(l, m) = IF l.global[m] = 0 THEN l ELSE w
  BY DEF Shared
<1> HIDE DEF takes
<1>3. w = [l EXCEPT !.global = g, !.plan = f]
  BY DEF Ledgers
<1>4. /\ l = [flow |-> l.flow, cells |-> l.cells, plan |-> l.plan, global |-> l.global, ops |-> l.ops]
      /\ l.cells \in [{"budget", "actual"} -> [Pockets -> [Months -> Nat]]]
      /\ l.flow \in [{"budget", "actual"} -> [Months -> Int]] /\ l.plan \in [Pockets -> [Months -> Nat]]
      /\ l.global \in [Months -> Nat] /\ l.ops \in [Pockets -> [Ends -> [Months -> Nat]]]
  BY DEF Ledgers
<1>5. g \in [Months -> Nat] /\ g[m] = 0 /\ \A k \in Months \ {m} : g[k] = l.global[k]
  BY <1>4
<1>6. /\ f \in [Pockets -> [Months -> Nat]]
      /\ \A p \in Pockets : f[p][m] = l.plan[p][m] + takes[p]
      /\ \A p \in Pockets, k \in Months \ {m} : f[p][k] = l.plan[p][k]
  <2>1. ASSUME NEW p \in Pockets
        PROVE  /\ [l.plan[p] EXCEPT ![m] = @ + takes[p]] \in [Months -> Nat]
               /\ [l.plan[p] EXCEPT ![m] = @ + takes[p]][m] = l.plan[p][m] + takes[p]
               /\ \A k \in Months \ {m} : [l.plan[p] EXCEPT ![m] = @ + takes[p]][k] = l.plan[p][k]
    <3>1. l.plan[p] \in [Months -> Nat] /\ takes[p] \in Nat
      BY <1>1, <1>4
    <3> QED BY <3>1
  <2> QED BY <2>1
<1> HIDE DEF w, f, g
<1>7. w = [flow |-> l.flow, cells |-> l.cells, plan |-> f, global |-> g, ops |-> l.ops]
  BY <1>3, <1>4
<1>8. w \in Ledgers
  BY <1>4, <1>5, <1>6, <1>7 DEF Ledgers
<1>9. CASE l.global[m] = 0
  BY <1>2, <1>9
<1>10. CASE l.global[m] # 0
  BY <1>2, <1>5, <1>6, <1>7, <1>8, <1>10 DEF takes
<1> QED BY <1>9, <1>10

\* The ledgers that differ from l in the plan alone.
Replanned(l) == {k \in Ledgers : k.flow = l.flow /\ k.cells = l.cells /\ k.ops = l.ops}

\* c shares out the months of l one after the other.
Sharing(c, l) ==
  /\ c \in [0 .. MaxMonth -> Replanned(l)]
  /\ c[0] = l
  /\ \A m \in Months : c[m] = Shared(c[m - 1], m)

LEMMA ConvertedShares ==
  ASSUME NEW l \in Ledgers
  PROVE  \E c : Sharing(c, l) /\ Converted(l) = (IF Pockets = {} THEN l ELSE c[MaxMonth])
<1> DEFINE V == Replanned(l)
           g == [x \in ((0 + 1) .. MaxMonth) \X V |-> Shared(x[2], x[1])]
           Body(t) == [m \in 0 .. MaxMonth |-> IF m = 0 THEN l ELSE Shared(t[m - 1], m)]
<1>1. l \in V
  BY DEF Replanned
<1>2. (0 + 1) .. MaxMonth = Months
  BY DEF Months
<1>3. ASSUME NEW m \in Months, NEW k \in V PROVE Shared(k, m) \in V
  BY SharedChanges DEF Replanned
<1>4. g \in [((0 + 1) .. MaxMonth) \X V -> V]
  <2> HIDE DEF V
  <2> QED BY <1>2, <1>3
<1>5. \A m \in Months, k \in V : g[<<m, k>>] = Shared(k, m)
  BY <1>2
<1>6. 0 \in Int /\ MaxMonth \in Int /\ 0 <= MaxMonth /\ MaxMonth \in Nat
  BY MonthType
<1> HIDE DEF g, V
<1>7. PICK h \in [0 .. MaxMonth -> V] : Steps(h, 0, MaxMonth, l, g)
  BY <1>1, <1>4, <1>6, RecursionExists
<1>8. h[0] = l /\ \A m \in Months : h[m] = Shared(h[m - 1], m)
  <2>1. h[0] = l /\ \A m \in Months : h[m] = g[<<m, h[m - 1]>>]
    BY <1>2, <1>7 DEF Steps
  <2>2. ASSUME NEW m \in Months PROVE h[m - 1] \in V
    BY <1>6 DEF Months
  <2> QED BY <1>5, <2>1, <2>2
<1>9. h = Body(h)
  <2>1. h = [m \in 0 .. MaxMonth |-> h[m]]
    OBVIOUS
  <2>2. ASSUME NEW m \in 0 .. MaxMonth PROVE h[m] = IF m = 0 THEN l ELSE Shared(h[m - 1], m)
    BY <1>6, <1>8 DEF Months
  <2> QED BY <2>1, <2>2, Zenon
<1> DEFINE c == CHOOSE u : u = Body(u)
<1>10. c = Body(c)
  BY <1>9
<1>11. Converted(l) = IF Pockets = {} THEN l ELSE c[MaxMonth]
  BY DEF Converted
<1> HIDE DEF c
<1>12. \A m \in 0 .. MaxMonth : c[m] = IF m = 0 THEN l ELSE Shared(c[m - 1], m)
  BY <1>10, Zenon
<1>13. c[0] = l /\ \A m \in Months : c[m] = Shared(c[m - 1], m)
  BY <1>6, <1>12 DEF Months
<1>14. c = [m \in 0 .. MaxMonth |-> c[m]]
  BY <1>10, Zenon
<1> DEFINE S == {m \in 0 .. MaxMonth : c[m] \in V}
<1>15. 0 \in S
  BY <1>1, <1>6, <1>13
<1>16. ASSUME NEW m \in 0 .. MaxMonth, m \in S, m + 1 <= MaxMonth PROVE m + 1 \in S
  <2>1. m + 1 \in Months /\ (m + 1) - 1 = m
    BY <1>6, <1>16 DEF Months
  <2> QED BY <1>3, <1>13, <1>16, <2>1
<1>17. \A m \in 0 .. MaxMonth : m \in S
  <2> HIDE DEF S
  <2> QED BY <1>6, <1>15, <1>16, UpTo
<1>18. c \in [0 .. MaxMonth -> V]
  BY <1>14, <1>17
<1>19. Sharing(c, l)
  BY <1>13, <1>18 DEF Sharing, V
<1> QED BY <1>11, <1>19

LEMMA ConvertedReplans ==
  ASSUME NEW l \in Ledgers PROVE Converted(l) \in Replanned(l)
<1>1. PICK c : Sharing(c, l) /\ Converted(l) = (IF Pockets = {} THEN l ELSE c[MaxMonth])
  BY ConvertedShares
<1>2. MaxMonth \in 0 .. MaxMonth
  BY MonthType
<1> QED BY <1>1, <1>2 DEF Sharing, Replanned

LEMMA ConvertedFloors ==
  ASSUME NEW l \in Ledgers
  PROVE  \A p \in Pockets : NonNegative(l, "actual", p) => NonNegative(Converted(l), "actual", p)
<1> DEFINE k == Converted(l)
<1>1. k \in Ledgers /\ k.cells = l.cells /\ k.ops = l.ops
  BY ConvertedReplans DEF Replanned
<1> HIDE DEF k
<1>2. ASSUME NEW p \in Pockets PROVE Series(k, "actual", p) = Series(l, "actual", p)
  <2>1. "actual" \in Planes
    BY DEF Planes
  <2> QED BY <1>1, <2>1, ChangeSame
<1>3. \A p \in Pockets : NonNegative(l, "actual", p) => NonNegative(k, "actual", p)
  BY <1>2 DEF NonNegative
<1> QED BY <1>3 DEF k

-----------------------------------------------------------------------------
(* The steps *)

\* An edit of the reserves of a plane, judged and accepted: l becomes k.
ReserveEdit(l, k, pl) ==
  \E p \in Pockets, m \in Months, v \in Nat :
    \/ k = WithCell(l, pl, p, m, v) /\ Allowed(l, k, pl, {p})
    \/ pl = "budget" /\ k = WithPlan(l, p, m, v) /\ Allowed(l, k, pl, {p})
    \/ pl = "actual" /\ \E e \in Ends : k = WithOp(l, p, e, m, v) /\ Allowed(l, k, pl, {p, e} \ {Available})

FlowEdit ==
  /\ \E pl \in planes, m \in Months, v \in Flows : EditFlow(pl, m, v)

ReservesEdit ==
  /\ \E pl \in planes : ReserveEdit(ledger, ledger', pl)
  /\ Type("reserve")
  /\ UNCHANGED <<saved, start, planes>>

LEMMA PlanesType == ASSUME TypeOK PROVE planes \subseteq Planes
BY ReserveAssumption DEF TypeOK, Planes

LEMMA NextCases ==
  ASSUME TypeOK, Next
  PROVE  \/ FlowEdit \/ ReservesEdit
         \/ \E s \in Starts : SetStart(s)
         \/ Save \/ Rejected \/ Load
<1>1. Amounts \subseteq Nat /\ planes \subseteq Planes
  BY ReserveAssumption, PlanesType DEF Amounts
<1>2. ASSUME NEW pl \in planes, NEW p \in Pockets, NEW m \in Months, NEW v \in Amounts, EditCell(pl, p, m, v)
      PROVE  ReservesEdit
  BY <1>1, <1>2 DEF EditCell, ReservesEdit, ReserveEdit
<1>3. ASSUME "actual" \in planes, NEW p \in Pockets, NEW m \in Months, NEW a \in Amounts, SetAside(p, m, a)
      PROVE  ReservesEdit
  <2>1. ledger.cells["actual"][p][m] + a \in Nat
    BY <1>1, LedgerParts DEF TypeOK, Planes
  <2> QED BY <1>3, <2>1 DEF SetAside, ReservesEdit, ReserveEdit
<1>4. ASSUME "actual" \in planes, NEW p \in Pockets, NEW m \in Months, NEW q \in Ends, NEW a \in Amounts, Operate(p, q, m, a)
      PROVE  ReservesEdit
  BY <1>1, <1>4 DEF Operate, ReservesEdit, ReserveEdit
<1>5. ASSUME "budget" \in planes, NEW p \in Pockets, NEW m \in Months, NEW v \in Nat, ChangePlan(p, m, v)
      PROVE  ReservesEdit
  BY <1>5 DEF ChangePlan, ReservesEdit, ReserveEdit
<1>6. ASSUME "budget" \in planes, NEW p \in Pockets, NEW m \in Months, NEW a \in Amounts, PlanRetiro(p, m, a)
      PROVE  ReservesEdit
  <2>1. ledger.plan[p][m] + a \in Nat
    BY <1>1, LedgerParts DEF TypeOK
  <2> QED BY <1>5, <1>6, <2>1 DEF PlanRetiro
<1>7. ASSUME "budget" \in planes, NEW p \in Pockets, NEW m \in Months, NEW v \in Amounts, EditPlannedRetiro(p, m, v)
      PROVE  ReservesEdit
  BY <1>1, <1>5, <1>7 DEF EditPlannedRetiro
<1> QED BY <1>2, <1>3, <1>4, <1>6, <1>7 DEF Next, FlowEdit

LEMMA EditedLedger ==
  ASSUME NEW l \in Ledgers, NEW k, NEW pl \in Planes, ReserveEdit(l, k, pl)
  PROVE  k \in Ledgers /\ k.flow = l.flow /\ k.global = l.global /\ FloorsKept(l, k)
<1>1. PICK p \in Pockets, m \in Months, v \in Nat :
        \/ k = WithCell(l, pl, p, m, v) /\ Allowed(l, k, pl, {p})
        \/ pl = "budget" /\ k = WithPlan(l, p, m, v) /\ Allowed(l, k, pl, {p})
        \/ pl = "actual" /\ \E e \in Ends : k = WithOp(l, p, e, m, v) /\ Allowed(l, k, pl, {p, e} \ {Available})
  BY DEF ReserveEdit
<1>2. CASE k = WithCell(l, pl, p, m, v) /\ Allowed(l, k, pl, {p})
  BY <1>2, WithCellChanges, CellFloors
<1>3. CASE pl = "budget" /\ k = WithPlan(l, p, m, v) /\ Allowed(l, k, pl, {p})
  BY <1>3, WithPlanChanges, PlanFloors
<1>4. ASSUME pl = "actual", NEW e \in Ends, k = WithOp(l, p, e, m, v), Allowed(l, k, pl, {p, e} \ {Available})
      PROVE  k \in Ledgers /\ k.flow = l.flow /\ k.global = l.global /\ FloorsKept(l, k)
  BY <1>4, WithOpChanges, OpFloors
<1> QED BY <1>1, <1>2, <1>3, <1>4

LEMMA FlowEditLedger ==
  ASSUME TypeOK, FlowEdit
  PROVE  ledger' \in Ledgers /\ FloorsKept(ledger, ledger')
<1>1. PICK pl \in planes : \E m \in Months, v \in Flows : EditFlow(pl, m, v)
  BY DEF FlowEdit
<1>2. PICK m \in Months, v \in Flows : EditFlow(pl, m, v)
  BY <1>1
<1>3. ledger \in Ledgers /\ ledger' = [ledger EXCEPT !.flow[pl][m] = v] /\ v \in Int /\ pl \in Planes
  BY <1>2, ReserveAssumption, PlanesType DEF EditFlow, TypeOK
<1> DEFINE c == [ledger.flow EXCEPT ![pl][m] = v]
<1>4. ledger' = [ledger EXCEPT !.flow = c]
  BY <1>3 DEF Ledgers
<1>5. c \in [Planes -> [Months -> Int]]
  BY <1>3 DEF Ledgers, Planes
<1> HIDE DEF c
<1>6. /\ ledger = [flow |-> ledger.flow, cells |-> ledger.cells, plan |-> ledger.plan,
                   global |-> ledger.global, ops |-> ledger.ops]
      /\ ledger.cells \in [Planes -> [Pockets -> [Months -> Nat]]]
      /\ ledger.plan \in [Pockets -> [Months -> Nat]]
      /\ ledger.global \in [Months -> Nat] /\ ledger.ops \in [Pockets -> [Ends -> [Months -> Nat]]]
  BY <1>3 DEF Ledgers, Planes
<1>7. ledger' = [flow |-> c, cells |-> ledger.cells, plan |-> ledger.plan,
                 global |-> ledger.global, ops |-> ledger.ops]
  BY <1>4, <1>6
<1>8. ledger' \in Ledgers
  BY <1>5, <1>6, <1>7 DEF Ledgers, Planes
<1>9. ASSUME NEW pr \in Planes, NEW q \in Pockets PROVE Series(ledger', pr, q) = Series(ledger, pr, q)
  BY <1>3, <1>7, <1>8, ChangeSame
<1> QED BY <1>8, <1>9 DEF FloorsKept, NonNegative

\* What is typed takes no pocket below zero that was not, in the planes worked on.
LEMMA TypedFloors ==
  ASSUME TypeOK, FlowEdit \/ ReservesEdit
  PROVE  /\ ledger' \in Ledgers /\ FloorsKept(ledger, ledger')
         /\ saved' = saved /\ start' = start /\ planes' = planes
         /\ Len(typed) < MaxTyped
         /\ \E kind \in {"flow", "reserve"} : typed' = Append(typed, kind)
<1>1. CASE FlowEdit
  <2>1. PICK pl \in planes : \E m \in Months, v \in Flows : EditFlow(pl, m, v)
    BY <1>1 DEF FlowEdit
  <2> QED BY <1>1, <2>1, FlowEditLedger DEF EditFlow, Type
<1>2. CASE ReservesEdit
  <2>1. PICK pl \in planes : ReserveEdit(ledger, ledger', pl)
    BY <1>2 DEF ReservesEdit
  <2>2. ledger' \in Ledgers /\ FloorsKept(ledger, ledger')
    BY <2>1, EditedLedger, PlanesType DEF TypeOK
  <2> QED BY <1>2, <2>2 DEF ReservesEdit, Type
<1> QED BY <1>1, <1>2

\* The conversion keeps the types and the floor of what is real.
LEMMA ConvertedTypes ==
  ASSUME NEW l \in Ledgers, \A p \in Pockets : NonNegative(l, "actual", p)
  PROVE  Converted(l) \in Ledgers /\ \A p \in Pockets : NonNegative(Converted(l), "actual", p)
BY ConvertedReplans, ConvertedFloors DEF Replanned

LEMMA TypeInit == ASSUME Init PROVE TypeOK
<1>1. PICK u \in Users : planes = u.planes /\ start \in u.starts /\ saved \in u.ledgers
  BY DEF Init
<1>2. start \in Starts /\ planes \in {x.planes : x \in Users}
  BY <1>1 DEF Starts
<1>3. saved \in Ledgers /\ \A p \in Pockets : NonNegative(saved, "actual", p)
  BY <1>1, LedgersAssumption
<1>4. ledger = saved /\ typed = <<>> /\ MaxTyped \in Nat
  BY ReserveAssumption DEF Init
<1> QED BY <1>2, <1>3, <1>4 DEF TypeOK

LEMMA TypeNext == ASSUME TypeOK, [Next]_vars PROVE TypeOK'
<1>1. ASSUME Next PROVE TypeOK'
  <2>1. CASE FlowEdit \/ ReservesEdit
    <3>1. /\ ledger' \in Ledgers /\ FloorsKept(ledger, ledger')
          /\ saved' = saved /\ start' = start /\ planes' = planes
          /\ Len(typed) < MaxTyped
          /\ \E kind \in {"flow", "reserve"} : typed' = Append(typed, kind)
      BY <2>1, TypedFloors
    <3>2. \A p \in Pockets : NonNegative(ledger', "actual", p)
      BY <3>1 DEF TypeOK, FloorsKept, Planes
    <3>3. typed' \in Seq({"flow", "reserve"}) /\ Len(typed') <= MaxTyped
      BY <3>1, ReserveAssumption DEF TypeOK
    <3> QED BY <3>1, <3>2, <3>3 DEF TypeOK
  <2>2. ASSUME NEW s \in Starts, SetStart(s) PROVE TypeOK'
    <3>1. typed' \in Seq({"flow", "reserve"}) /\ Len(typed') <= MaxTyped
      BY <2>2, ReserveAssumption DEF TypeOK, SetStart, Type
    <3> QED BY <2>2, <3>1 DEF TypeOK, SetStart
  <2>3. CASE Save
    <3>1. saved' = Converted(ledger) /\ typed' = <<>> /\ UNCHANGED <<ledger, start, planes>>
      BY <2>3 DEF Save
    <3>2. saved' \in Ledgers /\ \A p \in Pockets : NonNegative(saved', "actual", p)
      BY <3>1, ConvertedTypes DEF TypeOK
    <3> QED BY <3>1, <3>2, ReserveAssumption DEF TypeOK
  <2>4. CASE Rejected
    BY <2>4, ReserveAssumption DEF Rejected, TypeOK
  <2>5. CASE Load
    <3>1. /\ saved' = Converted(saved) \/ saved' = saved
          /\ ledger' = saved' /\ UNCHANGED <<start, typed, planes>>
      BY <2>5 DEF Load
    <3>2. saved' \in Ledgers /\ \A p \in Pockets : NonNegative(saved', "actual", p)
      BY <3>1, ConvertedTypes DEF TypeOK
    <3> QED BY <3>1, <3>2 DEF TypeOK
  <2> QED BY <1>1, <2>1, <2>2, <2>3, <2>4, <2>5, NextCases
<1>2. ASSUME UNCHANGED vars PROVE TypeOK'
  BY <1>2 DEF TypeOK, vars
<1> QED BY <1>1, <1>2

\* Every record has its type, and in what is real no pocket holds less than
\* nothing in any month, whatever was typed, saved, refused, converted and loaded.
THEOREM TypeAlwaysOK == Spec => []TypeOK
<1>1. Init => TypeOK
  BY TypeInit
<1>2. TypeOK /\ [Next]_vars => TypeOK'
  BY TypeNext
<1> QED BY <1>1, <1>2, PTL DEF Spec

\* A pocket of the plan that is not below zero is not taken there by anything
\* typed, on any plane (chainCheck and the pockets each operation names).
THEOREM FloorAlwaysKept == Spec => FloorKept
<1> DEFINE Kept ==
      Len(typed') > Len(typed) =>
        \A pl \in planes, p \in Pockets : NonNegative(ledger, pl, p) => NonNegative(ledger', pl, p)
<1>1. ASSUME TypeOK, Next PROVE Kept
  <2>1. CASE FlowEdit \/ ReservesEdit
    BY <1>1, <2>1, TypedFloors, PlanesType DEF FloorsKept
  <2>2. ASSUME NEW s \in Starts, SetStart(s) PROVE Kept
    BY <2>2 DEF SetStart
  <2>3. CASE Save \/ Rejected \/ Load
    <3>1. typed' = <<>> \/ typed' = typed
      BY <2>3 DEF Save, Rejected, Load
    <3>2. Len(typed) \in Nat
      BY <1>1 DEF TypeOK
    <3>3. ~(Len(typed') > Len(typed))
      BY <3>1, <3>2
    <3> QED BY <3>3
  <2> QED BY <1>1, <2>1, <2>2, <2>3, NextCases
<1>2. TypeOK /\ [Next]_vars => [Kept]_vars
  BY <1>1
<1>3. Spec => [][Kept]_vars
  BY <1>2, TypeAlwaysOK, PTL DEF Spec
<1> QED BY <1>3 DEF FloorKept

\* The balance on the screen and the chain the ceiling is judged by agree in every
\* month, the reserved balance is what the pockets hold, and a month within its
\* ceiling is explained to the last peso (computeBalanceSeries, techoScan, monthCarryUsage).
THEOREM BalanceAlwaysExplained == Spec => []BalanceExplained
<1>1. ASSUME TypeOK PROVE BalanceExplained
  <2>1. StartType(start)
    BY <1>1, ReserveAssumption DEF TypeOK, StartType
  <2> QED BY <1>1, <2>1, PlanesType, Explained DEF TypeOK
<1>2. TypeOK => BalanceExplained
  BY <1>1
<1> QED BY <1>2, TypeAlwaysOK, PTL

-----------------------------------------------------------------------------
(* The server agrees with the client *)

\* A chain is determined by its start, its income and what its reserves use.
LEMMA ScansUnique ==
  ASSUME NEW s, NEW flow, NEW net, NEW a, NEW b, Scans(a, s, flow, net), Scans(b, s, flow, net)
  PROVE  a = b
<1> DEFINE S == {m \in Months : a[m] = b[m]}
<1>1. 1 \in S
  <2>1. a[1] = b[1]
    BY MonthType DEF Scans
  <2> QED BY <2>1, MonthType
<1>2. ASSUME NEW m \in Months, m \in S, m + 1 \in Months PROVE m + 1 \in S
  <2>1. (m + 1) - 1 = m /\ m + 1 # 1
    <3>1. m \in Nat /\ m # 0
      BY DEF Months
    <3> QED BY <3>1
  <2>2. a[m + 1] = MonthOf(Opens(s, m + 1, a[m].carry), flow[m + 1], net[m + 1])
    BY <1>2, <2>1 DEF Scans
  <2>3. b[m + 1] = MonthOf(Opens(s, m + 1, b[m].carry), flow[m + 1], net[m + 1])
    BY <1>2, <2>1 DEF Scans
  <2> QED BY <1>2, <2>2, <2>3
<1>3. \A m \in Months : m \in S
  <2> HIDE DEF S
  <2> QED BY <1>1, <1>2, ByMonth
<1> QED BY <1>3 DEF Scans

LEMMA ScanSame ==
  ASSUME NEW s, StartType(s), NEW l \in Ledgers, NEW k \in Ledgers, NEW pl \in Planes,
         k.flow[pl] = l.flow[pl], \A m \in Months : Net(k, pl, m) = Net(l, pl, m)
  PROVE  ScanAt(s, k, pl) = ScanAt(s, l, pl)
<1>1. Nets(k, pl) = Nets(l, pl)
  BY DEF Nets
<1>2. Scans(ScanAt(s, k, pl), s, l.flow[pl], Nets(l, pl))
  BY <1>1, ScanScans
<1>3. Scans(ScanAt(s, l, pl), s, l.flow[pl], Nets(l, pl))
  BY ScanScans
<1> QED BY <1>2, <1>3, ScansUnique

LEMMA NetSame ==
  ASSUME NEW l \in Ledgers, NEW k \in Ledgers, NEW pl \in Planes, NEW m \in Months,
         \A p \in Pockets : k.cells[pl][p][m] = l.cells[pl][p][m],
         pl = "budget" => k.global[m] = l.global[m] /\ \A p \in Pockets : k.plan[p][m] = l.plan[p][m],
         pl = "actual" => \A p \in Pockets : k.ops[p][Available][m] = l.ops[p][Available][m]
  PROVE  Net(k, pl, m) = Net(l, pl, m)
<1>1. [p \in Pockets |-> k.cells[pl][p][m]] = [p \in Pockets |-> l.cells[pl][p][m]]
  OBVIOUS
<1>2. CASE pl = "budget"
  <2>1. [p \in Pockets |-> k.plan[p][m]] = [p \in Pockets |-> l.plan[p][m]]
    BY <1>2
  <2> QED BY <1>1, <1>2, <2>1 DEF Net, Contributions, Withdrawals
<1>3. CASE pl = "actual"
  <2>1. [p \in Pockets |-> k.ops[p][Available][m]] = [p \in Pockets |-> l.ops[p][Available][m]]
    BY <1>3
  <2> QED BY <1>1, <1>3, <2>1 DEF Net, Contributions, Withdrawals
<1> QED BY <1>2, <1>3 DEF Planes

\* An edit of a plane leaves the chain of the other as it was.
LEMMA OtherPlane ==
  ASSUME NEW s, StartType(s), NEW l \in Ledgers, NEW k, NEW pl \in Planes, NEW pr \in Planes, pr # pl,
         ReserveEdit(l, k, pl)
  PROVE  ScanAt(s, k, pr) = ScanAt(s, l, pr)
<1>1. k \in Ledgers /\ k.flow = l.flow /\ k.global = l.global
  BY EditedLedger
<1>2. ASSUME NEW m \in Months PROVE Net(k, pr, m) = Net(l, pr, m)
  <2>1. PICK p \in Pockets, n \in Months, v \in Nat :
          \/ k = WithCell(l, pl, p, n, v)
          \/ pl = "budget" /\ k = WithPlan(l, p, n, v)
          \/ pl = "actual" /\ \E e \in Ends : k = WithOp(l, p, e, n, v)
    BY DEF ReserveEdit
  <2>2. /\ \A q \in Pockets : k.cells[pr][q][m] = l.cells[pr][q][m]
        /\ pr = "budget" => \A q \in Pockets : k.plan[q][m] = l.plan[q][m]
        /\ pr = "actual" => \A q \in Pockets : k.ops[q][Available][m] = l.ops[q][Available][m]
    <3>1. CASE k = WithCell(l, pl, p, n, v)
      BY <3>1, WithCellChanges
    <3>2. CASE pl = "budget" /\ k = WithPlan(l, p, n, v)
      BY <3>2, WithPlanChanges
    <3>3. ASSUME pl = "actual", NEW e \in Ends, k = WithOp(l, p, e, n, v)
          PROVE  /\ \A q \in Pockets : k.cells[pr][q][m] = l.cells[pr][q][m]
                 /\ pr # "actual" /\ \A q \in Pockets : k.plan[q][m] = l.plan[q][m]
      BY <3>3, WithOpChanges
    <3> QED BY <2>1, <3>1, <3>2, <3>3
  <2> QED BY <1>1, <2>2, NetSame
<1> QED BY <1>1, <1>2, ScanSame

\* In no month does cand go further over its ceiling or into its deficit than base.
NoWorse(s, base, cand, pl) ==
  \A m \in Months :
    /\ ScanAt(s, cand, pl)[m].excess <= ScanAt(s, base, pl)[m].excess
    /\ ScanAt(s, cand, pl)[m].deficit <= ScanAt(s, base, pl)[m].deficit

LEMMA ScanType ==
  ASSUME NEW s, StartType(s), NEW l \in Ledgers, NEW pl \in Planes, NEW m \in Months
  PROVE  ScanAt(s, l, pl)[m] \in MonthRecords
BY ScanScans DEF Scans

\* That is what the rule asks for beside the floors.
LEMMA WorsenedNone ==
  ASSUME StartType(start), NEW base \in Ledgers, NEW cand \in Ledgers, NEW pl \in Planes
  PROVE  Worsened(base, cand, pl) = {} <=> NoWorse(start, base, cand, pl)
<1> DEFINE b == Scan(base, pl)
           c == Scan(cand, pl)
           over == {k \in Months : c[k].excess > b[k].excess}
           short == {k \in Months : c[k].deficit > b[k].deficit}
<1>1. b = ScanAt(start, base, pl) /\ c = ScanAt(start, cand, pl)
  BY ScanNow
<1>2. Worsened(base, cand, pl) = {} <=> over = {} /\ short = {}
  BY DEF Worsened
<1>3. \A m \in Months : /\ b[m].excess \in Nat /\ c[m].excess \in Nat
                        /\ b[m].deficit \in Nat /\ c[m].deficit \in Nat
  <2> HIDE DEF b, c
  <2> QED BY <1>1, ScanType DEF MonthRecords
<1>4. over = {} /\ short = {} <=>
        \A m \in Months : c[m].excess <= b[m].excess /\ c[m].deficit <= b[m].deficit
  <2> HIDE DEF b, c
  <2> QED BY <1>3
<1> HIDE DEF b, c
<1>5. NoWorse(start, base, cand, pl) <=>
        \A m \in Months : c[m].excess <= b[m].excess /\ c[m].deficit <= b[m].deficit
  BY <1>1 DEF NoWorse
<1> QED BY <1>2, <1>4, <1>5

LEMMA NoWorseSame ==
  ASSUME NEW s, StartType(s), NEW l \in Ledgers, NEW k \in Ledgers, NEW pl \in Planes,
         ScanAt(s, k, pl) = ScanAt(s, l, pl)
  PROVE  NoWorse(s, l, k, pl)
<1>1. ASSUME NEW m \in Months
      PROVE  /\ ScanAt(s, k, pl)[m] = ScanAt(s, l, pl)[m]
             /\ ScanAt(s, l, pl)[m].excess \in Nat /\ ScanAt(s, l, pl)[m].deficit \in Nat
  BY ScanType DEF MonthRecords
<1> QED BY <1>1 DEF NoWorse

LEMMA NoWorseTwice ==
  ASSUME NEW s, StartType(s), NEW a \in Ledgers, NEW b \in Ledgers, NEW c \in Ledgers, NEW pl \in Planes,
         NoWorse(s, a, b, pl), NoWorse(s, b, c, pl)
  PROVE  NoWorse(s, a, c, pl)
<1>1. ASSUME NEW m \in Months
      PROVE  /\ ScanAt(s, a, pl)[m].excess \in Nat /\ ScanAt(s, a, pl)[m].deficit \in Nat
             /\ ScanAt(s, b, pl)[m].excess \in Nat /\ ScanAt(s, b, pl)[m].deficit \in Nat
             /\ ScanAt(s, c, pl)[m].excess \in Nat /\ ScanAt(s, c, pl)[m].deficit \in Nat
  BY ScanType DEF MonthRecords
<1> QED BY <1>1 DEF NoWorse

\* With no withdrawal of no pocket there is nothing to convert.
LEMMA NothingToConvert ==
  ASSUME NEW l \in Ledgers, \A m \in Months : l.global[m] = 0
  PROVE  Converted(l) = l
<1>1. PICK c : Sharing(c, l) /\ Converted(l) = (IF Pockets = {} THEN l ELSE c[MaxMonth])
  BY ConvertedShares
<1> DEFINE S == {m \in 0 .. MaxMonth : c[m] = l}
<1>2. 0 \in Int /\ MaxMonth \in Int /\ MaxMonth \in 0 .. MaxMonth /\ 0 \in 0 .. MaxMonth
  BY MonthType
<1>3. 0 \in S
  BY <1>1, <1>2 DEF Sharing
<1>4. ASSUME NEW m \in 0 .. MaxMonth, m \in S, m + 1 <= MaxMonth PROVE m + 1 \in S
  <2>1. m + 1 \in Months /\ (m + 1) - 1 = m /\ m + 1 \in 0 .. MaxMonth
    BY <1>2, <1>4 DEF Months
  <2>2. c[m + 1] = Shared(l, m + 1)
    BY <1>1, <1>4, <2>1 DEF Sharing
  <2> QED BY <2>1, <2>2, SharedChanges
<1>5. \A m \in 0 .. MaxMonth : m \in S
  <2> HIDE DEF S
  <2> QED BY <1>2, <1>3, <1>4, UpTo
<1> QED BY <1>1, <1>2, <1>5

\* As long as only reserves were typed, the ledger is nowhere worse than the one
\* that is stored, and no pocket of its plan is below zero.
NoWorseTyped ==
  Range(typed) \subseteq {"reserve"} /\ Settled(saved) /\ ledger.global = saved.global =>
    /\ \A pl \in Planes : NoWorse(start, saved, ledger, pl)
    /\ \A p \in Pockets : NonNegative(ledger, "budget", p)

LEMMA StoredNoWorse ==
  ASSUME TypeOK
  PROVE  /\ \A pl \in Planes : NoWorse(start, saved, saved, pl)
         /\ StartType(start) /\ ledger \in Ledgers /\ saved \in Ledgers
<1>1. StartType(start) /\ ledger \in Ledgers /\ saved \in Ledgers
  BY ReserveAssumption DEF TypeOK, StartType
<1> QED BY <1>1, NoWorseSame

LEMMA EditNoWorse ==
  ASSUME TypeOK, NoWorseTyped, ReservesEdit
  PROVE  NoWorseTyped'
<1> SUFFICES ASSUME Range(typed') \subseteq {"reserve"}, Settled(saved), ledger'.global = saved.global
             PROVE  /\ \A pl \in Planes : NoWorse(start, saved, ledger', pl)
                    /\ \A p \in Pockets : NonNegative(ledger', "budget", p)
  BY DEF ReservesEdit, NoWorseTyped, Settled
<1>1. PICK pl \in planes : ReserveEdit(ledger, ledger', pl)
  BY DEF ReservesEdit
<1>2. pl \in Planes /\ StartType(start) /\ ledger \in Ledgers /\ saved \in Ledgers
  BY PlanesType, StoredNoWorse
<1>3. ledger' \in Ledgers /\ ledger'.global = ledger.global /\ FloorsKept(ledger, ledger')
  BY <1>1, <1>2, EditedLedger
<1>4. Range(typed) \subseteq {"reserve"}
  <2>1. typed \in Seq({"flow", "reserve"}) /\ typed' = Append(typed, "reserve")
    BY DEF ReservesEdit, Type, TypeOK
  <2>2. \A i \in DOMAIN typed : i \in DOMAIN typed' /\ typed'[i] = typed[i]
    BY <2>1
  <2> QED BY <2>2 DEF Range
<1>5. /\ \A pr \in Planes : NoWorse(start, saved, ledger, pr)
      /\ \A p \in Pockets : NonNegative(ledger, "budget", p)
  BY <1>3, <1>4 DEF NoWorseTyped
<1>6. NoWorse(start, ledger, ledger', pl)
  <2>1. Worsened(ledger, ledger', pl) = {}
    BY <1>1 DEF ReserveEdit, Allowed, ChainCheck
  <2> QED BY <1>2, <1>3, <2>1, WorsenedNone
<1>7. ASSUME NEW pr \in Planes, pr # pl PROVE NoWorse(start, ledger, ledger', pr)
  BY <1>1, <1>2, <1>3, <1>7, OtherPlane, NoWorseSame
<1>8. \A pr \in Planes : NoWorse(start, saved, ledger', pr)
  BY <1>2, <1>3, <1>5, <1>6, <1>7, NoWorseTwice
<1> QED BY <1>3, <1>5, <1>8 DEF FloorsKept, Planes

LEMMA StepNoWorse == ASSUME TypeOK, NoWorseTyped, [Next]_vars PROVE NoWorseTyped'
<1>1. TypeOK'
  BY TypeNext
<1>2. ASSUME FlowEdit \/ \E s \in Starts : SetStart(s) PROVE NoWorseTyped'
  <2>1. typed' = Append(typed, "flow") /\ typed \in Seq({"flow", "reserve"})
    BY <1>2 DEF FlowEdit, EditFlow, SetStart, Type, TypeOK
  <2>2. Len(typed) + 1 \in DOMAIN typed' /\ typed'[Len(typed) + 1] = "flow"
    BY <2>1
  <2>3. ~(Range(typed') \subseteq {"reserve"})
    BY <2>2 DEF Range
  <2> QED BY <2>3 DEF NoWorseTyped
<1>3. ASSUME ledger' = saved' PROVE NoWorseTyped'
  <2>1. (\A pl \in Planes : NoWorse(start, saved, saved, pl))'
    BY <1>1, StoredNoWorse, PTL
  <2> QED BY <1>3, <2>1 DEF NoWorseTyped, Settled
<1>4. CASE Save
  <2>1. saved' = Converted(ledger) /\ ledger' = ledger
    BY <1>4 DEF Save
  <2>2. ASSUME Settled(saved'), ledger'.global = saved'.global PROVE ledger' = saved'
    BY <2>1, <2>2, NothingToConvert DEF Settled, TypeOK
  <2>3. CASE ledger' = saved'
    BY <1>3, <2>3
  <2>4. CASE ledger' # saved'
    BY <2>2, <2>4 DEF NoWorseTyped
  <2> QED BY <2>3, <2>4
<1>5. CASE Rejected \/ Load
  BY <1>3, <1>5 DEF Rejected, Load
<1>6. CASE ReservesEdit
  BY <1>6, EditNoWorse
<1>7. CASE UNCHANGED vars
  BY <1>7 DEF vars, NoWorseTyped, Settled
<1> QED BY <1>2, <1>4, <1>5, <1>6, <1>7, NextCases

\* Then the server finds nothing worse either.
LEMMA NoWorseAgrees == ASSUME TypeOK, NoWorseTyped PROVE ServerAgrees
<1> SUFFICES ASSUME Range(typed) \subseteq {"reserve"}, Settled(saved), ledger.global = saved.global
             PROVE  WorsenedBy(saved, Converted(ledger)) = {}
  BY DEF ServerAgrees
<1>1. StartType(start) /\ ledger \in Ledgers /\ saved \in Ledgers
  BY StoredNoWorse
<1>2. Converted(ledger) = ledger
  BY <1>1, NothingToConvert DEF Settled
<1>3. ASSUME NEW pl \in Planes PROVE ChainCheck(saved, ledger, pl, Pockets) = {}
  <2>1. Worsened(saved, ledger, pl) = {}
    BY <1>1, WorsenedNone DEF NoWorseTyped
  <2>2. \A p \in Pockets : NonNegative(ledger, pl, p)
    BY DEF NoWorseTyped, TypeOK, Planes
  <2>3. FloorBroken(ledger, pl, Pockets) = {}
    <3>1. \A f \in Floors(ledger, pl, Pockets) : ~(f.limit < 0)
      <4>1. \A p \in Pockets, m \in Months : Series(ledger, pl, p)[m] >= 0 /\ Series(ledger, pl, p)[m] \in Int
        BY <1>1, <2>2, SeriesRuns DEF NonNegative, Runs
      <4> QED BY <4>1 DEF Floors
    <3> QED BY <3>1 DEF FloorBroken
  <2> QED BY <2>1, <2>3 DEF ChainCheck
<1>4. WorsenedBy(saved, ledger) = {}
  BY <1>3 DEF WorsenedBy, Planes
<1> QED BY <1>2, <1>4

\* A snapshot left by edits of reserves the client accepted one by one is not
\* refused by the server, which judges all of them at once (worsenedBy).
THEOREM ServerAlwaysAgrees == Spec => []ServerAgrees
<1>1. Init => NoWorseTyped
  <2>1. ASSUME Init PROVE NoWorseTyped
    BY <2>1, TypeInit, StoredNoWorse DEF NoWorseTyped, Settled, Init
  <2> QED BY <2>1
<1>2. TypeOK /\ NoWorseTyped /\ [Next]_vars => NoWorseTyped'
  BY StepNoWorse
<1>3. TypeOK /\ NoWorseTyped => ServerAgrees
  BY NoWorseAgrees
<1> QED BY <1>1, <1>2, <1>3, TypeAlwaysOK, PTL DEF Spec

-----------------------------------------------------------------------------
(* What the pockets give when a withdrawal of no pocket is shared out *)

\* The pockets in the order they are asked.
Asking(holds) == {x \in Pockets \X Pockets : AskedBefore(holds, x[1], x[2])}

LEMMA PlaceType ==
  /\ \A p \in Pockets : Place(p) \in 1 .. N /\ Order[Place(p)] = p
  /\ \A p, q \in Pockets : Place(p) = Place(q) => p = q
<1>1. ASSUME NEW p \in Pockets PROVE Place(p) \in 1 .. N /\ Order[Place(p)] = p
  <2>1. \E i \in DOMAIN Order : Order[i] = p
    BY OrderType
  <2> QED BY <2>1, OrderType DEF Place
<1> QED BY <1>1

\* They are asked one after the other.
LEMMA AskingOrders ==
  ASSUME NEW holds, \A p \in Pockets : holds[p] \in Int
  PROVE  /\ \A p, q \in Pockets : p # q => <<p, q>> \in Asking(holds) \/ <<q, p>> \in Asking(holds)
         /\ \A p, q, r \in Pockets :
              <<p, q>> \in Asking(holds) /\ <<q, r>> \in Asking(holds) => <<p, r>> \in Asking(holds)
         /\ \A p, q \in Pockets : <<p, q>> \in Asking(holds) => <<q, p>> \notin Asking(holds)
<1>1. \A p, q \in Pockets : <<p, q>> \in Asking(holds) <=>
        holds[p] > holds[q] \/ (holds[p] = holds[q] /\ Place(p) < Place(q))
  BY DEF Asking, AskedBefore
<1>2. N \in Nat /\ \A p \in Pockets : Place(p) \in Nat
  BY PlaceType, OrderType
<1> QED BY <1>1, <1>2, PlaceType

\* Each gives what it has, until the amount is covered.
Gives(holds, amount, p) == Min({Max0(holds[p]), Max0(amount - Given(holds, p))})

\* The first pockets asked give together the amount, or all they have.
LEMMA FirstGive ==
  ASSUME NEW holds, \A p \in Pockets : holds[p] \in Int, NEW amount \in Nat,
         NEW have, \A p \in Pockets : have[p] = Max0(holds[p]),
         NEW gives, \A p \in Pockets : gives[p] = Gives(holds, amount, p)
  PROVE  \A T \in SUBSET Pockets :
           (\A p \in T, q \in Pockets : AskedBefore(holds, q, p) => q \in T) =>
             Total(gives, T) = Min({amount, Total(have, T)})
<1> DEFINE Closed(T) == \A p \in T, q \in Pockets : AskedBefore(holds, q, p) => q \in T
           F == {T \in SUBSET Pockets : Closed(T) => Total(gives, T) = Min({amount, Total(have, T)})}
<1>1. {} \in F
  <2>1. Min({amount, 0}) = 0
    BY MinTwo
  <2> QED BY <2>1, TotalEmpty
<1>2. ASSUME NEW p \in Pockets
      PROVE  /\ have[p] \in Nat /\ Given(holds, p) \in Nat /\ gives[p] \in Nat
             /\ gives[p] = Min({have[p], Max0(amount - Given(holds, p))})
  <2>1. have[p] \in Nat /\ have[p] = Max0(holds[p])
    BY DEF Max0
  <2> DEFINE ahead == [q \in Pockets |-> IF AskedBefore(holds, q, p) THEN Max0(holds[q]) ELSE 0]
  <2>2. \A q \in Pockets : ahead[q] \in Nat
    BY DEF Max0
  <2>3. Given(holds, p) = OverPockets(ahead)
    BY DEF Given
  <2> HIDE DEF ahead
  <2>4. Given(holds, p) \in Nat
    BY <2>2, <2>3, SumNat
  <2>5. gives[p] = Min({have[p], Max0(amount - Given(holds, p))})
    BY <2>1 DEF Gives
  <2>6. Max0(amount - Given(holds, p)) \in Nat
    BY <2>4 DEF Max0
  <2>7. gives[p] \in Nat
    BY <2>1, <2>5, <2>6, MinTwo
  <2> QED BY <2>1, <2>4, <2>5, <2>7
<1>3. \A p \in Pockets : have[p] \in Int /\ gives[p] \in Int
  <2>1. ASSUME NEW p \in Pockets PROVE have[p] \in Nat /\ gives[p] \in Nat
    BY <1>2, Zenon
  <2> QED BY <2>1
<1>4. ASSUME NEW T \in SUBSET Pockets, T # {}, \A x \in T : T \ {x} \in F PROVE T \in F
  <2> SUFFICES ASSUME Closed(T) PROVE Total(gives, T) = Min({amount, Total(have, T)})
    OBVIOUS
  <2>1. PICK x \in T : \A y \in T \ {x} : <<y, x>> \in Asking(holds)
    <3> DEFINE R == Asking(holds)
    <3>1. /\ \A p, q \in Pockets : p # q => <<p, q>> \in R \/ <<q, p>> \in R
          /\ \A p, q, r \in Pockets : <<p, q>> \in R /\ <<q, r>> \in R => <<p, r>> \in R
      BY AskingOrders
    <3> HIDE DEF R
    <3>2. T # {} /\ T \in SUBSET Pockets
      BY <1>4
    <3>3. \E x \in T : \A y \in T \ {x} : <<y, x>> \in R
      BY <3>1, <3>2, PocketsFinite, LastOne
    <3> QED BY <3>3 DEF R
  <2>2. x \in Pockets /\ \A q \in Pockets : AskedBefore(holds, q, x) <=> q \in T \ {x}
    <3>1. ASSUME NEW q \in Pockets, AskedBefore(holds, q, x) PROVE q \in T \ {x}
      <4>1. q \in T
        BY <3>1
      <4>2. <<q, x>> \in Asking(holds)
        BY <3>1 DEF Asking
      <4>3. q # x
        BY <4>2, AskingOrders
      <4> QED BY <4>1, <4>3
    <3> QED BY <2>1, <3>1 DEF Asking
  <2>3. Closed(T \ {x})
    <3> SUFFICES ASSUME NEW p \in T \ {x}, NEW q \in Pockets, AskedBefore(holds, q, p) PROVE q \in T \ {x}
      OBVIOUS
    <3>1. <<q, p>> \in Asking(holds) /\ <<p, x>> \in Asking(holds)
      BY <2>1 DEF Asking
    <3>2. <<q, x>> \in Asking(holds)
      BY <2>2, <3>1, AskingOrders
    <3> QED BY <2>2, <3>2 DEF Asking
  <2>4. Total(gives, T \ {x}) = Min({amount, Total(have, T \ {x})})
    BY <1>4, <2>3
  <2>5. Given(holds, x) = Total(have, T \ {x})
    <3> DEFINE ahead == [q \in Pockets |-> IF AskedBefore(holds, q, x) THEN Max0(holds[q]) ELSE 0]
    <3>1. \A q \in Pockets : ahead[q] = IF q \in T \ {x} THEN have[q] ELSE 0
      BY <2>2
    <3>2. Given(holds, x) = OverPockets(ahead)
      BY DEF Given
    <3> HIDE DEF ahead
    <3>3. (\A q \in Pockets : ahead[q] \in Int) /\ \A q \in Pockets : have[q] \in Int
      <4> SUFFICES ASSUME NEW q \in Pockets PROVE ahead[q] \in Int /\ have[q] \in Int
        OBVIOUS
      <4>1. have[q] \in Int
        BY <1>3
      <4> QED BY <3>1, <4>1
    <3>4. OverPockets(ahead) = Total(ahead, Pockets)
      BY <3>3, OverPocketsTotal
    <3>5. T \ {x} \in SUBSET Pockets
      OBVIOUS
    <3>6. Total(ahead, Pockets) = Total(have, T \ {x})
      BY <3>1, <3>3, <3>5, PocketsFinite, TotalWithin
    <3> QED BY <3>2, <3>4, <3>6
  <2>6. IsFiniteSet(T) /\ \A p \in T : gives[p] \in Int /\ have[p] \in Int
    <3>1. IsFiniteSet(T)
      BY PocketsFinite, FS_Subset
    <3>2. ASSUME NEW p \in T PROVE gives[p] \in Int /\ have[p] \in Int
      <4>1. p \in Pockets
        OBVIOUS
      <4> QED BY <1>3, <4>1
    <3> QED BY <3>1, <3>2
  <2>7. Total(gives, T) = gives[x] + Total(gives, T \ {x}) /\ Total(have, T) = have[x] + Total(have, T \ {x})
    BY <2>6, TotalRemove
  <2> DEFINE S == Total(have, T \ {x})
  <2>8. S \in Nat /\ have[x] \in Nat /\ gives[x] = Min({have[x], Max0(amount - S)})
    BY <1>2, <2>2, <2>5
  <2> HIDE DEF S
  <2>9. Min({amount, S}) \in Int /\ (Min({amount, S}) = IF amount <= S THEN amount ELSE S)
    BY <2>8, MinTwo
  <2>10. Max0(amount - S) \in Nat /\ (Max0(amount - S) = IF amount <= S THEN 0 ELSE amount - S)
    BY <2>8 DEF Max0
  <2>11. gives[x] = IF have[x] <= Max0(amount - S) THEN have[x] ELSE Max0(amount - S)
    BY <2>8, <2>10, MinTwo
  <2>12. Min({amount, have[x] + S}) = IF amount <= have[x] + S THEN amount ELSE have[x] + S
    BY <2>8, MinTwo
  <2>13. Total(gives, T) = gives[x] + Min({amount, S}) /\ Total(have, T) = have[x] + S
    BY <2>4, <2>7 DEF S
  <2> HIDE <2>6
  <2>14. gives[x] + Min({amount, S}) = Min({amount, have[x] + S})
    BY <2>8, <2>9, <2>10, <2>11, <2>12
  <2> QED BY <2>13, <2>14
<1>5. \A T \in SUBSET Pockets : T \in F
  <2> HIDE DEF F
  <2> QED BY <1>1, <1>4, PocketsFinite, SubsetInd
<1> QED BY <1>5

\* What is shared out is given in full, and where the pockets have enough none
\* gives more than it has.
LEMMA TakesSum ==
  ASSUME NEW holds, \A p \in Pockets : holds[p] \in Int, NEW amount \in Nat, Pockets # {}
  PROVE  /\ OverPockets(Takes(holds, amount)) = amount
         /\ (\A p \in Pockets : holds[p] >= 0) /\ amount <= OverPockets(holds) =>
              \A p \in Pockets : Takes(holds, amount)[p] <= holds[p]
<1> DEFINE have == [p \in Pockets |-> Max0(holds[p])]
           gives == [p \in Pockets |-> Gives(holds, amount, p)]
           all == OverPockets(have)
           rest == Max0(amount - all)
           first(p) == ~ \E q \in Pockets : AskedBefore(holds, q, p)
           more == [p \in Pockets |-> IF first(p) THEN rest ELSE 0]
           takes == Takes(holds, amount)
<1>1. \A p \in Pockets : takes[p] = gives[p] + more[p]
  BY DEF Takes, Gives
<1>2. \A p \in Pockets : have[p] \in Nat
  BY DEF Max0
<1>3. all \in Nat /\ all = Total(have, Pockets)
  <2> HIDE DEF have
  <2> QED BY <1>2, SumNat, OverPocketsTotal
<1>4. rest \in Nat
  BY <1>3 DEF Max0
<1>5. \A p \in Pockets : gives[p] \in Nat /\ gives[p] <= have[p]
  <2> SUFFICES ASSUME NEW p \in Pockets PROVE Gives(holds, amount, p) \in Nat /\ Gives(holds, amount, p) <= have[p]
    OBVIOUS
  <2> DEFINE ahead == [q \in Pockets |-> IF AskedBefore(holds, q, p) THEN Max0(holds[q]) ELSE 0]
  <2>1. (\A q \in Pockets : ahead[q] \in Nat) /\ Given(holds, p) = OverPockets(ahead)
    BY DEF Max0, Given
  <2> HIDE DEF ahead
  <2>2. Given(holds, p) \in Nat
    BY <2>1, SumNat
  <2>3. Max0(amount - Given(holds, p)) \in Nat /\ Max0(holds[p]) \in Nat
    BY <2>2 DEF Max0
  <2> QED BY <2>3, MinTwo DEF Gives
<1>6. Total(gives, Pockets) = Min({amount, all})
  <2> HIDE DEF have, gives, all
  <2>1. /\ \A p \in Pockets : have[p] = Max0(holds[p])
        /\ \A p \in Pockets : gives[p] = Gives(holds, amount, p)
    BY DEF have, gives
  <2>2. Pockets \in SUBSET Pockets
    OBVIOUS
  <2>3. \A T \in SUBSET Pockets :
           (\A p \in T, q \in Pockets : AskedBefore(holds, q, p) => q \in T) =>
             Total(gives, T) = Min({amount, Total(have, T)})
    BY <2>1, FirstGive
  <2> QED BY <1>3, <2>2, <2>3
<1>7. Total(more, Pockets) = rest
  <2>1. PICK x \in Pockets : \A y \in Pockets \ {x} : <<x, y>> \in Asking(holds)
    <3> DEFINE R == {x \in Pockets \X Pockets : <<x[2], x[1]>> \in Asking(holds)}
    <3>1. /\ \A p, q \in Pockets : p # q => <<p, q>> \in R \/ <<q, p>> \in R
          /\ \A p, q, r \in Pockets : <<p, q>> \in R /\ <<q, r>> \in R => <<p, r>> \in R
      BY AskingOrders
    <3>2. \A p, q \in Pockets : <<p, q>> \in R <=> <<q, p>> \in Asking(holds)
      OBVIOUS
    <3> HIDE DEF R
    <3>3. \E x \in Pockets : \A y \in Pockets \ {x} : <<y, x>> \in R
      <4> DEFINE T == Pockets
      <4>1. T \in SUBSET Pockets /\ T # {}
        OBVIOUS
      <4> HIDE DEF T
      <4>2. \E x \in T : \A y \in T \ {x} : <<y, x>> \in R
        BY <3>1, <4>1, PocketsFinite, LastOne
      <4> QED BY <4>2 DEF T
    <3> QED BY <3>2, <3>3
  <2>2. \A p \in Pockets : first(p) <=> p = x
    <3>1. \A y \in Pockets : ~AskedBefore(holds, y, x)
      <4>1. \A y \in Pockets : <<y, x>> \notin Asking(holds)
        <5>1. <<x, x>> \notin Asking(holds)
          BY AskingOrders
        <5> QED BY <2>1, <5>1, AskingOrders
      <4> QED BY <4>1 DEF Asking
    <3>2. \A p \in Pockets \ {x} : AskedBefore(holds, x, p)
      BY <2>1 DEF Asking
    <3> QED BY <3>1, <3>2
  <2> DEFINE z == [p \in Pockets |-> 0]
  <2>3. (\A p \in Pockets : z[p] \in Int) /\ more[x] = z[x] + rest /\ \A p \in Pockets \ {x} : more[p] = z[p]
    BY <1>4, <2>2
  <2>4. (\A p \in Pockets : z[p] = 0) /\ rest \in Int
    BY <1>4
  <2> HIDE DEF more, z, rest, first
  <2>5. Total(more, Pockets) = Total(z, Pockets) + rest
    BY <2>3, <2>4, PocketsFinite, TotalOne
  <2> QED BY <1>4, <2>4, <2>5, PocketsFinite, TotalZero
<1>8. OverPockets(takes) = Total(gives, Pockets) + Total(more, Pockets)
  <2>1. \A p \in Pockets : gives[p] \in Int /\ more[p] \in Int /\ takes[p] = gives[p] + more[p] /\ takes[p] \in Int
    BY <1>1, <1>4, <1>5
  <2> HIDE DEF gives, more, takes
  <2> QED BY <2>1, PocketsFinite, TotalAdd, OverPocketsTotal
<1>9. OverPockets(takes) = amount
  <2> HIDE DEF all, takes
  <2>1. rest = IF amount <= all THEN 0 ELSE amount - all
    BY <1>3 DEF Max0
  <2>2. Min({amount, all}) = IF amount <= all THEN amount ELSE all
    BY <1>3, MinTwo
  <2> QED BY <1>3, <1>6, <1>7, <1>8, <2>1, <2>2
<1>10. ASSUME \A p \in Pockets : holds[p] >= 0, amount <= OverPockets(holds), NEW p \in Pockets
       PROVE  takes[p] <= holds[p]
  <2>1. \A q \in Pockets : have[q] = holds[q]
    BY <1>10 DEF Max0
  <2>2. all = OverPockets(holds)
    <3> HIDE DEF have
    <3> QED BY <2>1, SumSame DEF Ints
  <2>3. rest = 0
    BY <1>3, <1>10, <2>2 DEF Max0
  <2>4. more[p] = 0
    BY <2>3
  <2> HIDE DEF gives, have, more, takes
  <2> QED BY <1>1, <1>5, <2>1, <2>4
<1> QED BY <1>9, <1>10

-----------------------------------------------------------------------------
(* What the conversion keeps *)

\* A change of one month moves what is held from that month on.
LEMMA RunsShift ==
  ASSUME NEW s, NEW t, NEW c, NEW d, Runs(s, c), Runs(t, d), \A k \in Months : c[k] \in Int,
         NEW m \in Months, NEW a \in Int, d[m] = c[m] + a, \A k \in Months \ {m} : d[k] = c[k]
  PROVE  \A k \in Months : t[k] = s[k] + (IF k < m THEN 0 ELSE a)
<1> DEFINE S == {k \in Months : t[k] = s[k] + (IF k < m THEN 0 ELSE a)}
<1>1. 1 \in S
  <2>1. t[1] = d[1] /\ s[1] = c[1] /\ c[1] \in Int /\ 1 \in Months
    BY MonthType DEF Runs
  <2>2. CASE m = 1
    BY <2>1, <2>2
  <2>3. CASE m # 1
    <3>1. 1 < m
      BY <2>3, MonthType DEF Months
    <3> QED BY <2>1, <2>3, <3>1
  <2> QED BY <2>2, <2>3
<1>2. ASSUME NEW k \in Months, k \in S, k + 1 \in Months PROVE k + 1 \in S
  <2>1. k \in Nat /\ k # 0 /\ m \in Nat
    BY MonthType DEF Months
  <2>2. (k + 1) - 1 = k /\ k + 1 # 1
    BY <2>1
  <2>3. t[k + 1] = t[k] + d[k + 1] /\ s[k + 1] = s[k] + c[k + 1] /\ s[k] \in Int /\ c[k + 1] \in Int
    BY <1>2, <2>2 DEF Runs
  <2>4. CASE m = k + 1
    BY <1>2, <2>1, <2>3, <2>4
  <2>5. CASE m # k + 1
    <3>1. d[k + 1] = c[k + 1] /\ (k + 1 < m <=> k < m)
      BY <1>2, <2>1, <2>5
    <3> QED BY <1>2, <2>3, <3>1
  <2> QED BY <2>4, <2>5
<1>3. \A k \in Months : k \in S
  <2> HIDE DEF S
  <2> QED BY <1>1, <1>2, ByMonth
<1> QED BY <1>3

\* Where nothing is taken out any more, what is held only grows.
LEMMA RunsGrow ==
  ASSUME NEW s, NEW c, Runs(s, c), NEW n \in Months,
         \A k \in Months : k > n => c[k] \in Int /\ c[k] >= 0
  PROVE  \A k \in Months : k >= n => s[k] >= s[n]
<1> DEFINE S == {k \in Months : k >= n => s[k] >= s[n]}
<1>1. 1 \in S
  <2>1. s[1] \in Int /\ 1 \in Months /\ n \in Nat /\ n >= 1
    BY MonthType DEF Runs, Months
  <2>2. 1 >= n => n = 1
    BY <2>1
  <2> QED BY <2>1, <2>2
<1>2. ASSUME NEW k \in Months, k \in S, k + 1 \in Months PROVE k + 1 \in S
  <2>1. k \in Nat /\ k # 0 /\ n \in Nat
    BY MonthType DEF Months
  <2>2. (k + 1) - 1 = k /\ k + 1 # 1
    BY <2>1
  <2>3. s[k + 1] = s[k] + c[k + 1] /\ s[k] \in Int /\ s[n] \in Int /\ s[k + 1] \in Int
    BY <1>2, <2>2 DEF Runs
  <2>4. CASE n = k + 1
    BY <1>2, <2>3, <2>4
  <2>5. CASE n # k + 1
    BY <1>2, <2>1, <2>3, <2>5
  <2> QED BY <2>4, <2>5
<1>3. \A k \in Months : k \in S
  <2> HIDE DEF S
  <2> QED BY <1>1, <1>2, ByMonth
<1> QED BY <1>3

\* Sharing out a month leaves what the reserves of the plan use as it was.
LEMMA SharedNet ==
  ASSUME NEW l \in Ledgers, NEW m \in Months, Pockets # {}, NEW k \in Months
  PROVE  Net(Shared(l, m), "budget", k) = Net(l, "budget", k)
<1> DEFINE w == Shared(l, m)
           takes == Takes(Holds(l, m), l.global[m])
           plan == [p \in Pockets |-> l.plan[p][m]]
           next == [p \in Pockets |-> w.plan[p][m]]
<1>1. /\ w \in Ledgers /\ w.cells = l.cells
      /\ l.global[m] = 0 => w = l
      /\ l.global[m] # 0 => \A p \in Pockets : w.plan[p][m] = l.plan[p][m] + takes[p]
      /\ \A p \in Pockets, j \in Months \ {m} : w.plan[p][j] = l.plan[p][j]
      /\ w.global[m] = 0 /\ \A j \in Months \ {m} : w.global[j] = l.global[j]
  BY SharedChanges
<1>2. CASE k # m
  <2> HIDE DEF w
  <2>1. w.global[k] = l.global[k] /\ \A p \in Pockets : w.plan[p][k] = l.plan[p][k]
    BY <1>1, <1>2
  <2>2. Net(w, "budget", k) = Net(l, "budget", k)
    BY <1>1, <2>1, NetSame DEF Planes
  <2> QED BY <2>2 DEF w
<1>3. CASE k = m /\ l.global[m] = 0
  BY <1>1, <1>3
<1>4. CASE k = m /\ l.global[m] # 0
  <2>1. l.global[m] \in Nat /\ \A p \in Pockets : Holds(l, m)[p] \in Int
    BY LedgerParts, HoldsType
  <2>2. OverPockets(takes) = l.global[m] /\ takes \in [Pockets -> Nat]
    BY <2>1, TakesSum, TakesType
  <2>3. \A p \in Pockets : plan[p] \in Int /\ takes[p] \in Int /\ next[p] = plan[p] + takes[p]
    BY <1>1, <1>4, <2>2, LedgerParts
  <2> DEFINE before == [p \in Pockets |-> l.cells["budget"][p][m]]
             after == [p \in Pockets |-> w.cells["budget"][p][m]]
  <2>4. before = after
    BY <1>1
  <2>5. /\ Net(w, "budget", m) = OverPockets(after) - (OverPockets(next) + w.global[m])
        /\ Net(l, "budget", m) = OverPockets(before) - (OverPockets(plan) + l.global[m])
    BY DEF Net, Contributions, Withdrawals
  <2> HIDE DEF w, takes, plan, next, before, after
  <2>6. OverPockets(next) = OverPockets(plan) + OverPockets(takes) /\ OverPockets(plan) \in Int
    BY <2>3, SumAdd, SumInt DEF Ints
  <2>7. w.global[m] = 0
    BY <1>1
  <2>8. Net(w, "budget", m) = Net(l, "budget", m)
    BY <2>1, <2>2, <2>4, <2>5, <2>6, <2>7
  <2> QED BY <1>4, <2>8 DEF w
<1> QED BY <1>2, <1>3, <1>4

\* When months 1 to m are shared out.
SharedSoFar(l, k, m) ==
  /\ \A j \in Months : Net(k, "budget", j) = Net(l, "budget", j)
  /\ \A j \in Months : k.global[j] = IF j <= m THEN 0 ELSE l.global[j]
  /\ \A p \in Pockets, j \in Months : j > m => k.plan[p][j] = l.plan[p][j]

LEMMA SharingSoFar ==
  ASSUME NEW l \in Ledgers, Pockets # {}, NEW c, Sharing(c, l)
  PROVE  \A m \in 0 .. MaxMonth : SharedSoFar(l, c[m], m)
<1> DEFINE S == {m \in 0 .. MaxMonth : SharedSoFar(l, c[m], m)}
<1>1. 0 \in Int /\ MaxMonth \in Int /\ 0 \in 0 .. MaxMonth
  BY MonthType
<1>2. 0 \in S
  <2>1. c[0] = l /\ \A j \in Months : ~(j <= 0)
    BY MonthType DEF Sharing, Months
  <2> QED BY <1>1, <2>1 DEF SharedSoFar
<1>3. ASSUME NEW m \in 0 .. MaxMonth, m \in S, m + 1 <= MaxMonth PROVE m + 1 \in S
  <2> DEFINE n == m + 1
             k == c[m]
             w == c[n]
  <2>1. n \in Months /\ n - 1 = m /\ n \in 0 .. MaxMonth
    BY <1>1, <1>3 DEF Months
  <2>2. w = Shared(k, n) /\ k \in Ledgers /\ SharedSoFar(l, k, m)
    BY <1>3, <2>1 DEF Sharing, Replanned
  <2>3. \A j \in Months : (j <= n <=> j <= m \/ j = n) /\ (j > n <=> j > m /\ j # n)
    BY <1>1, MonthType
  <2> HIDE DEF n, k, w
  <2>4. /\ \A j \in Months : Net(w, "budget", j) = Net(k, "budget", j)
        /\ w.global[n] = 0 /\ \A j \in Months \ {n} : w.global[j] = k.global[j]
        /\ \A p \in Pockets, j \in Months \ {n} : w.plan[p][j] = k.plan[p][j]
    BY <2>1, <2>2, SharedNet, SharedChanges
  <2>5. SharedSoFar(l, w, n)
    BY <2>1, <2>2, <2>3, <2>4 DEF SharedSoFar
  <2> QED BY <2>1, <2>5 DEF n, w
<1>4. \A m \in 0 .. MaxMonth : m \in S
  <2> HIDE DEF S
  <2> QED BY <1>1, <1>2, <1>3, UpTo
<1> QED BY <1>4

LEMMA ConvertedNet ==
  ASSUME NEW l \in Ledgers, Pockets # {}
  PROVE  \A m \in Months : Net(Converted(l), "budget", m) = Net(l, "budget", m) /\ Converted(l).global[m] = 0
<1>1. PICK c : Sharing(c, l) /\ Converted(l) = c[MaxMonth]
  BY ConvertedShares
<1>2. MaxMonth \in 0 .. MaxMonth /\ \A m \in Months : m <= MaxMonth
  BY MonthType DEF Months
<1>3. SharedSoFar(l, c[MaxMonth], MaxMonth)
  BY <1>1, <1>2, SharingSoFar
<1> QED BY <1>1, <1>2, <1>3 DEF SharedSoFar

\* The balance is determined by its start, the income and what the reserves use.
LEMMA BalancesUnique ==
  ASSUME NEW s, NEW flow, NEW net, NEW a, NEW b, Balances(a, s, flow, net), Balances(b, s, flow, net)
  PROVE  a = b
<1> DEFINE S == {m \in Months : a[m] = b[m]}
<1>1. 1 \in S
  <2>1. a[1] = b[1]
    BY MonthType DEF Balances
  <2> QED BY <2>1, MonthType
<1>2. ASSUME NEW m \in Months, m \in S, m + 1 \in Months PROVE m + 1 \in S
  <2>1. (m + 1) - 1 = m /\ m + 1 # 1
    <3>1. m \in Nat /\ m # 0
      BY DEF Months
    <3> QED BY <3>1
  <2>2. a[m + 1] = BalanceOf(s, m + 1, a[m], flow[m + 1], net[m + 1])
    BY <1>2, <2>1 DEF Balances
  <2>3. b[m + 1] = BalanceOf(s, m + 1, b[m], flow[m + 1], net[m + 1])
    BY <1>2, <2>1 DEF Balances
  <2> QED BY <1>2, <2>2, <2>3
<1>3. \A m \in Months : m \in S
  <2> HIDE DEF S
  <2> QED BY <1>1, <1>2, ByMonth
<1> QED BY <1>3 DEF Balances

LEMMA ConvertedBalance ==
  ASSUME StartType(start), NEW l \in Ledgers
  PROVE  Balance(Converted(l), "budget") = Balance(l, "budget") /\ Converted(Converted(l)) = Converted(l)
<1> DEFINE k == Converted(l)
<1>1. CASE Pockets = {}
  <2>1. \A x : Converted(x) = x
    BY <1>1 DEF Converted
  <2> QED BY <2>1
<1>2. CASE Pockets # {}
  <2>1. k \in Ledgers /\ k.flow = l.flow
    BY ConvertedReplans DEF Replanned
  <2>2. \A m \in Months : Net(k, "budget", m) = Net(l, "budget", m) /\ k.global[m] = 0
    BY <1>2, ConvertedNet
  <2> HIDE DEF k
  <2>3. Nets(k, "budget") = Nets(l, "budget") /\ "budget" \in Planes
    BY <2>2 DEF Nets, Planes
  <2>4. Balances(Balance(k, "budget"), start, l.flow["budget"], Nets(l, "budget"))
    BY <2>1, <2>3, BalanceBalances, BalanceNow
  <2>5. Balances(Balance(l, "budget"), start, l.flow["budget"], Nets(l, "budget"))
    BY <2>3, BalanceBalances, BalanceNow
  <2>6. Balance(k, "budget") = Balance(l, "budget")
    BY <2>4, <2>5, BalancesUnique
  <2>7. Converted(k) = k
    BY <2>1, <2>2, NothingToConvert
  <2> QED BY <2>6, <2>7 DEF k
<1> QED BY <1>1, <1>2

\* What was set aside and what was taken out of the plan, month by month.
Inflows(l) == Accumulated([m \in Months |-> Contributions(l, "budget", m)])
Outflows(l) == Accumulated([m \in Months |-> Withdrawals(l, "budget", m)])

LEMMA FlowsRun ==
  ASSUME NEW l \in Ledgers
  PROVE  /\ Runs(Inflows(l), [m \in Months |-> Contributions(l, "budget", m)])
         /\ Runs(Outflows(l), [m \in Months |-> Withdrawals(l, "budget", m)])
<1> DEFINE c == [m \in Months |-> Contributions(l, "budget", m)]
           d == [m \in Months |-> Withdrawals(l, "budget", m)]
<1>1. \A m \in Months : c[m] \in Int /\ d[m] \in Int
  BY SumsOfLedger DEF Planes
<1>2. Inflows(l) = Accumulated(c) /\ Outflows(l) = Accumulated(d)
  BY DEF Inflows, Outflows
<1> HIDE DEF c, d
<1>3. Runs(Accumulated(c), c) /\ Runs(Accumulated(d), d)
  BY <1>1, AccumulatedRuns
<1> QED BY <1>2, <1>3 DEF c, d

LEMMA LimitNow ==
  ASSUME NEW l, NEW m
  PROVE  PlannedLimit(l, m) = Max0(Inflows(l)[m] - (IF m = 1 THEN 0 ELSE Outflows(l)[m - 1]))
BY DEF PlannedLimit, Inflows, Outflows

\* When the months before n are shared out and the plan had no withdrawals of a
\* pocket, the pockets hold in n what the old rule let the plan take out of it.
LEMMA HeldInTurn ==
  ASSUME NEW l \in Ledgers, \A p \in Pockets, j \in Months : l.plan[p][j] = 0,
         NEW k \in Ledgers, NEW n \in Months, SharedSoFar(l, k, n - 1)
  PROVE  Reserved(k, "budget", n) = Inflows(l)[n] - (IF n = 1 THEN 0 ELSE Outflows(l)[n - 1])
<1> DEFINE in == Inflows(l)
           out == Outflows(l)
           r == [m \in Months |-> Reserved(k, "budget", m)]
           c == [m \in Months |-> OverPockets([p \in Pockets |-> Change(k, "budget", p, m)])]
           S == {m \in Months : m < n => r[m] = in[m] - out[m]}
<1>1. Runs(r, c)
  BY ReservedRuns DEF Planes
<1>2. ASSUME NEW m \in Months
      PROVE  /\ in[m] \in Int /\ out[m] \in Int
             /\ m = 1 => in[m] = Contributions(l, "budget", m) /\ out[m] = Withdrawals(l, "budget", m)
             /\ m # 1 => /\ in[m] = in[m - 1] + Contributions(l, "budget", m)
                         /\ out[m] = out[m - 1] + Withdrawals(l, "budget", m)
  BY FlowsRun DEF Runs
<1>3. ASSUME NEW m \in Months
      PROVE  /\ Contributions(l, "budget", m) \in Int /\ Withdrawals(l, "budget", m) \in Int
             /\ Withdrawals(l, "budget", m) = l.global[m]
             /\ m < n => c[m] = Contributions(l, "budget", m) - Withdrawals(l, "budget", m)
             /\ m = n => c[m] = Contributions(l, "budget", m)
  <2>1. "budget" \in Planes
    BY DEF Planes
  <2>2. c[m] = Net(k, "budget", m) + k.global[m]
    BY <2>1, ChangesSum
  <2>3. Net(k, "budget", m) = Contributions(l, "budget", m) - Withdrawals(l, "budget", m)
    BY DEF SharedSoFar, Net
  <2>4. k.global[m] = IF m <= n - 1 THEN 0 ELSE l.global[m]
    BY DEF SharedSoFar
  <2>5. m \in Nat /\ n \in Nat /\ l.global[m] \in Nat
    BY LedgerParts, MonthType
  <2>6. Withdrawals(l, "budget", m) = l.global[m]
    <3> DEFINE plan == [p \in Pockets |-> l.plan[p][m]]
    <3>1. Withdrawals(l, "budget", m) = OverPockets(plan) + l.global[m] /\ \A p \in Pockets : plan[p] = 0
      BY DEF Withdrawals
    <3> HIDE DEF plan
    <3> QED BY <2>5, <3>1, SumZero
  <2>7. Contributions(l, "budget", m) \in Nat
    BY <2>1, SumsOfLedger
  <2> HIDE DEF c
  <2> QED BY <2>2, <2>3, <2>4, <2>5, <2>6, <2>7
<1> HIDE DEF in, out, r, c
<1>4. 1 \in S
  BY <1>1, <1>2, <1>3, MonthType DEF Runs
<1>5. ASSUME NEW m \in Months, m \in S, m + 1 \in Months PROVE m + 1 \in S
  <2>1. m \in Nat /\ m # 0 /\ n \in Nat
    BY MonthType DEF Months
  <2>2. (m + 1) - 1 = m /\ m + 1 # 1
    BY <2>1
  <2>3. r[m + 1] = r[m] + c[m + 1]
    BY <1>1, <1>5, <2>2 DEF Runs
  <2>4. ASSUME m + 1 < n PROVE r[m + 1] = in[m + 1] - out[m + 1]
    <3>1. r[m] = in[m] - out[m] /\ m < n
      BY <1>5, <2>1, <2>4
    <3>2. c[m + 1] = Contributions(l, "budget", m + 1) - Withdrawals(l, "budget", m + 1)
      BY <1>3, <1>5, <2>4
    <3>3. /\ in[m + 1] = in[m] + Contributions(l, "budget", m + 1)
          /\ out[m + 1] = out[m] + Withdrawals(l, "budget", m + 1)
          /\ in[m] \in Int /\ out[m] \in Int
      BY <1>2, <1>5, <2>2
    <3>4. Contributions(l, "budget", m + 1) \in Int /\ Withdrawals(l, "budget", m + 1) \in Int
      BY <1>3, <1>5
    <3> QED BY <2>3, <3>1, <3>2, <3>3, <3>4
  <2> QED BY <1>5, <2>4
<1>6. \A m \in Months : m \in S
  <2> HIDE DEF S
  <2> QED BY <1>4, <1>5, ByMonth
<1>7. r[n] = in[n] - (IF n = 1 THEN 0 ELSE out[n - 1])
  <2>1. CASE n = 1
    BY <1>1, <1>2, <1>3, <2>1 DEF Runs
  <2>2. CASE n # 1
    <3>1. n - 1 \in Months /\ n - 1 < n
      BY <2>2, MonthType DEF Months
    <3>2. r[n] = r[n - 1] + c[n] /\ r[n - 1] = in[n - 1] - out[n - 1]
      BY <1>1, <1>6, <2>2, <3>1 DEF Runs
    <3>3. c[n] = Contributions(l, "budget", n) /\ in[n] = in[n - 1] + Contributions(l, "budget", n)
      BY <1>2, <1>3, <2>2
    <3>4. in[n - 1] \in Int /\ out[n - 1] \in Int /\ Contributions(l, "budget", n) \in Int
      BY <1>2, <1>3, <3>1
    <3> QED BY <2>2, <3>2, <3>3, <3>4
  <2> QED BY <2>1, <2>2
<1> QED BY <1>7 DEF in, out, r

\* Sharing out a month the pockets can cover together leaves none below zero.
LEMMA SharedFloor ==
  ASSUME NEW k \in Ledgers, NEW n \in Months, Pockets # {},
         \A p \in Pockets : NonNegative(k, "budget", p),
         \A p \in Pockets, j \in Months : j >= n => k.plan[p][j] = 0,
         k.global[n] <= Reserved(k, "budget", n)
  PROVE  \A p \in Pockets : NonNegative(Shared(k, n), "budget", p)
<1> DEFINE w == Shared(k, n)
           takes == Takes(Holds(k, n), k.global[n])
<1>1. CASE k.global[n] = 0
  BY <1>1, SharedChanges
<1>2. CASE k.global[n] # 0
  <2> SUFFICES ASSUME NEW p \in Pockets PROVE NonNegative(w, "budget", p)
    OBVIOUS
  <2>1. "budget" \in Planes
    BY DEF Planes
  <2>2. /\ w \in Ledgers /\ w.cells = k.cells
        /\ w.plan[p][n] = k.plan[p][n] + takes[p]
        /\ \A j \in Months \ {n} : w.plan[p][j] = k.plan[p][j]
    BY <1>2, SharedChanges
  <2>3. takes[p] \in Nat /\ takes[p] <= Series(k, "budget", p)[n]
    <3> DEFINE holds == Holds(k, n)
    <3>1. k.global[n] \in Nat
      BY LedgerParts
    <3>2. \A q \in Pockets : holds[q] = Series(k, "budget", q)[n] /\ holds[q] \in Int /\ holds[q] >= 0
      BY HoldsType DEF NonNegative
    <3>3. Reserved(k, "budget", n) = OverPockets(holds)
      BY DEF Reserved, Holds
    <3> HIDE DEF holds
    <3>4. Takes(holds, k.global[n])[p] <= holds[p] /\ Takes(holds, k.global[n]) \in [Pockets -> Nat]
      BY <3>1, <3>2, <3>3, TakesSum, TakesType
    <3> QED BY <3>2, <3>4 DEF holds
  <2> HIDE DEF w, takes
  <2> DEFINE s == Series(k, "budget", p)
             t == Series(w, "budget", p)
             c == Changes(k, "budget", p)
             d == Changes(w, "budget", p)
  <2>4. Runs(s, c) /\ Runs(t, d)
    BY <2>1, <2>2, SeriesRuns
  <2>5. \A j \in Months : /\ c[j] = k.cells["budget"][p][j] + (- k.plan[p][j])
                          /\ d[j] = w.cells["budget"][p][j] + (- w.plan[p][j])
                          /\ k.cells["budget"][p][j] \in Nat /\ k.plan[p][j] \in Nat
    BY <2>1, LedgerParts DEF Changes, Change
  <2>6. d[n] = c[n] + (- takes[p])
    BY <2>2, <2>3, <2>5
  <2>7. (\A j \in Months : c[j] \in Int) /\ \A j \in Months \ {n} : d[j] = c[j]
    BY <2>2, <2>5
  <2>8. \A j \in Months : j > n => c[j] \in Int /\ c[j] >= 0
    <3> SUFFICES ASSUME NEW j \in Months, j > n PROVE c[j] \in Int /\ c[j] >= 0
      OBVIOUS
    <3>1. j \in Nat /\ n \in Nat
      BY MonthType
    <3>2. k.plan[p][j] = 0
      BY <3>1
    <3> QED BY <2>5, <3>2
  <2> HIDE DEF s, t, c, d
  <2>9. - takes[p] \in Int
    BY <2>3
  <2>10. \A j \in Months : t[j] = s[j] + (IF j < n THEN 0 ELSE - takes[p])
    BY <2>4, <2>6, <2>7, <2>9, RunsShift
  <2>11. \A j \in Months : j >= n => s[j] >= s[n]
    BY <2>4, <2>8, RunsGrow
  <2>12. \A j \in Months : s[j] \in Int /\ s[j] >= 0
    BY <2>4 DEF Runs, s, NonNegative
  <2>13. takes[p] <= s[n]
    BY <2>3 DEF s
  <2>14. ASSUME NEW j \in Months PROVE t[j] >= 0
    <3>1. j \in Nat /\ n \in Nat
      BY MonthType
    <3>2. CASE j < n
      BY <2>10, <2>12, <3>1, <3>2
    <3>3. CASE j >= n
      <4>1. t[j] = s[j] + (- takes[p]) /\ s[j] >= s[n] /\ s[j] \in Int /\ s[n] \in Int
        BY <2>10, <2>11, <2>12, <3>1, <3>3
      <4> QED BY <2>3, <2>13, <4>1
    <3> QED BY <3>1, <3>2, <3>3
  <2> QED BY <2>14 DEF NonNegative, t
<1> QED BY <1>1, <1>2

LEMMA ConvertedFloor ==
  ASSUME NEW l \in Ledgers, Pockets # {},
         \A m \in Months : l.global[m] <= PlannedLimit(l, m) /\ \A p \in Pockets : l.plan[p][m] = 0
  PROVE  \A p \in Pockets : NonNegative(Converted(l), "budget", p)
<1>1. PICK c : Sharing(c, l) /\ Converted(l) = c[MaxMonth]
  BY ConvertedShares
<1> DEFINE Floor(k) == \A p \in Pockets : NonNegative(k, "budget", p)
           S == {m \in 0 .. MaxMonth : Floor(c[m])}
<1>2. 0 \in Int /\ MaxMonth \in Int /\ 0 \in 0 .. MaxMonth /\ MaxMonth \in 0 .. MaxMonth
  BY MonthType
<1>3. 0 \in S
  <2>1. c[0] = l /\ "budget" \in Planes
    BY <1>1 DEF Sharing, Planes
  <2>2. ASSUME NEW p \in Pockets PROVE NonNegative(l, "budget", p)
    <3> DEFINE s == Series(l, "budget", p)
               d == Changes(l, "budget", p)
    <3>1. Runs(s, d)
      BY <2>1, SeriesRuns
    <3>2. \A m \in Months : d[m] \in Int /\ d[m] >= 0
      <4> SUFFICES ASSUME NEW m \in Months PROVE d[m] \in Int /\ d[m] >= 0
        OBVIOUS
      <4>1. l.cells["budget"][p][m] \in Nat /\ l.plan[p][m] = 0 /\ d[m] = l.cells["budget"][p][m] + (- l.plan[p][m])
        BY <2>1, LedgerParts DEF Changes, Change
      <4> QED BY <4>1
    <3> HIDE DEF s, d
    <3>3. \A m \in Months : m >= 1 => s[m] >= s[1]
      BY <3>1, <3>2, MonthType, RunsGrow
    <3>4. s[1] >= 0
      BY <3>1, <3>2, MonthType DEF Runs
    <3>5. ASSUME NEW m \in Months PROVE s[m] >= 0
      <4>1. m >= 1 /\ s[m] \in Int /\ s[1] \in Int
        BY <3>1, MonthType DEF Runs, Months
      <4> QED BY <3>3, <3>4, <4>1
    <3> QED BY <3>5 DEF NonNegative, s
  <2> QED BY <1>2, <2>1, <2>2
<1>4. ASSUME NEW m \in 0 .. MaxMonth, m \in S, m + 1 <= MaxMonth PROVE m + 1 \in S
  <2> DEFINE n == m + 1
             k == c[m]
  <2>1. n \in Months /\ n - 1 = m /\ n \in 0 .. MaxMonth
    BY <1>2, <1>4 DEF Months
  <2>2. c[n] = Shared(k, n) /\ k \in Ledgers /\ Floor(k)
    BY <1>1, <1>4, <2>1 DEF Sharing, Replanned
  <2>3. SharedSoFar(l, k, n - 1)
    BY <1>1, <1>4, <2>1, SharingSoFar
  <2> HIDE DEF n, k
  <2>4. n \in Nat /\ \A j \in Months : j \in Nat
    BY <2>1, MonthType
  <2>5. \A p \in Pockets, j \in Months : j >= n => k.plan[p][j] = 0
    BY <2>3, <2>4 DEF SharedSoFar
  <2>6. k.global[n] <= Reserved(k, "budget", n)
    <3>1. Reserved(k, "budget", n) = Inflows(l)[n] - (IF n = 1 THEN 0 ELSE Outflows(l)[n - 1])
      BY <2>1, <2>2, <2>3, HeldInTurn
    <3>2. k.global[n] = l.global[n] /\ l.global[n] <= PlannedLimit(l, n)
      BY <2>1, <2>3, <2>4 DEF SharedSoFar
    <3>3. PlannedLimit(l, n) = Max0(Reserved(k, "budget", n))
      BY <3>1, LimitNow
    <3>4. Reserved(k, "budget", n) \in Nat
      <4> DEFINE held == [p \in Pockets |-> Series(k, "budget", p)[n]]
      <4>1. \A p \in Pockets : held[p] \in Nat
        <5> SUFFICES ASSUME NEW p \in Pockets PROVE Series(k, "budget", p)[n] \in Nat
          OBVIOUS
        <5>1. Series(k, "budget", p)[n] \in Int
          BY <2>1, <2>2, SeriesRuns DEF Runs, Planes
        <5>2. Series(k, "budget", p)[n] >= 0
          BY <2>1, <2>2 DEF NonNegative
        <5> QED BY <5>1, <5>2
      <4>2. Reserved(k, "budget", n) = OverPockets(held)
        BY DEF Reserved
      <4> HIDE DEF held
      <4> QED BY <4>1, <4>2, SumNat
    <3> QED BY <3>2, <3>3, <3>4 DEF Max0
  <2>7. Floor(Shared(k, n))
    BY <2>1, <2>2, <2>5, <2>6, SharedFloor
  <2>8. c[n] = Shared(k, n) /\ n \in 0 .. MaxMonth
    BY <2>1, <2>2
  <2> HIDE DEF Floor
  <2>9. Floor(c[n])
    BY <2>7, <2>8
  <2> QED BY <2>8, <2>9 DEF n
<1>5. \A m \in 0 .. MaxMonth : m \in S
  <2> HIDE DEF S
  <2> QED BY <1>2, <1>3, <1>4, UpTo
<1> QED BY <1>1, <1>2, <1>5

\* Sharing out the withdrawals of no pocket leaves the balance of the plan as it
\* was, leaves nothing to share, and takes no pocket below zero where the rule
\* before it allowed them (convertPlannedRetiros).
THEOREM ConversionAlwaysConserves == Spec => []ConversionConserves
<1>1. ASSUME TypeOK PROVE ConversionConserves
  <2>1. StartType(start) /\ ledger \in Ledgers
    BY <1>1, StoredNoWorse
  <2>2. /\ Balance(Converted(ledger), "budget") = Balance(ledger, "budget")
        /\ Converted(Converted(ledger)) = Converted(ledger)
    BY <2>1, ConvertedBalance
  <2>3. ASSUME \A m \in Months : ledger.global[m] <= PlannedLimit(ledger, m)
                                 /\ \A p \in Pockets : ledger.plan[p][m] = 0
        PROVE  \A p \in Pockets : NonNegative(Converted(ledger), "budget", p)
    BY <2>1, <2>3, ConvertedFloor
  <2> QED BY <2>2, <2>3 DEF ConversionConserves
<1>2. TypeOK => ConversionConserves
  BY <1>1
<1> QED BY <1>2, TypeAlwaysOK, PTL

-----------------------------------------------------------------------------
(* What a change of one month does to the chain *)

\* What a change a of month m takes from the opening of month j: nothing before
\* it, nor from the month declared as the start on.
Passed(s, m, j, a) == IF j > m /\ ~(m < s.month /\ s.month <= j) THEN a ELSE 0

\* The same month in two chains, the second with more used in month m.
Moved(s, x, y, m, a, j) ==
  \E o, f, n \in Int :
    /\ x = MonthOf(o, f, n)
    /\ y = MonthOf(o - Passed(s, m, j, a), f, n + (IF j = m THEN a ELSE 0))

LEMMA ScanMoved ==
  ASSUME NEW s, StartType(s), NEW l \in Ledgers, NEW k \in Ledgers, NEW pl \in Planes,
         NEW m \in Months, NEW a \in Int, k.flow[pl] = l.flow[pl],
         Net(k, pl, m) = Net(l, pl, m) + a,
         \A j \in Months \ {m} : Net(k, pl, j) = Net(l, pl, j)
  PROVE  \A j \in Months : Moved(s, ScanAt(s, l, pl)[j], ScanAt(s, k, pl)[j], m, a, j)
<1> DEFINE x == ScanAt(s, l, pl)
           y == ScanAt(s, k, pl)
           flow == l.flow[pl]
           net == Nets(l, pl)
           next == Nets(k, pl)
           before(scan, j) == Opens(s, j, IF j = 1 THEN 0 ELSE scan[j - 1].carry)
           left(j) == IF j = m THEN a ELSE Passed(s, m, j, a)
           S == {j \in Months : y[j].carry = x[j].carry - left(j)}
<1>1. Scans(x, s, flow, net) /\ Scans(y, s, flow, next)
  BY ScanScans
<1>2. \A j \in Months : flow[j] \in Int /\ net[j] \in Int /\ next[j] = net[j] + (IF j = m THEN a ELSE 0)
  BY LedgerParts, SumsOfLedger DEF Nets
<1> HIDE DEF x, y, flow, net, next
<1>3. \A j \in Months : x[j].carry \in Int /\ y[j].carry \in Int
  BY <1>1 DEF Scans, MonthRecords
<1>4. ASSUME NEW j \in Months
      PROVE  /\ x[j] = MonthOf(before(x, j), flow[j], net[j])
             /\ y[j] = MonthOf(before(y, j), flow[j], net[j] + (IF j = m THEN a ELSE 0))
             /\ before(x, j) \in Int
  <2>1. j = 1 \/ j - 1 \in Months
    BY MonthType DEF Months
  <2>2. (IF j = 1 THEN 0 ELSE x[j - 1].carry) \in Int
    BY <1>3, <2>1
  <2>3. before(x, j) \in Int
    BY <2>2, OpensInt
  <2> QED BY <1>1, <1>2, <2>3 DEF Scans
<1>5. ASSUME NEW j \in Months, j = 1 \/ j - 1 \in S
      PROVE  before(y, j) = before(x, j) - Passed(s, m, j, a)
  <2>1. j \in Nat /\ m \in Nat /\ s.month \in Nat /\ m >= 1 /\ j >= 1
    BY MonthType DEF StartType, Months
  <2>2. CASE s.month = j
    <3>1. before(y, j) = s.amount /\ before(x, j) = s.amount /\ s.amount \in Int
      BY <2>2 DEF Opens, StartType
    <3>2. Passed(s, m, j, a) = 0
      BY <2>1, <2>2 DEF Passed
    <3> QED BY <3>1, <3>2
  <2>3. CASE s.month # j /\ j = 1
    <3>1. before(y, j) = 0 /\ before(x, j) = 0
      BY <2>3 DEF Opens
    <3>2. Passed(s, m, j, a) = 0
      BY <2>1, <2>3 DEF Passed
    <3> QED BY <3>1, <3>2
  <2>4. CASE s.month # j /\ j # 1
    <3>1. before(y, j) = y[j - 1].carry /\ before(x, j) = x[j - 1].carry
      BY <2>4 DEF Opens
    <3>2. y[j - 1].carry = x[j - 1].carry - left(j - 1)
      BY <1>5, <2>4
    <3>3. left(j - 1) = Passed(s, m, j, a)
      BY <2>1, <2>4 DEF Passed
    <3> QED BY <3>1, <3>2, <3>3
  <2> QED BY <2>2, <2>3, <2>4
<1>6. ASSUME NEW j \in Months, j = 1 \/ j - 1 \in S PROVE j \in S
  <2> DEFINE o == before(x, j)
             d == Passed(s, m, j, a)
  <2>1. x[j] = MonthOf(o, flow[j], net[j]) /\ y[j] = MonthOf(o - d, flow[j], net[j] + (IF j = m THEN a ELSE 0))
    BY <1>4, <1>5, <1>6
  <2>2. o \in Int /\ d \in Int /\ flow[j] \in Int /\ net[j] \in Int /\ (j = m => d = 0)
    BY <1>2, <1>4, MonthType DEF Passed
  <2> HIDE DEF o, d
  <2>3. x[j].carry = (o + flow[j]) - net[j] /\ y[j].carry = ((o - d) + flow[j]) - (net[j] + (IF j = m THEN a ELSE 0))
    BY <2>1 DEF MonthOf
  <2>4. left(j) = IF j = m THEN a ELSE d
    BY DEF d
  <2> HIDE DEF left
  <2>5. y[j].carry = x[j].carry - left(j)
    BY <2>2, <2>3, <2>4
  <2> QED BY <2>5
<1>7. \A j \in Months : j \in S
  <2>1. 1 \in S
    BY <1>6, MonthType
  <2>2. ASSUME NEW j \in Months, j \in S, j + 1 \in Months PROVE j + 1 \in S
    <3>1. (j + 1) - 1 = j
      BY MonthType
    <3> HIDE DEF S
    <3> QED BY <1>6, <2>2, <3>1
  <2> HIDE DEF S
  <2> QED BY <2>1, <2>2, ByMonth
<1>8. ASSUME NEW j \in Months PROVE Moved(s, x[j], y[j], m, a, j)
  <2>1. j = 1 \/ j - 1 \in S
    <3>1. j = 1 \/ j - 1 \in Months
      BY MonthType DEF Months
    <3> QED BY <1>7, <3>1
  <2> DEFINE o == before(x, j)
  <2>2. x[j] = MonthOf(o, flow[j], net[j])
        /\ y[j] = MonthOf(o - Passed(s, m, j, a), flow[j], net[j] + (IF j = m THEN a ELSE 0))
    BY <1>4, <1>5, <2>1
  <2>3. o \in Int /\ flow[j] \in Int /\ net[j] \in Int
    BY <1>2, <1>4
  <2> HIDE DEF o
  <2> QED BY <2>2, <2>3 DEF Moved
<1> QED BY <1>8 DEF x, y

\* A month in which less is used is no worse, nor are the ones after it.
LEMMA LessIsNoWorse ==
  ASSUME NEW s, StartType(s), NEW x, NEW y, NEW m \in Months, NEW j \in Months, NEW a \in Int, a <= 0,
         Moved(s, x, y, m, a, j)
  PROVE  y.excess <= x.excess /\ y.deficit <= x.deficit
<1>1. PICK o, f, n \in Int :
        /\ x = MonthOf(o, f, n)
        /\ y = MonthOf(o - Passed(s, m, j, a), f, n + (IF j = m THEN a ELSE 0))
  BY DEF Moved
<1> DEFINE d == Passed(s, m, j, a)
           e == IF j = m THEN a ELSE 0
<1>2. d \in Int /\ d <= 0 /\ e \in Int /\ e <= 0
  BY DEF Passed
<1> HIDE DEF d, e
<1>3. /\ x.excess = Max0(n - Max0(o + f)) /\ x.deficit = Max0(n - (o + f))
      /\ y.excess = Max0((n + e) - Max0((o - d) + f)) /\ y.deficit = Max0((n + e) - ((o - d) + f))
  BY <1>1 DEF MonthOf, d, e
<1> QED BY <1>2, <1>3 DEF Max0

-----------------------------------------------------------------------------
(* The maximum of a withdrawal *)

LEMMA LeastMin ==
  ASSUME NEW T \in SUBSET Nat, T # {} PROVE Min(T) \in T /\ \A x \in T : Min(T) <= x
<1>1. \E x \in T : \A y \in T : x <= y
  BY Least
<1> QED BY <1>1 DEF Min

LEMMA MaxWithdrawalOf ==
  ASSUME NEW l \in Ledgers, NEW pl \in Planes, NEW p \in Pockets, NEW m \in Months, NonNegative(l, pl, p)
  PROVE  /\ MaxWithdrawal(l, pl, p, m) \in Nat
         /\ \A k \in Months : k >= m => MaxWithdrawal(l, pl, p, m) <= Series(l, pl, p)[k]
         /\ \E k \in Months : k >= m /\ MaxWithdrawal(l, pl, p, m) = Series(l, pl, p)[k]
<1> DEFINE s == Series(l, pl, p)
           T == {s[k] : k \in m .. MaxMonth}
<1>1. m \in Nat /\ MaxMonth \in Nat /\ m <= MaxMonth /\ \A k : k \in m .. MaxMonth <=> k \in Months /\ k >= m
  BY MonthType DEF Months
<1>2. \A k \in Months : s[k] \in Nat
  <2>1. \A k \in Months : s[k] \in Int /\ s[k] >= 0
    BY SeriesRuns DEF Runs, NonNegative
  <2> QED BY <2>1
<1> HIDE DEF s
<1>3. T \in SUBSET Nat /\ T # {}
  BY <1>1, <1>2
<1>4. Min(T) \in T /\ \A x \in T : Min(T) <= x
  <2> HIDE DEF T
  <2> QED BY <1>3, LeastMin
<1>5. MaxWithdrawal(l, pl, p, m) = Max0(Min(T))
  BY DEF MaxWithdrawal, s
<1>6. MaxWithdrawal(l, pl, p, m) = Min(T) /\ Min(T) \in Nat
  <2> HIDE DEF T
  <2> DEFINE least == Min(T)
  <2>1. least \in Nat
    BY <1>3, <1>4
  <2>2. Max0(least) = least
    <3> HIDE DEF least
    <3> QED BY <2>1 DEF Max0
  <2> QED BY <1>5, <2>1, <2>2
<1> QED BY <1>1, <1>4, <1>6 DEF s

\* Taking a out of a pocket in month m is allowed when that month and the later
\* ones hold as much, and only then.
LEMMA TakenOut ==
  ASSUME StartType(start), NEW l \in Ledgers, NEW k \in Ledgers, NEW pl \in Planes, NEW p \in Pockets,
         NEW m \in Months, NEW a \in Nat, NonNegative(l, pl, p),
         k.flow = l.flow, Net(k, pl, m) = Net(l, pl, m) - a,
         \A j \in Months \ {m} : Net(k, pl, j) = Net(l, pl, j),
         Change(k, pl, p, m) = Change(l, pl, p, m) - a,
         \A j \in Months \ {m} : Change(k, pl, p, j) = Change(l, pl, p, j)
  PROVE  Allowed(l, k, pl, {p}) <=> \A j \in Months : j >= m => a <= Series(l, pl, p)[j]
<1> DEFINE b == - a
           s == Series(l, pl, p)
           t == Series(k, pl, p)
           c == Changes(l, pl, p)
           d == Changes(k, pl, p)
<1>1. b \in Int /\ b <= 0
  OBVIOUS
<1>2. NoWorse(start, l, k, pl)
  <2>1. Net(k, pl, m) = Net(l, pl, m) + b
    BY SumsOfLedger
  <2>2. \A j \in Months : Moved(start, ScanAt(start, l, pl)[j], ScanAt(start, k, pl)[j], m, b, j)
    <3> HIDE DEF b
    <3> QED BY <1>1, <2>1, ScanMoved
  <2> HIDE DEF b
  <2> QED BY <1>1, <2>2, LessIsNoWorse DEF NoWorse
<1>3. Allowed(l, k, pl, {p}) <=> FloorBroken(k, pl, {p}) = {}
  <2>1. Worsened(l, k, pl) = {}
    BY <1>2, WorsenedNone
  <2> QED BY <2>1 DEF Allowed, ChainCheck
<1>4. Runs(s, c) /\ Runs(t, d)
  BY SeriesRuns
<1>5. (\A j \in Months : c[j] \in Int) /\ d[m] = c[m] + b /\ \A j \in Months \ {m} : d[j] = c[j]
  BY ChangeInt DEF Changes
<1>6. \A j \in Months : s[j] \in Int /\ s[j] >= 0
  BY SeriesRuns DEF Runs, NonNegative
<1>7. \A j \in Months : t[j] = s[j] + (IF j < m THEN 0 ELSE b)
  <2> HIDE DEF s, t, c, d, b
  <2> QED BY <1>1, <1>4, <1>5, RunsShift
<1>8. \A j \in Months : j \in Nat /\ m \in Nat
  BY MonthType
<1>9. (\A j \in Months : t[j] >= 0) <=> \A j \in Months : j >= m => a <= s[j]
  <2>1. ASSUME NEW j \in Months PROVE t[j] >= 0 <=> (j >= m => a <= s[j])
    <3> HIDE DEF s, t
    <3> QED BY <1>6, <1>7, <1>8
  <2> HIDE DEF s, t
  <2> QED BY <2>1
<1>10. FloorBroken(k, pl, {p}) = {} <=> \A j \in Months : t[j] >= 0
  <2>1. ASSUME FloorBroken(k, pl, {p}) = {} PROVE \A j \in Months : t[j] >= 0
    <3>1. NonNegative(k, pl, p)
      <4>1. p \in {p}
        OBVIOUS
      <4> QED BY <2>1, <4>1, FloorAllowed
    <3> QED BY <3>1 DEF NonNegative
  <2>2. ASSUME \A j \in Months : t[j] >= 0 PROVE FloorBroken(k, pl, {p}) = {}
    <3>1. \A f \in Floors(k, pl, {p}) : ~(f.limit < 0)
      <4>1. \A j \in Months : ~(t[j] < 0)
        BY <1>4, <2>2 DEF Runs
      <4>2. \A f \in Floors(k, pl, {p}) : \E j \in Months : f.limit = t[j]
        BY DEF Floors
      <4> QED BY <4>1, <4>2
    <3> QED BY <3>1 DEF FloorBroken
  <2> QED BY <2>1, <2>2
<1> QED BY <1>3, <1>9, <1>10

LEMMA MaxWithdrawalFits ==
  ASSUME NEW l \in Ledgers, NEW pl \in Planes, NEW p \in Pockets, NEW m \in Months, NonNegative(l, pl, p)
  PROVE  /\ \A j \in Months : j >= m => MaxWithdrawal(l, pl, p, m) <= Series(l, pl, p)[j]
         /\ ~ \A j \in Months : j >= m => MaxWithdrawal(l, pl, p, m) + 1 <= Series(l, pl, p)[j]
BY MaxWithdrawalOf

\* A withdrawal of what is real.
LEMMA OutCandidate ==
  ASSUME NEW l \in Ledgers, NEW p \in Pockets, NEW m \in Months, NEW a \in Nat,
         NEW k, k = WithOp(l, p, Available, m, l.ops[p][Available][m] + a)
  PROVE  /\ k \in Ledgers /\ k.flow = l.flow
         /\ Net(k, "actual", m) = Net(l, "actual", m) - a
         /\ \A j \in Months \ {m} : Net(k, "actual", j) = Net(l, "actual", j)
         /\ Change(k, "actual", p, m) = Change(l, "actual", p, m) - a
         /\ \A j \in Months \ {m} : Change(k, "actual", p, j) = Change(l, "actual", p, j)
<1>1. Available \in Ends /\ Available \notin Pockets /\ "actual" \in Planes /\ l.ops[p][Available][m] \in Nat
  BY ReserveAssumption, LedgerParts DEF Ends, Planes
<1>2. /\ k \in Ledgers /\ k.flow = l.flow /\ k.cells = l.cells
      /\ k.ops[p][Available][m] = l.ops[p][Available][m] + a
      /\ \A x \in Pockets, y \in Ends, j \in Months :
           <<x, y, j>> # <<p, Available, m>> => k.ops[x][y][j] = l.ops[x][y][j]
  <2> DEFINE v == l.ops[p][Available][m] + a
  <2>1. v \in Nat /\ k = WithOp(l, p, Available, m, v)
    BY <1>1
  <2> HIDE DEF v
  <2>2. /\ k \in Ledgers /\ k.flow = l.flow /\ k.cells = l.cells
        /\ k.ops[p][Available][m] = v
    BY <1>1, <2>1, WithOpChanges
  <2>3. ASSUME NEW x \in Pockets, NEW y \in Ends, NEW j \in Months, <<x, y, j>> # <<p, Available, m>>
        PROVE  k.ops[x][y][j] = l.ops[x][y][j]
    <3> DEFINE e == Available
    <3>1. e \in Ends
      BY <1>1
    <3> HIDE DEF e
    <3>3. v \in Nat
      BY <2>1
    <3>4. \A q \in Pockets, f \in Ends, n \in Months : <<q, f, n>> # <<p, e, m>> =>
            WithOp(l, p, e, m, v).ops[q][f][n] = l.ops[q][f][n]
      BY <3>1, <3>3, WithOpChanges
    <3>2. WithOp(l, p, Available, m, v).ops[x][y][j] = l.ops[x][y][j]
      BY <2>3, <3>4 DEF e
    <3> QED BY <2>1, <3>2
  <2> QED BY <2>2, <2>3 DEF v
<1>3. \A q, r \in Pockets, j \in Months : k.ops[q][r][j] = l.ops[q][r][j]
  <2> SUFFICES ASSUME NEW q \in Pockets, NEW r \in Pockets, NEW j \in Months
               PROVE  k.ops[q][r][j] = l.ops[q][r][j]
    OBVIOUS
  <2>1. r \in Ends /\ r # Available
    BY <1>1 DEF Ends
  <2> QED BY <1>2, <2>1
<1>4. ASSUME NEW j \in Months
      PROVE  /\ Ins(k, p, j) = Ins(l, p, j) /\ Outs(k, p, j) = Outs(l, p, j) + (IF j = m THEN a ELSE 0)
             /\ k.ops[p][Available][j] = l.ops[p][Available][j] + (IF j = m THEN a ELSE 0)
             /\ l.ops[p][Available][j] \in Nat
  <2> DEFINE out(z) == [q \in Pockets |-> z.ops[p][q][j]]
             in(z) == [q \in Pockets |-> z.ops[q][p][j]]
             e == IF j = m THEN a ELSE 0
  <2>1. out(k) = out(l) /\ in(k) = in(l)
    BY <1>3
  <2>2. \A z : Outs(z, p, j) = z.ops[p][Available][j] + OverPockets(out(z)) /\ Ins(z, p, j) = OverPockets(in(z))
    BY DEF Ins, Outs
  <2>3. \A q \in Pockets : out(l)[q] \in Int
    BY LedgerParts DEF Ends
  <2> HIDE DEF out, in
  <2>4. OverPockets(out(l)) \in Int
    BY <2>3, SumInt DEF Ints
  <2>5. l.ops[p][Available][j] \in Nat
    BY <1>1, LedgerParts
  <2>6. e \in Int
    OBVIOUS
  <2>7. k.ops[p][Available][j] = l.ops[p][Available][j] + e
    <3>1. CASE j = m
      BY <1>2, <3>1
    <3>2. CASE j # m
      <4>1. e = 0 /\ k.ops[p][Available][j] = l.ops[p][Available][j]
        BY <1>1, <1>2, <3>2
      <4> QED BY <2>5, <4>1
    <3> QED BY <3>1, <3>2
  <2> HIDE DEF e
  <2>8. Outs(k, p, j) = Outs(l, p, j) + e /\ Ins(k, p, j) = Ins(l, p, j)
    BY <2>1, <2>2, <2>4, <2>5, <2>6, <2>7
  <2> QED BY <2>5, <2>7, <2>8 DEF e
<1>5. \A j \in Months : Change(k, "actual", p, j) = Change(l, "actual", p, j) - (IF j = m THEN a ELSE 0)
  <2> SUFFICES ASSUME NEW j \in Months
               PROVE  Change(k, "actual", p, j) = Change(l, "actual", p, j) - (IF j = m THEN a ELSE 0)
    OBVIOUS
  <2>1. \A z : Change(z, "actual", p, j) = z.cells["actual"][p][j] + (Ins(z, p, j) - Outs(z, p, j))
    BY DEF Change
  <2>2. l.cells["actual"][p][j] \in Nat /\ Ins(l, p, j) \in Nat /\ Outs(l, p, j) \in Nat
    BY <1>1, LedgerParts, OutsIns
  <2> DEFINE e == IF j = m THEN a ELSE 0
  <2>3. e \in Int /\ Outs(k, p, j) = Outs(l, p, j) + e /\ Ins(k, p, j) = Ins(l, p, j)
    BY <1>4
  <2>4. k.cells["actual"][p][j] = l.cells["actual"][p][j]
    BY <1>2
  <2> HIDE DEF e
  <2>5. Change(k, "actual", p, j) = Change(l, "actual", p, j) - e
    BY <2>1, <2>2, <2>3, <2>4
  <2> QED BY <2>5 DEF e
<1>6. \A j \in Months : Net(k, "actual", j) = Net(l, "actual", j) - (IF j = m THEN a ELSE 0)
  <2> SUFFICES ASSUME NEW j \in Months
               PROVE  Net(k, "actual", j) = Net(l, "actual", j) - (IF j = m THEN a ELSE 0)
    OBVIOUS
  <2> DEFINE out(z) == [q \in Pockets |-> z.ops[q][Available][j]]
             set(z) == [q \in Pockets |-> z.cells["actual"][q][j]]
             e == IF j = m THEN a ELSE 0
  <2>1. set(k) = set(l) /\ \A z : Net(z, "actual", j) = OverPockets(set(z)) - OverPockets(out(z))
    BY <1>2 DEF Net, Contributions, Withdrawals
  <2>2. (\A q \in Pockets : out(l)[q] \in Int) /\ \A q \in Pockets : set(l)[q] \in Int
    BY <1>1, LedgerParts
  <2>3. out(k)[p] = out(l)[p] + e /\ \A q \in Pockets \ {p} : out(k)[q] = out(l)[q]
    <3>1. out(k)[p] = out(l)[p] + e
      BY <1>4
    <3>2. ASSUME NEW q \in Pockets \ {p} PROVE out(k)[q] = out(l)[q]
      BY <1>1, <1>2
    <3> QED BY <3>1, <3>2
  <2>4. e \in Int
    OBVIOUS
  <2> HIDE DEF out, set, e
  <2>5. OverPockets(out(k)) = OverPockets(out(l)) + e
    BY <2>2, <2>3, <2>4, SumOne DEF Ints
  <2>6. OverPockets(out(l)) \in Int /\ OverPockets(set(l)) \in Int
    BY <2>2, SumInt DEF Ints
  <2>7. Net(k, "actual", j) = Net(l, "actual", j) - e
    BY <2>1, <2>4, <2>5, <2>6
  <2> QED BY <2>7 DEF e
<1>7. ASSUME NEW j \in Months PROVE Net(l, "actual", j) \in Int /\ Change(l, "actual", p, j) \in Int
  BY <1>1, SumsOfLedger, ChangeInt
<1>9. Net(k, "actual", m) = Net(l, "actual", m) - a /\ Change(k, "actual", p, m) = Change(l, "actual", p, m) - a
  BY <1>5, <1>6
<1>10. ASSUME NEW j \in Months \ {m}
       PROVE  Net(k, "actual", j) = Net(l, "actual", j) /\ Change(k, "actual", p, j) = Change(l, "actual", p, j)
  BY <1>5, <1>6, <1>7
<1> QED BY <1>2, <1>9, <1>10

\* A planned withdrawal.
LEMMA PlanCandidate ==
  ASSUME NEW l \in Ledgers, NEW p \in Pockets, NEW m \in Months, NEW a \in Nat,
         NEW k, k = WithPlan(l, p, m, l.plan[p][m] + a)
  PROVE  /\ k \in Ledgers /\ k.flow = l.flow
         /\ Net(k, "budget", m) = Net(l, "budget", m) - a
         /\ \A j \in Months \ {m} : Net(k, "budget", j) = Net(l, "budget", j)
         /\ Change(k, "budget", p, m) = Change(l, "budget", p, m) - a
         /\ \A j \in Months \ {m} : Change(k, "budget", p, j) = Change(l, "budget", p, j)
<1>1. "budget" \in Planes /\ l.plan[p][m] \in Nat
  BY LedgerParts DEF Planes
<1>2. /\ k \in Ledgers /\ k.flow = l.flow /\ k.cells = l.cells /\ k.global = l.global
      /\ k.plan[p][m] = l.plan[p][m] + a
      /\ \A q \in Pockets, j \in Months : <<q, j>> # <<p, m>> => k.plan[q][j] = l.plan[q][j]
  <2> DEFINE v == l.plan[p][m] + a
  <2>1. v \in Nat /\ k = WithPlan(l, p, m, v)
    BY <1>1
  <2> HIDE DEF v
  <2>2. /\ k \in Ledgers /\ k.flow = l.flow /\ k.cells = l.cells /\ k.global = l.global
        /\ k.plan[p][m] = v
        /\ \A q \in Pockets, j \in Months : <<q, j>> # <<p, m>> => k.plan[q][j] = l.plan[q][j]
    BY <2>1, WithPlanChanges
  <2> QED BY <2>2 DEF v
<1>3. ASSUME NEW j \in Months
      PROVE  /\ Change(k, "budget", p, j) = Change(l, "budget", p, j) - (IF j = m THEN a ELSE 0)
             /\ Net(k, "budget", j) = Net(l, "budget", j) - (IF j = m THEN a ELSE 0)
  <2> DEFINE out(z) == [q \in Pockets |-> z.plan[q][j]]
             set(z) == [q \in Pockets |-> z.cells["budget"][q][j]]
             e == IF j = m THEN a ELSE 0
  <2>1. e \in Int /\ l.plan[p][j] \in Nat /\ l.cells["budget"][p][j] \in Nat /\ l.global[j] \in Nat
    BY <1>1, LedgerParts
  <2>2. k.plan[p][j] = l.plan[p][j] + e
    <3>1. CASE j = m
      BY <1>2, <3>1
    <3>2. CASE j # m
      <4>1. e = 0 /\ k.plan[p][j] = l.plan[p][j]
        BY <1>2, <3>2
      <4> QED BY <2>1, <4>1
    <3> QED BY <3>1, <3>2
  <2>3. \A q \in Pockets \ {p} : k.plan[q][j] = l.plan[q][j]
    BY <1>2
  <2>4. \A z : Change(z, "budget", p, j) = z.cells["budget"][p][j] + (- z.plan[p][j])
    BY DEF Change
  <2>5. set(k) = set(l) /\ \A z : Net(z, "budget", j) = OverPockets(set(z)) - (OverPockets(out(z)) + z.global[j])
    BY <1>2 DEF Net, Contributions, Withdrawals
  <2>6. (\A q \in Pockets : out(l)[q] \in Int) /\ \A q \in Pockets : set(l)[q] \in Int
    BY <1>1, LedgerParts
  <2>7. out(k)[p] = out(l)[p] + e /\ \A q \in Pockets \ {p} : out(k)[q] = out(l)[q]
    BY <2>2, <2>3
  <2> HIDE DEF e, out, set
  <2>8. Change(k, "budget", p, j) = Change(l, "budget", p, j) - e
    BY <1>2, <2>1, <2>2, <2>4
  <2>9. OverPockets(out(k)) = OverPockets(out(l)) + e
    BY <2>1, <2>6, <2>7, SumOne DEF Ints
  <2>10. OverPockets(out(l)) \in Int /\ OverPockets(set(l)) \in Int
    BY <2>6, SumInt DEF Ints
  <2>11. Net(k, "budget", j) = Net(l, "budget", j) - e
    BY <1>2, <2>1, <2>5, <2>9, <2>10
  <2> QED BY <2>8, <2>11 DEF e
<1>4. ASSUME NEW j \in Months PROVE Net(l, "budget", j) \in Int /\ Change(l, "budget", p, j) \in Int
  BY <1>1, SumsOfLedger, ChangeInt
<1>5. Net(k, "budget", m) = Net(l, "budget", m) - a /\ Change(k, "budget", p, m) = Change(l, "budget", p, m) - a
  BY <1>3
<1>6. ASSUME NEW j \in Months \ {m}
      PROVE  Net(k, "budget", j) = Net(l, "budget", j) /\ Change(k, "budget", p, j) = Change(l, "budget", p, j)
  BY <1>3, <1>4
<1> QED BY <1>2, <1>5, <1>6

\* In what is real and in the plan.
LEMMA WithdrawalsExact ==
  ASSUME StartType(start), ledger \in Ledgers, \A p \in Pockets : NonNegative(ledger, "actual", p)
  PROVE  MaxWithdrawalExact
<1> SUFFICES ASSUME NEW p \in Pockets, NEW m \in Months
             PROVE  LET top(pl) == MaxWithdrawal(ledger, pl, p, m)
                        out(a) == WithOp(ledger, p, Available, m, ledger.ops[p][Available][m] + a)
                        planned(a) == WithPlan(ledger, p, m, ledger.plan[p][m] + a)
                        real(a) == Allowed(ledger, out(a), "actual", {p})
                        plan(a) == Allowed(ledger, planned(a), "budget", {p})
                    IN  /\ "actual" \in planes => real(top("actual")) /\ ~real(top("actual") + 1)
                        /\ "budget" \in planes /\ NonNegative(ledger, "budget", p) =>
                             plan(top("budget")) /\ ~plan(top("budget") + 1)
  BY DEF MaxWithdrawalExact
<1> DEFINE out(a) == WithOp(ledger, p, Available, m, ledger.ops[p][Available][m] + a)
           planned(a) == WithPlan(ledger, p, m, ledger.plan[p][m] + a)
<1>1. "actual" \in Planes /\ "budget" \in Planes
  BY DEF Planes
<1>2. ASSUME NEW a \in Nat
      PROVE  Allowed(ledger, out(a), "actual", {p}) <=> \A j \in Months : j >= m => a <= Series(ledger, "actual", p)[j]
  <2> DEFINE k == out(a)
  <2>1. k = WithOp(ledger, p, Available, m, ledger.ops[p][Available][m] + a)
    OBVIOUS
  <2> HIDE DEF k
  <2> QED BY <1>1, <2>1, OutCandidate, TakenOut DEF k
<1>3. ASSUME NEW a \in Nat, NonNegative(ledger, "budget", p)
      PROVE  Allowed(ledger, planned(a), "budget", {p}) <=> \A j \in Months : j >= m => a <= Series(ledger, "budget", p)[j]
  <2> DEFINE k == planned(a)
  <2>1. k = WithPlan(ledger, p, m, ledger.plan[p][m] + a)
    OBVIOUS
  <2> HIDE DEF k
  <2> QED BY <1>1, <1>3, <2>1, PlanCandidate, TakenOut DEF k
<1> HIDE DEF out, planned
<1>4. Allowed(ledger, out(MaxWithdrawal(ledger, "actual", p, m)), "actual", {p})
      /\ ~Allowed(ledger, out(MaxWithdrawal(ledger, "actual", p, m) + 1), "actual", {p})
  <2> DEFINE top == MaxWithdrawal(ledger, "actual", p, m)
  <2>1. top \in Nat /\ top + 1 \in Nat
    BY <1>1, MaxWithdrawalOf
  <2>2. /\ \A j \in Months : j >= m => top <= Series(ledger, "actual", p)[j]
        /\ ~ \A j \in Months : j >= m => top + 1 <= Series(ledger, "actual", p)[j]
    BY <1>1, MaxWithdrawalFits
  <2> HIDE DEF top
  <2> QED BY <1>2, <2>1, <2>2 DEF top
<1>5. ASSUME NonNegative(ledger, "budget", p)
      PROVE  Allowed(ledger, planned(MaxWithdrawal(ledger, "budget", p, m)), "budget", {p})
             /\ ~Allowed(ledger, planned(MaxWithdrawal(ledger, "budget", p, m) + 1), "budget", {p})
  <2> DEFINE top == MaxWithdrawal(ledger, "budget", p, m)
  <2>1. top \in Nat /\ top + 1 \in Nat
    BY <1>1, <1>5, MaxWithdrawalOf
  <2>2. /\ \A j \in Months : j >= m => top <= Series(ledger, "budget", p)[j]
        /\ ~ \A j \in Months : j >= m => top + 1 <= Series(ledger, "budget", p)[j]
    BY <1>1, <1>5, MaxWithdrawalFits
  <2> HIDE DEF top
  <2> QED BY <1>3, <1>5, <2>1, <2>2 DEF top
<1> QED BY <1>4, <1>5 DEF out, planned

-----------------------------------------------------------------------------
(* The maximum of a contribution *)

\* The figures x of month j, and y of the same month with a more used in month m.
Figures(s, x, y, m, a, j, g, n, d, e) ==
  /\ x.margin = Max0(g) /\ x.net = n /\ x.carry = g - n
  /\ x.excess = Max0(n - Max0(g)) /\ x.deficit = Max0(n - g)
  /\ y.excess = Max0((n + e) - Max0(g - d)) /\ y.deficit = Max0((n + e) - (g - d))
  /\ d \in {0, a} /\ e = (IF j = m THEN a ELSE 0)
  /\ j <= m => d = 0
  /\ j > m /\ s.month <= m => d = a

LEMMA MovedFigures ==
  ASSUME NEW s, StartType(s), NEW x, NEW y, NEW m \in Months, NEW j \in Months, NEW a \in Nat,
         Moved(s, x, y, m, a, j)
  PROVE  \E g, n, d, e \in Int : Figures(s, x, y, m, a, j, g, n, d, e)
<1>1. PICK o, f, n \in Int :
        /\ x = MonthOf(o, f, n)
        /\ y = MonthOf(o - Passed(s, m, j, a), f, n + (IF j = m THEN a ELSE 0))
  BY DEF Moved
<1> DEFINE d == Passed(s, m, j, a)
           e == IF j = m THEN a ELSE 0
           g == o + f
<1>2. j \in Nat /\ m \in Nat /\ s.month \in Nat
  BY MonthType DEF StartType
<1>3. d \in {0, a} /\ (j <= m => d = 0) /\ (j > m /\ s.month <= m => d = a)
  BY <1>2 DEF Passed
<1>4. d \in Int /\ e \in Int /\ g \in Int
  BY <1>3
<1> HIDE DEF d
<1>5. (o - d) + f = g - d
  BY <1>4
<1>6. /\ x.margin = Max0(g) /\ x.net = n /\ x.carry = g - n
      /\ x.excess = Max0(n - Max0(g)) /\ x.deficit = Max0(n - g)
  BY <1>1 DEF MonthOf
<1>7. y = MonthOf(o - d, f, n + e)
  BY <1>1 DEF d
<1> HIDE DEF e, g
<1>8. y.excess = Max0((n + e) - Max0(g - d)) /\ y.deficit = Max0((n + e) - (g - d))
  BY <1>5, <1>7 DEF MonthOf
<1>9. Figures(s, x, y, m, a, j, g, n, d, e)
  BY <1>3, <1>6, <1>8 DEF Figures, e
<1> QED BY <1>4, <1>9

\* As much as every month from m on leaves available can be used in month m.
LEMMA CarryFits ==
  ASSUME NEW s, StartType(s), NEW x, NEW y, NEW m \in Months, NEW j \in Months, NEW a \in Nat,
         Moved(s, x, y, m, a, j), j < m \/ a <= x.carry
  PROVE  y.excess <= x.excess /\ y.deficit <= x.deficit
<1>1. PICK g, n, d, e \in Int : Figures(s, x, y, m, a, j, g, n, d, e)
  BY MovedFigures
<1>2. j \in Nat /\ m \in Nat
  BY MonthType
<1>3. CASE j < m
  BY <1>1, <1>2, <1>3 DEF Figures, Max0
<1>4. CASE ~(j < m) /\ a <= x.carry
  <2>1. (n + e) - (g - d) <= 0
    BY <1>1, <1>2, <1>4 DEF Figures
  <2> QED BY <1>1, <2>1 DEF Figures, Max0
<1> QED BY <1>3, <1>4

\* Only the months Slack looks at can be worse.
LEMMA WorseMonths ==
  ASSUME NEW s, StartType(s), NEW x, NEW y, NEW m \in Months, NEW j \in Months, NEW a \in Nat,
         Moved(s, x, y, m, a, j)
  PROVE  /\ y.excess > x.excess => j = m \/ (j > m /\ x.margin > 0)
         /\ y.deficit > x.deficit => j >= m
<1>1. PICK g, n, d, e \in Int : Figures(s, x, y, m, a, j, g, n, d, e)
  BY MovedFigures
<1>2. j \in Nat /\ m \in Nat
  BY MonthType
<1>3. CASE j < m
  BY <1>1, <1>2, <1>3 DEF Figures, Max0
<1>4. CASE j = m
  <2>1. j >= m
    BY <1>2, <1>4
  <2>2. j = m \/ (j > m /\ x.margin > 0)
    BY <1>4
  <2> QED BY <2>1, <2>2
<1>5. CASE j > m
  BY <1>1, <1>2, <1>5 DEF Figures, Max0
<1> QED BY <1>2, <1>3, <1>4, <1>5

\* And one more than a month leaves makes it worse.
LEMMA OneMoreWorse ==
  ASSUME NEW s, StartType(s), NEW x, NEW y, NEW m \in Months, NEW j \in Months, NEW slack \in Nat,
         Moved(s, x, y, m, slack + 1, j), s.month <= m
  PROVE  /\ j = m /\ slack = Max0(x.margin - x.net) => y.excess > x.excess
         /\ j > m /\ x.margin > 0 /\ slack = Max0(x.margin - x.net) =>
              y.excess > x.excess \/ (y.deficit > x.deficit /\ slack = Max0(x.carry))
         /\ j >= m /\ slack = Max0(x.carry) => y.deficit > x.deficit
<1> DEFINE a == slack + 1
<1> HIDE DEF a
<1>1. PICK g, n, d, e \in Int : Figures(s, x, y, m, a, j, g, n, d, e)
  <2>1. a \in Nat /\ Moved(s, x, y, m, a, j)
    BY DEF a
  <2> QED BY <2>1, MovedFigures
<1>2. j \in Nat /\ m \in Nat
  BY MonthType
<1>3. CASE j = m
  <2>1. d = 0 /\ e = slack + 1
    BY <1>1, <1>2, <1>3 DEF Figures, a
  <2> QED BY <1>1, <1>2, <1>3, <2>1 DEF Figures, Max0
<1>4. CASE j > m
  <2>1. d = slack + 1 /\ e = 0
    BY <1>1, <1>2, <1>4 DEF Figures, a
  <2> QED BY <1>1, <1>2, <1>4, <2>1 DEF Figures, Max0
<1> QED BY <1>2, <1>3, <1>4
-----------------------------------------------------------------------------

\* A contribution of a more to the pocket p in month m.
LEMMA CellCandidate ==
  ASSUME NEW l \in Ledgers, NEW pl \in Planes, NEW p \in Pockets, NEW m \in Months, NEW a \in Nat,
         NEW k, k = WithCell(l, pl, p, m, l.cells[pl][p][m] + a)
  PROVE  /\ k \in Ledgers /\ k.flow = l.flow
         /\ Net(k, pl, m) = Net(l, pl, m) + a
         /\ \A j \in Months \ {m} : Net(k, pl, j) = Net(l, pl, j)
         /\ Change(k, pl, p, m) = Change(l, pl, p, m) + a
         /\ \A j \in Months \ {m} : Change(k, pl, p, j) = Change(l, pl, p, j)
<1>1. l.cells[pl][p][m] \in Nat
  BY LedgerParts
<1>2. /\ k \in Ledgers /\ k.flow = l.flow /\ k.plan = l.plan /\ k.global = l.global /\ k.ops = l.ops
      /\ k.cells[pl][p][m] = l.cells[pl][p][m] + a
      /\ \A q \in Pockets, j \in Months : <<q, j>> # <<p, m>> => k.cells[pl][q][j] = l.cells[pl][q][j]
  <2> DEFINE v == l.cells[pl][p][m] + a
  <2>1. v \in Nat /\ k = WithCell(l, pl, p, m, v)
    BY <1>1
  <2> HIDE DEF v
  <2>2. /\ k \in Ledgers /\ k.flow = l.flow /\ k.plan = l.plan /\ k.global = l.global /\ k.ops = l.ops
        /\ k.cells[pl][p][m] = v
    BY <2>1, WithCellChanges
  <2>3. ASSUME NEW q \in Pockets, NEW j \in Months, <<q, j>> # <<p, m>>
        PROVE  k.cells[pl][q][j] = l.cells[pl][q][j]
    BY <2>1, <2>3, WithCellChanges
  <2> QED BY <2>2, <2>3 DEF v
<1>3. ASSUME NEW j \in Months
      PROVE  /\ Change(k, pl, p, j) = Change(l, pl, p, j) + (IF j = m THEN a ELSE 0)
             /\ Net(k, pl, j) = Net(l, pl, j) + (IF j = m THEN a ELSE 0)
  <2> DEFINE set(z) == [q \in Pockets |-> z.cells[pl][q][j]]
             e == IF j = m THEN a ELSE 0
             rest == IF pl = "actual" THEN Ins(l, p, j) - Outs(l, p, j) ELSE - l.plan[p][j]
  <2>1. e \in Int /\ l.cells[pl][p][j] \in Nat
    BY LedgerParts
  <2>2. k.cells[pl][p][j] = l.cells[pl][p][j] + e
    <3>1. CASE j = m
      BY <1>2, <3>1
    <3>2. CASE j # m
      <4>1. e = 0 /\ k.cells[pl][p][j] = l.cells[pl][p][j]
        BY <1>2, <3>2
      <4> QED BY <2>1, <4>1
    <3> QED BY <3>1, <3>2
  <2>3. \A q \in Pockets \ {p} : k.cells[pl][q][j] = l.cells[pl][q][j]
    BY <1>2
  <2>4. rest \in Int
    BY OutsIns, LedgerParts
  <2>5. Change(k, pl, p, j) = k.cells[pl][p][j] + rest /\ Change(l, pl, p, j) = l.cells[pl][p][j] + rest
    BY <1>2 DEF Change, Ins, Outs
  <2>6. Withdrawals(k, pl, j) = Withdrawals(l, pl, j) /\ Withdrawals(l, pl, j) \in Int
    <3>1. Withdrawals(k, pl, j) = Withdrawals(l, pl, j)
      BY <1>2, Zenon DEF Withdrawals
    <3> QED BY <3>1, SumsOfLedger
  <2>7. \A z : Net(z, pl, j) = OverPockets(set(z)) - Withdrawals(z, pl, j)
    BY DEF Net, Contributions
  <2>8. \A q \in Pockets : set(l)[q] \in Int
    BY LedgerParts
  <2>9. set(k)[p] = set(l)[p] + e /\ \A q \in Pockets \ {p} : set(k)[q] = set(l)[q]
    BY <2>2, <2>3
  <2> HIDE DEF e, set, rest
  <2>10. Change(k, pl, p, j) = Change(l, pl, p, j) + e
    BY <2>1, <2>2, <2>4, <2>5
  <2>11. OverPockets(set(k)) = OverPockets(set(l)) + e
    BY <2>1, <2>8, <2>9, SumOne DEF Ints
  <2>12. OverPockets(set(l)) \in Int
    BY <2>8, SumInt DEF Ints
  <2>13. Net(k, pl, j) = Net(l, pl, j) + e
    BY <2>1, <2>6, <2>7, <2>11, <2>12
  <2> QED BY <2>10, <2>13 DEF e
<1>4. ASSUME NEW j \in Months PROVE Net(l, pl, j) \in Int /\ Change(l, pl, p, j) \in Int
  BY SumsOfLedger, ChangeInt
<1>5. Net(k, pl, m) = Net(l, pl, m) + a /\ Change(k, pl, p, m) = Change(l, pl, p, m) + a
  BY <1>3
<1>6. ASSUME NEW j \in Months \ {m}
      PROVE  Net(k, pl, j) = Net(l, pl, j) /\ Change(k, pl, p, j) = Change(l, pl, p, j)
  BY <1>3, <1>4
<1> QED BY <1>2, <1>5, <1>6

\* It takes no pocket below zero.
LEMMA PutInFloor ==
  ASSUME NEW l \in Ledgers, NEW k \in Ledgers, NEW pl \in Planes, NEW p \in Pockets,
         NEW m \in Months, NEW a \in Nat, NonNegative(l, pl, p),
         Change(k, pl, p, m) = Change(l, pl, p, m) + a,
         \A j \in Months \ {m} : Change(k, pl, p, j) = Change(l, pl, p, j)
  PROVE  FloorBroken(k, pl, {p}) = {}
<1> DEFINE s == Series(l, pl, p)
           t == Series(k, pl, p)
           c == Changes(l, pl, p)
           d == Changes(k, pl, p)
<1>1. Runs(s, c) /\ Runs(t, d)
  BY SeriesRuns
<1>2. (\A j \in Months : c[j] \in Int) /\ d[m] = c[m] + a /\ (\A j \in Months \ {m} : d[j] = c[j]) /\ a \in Int
  BY ChangeInt DEF Changes
<1>3. \A j \in Months : s[j] \in Int /\ s[j] >= 0
  BY SeriesRuns DEF Runs, NonNegative
<1>4. \A f \in Floors(k, pl, {p}) : \E j \in Months : f.limit = t[j]
  BY DEF Floors
<1> HIDE DEF s, t, c, d
<1>5. \A j \in Months : t[j] = s[j] + (IF j < m THEN 0 ELSE a)
  BY <1>1, <1>2, RunsShift
<1>6. \A j \in Months : ~(t[j] < 0)
  BY <1>3, <1>5
<1> QED BY <1>4, <1>6 DEF FloorBroken
\* What Slack is the least of.
LEMMA SlackLimits ==
  ASSUME StartType(start), NEW l \in Ledgers, NEW pl \in Planes, NEW m \in Months, NEW x, x = Scan(l, pl)
  PROVE  /\ Slack(l, pl, m) \in Nat
         /\ Slack(l, pl, m) <= Max0(x[m].margin - x[m].net)
         /\ \A k \in Months : k > m /\ x[k].margin > 0 => Slack(l, pl, m) <= Max0(x[k].margin - x[k].net)
         /\ \A k \in Months : k >= m => Slack(l, pl, m) <= Max0(x[k].carry)
         /\ \/ Slack(l, pl, m) = Max0(x[m].margin - x[m].net)
            \/ \E k \in Months : k > m /\ x[k].margin > 0 /\ Slack(l, pl, m) = Max0(x[k].margin - x[k].net)
            \/ \E k \in Months : k >= m /\ Slack(l, pl, m) = Max0(x[k].carry)
<1> DEFINE T == {Max0(x[m].margin - x[m].net)}
                  \cup {Max0(x[k].margin - x[k].net) : k \in {j \in Months : j > m /\ x[j].margin > 0}}
                  \cup {Max0(x[k].carry) : k \in m .. MaxMonth}
<1>1. \A k : k \in m .. MaxMonth <=> k \in Months /\ k >= m
  BY MonthType DEF Months
<1>2. \A k \in Months : x[k].margin \in Int /\ x[k].net \in Int /\ x[k].carry \in Int
  BY ScanNow, ScanType DEF MonthRecords
<1>3. \A k \in Months : Max0(x[k].margin - x[k].net) \in Nat /\ Max0(x[k].carry) \in Nat
  BY <1>2 DEF Max0
<1>4. T \in SUBSET Nat /\ T # {}
  BY <1>1, <1>3
<1>5. Slack(l, pl, m) = Min(T)
  BY DEF Slack
<1>6. Min(T) \in T /\ \A y \in T : Min(T) <= y
  <2> HIDE DEF T
  <2> QED BY <1>4, LeastMin
<1>7. Slack(l, pl, m) \in T /\ \A y \in T : Slack(l, pl, m) <= y
  BY <1>5, <1>6
<1> DEFINE slack == Slack(l, pl, m)
<1> HIDE DEF slack
<1>8. slack \in T /\ (\A y \in T : slack <= y) /\ slack \in Nat
  BY <1>4, <1>7 DEF slack
<1>9. /\ slack <= Max0(x[m].margin - x[m].net)
      /\ \A k \in Months : k > m /\ x[k].margin > 0 => slack <= Max0(x[k].margin - x[k].net)
      /\ \A k \in Months : k >= m => slack <= Max0(x[k].carry)
  BY <1>1, <1>8, Zenon
<1>10. \/ slack = Max0(x[m].margin - x[m].net)
       \/ \E k \in Months : k > m /\ x[k].margin > 0 /\ slack = Max0(x[k].margin - x[k].net)
       \/ \E k \in Months : k >= m /\ slack = Max0(x[k].carry)
  BY <1>1, <1>8, Zenon
<1> QED BY <1>8, <1>9, <1>10 DEF slack

\* The maximum itself is accepted.
LEMMA SlackAccepted ==
  ASSUME StartType(start), NEW l \in Ledgers, NEW pl \in Planes, NEW p \in Pockets, NEW m \in Months,
         NonNegative(l, pl, p), Slack(l, pl, m) > 0
  PROVE  ChainCheck(l, WithCell(l, pl, p, m, l.cells[pl][p][m] + Slack(l, pl, m)), pl, {p}) = {}
<1> DEFINE a == Slack(l, pl, m)
           k == WithCell(l, pl, p, m, l.cells[pl][p][m] + a)
           x == ScanAt(start, l, pl)
           y == ScanAt(start, k, pl)
<1>1. a \in Nat /\ a > 0 /\ \A j \in Months : j >= m => a <= Max0(x[j].carry)
  <2>1. x = Scan(l, pl)
    BY ScanNow
  <2> HIDE DEF x
  <2> QED BY <2>1, SlackLimits
<1> HIDE DEF a
<1>2. /\ k \in Ledgers /\ k.flow = l.flow
      /\ Net(k, pl, m) = Net(l, pl, m) + a
      /\ \A j \in Months \ {m} : Net(k, pl, j) = Net(l, pl, j)
      /\ Change(k, pl, p, m) = Change(l, pl, p, m) + a
      /\ \A j \in Months \ {m} : Change(k, pl, p, j) = Change(l, pl, p, j)
  <2>1. k = WithCell(l, pl, p, m, l.cells[pl][p][m] + a)
    OBVIOUS
  <2> HIDE DEF k
  <2> QED BY <1>1, <2>1, CellCandidate
<1> HIDE DEF k
<1>3. a \in Int /\ \A j \in Months : Moved(start, x[j], y[j], m, a, j)
  BY <1>1, <1>2, ScanMoved
<1>4. \A j \in Months : j < m \/ a <= x[j].carry
  <2>1. \A j \in Months : x[j].carry \in Int /\ j \in Nat /\ m \in Nat
    BY MonthType, ScanType DEF MonthRecords
  <2> HIDE DEF x
  <2> QED BY <1>1, <2>1 DEF Max0
<1>5. NoWorse(start, l, k, pl)
  <2>1. ASSUME NEW j \in Months PROVE y[j].excess <= x[j].excess /\ y[j].deficit <= x[j].deficit
    <3>1. Moved(start, x[j], y[j], m, a, j) /\ (j < m \/ a <= x[j].carry)
      BY <1>3, <1>4
    <3> HIDE DEF x, y
    <3> QED BY <1>1, <3>1, CarryFits
  <2> QED BY <2>1 DEF NoWorse
<1>6. Worsened(l, k, pl) = {}
  BY <1>2, <1>5, WorsenedNone
<1>7. FloorBroken(k, pl, {p}) = {}
  BY <1>1, <1>2, PutInFloor
<1>8. ChainCheck(l, k, pl, {p}) = {}
  BY <1>6, <1>7 DEF ChainCheck
<1> QED BY <1>8 DEF k, a

\* Of some violations one is announced.
LEMMA BlockingOne ==
  ASSUME NEW W, W # {}, \A v \in W : v.month \in Nat /\ v.rule \in {"piso", "techo", "deficit"}
  PROVE  Blocking(W) \in W
<1> DEFINE rank(v) == 3 * v.month + RuleOrder[v.rule]
           T == {rank(v) : v \in W}
<1>1. \A v \in W : RuleOrder[v.rule] \in Nat /\ RuleOrder[v.rule] >= 1 /\ RuleOrder[v.rule] <= 3
  BY DEF RuleOrder
<1>2. T \in SUBSET Nat /\ T # {}
  BY <1>1
<1>3. PICK n \in T : \A k \in T : n <= k
  <2> HIDE DEF T
  <2> QED BY <1>2, Least
<1>4. PICK v \in W : n = rank(v)
  BY <1>3
<1>5. ASSUME NEW w \in W
      PROVE  \/ v.month < w.month
             \/ v.month = w.month /\ RuleOrder[v.rule] <= RuleOrder[w.rule]
  <2>1. rank(v) <= rank(w)
    BY <1>3, <1>4
  <2>2. /\ v.month \in Nat /\ w.month \in Nat
        /\ RuleOrder[v.rule] \in Nat /\ RuleOrder[v.rule] >= 1 /\ RuleOrder[v.rule] <= 3
        /\ RuleOrder[w.rule] \in Nat /\ RuleOrder[w.rule] >= 1 /\ RuleOrder[w.rule] <= 3
    BY <1>1
  <2> QED BY <2>1, <2>2
<1> QED BY <1>5 DEF Blocking
\* One more is refused, and the refusal announces the maximum.
LEMMA OneMoreRefused ==
  ASSUME StartType(start), NEW l \in Ledgers, NEW pl \in Planes, NEW p \in Pockets, NEW m \in Months,
         NonNegative(l, pl, p), start.month <= m,
         NEW refused, refused = ChainCheck(l, WithCell(l, pl, p, m, l.cells[pl][p][m] + (Slack(l, pl, m) + 1)), pl, {p})
  PROVE  refused # {} /\ Blocking(refused).limit = Slack(l, pl, m)
<1> DEFINE slack == Slack(l, pl, m)
           a == slack + 1
           k == WithCell(l, pl, p, m, l.cells[pl][p][m] + a)
           x == Scan(l, pl)
           y == Scan(k, pl)
           over == {j \in Months : y[j].excess > x[j].excess}
           short == {j \in Months : y[j].deficit > x[j].deficit}
           limits == {Max0(x[j].margin - x[j].net) : j \in over} \cup {Max0(x[j].carry) : j \in short}
           tops == {[rule |-> "techo", month |-> j, leaf |-> Available, limit |-> Min(limits)] : j \in over}
           holes == {[rule |-> "deficit", month |-> j, leaf |-> Available, limit |-> Min(limits)] : j \in short}
<1>1. /\ slack \in Nat /\ a \in Nat
      /\ slack <= Max0(x[m].margin - x[m].net)
      /\ \A j \in Months : j > m /\ x[j].margin > 0 => slack <= Max0(x[j].margin - x[j].net)
      /\ \A j \in Months : j >= m => slack <= Max0(x[j].carry)
      /\ \/ slack = Max0(x[m].margin - x[m].net)
         \/ \E j \in Months : j > m /\ x[j].margin > 0 /\ slack = Max0(x[j].margin - x[j].net)
         \/ \E j \in Months : j >= m /\ slack = Max0(x[j].carry)
  <2>1. x = Scan(l, pl)
    OBVIOUS
  <2> HIDE DEF x
  <2> QED BY <2>1, SlackLimits
<1>2. refused = ChainCheck(l, k, pl, {p})
  OBVIOUS
<1>3. Worsened(l, k, pl) = tops \cup holes
  BY DEF Worsened
<1> HIDE DEF slack
<1>4. /\ k \in Ledgers /\ k.flow = l.flow
      /\ Net(k, pl, m) = Net(l, pl, m) + a
      /\ \A j \in Months \ {m} : Net(k, pl, j) = Net(l, pl, j)
      /\ Change(k, pl, p, m) = Change(l, pl, p, m) + a
      /\ \A j \in Months \ {m} : Change(k, pl, p, j) = Change(l, pl, p, j)
  <2>1. k = WithCell(l, pl, p, m, l.cells[pl][p][m] + a)
    OBVIOUS
  <2> HIDE DEF k, a
  <2> QED BY <1>1, <2>1, CellCandidate
<1>5. refused = tops \cup holes
  <2>1. FloorBroken(k, pl, {p}) = {}
    <3> HIDE DEF k, a
    <3> QED BY <1>1, <1>4, PutInFloor
  <2> QED BY <1>2, <1>3, <2>1 DEF ChainCheck
<1>6. \A j \in Months : Moved(start, x[j], y[j], m, a, j)
  <2>1. a \in Int
    BY <1>1
  <2>2. \A j \in Months : Moved(start, ScanAt(start, l, pl)[j], ScanAt(start, k, pl)[j], m, a, j)
    <3> HIDE DEF k, a
    <3> QED BY <1>4, <2>1, ScanMoved
  <2> QED BY <2>2, ScanNow
<1>7. \A j \in Months : x[j].margin \in Int /\ x[j].net \in Int /\ x[j].carry \in Int
  BY ScanNow, ScanType DEF MonthRecords
<1> HIDE DEF k, x, y
<1>8. ASSUME NEW j \in Months
      PROVE  /\ y[j].excess > x[j].excess => j = m \/ (j > m /\ x[j].margin > 0)
             /\ y[j].deficit > x[j].deficit => j >= m
  <2> HIDE DEF a
  <2> QED BY <1>1, <1>6, WorseMonths
<1>9. ASSUME NEW j \in Months
      PROVE  /\ j = m /\ slack = Max0(x[j].margin - x[j].net) => y[j].excess > x[j].excess
             /\ j > m /\ x[j].margin > 0 /\ slack = Max0(x[j].margin - x[j].net) =>
                  y[j].excess > x[j].excess \/ (y[j].deficit > x[j].deficit /\ slack = Max0(x[j].carry))
             /\ j >= m /\ slack = Max0(x[j].carry) => y[j].deficit > x[j].deficit
  BY <1>1, <1>6, OneMoreWorse
<1>10. \A z \in limits : z \in Nat /\ slack <= z
  <2>1. ASSUME NEW j \in over PROVE Max0(x[j].margin - x[j].net) \in Nat /\ slack <= Max0(x[j].margin - x[j].net)
    BY <1>1, <1>7, <1>8 DEF Max0
  <2>2. ASSUME NEW j \in short PROVE Max0(x[j].carry) \in Nat /\ slack <= Max0(x[j].carry)
    BY <1>1, <1>7, <1>8 DEF Max0
  <2> QED BY <2>1, <2>2
<1>11. slack \in limits
  <2>1. CASE slack = Max0(x[m].margin - x[m].net)
    <3>1. m \in over
      BY <1>9, <2>1
    <3> QED BY <2>1, <3>1
  <2>2. CASE \E j \in Months : j > m /\ x[j].margin > 0 /\ slack = Max0(x[j].margin - x[j].net)
    <3>1. PICK j \in Months : j > m /\ x[j].margin > 0 /\ slack = Max0(x[j].margin - x[j].net)
      BY <2>2
    <3>2. j \in over \/ (j \in short /\ slack = Max0(x[j].carry))
      BY <1>9, <3>1
    <3> QED BY <3>1, <3>2
  <2>3. CASE \E j \in Months : j >= m /\ slack = Max0(x[j].carry)
    <3>1. PICK j \in Months : j >= m /\ slack = Max0(x[j].carry)
      BY <2>3
    <3>2. j \in short
      BY <1>9, <3>1
    <3> QED BY <3>1, <3>2
  <2> QED BY <1>1, <2>1, <2>2, <2>3
<1>12. over \in SUBSET Months /\ short \in SUBSET Months /\ (over # {} \/ short # {})
  BY <1>11
<1>13. Min(limits) = slack
  <2> HIDE DEF limits
  <2>1. limits \in SUBSET Nat /\ limits # {}
    BY <1>10, <1>11
  <2>2. Min(limits) \in limits /\ \A z \in limits : Min(limits) <= z
    BY <2>1, LeastMin
  <2> DEFINE least == Min(limits)
  <2>3. least \in Nat /\ slack <= least /\ least <= slack
    BY <1>10, <1>11, <2>2
  <2> HIDE DEF least
  <2>4. least = slack
    BY <1>1, <2>3
  <2> QED BY <2>4 DEF least
<1> HIDE DEF over, short, limits
<1>14. refused # {} /\ \A v \in refused :
         v.month \in Months /\ v.rule \in {"piso", "techo", "deficit"} /\ v.limit = Min(limits)
  <2>1. refused # {}
    BY <1>5, <1>12
  <2>2. ASSUME NEW v \in refused
        PROVE  v.month \in Months /\ v.rule \in {"piso", "techo", "deficit"} /\ v.limit = Min(limits)
    <3>1. CASE v \in tops
      <4>1. PICK j \in over : v = [rule |-> "techo", month |-> j, leaf |-> Available, limit |-> Min(limits)]
        BY <3>1
      <4> QED BY <1>12, <4>1
    <3>2. CASE v \in holes
      <4>1. PICK j \in short : v = [rule |-> "deficit", month |-> j, leaf |-> Available, limit |-> Min(limits)]
        BY <3>2
      <4> QED BY <1>12, <4>1
    <3> QED BY <1>5, <3>1, <3>2
  <2> QED BY <2>1, <2>2
<1>15. Blocking(refused) \in refused
  <2>1. \A v \in refused : v.month \in Nat /\ v.rule \in {"piso", "techo", "deficit"}
    BY <1>14, MonthType
  <2> QED BY <1>14, <2>1, BlockingOne
<1> QED BY <1>13, <1>14, <1>15 DEF slack

LEMMA HeadroomsExact ==
  ASSUME StartType(start), ledger \in Ledgers, planes \subseteq Planes
  PROVE  HeadroomExact
<1> SUFFICES ASSUME NEW pl \in planes, NEW m \in Months, NEW p \in Pockets, NonNegative(ledger, pl, p)
             PROVE  LET slack == Slack(ledger, pl, m)
                        more(a) == ChainCheck(ledger, WithCell(ledger, pl, p, m, ledger.cells[pl][p][m] + a), pl, {p})
                        refused == more(slack + 1)
                    IN  /\ slack > 0 => more(slack) = {}
                        /\ start.month <= m => refused # {} /\ Blocking(refused).limit = slack
  BY DEF HeadroomExact
<1>1. pl \in Planes
  OBVIOUS
<1> DEFINE slack == Slack(ledger, pl, m)
           more(a) == ChainCheck(ledger, WithCell(ledger, pl, p, m, ledger.cells[pl][p][m] + a), pl, {p})
           refused == more(slack + 1)
<1>2. slack > 0 => more(slack) = {}
  BY <1>1, SlackAccepted
<1>3. start.month <= m => refused # {} /\ Blocking(refused).limit = slack
  <2>1. refused = ChainCheck(ledger, WithCell(ledger, pl, p, m, ledger.cells[pl][p][m] + (Slack(ledger, pl, m) + 1)), pl, {p})
    OBVIOUS
  <2> HIDE DEF refused
  <2> QED BY <1>1, <2>1, OneMoreRefused
<1> QED BY <1>2, <1>3

\* In a pocket that is not below zero, the maximum an editor announces, of a
\* contribution or of a withdrawal, is accepted as it is and refused with one more,
\* and the refusal of a contribution announces that same maximum, unless a start
\* declared after the month cuts the chain (cellHeadroom, maxWithdrawal).
THEOREM MaximaAlwaysExact == Spec => []MaximaExact
<1>1. TypeOK => MaximaExact
  <2>1. ASSUME TypeOK PROVE MaximaExact
    <3>1. StartType(start) /\ ledger \in Ledgers /\ planes \subseteq Planes
      BY <2>1, StoredNoWorse, PlanesType
    <3>2. \A p \in Pockets : NonNegative(ledger, "actual", p)
      BY <2>1 DEF TypeOK
    <3> QED BY <3>1, <3>2, HeadroomsExact, WithdrawalsExact DEF MaximaExact
  <2> QED BY <2>1
<1> QED BY <1>1, TypeAlwaysOK, PTL

=============================================================================

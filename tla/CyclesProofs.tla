----------------------------- MODULE CyclesProofs -----------------------------
(***************************************************************************)
(* CalendarSound, for months of any length, any paydays and any number of  *)
(* changes: FirstDay gives every day one month; NamedTiles, the step of    *)
(* buildCalendar, keeps a table gapless and its keys growing; the tables   *)
(* follow by induction along their paydays; and a table of cycles is never *)
(* empty, as Activate and ChangeDay leave a payday to the version before.  *)
(*                                                                         *)
(* Conserved, EverythingPlaced and TypeOK, for ledgers of any size:        *)
(* RestoredHas follows the need of restoreParts down the months;           *)
(* RowConserved adds up the pieces of a row, by what sends them and by     *)
(* where they go; CyclesCalendar says which days a table has, and          *)
(* RelocatePlaced that everything goes to one of its keys; ChangePlaced,   *)
(* RecordedKeeps and CloseKeeps go through every step.                     *)
(*                                                                         *)
(* ClosedKept: PastShared says which cycles two tables have in common, and *)
(* PastKept that a relocation leaves those up to the last closed one;      *)
(* OpensRows that an activation takes nothing of a closed month further    *)
(* than the last closed cycle.                                             *)
(***************************************************************************)
EXTENDS Cycles, FiniteInduction, SequenceTheorems, TLAPS

-----------------------------------------------------------------------------
(* Days and months.                                                        *)

\* Every month has a day.
LEMMA LengthsHave ==
  /\ Len(Lengths) \in Nat /\ Len(Lengths) > 1 /\ DOMAIN Lengths = 1 .. Len(Lengths)
  /\ \A m \in 1 .. Len(Lengths) : Lengths[m] \in Nat /\ Lengths[m] > 0
BY LengthsAssumption

\* Each month starts when the one before ends.
LEMMA FirstDays ==
  /\ FirstDay[1] = 1
  /\ \A m \in 1 .. (Len(Lengths) + 1) : FirstDay[m] \in Nat
  /\ \A m \in 1 .. Len(Lengths) : FirstDay[m + 1] = FirstDay[m] + Lengths[m]
<1> DEFINE n == Len(Lengths)
           g == [x \in ((1 + 1) .. (n + 1)) \X Nat |-> x[2] + Lengths[x[1] - 1]]
           Body(t) == [m \in 1 .. (n + 1) |-> IF m = 1 THEN 1 ELSE t[m - 1] + Lengths[m - 1]]
<1>1. n \in Nat /\ \A m \in 1 .. n : Lengths[m] \in Nat
  BY LengthsHave
<1> HIDE DEF n
<1>2. \A m \in (1 + 1) .. (n + 1) : m - 1 \in 1 .. n
  BY <1>1
<1>3. g \in [((1 + 1) .. (n + 1)) \X Nat -> Nat]
  BY <1>1, <1>2
<1>4. PICK h \in [1 .. (n + 1) -> Nat] : Steps(h, 1, n + 1, 1, g)
  <2>1. 1 \in Int /\ n + 1 \in Int /\ 1 <= n + 1 /\ 1 \in Nat
    BY <1>1
  <2> HIDE DEF g
  <2> QED BY <1>3, <2>1, RecursionExists
<1>5. h[1] = 1 /\ \A m \in 2 .. (n + 1) : h[m] = h[m - 1] + Lengths[m - 1]
  <2>1. h[1] = 1 /\ \A m \in 2 .. (n + 1) : h[m] = g[<<m, h[m - 1]>>]
    <3>1. h[1] = 1 /\ \A m \in (1 + 1) .. (n + 1) : h[m] = g[<<m, h[m - 1]>>]
      <4> HIDE DEF g
      <4> QED BY <1>4 DEF Steps
    <3>2. 1 + 1 = 2
      OBVIOUS
    <3> HIDE DEF g
    <3> QED BY <3>1, <3>2
  <2>2. ASSUME NEW m \in 2 .. (n + 1) PROVE <<m, h[m - 1]>> \in ((1 + 1) .. (n + 1)) \X Nat
    <3>1. m - 1 \in 1 .. (n + 1)
      BY <1>1
    <3> QED BY <3>1
  <2> QED BY <2>1, <2>2
<1>6. h = Body(h)
  <2>1. h = [m \in 1 .. (n + 1) |-> h[m]]
    OBVIOUS
  <2>2. ASSUME NEW m \in 1 .. (n + 1) PROVE h[m] = IF m = 1 THEN 1 ELSE h[m - 1] + Lengths[m - 1]
    BY <1>1, <1>5
  <2> QED BY <2>1, <2>2, Zenon
<1> DEFINE c == CHOOSE u : u = Body(u)
<1>7. c = Body(c)
  BY <1>6
<1>8. FirstDay = [m \in 1 .. (n + 1) |-> c[m]]
  BY DEF FirstDay, n
<1> HIDE DEF c
<1>9. \A m \in 1 .. (n + 1) : c[m] = IF m = 1 THEN 1 ELSE c[m - 1] + Lengths[m - 1]
  BY <1>7, Zenon
<1>10. \A m \in 1 .. (n + 1) : FirstDay[m] = IF m = 1 THEN 1 ELSE FirstDay[m - 1] + Lengths[m - 1]
  <2> TAKE m \in 1 .. (n + 1)
  <2>1. FirstDay[m] = c[m] /\ (m # 1 => FirstDay[m - 1] = c[m - 1])
    BY <1>1, <1>8
  <2> QED BY <1>9, <2>1
<1>11. FirstDay[1] = 1
  BY <1>1, <1>10
<1>12. ASSUME NEW m \in 1 .. n PROVE FirstDay[m + 1] = FirstDay[m] + Lengths[m]
  <2>1. m + 1 \in 1 .. (n + 1) /\ m + 1 # 1 /\ (m + 1) - 1 = m
    BY <1>1
  <2> QED BY <1>10, <2>1
<1> DEFINE S == {m \in 1 .. (n + 1) : FirstDay[m] \in Nat}
<1>13. 1 \in S
  BY <1>1, <1>11
<1>14. ASSUME NEW m \in 1 .. (n + 1), m \in S, m + 1 <= n + 1 PROVE m + 1 \in S
  <2>1. m \in 1 .. n
    BY <1>1, <1>14
  <2>3. FirstDay[m + 1] = FirstDay[m] + Lengths[m] /\ FirstDay[m] \in Nat /\ Lengths[m] \in Nat
    BY <1>1, <1>12, <1>14, <2>1
  <2>2. FirstDay[m + 1] \in Nat
    BY <2>3
  <2> QED BY <1>1, <2>1, <2>2
<1>15. \A m \in 1 .. (n + 1) : m \in S
  <2>1. 1 \in Int /\ n + 1 \in Int
    BY <1>1
  <2> HIDE DEF S
  <2> QED BY <1>13, <1>14, <2>1, UpTo
<1> QED BY <1>11, <1>12, <1>15 DEF n

\* A month that is not before another starts no earlier.
LEMMA FirstDaysGrow ==
  \A a \in 1 .. (Len(Lengths) + 1) : \A b \in a .. (Len(Lengths) + 1) : FirstDay[a] <= FirstDay[b]
<1> DEFINE n == Len(Lengths)
<1>1. n \in Nat /\ \A m \in 1 .. n : Lengths[m] \in Nat
  BY LengthsHave
<1>2. /\ \A m \in 1 .. (n + 1) : FirstDay[m] \in Nat
      /\ \A m \in 1 .. n : FirstDay[m + 1] = FirstDay[m] + Lengths[m]
  BY FirstDays
<1> HIDE DEF n
<1> SUFFICES ASSUME NEW a \in 1 .. (n + 1) PROVE \A b \in a .. (n + 1) : FirstDay[a] <= FirstDay[b]
  BY DEF n
<1> DEFINE S == {b \in a .. (n + 1) : FirstDay[a] <= FirstDay[b]}
<1>3. a \in S
  BY <1>1, <1>2
<1>4. ASSUME NEW b \in a .. (n + 1), b \in S, b + 1 <= n + 1 PROVE b + 1 \in S
  <2>1. b \in 1 .. n /\ b \in 1 .. (n + 1) /\ b + 1 \in 1 .. (n + 1) /\ b + 1 \in a .. (n + 1)
    BY <1>1, <1>4
  <2>2. FirstDay[b + 1] = FirstDay[b] + Lengths[b]
    BY <1>2, <2>1
  <2>3. FirstDay[a] <= FirstDay[b] /\ FirstDay[a] \in Nat /\ FirstDay[b] \in Nat /\ Lengths[b] \in Nat
    BY <1>1, <1>2, <1>4, <2>1
  <2>4. FirstDay[a] <= FirstDay[b + 1]
    BY <2>2, <2>3
  <2> QED BY <2>1, <2>4
<1>5. \A b \in a .. (n + 1) : b \in S
  <2>1. a \in Int /\ n + 1 \in Int
    BY <1>1
  <2> HIDE DEF S
  <2> QED BY <1>3, <1>4, <2>1, UpTo
<1> QED BY <1>5

\* The table ends with its last month.
LEMMA LastDayHas == LastDay \in Nat /\ LastDay + 1 = FirstDay[Len(Lengths) + 1] /\ LastDay >= 1
<1> DEFINE n == Len(Lengths)
<1>1. n \in Nat /\ n > 1 /\ Lengths[1] \in Nat /\ Lengths[1] > 0
  BY LengthsHave
<1>2. FirstDay[1] = 1 /\ FirstDay[2] = FirstDay[1] + Lengths[1]
  <2>1. 1 \in 1 .. n /\ 1 + 1 = 2
    BY <1>1
  <2> QED BY <2>1, FirstDays
<1>3. FirstDay[n + 1] \in Nat /\ FirstDay[2] <= FirstDay[n + 1]
  <2>1. 2 \in 1 .. (n + 1) /\ n + 1 \in 2 .. (n + 1) /\ n + 1 \in 1 .. (n + 1)
    BY <1>1
  <2> QED BY <2>1, FirstDays, FirstDaysGrow
<1> HIDE DEF n
<1> QED BY <1>1, <1>2, <1>3 DEF LastDay, n

\* A day is of one month.
LEMMA MonthOfIs ==
  ASSUME NEW m \in 1 .. Len(Lengths), NEW d \in Nat, FirstDay[m] <= d, d < FirstDay[m + 1]
  PROVE  MonthOf(d) = m
<1> DEFINE n == Len(Lengths)
           Has(k) == FirstDay[k] <= d /\ d < FirstDay[k + 1]
<1>1. n \in Nat /\ DOMAIN Lengths = 1 .. n
  BY LengthsHave
<1>2. ASSUME NEW a \in 1 .. n, NEW b \in 1 .. n, Has(a), Has(b) PROVE ~(a < b)
  <2> SUFFICES ASSUME a < b PROVE FALSE
    OBVIOUS
  <2>1. a + 1 \in 1 .. (n + 1) /\ b \in (a + 1) .. (n + 1) /\ b \in 1 .. (n + 1)
    BY <1>1
  <2>2. FirstDay[a + 1] <= FirstDay[b] /\ FirstDay[a + 1] \in Nat /\ FirstDay[b] \in Nat
    BY <2>1, FirstDays, FirstDaysGrow
  <2> QED BY <1>2, <2>2
<1>3. MonthOf(d) = CHOOSE k \in 1 .. n : Has(k)
  BY <1>1 DEF MonthOf
<1>4. m \in 1 .. n /\ Has(m)
  OBVIOUS
<1> HIDE DEF n, Has
<1> DEFINE k == CHOOSE k \in 1 .. n : Has(k)
<1>5. k \in 1 .. n /\ Has(k)
  BY <1>4
<1> HIDE DEF k
<1>6. ~(k < m) /\ ~(m < k)
  BY <1>2, <1>4, <1>5
<1>7. k = m
  BY <1>1, <1>4, <1>5, <1>6
<1> QED BY <1>3, <1>7 DEF k

\* Every day of the table is in a month.
LEMMA MonthOfHas ==
  ASSUME NEW d \in Days
  PROVE  /\ MonthOf(d) \in 1 .. Len(Lengths) /\ FirstDay[MonthOf(d)] <= d /\ d < FirstDay[MonthOf(d) + 1]
<1> DEFINE n == Len(Lengths)
           T == {m \in 1 .. n : FirstDay[m] <= d}
<1>1. n \in Nat /\ n > 1
  BY LengthsHave
<1>2. d \in Nat /\ 1 <= d /\ d < FirstDay[n + 1]
  BY LastDayHas DEF Days
<1>3. \A m \in 1 .. (n + 1) : FirstDay[m] \in Nat
  BY FirstDays
<1> HIDE DEF n
<1>4. 1 \in T /\ T \in SUBSET Nat /\ \A x \in T : x <= n
  <2>1. FirstDay[1] = 1
    BY FirstDays
  <2> QED BY <1>1, <1>2, <2>1
<1>5. PICK m \in T : \A y \in T : y <= m
  <2> HIDE DEF T
  <2>1. T # {} /\ T \in SUBSET Nat /\ n \in Nat /\ \A x \in T : x <= n
    BY <1>1, <1>4
  <2> QED BY <2>1, Greatest
<1>6. d < FirstDay[m + 1]
  <2>1. CASE m = n
    BY <1>2, <2>1
  <2>2. CASE m # n
    <3>1. m + 1 \in 1 .. n /\ m + 1 \in 1 .. (n + 1) /\ ~(m + 1 <= m)
      BY <1>1, <2>2
    <3>2. m + 1 \notin T
      BY <1>5, <3>1
    <3>3. FirstDay[m + 1] \in Nat
      BY <1>3, <3>1
    <3> QED BY <1>2, <3>1, <3>2, <3>3
  <2> QED BY <2>1, <2>2
<1>7. MonthOf(d) = m
  BY <1>2, <1>6, MonthOfIs DEF n
<1> QED BY <1>5, <1>6, <1>7 DEF n

\* Later days are in later months.
LEMMA MonthsGrow ==
  ASSUME NEW d \in Days, NEW e \in Days, d <= e
  PROVE  MonthOf(d) <= MonthOf(e)
<1> DEFINE n == Len(Lengths)
           a == MonthOf(d)
           b == MonthOf(e)
<1>1. /\ a \in 1 .. n /\ FirstDay[a] <= d
      /\ b \in 1 .. n /\ e < FirstDay[b + 1]
  BY MonthOfHas
<1>2. n \in Nat /\ d \in Nat /\ e \in Nat
  BY LengthsHave, LastDayHas DEF Days
<1> HIDE DEF n, a, b
<1> SUFFICES ASSUME b < a PROVE FALSE
  BY <1>1, <1>2 DEF a, b
<1>3. b + 1 \in 1 .. (n + 1) /\ a \in (b + 1) .. (n + 1) /\ a \in 1 .. (n + 1)
  BY <1>1, <1>2
<1>4. FirstDay[b + 1] <= FirstDay[a] /\ FirstDay[b + 1] \in Nat /\ FirstDay[a] \in Nat
  BY <1>3, FirstDays, FirstDaysGrow DEF n
<1> QED BY <1>1, <1>2, <1>4

-----------------------------------------------------------------------------
(* The table.                                                              *)

\* An entry of the table: a cycle with its key.
Entry == [key : Nat, start : Nat, end : Nat]

\* CalendarSound, of a table.
Tiles(e) ==
  /\ \A i \in DOMAIN e : e[i].start <= e[i].end /\ e[i].key \div 2 = MonthOf(e[i].end)
  /\ \A i \in 1 .. (Len(e) - 1) : e[i + 1].start = e[i].end + 1 /\ e[i].key < e[i + 1].key

\* A table so far, which the cycle that starts on a day comes after.
Tiled(done, start) ==
  /\ done \in Seq(Entry) /\ Tiles(done)
  /\ done # <<>> => Last(done).end + 1 = start /\ Last(done).end \in Days

\* What Front keeps.
LEMMA FrontHas ==
  ASSUME NEW V, NEW s \in Seq(V), s # <<>>
  PROVE  /\ Front(s) \in Seq(V) /\ Len(Front(s)) = Len(s) - 1
         /\ \A i \in 1 .. (Len(s) - 1) : Front(s)[i] = s[i]
<1> DEFINE n == Len(s) - 1
<1>1. n \in Nat /\ \A i \in 1 .. n : s[i] \in V
  OBVIOUS
<1>2. Front(s) = SubSeq(s, 1, n)
  BY DEF Front
<1> HIDE DEF n
<1>3. 1 \in Int /\ n \in Int /\ (IF 1 <= n THEN n - 1 + 1 ELSE 0) = n /\ n - 1 + 1 = n
      /\ \A i \in 1 .. n : 1 + i - 1 = i
  BY <1>1
<1>4. /\ SubSeq(s, 1, n) \in Seq(V) /\ Len(SubSeq(s, 1, n)) = n
      /\ \A i \in 1 .. n : SubSeq(s, 1, n)[i] = s[i]
  BY <1>1, <1>3, SubSeqProperties
<1> QED BY <1>2, <1>4 DEF n

\* Naming a cycle gives a table of entries.
LEMMA NamedTyped ==
  ASSUME NEW done \in Seq(Entry), NEW month \in Nat, NEW start \in Nat, NEW end \in Nat
  PROVE  Named(done, month, start, end) \in Seq(Entry)
<1> DEFINE taken == done # <<>> /\ Last(done).key \div 2 = month
           new == [key |-> 2 * month + (IF taken THEN 1 ELSE 0), start |-> start, end |-> end]
           longer == [Last(done) EXCEPT !.end = end]
<1>1. new \in Entry
  BY DEF Entry
<1>2. done # <<>> => longer \in Entry /\ Front(done) \in Seq(Entry)
  <2> SUFFICES ASSUME done # <<>> PROVE longer \in Entry /\ Front(done) \in Seq(Entry)
    OBVIOUS
  <2>1. Last(done) \in Entry
    BY DEF Last
  <2>2. Front(done) \in Seq(Entry)
    BY FrontHas
  <2> QED BY <2>1, <2>2 DEF Entry
<1>3. Named(done, month, start, end)
        = IF taken /\ Last(done).key % 2 = 1 THEN Append(Front(done), longer) ELSE Append(done, new)
  BY DEF Named
<1> HIDE DEF new, longer
<1> QED BY <1>1, <1>2, <1>3

\* A cycle more, of a later month or of the same one as the last.
LEMMA NamedTiles ==
  ASSUME NEW done, NEW start \in Days, NEW end \in Days, start <= end, Tiled(done, start)
  PROVE  Tiled(Named(done, MonthOf(end), start, end), end + 1)
<1> DEFINE month == MonthOf(end)
           n == Len(done)
           last == Last(done)
           next == Named(done, month, start, end)
           taken == done # <<>> /\ last.key \div 2 = month
           new == [key |-> 2 * month + (IF taken THEN 1 ELSE 0), start |-> start, end |-> end]
           longer == [last EXCEPT !.end = end]
<1>1. month \in Nat /\ start \in Nat /\ end \in Nat
  BY MonthOfHas, LengthsHave, LastDayHas DEF Days
<1>2. done \in Seq(Entry) /\ Tiles(done) /\ n \in Nat
  BY DEF Tiled
<1>3. next \in Seq(Entry)
  BY <1>1, <1>2, NamedTyped
<1>4. next = IF taken /\ last.key % 2 = 1 THEN Append(Front(done), longer) ELSE Append(done, new)
  BY DEF Named
<1>5. ASSUME done # <<>>
      PROVE  /\ n >= 1 /\ last = done[n] /\ last \in Entry /\ last.end + 1 = start /\ last.end \in Days
             /\ last.start <= last.end /\ last.key \div 2 = MonthOf(last.end)
             /\ last.key \div 2 <= month
  <2>1. n >= 1 /\ last = done[n]
    BY <1>2, <1>5 DEF Last
  <2>2. n \in DOMAIN done
    BY <1>2, <2>1
  <2>3. last.end + 1 = start /\ last.end \in Days /\ last \in Entry
    BY <1>2, <1>5, <2>1, <2>2 DEF Tiled
  <2>4. last.start <= last.end /\ last.key \div 2 = MonthOf(last.end)
    BY <1>2, <2>1, <2>2 DEF Tiles
  <2>5. last.end <= end
    BY <1>1, <2>3 DEF Entry
  <2>6. MonthOf(last.end) <= month
    BY <2>3, <2>5, MonthsGrow
  <2> QED BY <2>1, <2>3, <2>4, <2>6
<1>6. CASE taken /\ last.key % 2 = 1
  <2>1. next = Append(Front(done), longer)
    BY <1>4, <1>6
  <2>2. done # <<>> /\ last.key \div 2 = month
    BY <1>6
  <2> HIDE DEF taken, next, new, month
  <2>3. longer.key = last.key /\ longer.start = last.start /\ longer.end = end /\ longer \in Entry
    BY <1>1, <1>5, <2>2 DEF Entry
  <2> HIDE DEF last, longer
  <2>4. Front(done) \in Seq(Entry) /\ Len(Front(done)) = n - 1 /\ \A i \in 1 .. (n - 1) : Front(done)[i] = done[i]
    BY <1>2, <2>2, FrontHas DEF n
  <2>5. Len(next) = n /\ DOMAIN next = 1 .. n /\ next[n] = longer /\ \A i \in 1 .. (n - 1) : next[i] = done[i]
    <3> DEFINE f == Front(done)
    <3>1. f \in Seq(Entry) /\ Len(f) = n - 1 /\ next = Append(f, longer)
      BY <2>1, <2>4
    <3> HIDE DEF f, n
    <3>2. Len(next) = n /\ DOMAIN next = 1 .. n /\ next[n] = longer /\ \A i \in 1 .. (n - 1) : next[i] = f[i]
      BY <1>2, <2>3, <3>1
    <3> QED BY <2>4, <3>2 DEF f, n
  <2>6. last.start <= end
    BY <1>1, <1>5, <2>2 DEF Entry
  <2>7. ASSUME NEW i \in DOMAIN next PROVE next[i].start <= next[i].end /\ next[i].key \div 2 = MonthOf(next[i].end)
    <3>1. CASE i = n
      BY <2>2, <2>3, <2>5, <2>6, <3>1 DEF month
    <3>2. CASE i # n
      <4>1. i \in 1 .. (n - 1) /\ i \in DOMAIN done
        BY <1>2, <2>5, <3>2
      <4>2. next[i] = done[i]
        BY <2>5, <4>1
      <4> QED BY <1>2, <4>1, <4>2 DEF Tiles
    <3> QED BY <3>1, <3>2
  <2>8. ASSUME NEW i \in 1 .. (Len(next) - 1)
        PROVE  next[i + 1].start = next[i].end + 1 /\ next[i].key < next[i + 1].key
    <3>1. i \in 1 .. (n - 1) /\ next[i] = done[i]
      BY <2>5
    <3>2. done[i + 1].start = done[i].end + 1 /\ done[i].key < done[i + 1].key
      BY <1>2, <3>1 DEF Tiles
    <3>3. next[i + 1].start = done[i + 1].start /\ next[i + 1].key = done[i + 1].key
      <4>1. CASE i + 1 = n
        BY <1>5, <2>2, <2>3, <2>5, <4>1
      <4>2. CASE i + 1 # n
        <5>1. i + 1 \in 1 .. (n - 1)
          BY <1>2, <3>1, <4>2
        <5> QED BY <2>5, <5>1
      <4> QED BY <4>1, <4>2
    <3> QED BY <3>1, <3>2, <3>3
  <2>9. Last(next) = longer
    BY <2>5 DEF Last
  <2>10. Tiled(next, end + 1)
    BY <1>3, <2>3, <2>7, <2>8, <2>9 DEF Tiled, Tiles
  <2> QED BY <2>10 DEF next, month
<1>7. CASE ~(taken /\ last.key % 2 = 1)
  <2>1. next = Append(done, new)
    BY <1>4, <1>7
  <2>2. new.start = start /\ new.end = end /\ new.key = 2 * month + (IF taken THEN 1 ELSE 0) /\ new \in Entry
    BY <1>1 DEF Entry
  <2>3. new.key \div 2 = month
    BY <1>1, <2>2
  <2>4. done # <<>> => last.key < new.key
    <3> SUFFICES ASSUME done # <<>> PROVE last.key < new.key
      OBVIOUS
    <3>1. last.key \in Nat /\ last.key \div 2 <= month
      BY <1>5 DEF Entry
    <3> DEFINE k == last.key
               its == new.key
    <3>2. k \in Nat /\ k \div 2 <= month /\ (k \div 2 = month => k % 2 # 1)
      BY <1>7, <3>1
    <3>3. its = 2 * month + (IF k \div 2 = month THEN 1 ELSE 0)
      BY <2>2
    <3> HIDE DEF k, its, new, month
    <3>4. ASSUME k \div 2 = month PROVE k < its
      BY <1>1, <3>2, <3>3, <3>4
    <3>5. ASSUME k \div 2 # month PROVE k < its
      BY <1>1, <3>2, <3>3, <3>5
    <3> QED BY <3>4, <3>5 DEF k, its
  <2> HIDE DEF taken, next, new, month
  <2>5. Len(next) = n + 1 /\ DOMAIN next = 1 .. (n + 1) /\ next[n + 1] = new /\ \A i \in 1 .. n : next[i] = done[i]
    BY <1>2, <2>1, <2>2
  <2>6. ASSUME NEW i \in DOMAIN next PROVE next[i].start <= next[i].end /\ next[i].key \div 2 = MonthOf(next[i].end)
    <3>1. CASE i = n + 1
      BY <2>2, <2>3, <2>5, <3>1 DEF month
    <3>2. CASE i # n + 1
      <4>1. i \in 1 .. n /\ i \in DOMAIN done
        BY <1>2, <2>5, <3>2
      <4>2. next[i] = done[i]
        BY <2>5, <4>1
      <4> QED BY <1>2, <4>1, <4>2 DEF Tiles
    <3> QED BY <3>1, <3>2
  <2>7. ASSUME NEW i \in 1 .. (Len(next) - 1)
        PROVE  next[i + 1].start = next[i].end + 1 /\ next[i].key < next[i + 1].key
    <3>1. i \in 1 .. n /\ next[i] = done[i]
      BY <1>2, <2>5
    <3>2. CASE i = n
      <4>1. done # <<>>
        BY <1>2, <3>1
      <4>2. next[i] = last
        BY <1>5, <3>1, <3>2, <4>1
      <4> QED BY <1>5, <2>2, <2>4, <2>5, <3>2, <4>1, <4>2
    <3>3. CASE i # n
      <4>1. i \in 1 .. (n - 1) /\ i + 1 \in 1 .. n
        BY <1>2, <3>1, <3>3
      <4>2. next[i + 1] = done[i + 1]
        BY <2>5, <4>1
      <4> QED BY <1>2, <3>1, <4>1, <4>2 DEF Tiles
    <3> QED BY <3>2, <3>3
  <2>8. Last(next) = new
    BY <2>5 DEF Last
  <2>9. Tiled(next, end + 1)
    BY <1>3, <2>2, <2>6, <2>7, <2>8 DEF Tiled, Tiles
  <2> QED BY <2>9 DEF next, month
<1> QED BY <1>6, <1>7

\* The empty table, before any day.
LEMMA NothingYet == ASSUME NEW start PROVE Tiled(<<>>, start)
BY DEF Tiled, Tiles

\* The days of a sequence go up, none after day d.
Rising(p, d) ==
  /\ p \in Seq(1 .. d)
  /\ \A i \in 1 .. (Len(p) - 1) : p[i] < p[i + 1]

\* A day more, left out or appended.
LEMMA RisingLonger ==
  ASSUME NEW d \in Nat, NEW p, Rising(p, d)
  PROVE  /\ Rising(p, d + 1)
         /\ Rising(Append(p, d + 1), d + 1) /\ Append(p, d + 1) # <<>>
<1> DEFINE n == Len(p)
           q == Append(p, d + 1)
<1>1. p \in Seq(1 .. d) /\ n \in Nat /\ \A i \in 1 .. n : p[i] \in 1 .. d
  BY DEF Rising
<1>2. p \in Seq(1 .. (d + 1)) /\ d + 1 \in 1 .. (d + 1)
  <2>1. \A i \in 1 .. n : p[i] \in 1 .. (d + 1)
    BY <1>1
  <2>2. p = [i \in 1 .. n |-> p[i]]
    BY <1>1
  <2> HIDE DEF n
  <2> QED BY <1>1, <2>1, <2>2
<1>3. q \in Seq(1 .. (d + 1)) /\ Len(q) = n + 1 /\ q[n + 1] = d + 1 /\ \A i \in 1 .. n : q[i] = p[i]
  BY <1>2
<1>4. q # <<>>
  BY <1>1, <1>3
<1> HIDE DEF q
<1>5. ASSUME NEW i \in 1 .. (Len(q) - 1) PROVE q[i] < q[i + 1]
  <2>1. i \in 1 .. n /\ q[i] = p[i] /\ p[i] \in 1 .. d
    BY <1>1, <1>3
  <2>2. CASE i = n
    BY <1>3, <2>1, <2>2
  <2>3. CASE i # n
    <3>1. i \in 1 .. (n - 1) /\ i + 1 \in 1 .. n
      BY <1>1, <2>1, <2>3
    <3> QED BY <1>3, <2>1, <3>1 DEF Rising
  <2> QED BY <2>2, <2>3
<1> QED BY <1>2, <1>3, <1>4, <1>5 DEF Rising, q

\* The paydays are gathered day by day.
GatheredTo(c, A, n) ==
  \A d \in 0 .. n : c[d] = IF d = 0 THEN <<>> ELSE IF d \in A THEN Append(c[d - 1], d) ELSE c[d - 1]

LEMMA PaydaysBuilt ==
  ASSUME NEW vs
  PROVE  \E c : Paydays(vs) = c[LastDay] /\ GatheredTo(c, Anchors(vs), LastDay)
<1> DEFINE A == Anchors(vs)
           n == LastDay
           V == Seq(Nat)
           g == [x \in ((0 + 1) .. n) \X V |-> IF x[1] \in A THEN Append(x[2], x[1]) ELSE x[2]]
           Body(t) == [d \in 0 .. n |-> IF d = 0 THEN <<>>
                                        ELSE IF d \in A THEN Append(t[d - 1], d) ELSE t[d - 1]]
<1>1. n \in Nat /\ <<>> \in V /\ Days = 1 .. n
  BY LastDayHas DEF Days
<1>2. Paydays(vs) = (CHOOSE u : u = Body(u))[n]
  BY DEF Paydays
<1> HIDE DEF A, n
<1>3. \A d \in (0 + 1) .. n : \A s \in V : (IF d \in A THEN Append(s, d) ELSE s) \in V
  BY <1>1
<1>4. g \in [((0 + 1) .. n) \X V -> V]
  <2> HIDE DEF V
  <2> QED BY <1>3
<1>5. PICK h \in [0 .. n -> V] : Steps(h, 0, n, <<>>, g)
  <2>1. 0 \in Int /\ n \in Int /\ 0 <= n
    BY <1>1
  <2> HIDE DEF g, V
  <2> QED BY <1>1, <1>4, <2>1, RecursionExists
<1>6. h = Body(h)
  <2>1. h[0] = <<>> /\ \A d \in (0 + 1) .. n : h[d] = g[<<d, h[d - 1]>>]
    <3> HIDE DEF g
    <3> QED BY <1>5 DEF Steps
  <2>2. ASSUME NEW d \in (0 + 1) .. n PROVE h[d] = IF d \in A THEN Append(h[d - 1], d) ELSE h[d - 1]
    <3>1. d - 1 \in 0 .. n
      BY <1>1
    <3>2. <<d, h[d - 1]>> \in ((0 + 1) .. n) \X V
      <4> HIDE DEF V
      <4> QED BY <3>1
    <3> HIDE DEF V
    <3> QED BY <2>1, <3>2
  <2>3. h = [d \in 0 .. n |-> h[d]]
    <3> HIDE DEF V
    <3> QED OBVIOUS
  <2>4. ASSUME NEW d \in 0 .. n
        PROVE  h[d] = IF d = 0 THEN <<>> ELSE IF d \in A THEN Append(h[d - 1], d) ELSE h[d - 1]
    <3>1. d = 0 \/ d \in (0 + 1) .. n
      BY <1>1
    <3> HIDE DEF V, g
    <3> QED BY <2>1, <2>2, <3>1
  <2> QED BY <2>3, <2>4, Zenon
<1> DEFINE c == CHOOSE u : u = Body(u)
<1>7. c = Body(c)
  BY <1>6
<1>8. Paydays(vs) = c[n]
  BY <1>2
<1> HIDE DEF c
<1>9. \A d \in 0 .. n : c[d] = IF d = 0 THEN <<>> ELSE IF d \in A THEN Append(c[d - 1], d) ELSE c[d - 1]
  BY <1>7, Zenon
<1>10. GatheredTo(c, A, n)
  BY <1>9 DEF GatheredTo
<1> QED BY <1>8, <1>10 DEF A, n

\* The days of a sequence.
DaysIn(p) == {p[i] : i \in 1 .. Len(p)}

LEMMA DaysInAppend ==
  ASSUME NEW p \in Seq(Nat), NEW d \in Nat
  PROVE  DaysIn(Append(p, d)) = DaysIn(p) \cup {d}
<1> DEFINE q == Append(p, d)
<1>1. Len(q) = Len(p) + 1 /\ q[Len(p) + 1] = d /\ (\A i \in 1 .. Len(p) : q[i] = p[i]) /\ Len(p) \in Nat
  OBVIOUS
<1> HIDE DEF q
<1>2. \A x \in DaysIn(q) : x \in DaysIn(p) \cup {d}
  <2> TAKE x \in DaysIn(q)
  <2>1. PICK i \in 1 .. Len(q) : x = q[i]
    BY DEF DaysIn
  <2>2. i = Len(p) + 1 \/ i \in 1 .. Len(p)
    BY <1>1
  <2> QED BY <1>1, <2>1, <2>2 DEF DaysIn
<1>3. \A x \in DaysIn(p) : x \in DaysIn(q)
  <2> TAKE x \in DaysIn(p)
  <2>1. PICK i \in 1 .. Len(p) : x = p[i]
    BY DEF DaysIn
  <2>2. i \in 1 .. Len(q)
    BY <1>1
  <2> QED BY <1>1, <2>1, <2>2 DEF DaysIn
<1>4. d \in DaysIn(q)
  <2>1. Len(p) + 1 \in 1 .. Len(q)
    BY <1>1
  <2> QED BY <1>1, <2>1 DEF DaysIn
<1> QED BY <1>2, <1>3, <1>4 DEF q

\* So far, they are the paydays up to a day, in order.
LEMMA GatheredHas ==
  ASSUME NEW c, NEW A, NEW n \in Nat, GatheredTo(c, A, n), NEW d \in 0 .. n
  PROVE  Rising(c[d], d) /\ DaysIn(c[d]) = A \cap (1 .. d)
<1> DEFINE S == {e \in 0 .. n : Rising(c[e], e) /\ DaysIn(c[e]) = A \cap (1 .. e)}
<1>1. \A e \in 0 .. n : c[e] = IF e = 0 THEN <<>> ELSE IF e \in A THEN Append(c[e - 1], e) ELSE c[e - 1]
  BY DEF GatheredTo
<1>2. 0 \in S
  <2>1. c[0] = <<>> /\ 0 \in 0 .. n
    BY <1>1
  <2>2. Rising(<<>>, 0) /\ DaysIn(<<>>) = {} /\ 1 .. 0 = {}
    BY DEF Rising, DaysIn
  <2> QED BY <2>1, <2>2
<1>3. ASSUME NEW e \in 0 .. n, e \in S, e + 1 <= n PROVE e + 1 \in S
  <2>1. e + 1 \in 0 .. n /\ e + 1 # 0 /\ (e + 1) - 1 = e /\ e \in Nat /\ 1 .. (e + 1) = (1 .. e) \cup {e + 1}
    BY <1>3
  <2>2. c[e + 1] = IF e + 1 \in A THEN Append(c[e], e + 1) ELSE c[e]
    BY <1>1, <2>1
  <2>3. Rising(c[e], e) /\ DaysIn(c[e]) = A \cap (1 .. e)
    BY <1>3
  <2>4. Rising(c[e], e + 1) /\ Rising(Append(c[e], e + 1), e + 1)
    BY <2>1, <2>3, RisingLonger
  <2>5. c[e] \in Seq(Nat)
    <3>1. c[e] \in Seq(1 .. e)
      BY <2>3 DEF Rising
    <3> QED BY <2>1, <3>1
  <2>6. DaysIn(Append(c[e], e + 1)) = DaysIn(c[e]) \cup {e + 1}
    BY <2>1, <2>5, DaysInAppend
  <2>7. CASE e + 1 \in A
    <3>1. c[e + 1] = Append(c[e], e + 1)
      BY <2>2, <2>7
    <3>2. A \cap (1 .. (e + 1)) = (A \cap (1 .. e)) \cup {e + 1}
      BY <2>1, <2>7
    <3> QED BY <2>1, <2>3, <2>4, <2>6, <3>1, <3>2
  <2>8. CASE e + 1 \notin A
    <3>1. c[e + 1] = c[e]
      BY <2>2, <2>8
    <3>2. A \cap (1 .. (e + 1)) = A \cap (1 .. e)
      BY <2>1, <2>8
    <3> QED BY <2>1, <2>3, <2>4, <3>1, <3>2
  <2> QED BY <2>7, <2>8
<1>4. \A e \in 0 .. n : e \in S
  <2>1. 0 \in Int /\ n \in Int
    OBVIOUS
  <2> HIDE DEF S
  <2> QED BY <1>2, <1>3, <2>1, UpTo
<1> QED BY <1>4

\* The paydays are those of the versions, in order.
LEMMA PaydaysAre ==
  ASSUME NEW vs
  PROVE  /\ Rising(Paydays(vs), LastDay) /\ DaysIn(Paydays(vs)) = Anchors(vs) \cap Days
         /\ Paydays(vs) \in Seq(Nat)
<1>1. PICK c : Paydays(vs) = c[LastDay] /\ GatheredTo(c, Anchors(vs), LastDay)
  BY PaydaysBuilt
<1>2. LastDay \in Nat /\ LastDay \in 0 .. LastDay /\ Days = 1 .. LastDay
  BY LastDayHas DEF Days
<1>3. Rising(Paydays(vs), LastDay) /\ DaysIn(Paydays(vs)) = Anchors(vs) \cap Days
  BY <1>1, <1>2, GatheredHas
<1>4. Paydays(vs) \in Seq(Nat)
  <2>1. Paydays(vs) \in Seq(1 .. LastDay)
    BY <1>3 DEF Rising
  <2> QED BY <1>2, <2>1
<1> QED BY <1>3, <1>4

\* There is one when some version has a payday in the table.
LEMMA PaydaysRise ==
  ASSUME NEW vs, Anchors(vs) \cap Days # {}
  PROVE  Rising(Paydays(vs), LastDay) /\ Paydays(vs) # <<>>
<1>1. Rising(Paydays(vs), LastDay) /\ DaysIn(Paydays(vs)) # {}
  BY PaydaysAre
<1>2. DaysIn(<<>>) = {}
  BY DEF DaysIn
<1> QED BY <1>1, <1>2

\* Of days that go up, an earlier one is less.
LEMMA RisingOrder ==
  ASSUME NEW p, NEW d \in Nat, Rising(p, d), NEW i \in 1 .. Len(p), NEW j \in 1 .. Len(p), i < j
  PROVE  p[i] < p[j] /\ p[i] \in Nat /\ p[j] \in Nat
<1> DEFINE n == Len(p)
           S == {k \in (i + 1) .. n : p[i] < p[k]}
<1>1. p \in Seq(1 .. d) /\ n \in Nat /\ \A k \in 1 .. n : p[k] \in Nat
  BY DEF Rising
<1>2. \A k \in 1 .. (n - 1) : p[k] < p[k + 1]
  BY DEF Rising
<1> HIDE DEF n
<1>3. i \in 1 .. n /\ j \in (i + 1) .. n /\ i + 1 <= n /\ i \in 1 .. (n - 1) /\ i + 1 \in (i + 1) .. n
  BY <1>1 DEF n
<1>4. i + 1 \in S
  BY <1>2, <1>3
<1>5. ASSUME NEW k \in (i + 1) .. n, k \in S, k + 1 <= n PROVE k + 1 \in S
  <2>1. k \in 1 .. (n - 1) /\ k + 1 \in (i + 1) .. n /\ k \in 1 .. n /\ k + 1 \in 1 .. n
    BY <1>1, <1>3, <1>5
  <2>2. p[i] < p[k] /\ p[k] < p[k + 1] /\ p[i] \in Nat /\ p[k] \in Nat /\ p[k + 1] \in Nat
    BY <1>1, <1>2, <1>3, <1>5, <2>1
  <2> QED BY <2>1, <2>2
<1>6. \A k \in (i + 1) .. n : k \in S
  <2>1. i + 1 \in Int /\ n \in Int
    BY <1>1, <1>3
  <2> HIDE DEF S
  <2> QED BY <1>4, <1>5, <2>1, UpTo
<1> QED BY <1>1, <1>3, <1>6 DEF n

\* A table that ends where each of its days says, made of one cycle after another.
LEMMA TableTiles ==
  ASSUME NEW n \in Nat, NEW p, \A i \in 1 .. (n + 1) : p[i] \in Nat,
         \A i \in 1 .. n : p[i] \in Days /\ p[i + 1] - 1 \in Days /\ p[i] <= p[i + 1] - 1,
         NEW c, \A i \in 0 .. n : c[i] = IF i = 0 THEN <<>>
                  ELSE Named(c[i - 1], MonthOf(p[i + 1] - 1), p[i], p[i + 1] - 1)
  PROVE  Tiled(c[n], p[n + 1])
<1> DEFINE S == {i \in 0 .. n : Tiled(c[i], p[i + 1])}
<1>1. 0 \in S
  <2>1. 0 \in 0 .. n /\ c[0] = <<>>
    OBVIOUS
  <2> QED BY <2>1, NothingYet
<1>2. ASSUME NEW i \in 0 .. n, i \in S, i + 1 <= n PROVE i + 1 \in S
  <2>1. i + 1 \in 1 .. n /\ i + 1 \in 0 .. n /\ i + 1 # 0 /\ (i + 1) - 1 = i /\ (i + 1) + 1 \in 1 .. (n + 1)
    BY <1>2
  <2> DEFINE k == i + 1
             end == p[k + 1] - 1
  <2>2. c[k] = Named(c[i], MonthOf(end), p[k], end)
    BY <2>1
  <2>3. p[k] \in Days /\ end \in Days /\ p[k] <= end /\ Tiled(c[i], p[k])
    BY <1>2, <2>1
  <2>4. end + 1 = p[k + 1]
    <3>1. p[k + 1] \in Nat
      BY <2>1
    <3> QED BY <3>1
  <2> HIDE DEF k, end
  <2>5. Tiled(c[k], end + 1)
    BY <2>2, <2>3, NamedTiles
  <2> QED BY <2>1, <2>4, <2>5 DEF k
<1>3. \A i \in 0 .. n : i \in S
  <2>1. 0 \in Int /\ n \in Int
    OBVIOUS
  <2> HIDE DEF S
  <2> QED BY <1>1, <1>2, <2>1, UpTo
<1>4. n \in S
  BY <1>3
<1> QED BY <1>4

\* Such a table exists.
LEMMA TableExists ==
  ASSUME NEW n \in Nat, NEW p, \A i \in 1 .. (n + 1) : p[i] \in Nat,
         \A i \in 1 .. n : p[i + 1] - 1 \in Days
  PROVE  \E h : h = [i \in 0 .. n |-> IF i = 0 THEN <<>>
                       ELSE Named(h[i - 1], MonthOf(p[i + 1] - 1), p[i], p[i + 1] - 1)]
<1> DEFINE V == Seq(Entry)
           g == [x \in ((0 + 1) .. n) \X V |->
                   Named(x[2], MonthOf(p[x[1] + 1] - 1), p[x[1]], p[x[1] + 1] - 1)]
<1>1. <<>> \in V
  OBVIOUS
<1>2. ASSUME NEW i \in (0 + 1) .. n, NEW s \in V
      PROVE  Named(s, MonthOf(p[i + 1] - 1), p[i], p[i + 1] - 1) \in V
  <2>1. i \in 1 .. n /\ i \in 1 .. (n + 1)
    OBVIOUS
  <2>2. p[i] \in Nat /\ p[i + 1] - 1 \in Days
    BY <2>1
  <2> DEFINE end == p[i + 1] - 1
  <2>3. end \in Days
    BY <2>2
  <2> HIDE DEF end
  <2>4. end \in Nat
    BY <2>3, LastDayHas DEF Days
  <2>5. MonthOf(end) \in Nat
    BY <2>3, MonthOfHas, LengthsHave
  <2>6. Named(s, MonthOf(end), p[i], end) \in V
    BY <2>2, <2>4, <2>5, NamedTyped
  <2> QED BY <2>6 DEF end
<1>3. g \in [((0 + 1) .. n) \X V -> V]
  <2> HIDE DEF V
  <2> QED BY <1>2
<1>4. PICK h \in [0 .. n -> V] : Steps(h, 0, n, <<>>, g)
  <2>1. 0 \in Int /\ n \in Int /\ 0 <= n
    OBVIOUS
  <2> HIDE DEF g, V
  <2> QED BY <1>1, <1>3, <2>1, RecursionExists
<1>5. h[0] = <<>> /\ \A i \in (0 + 1) .. n : h[i] = g[<<i, h[i - 1]>>]
  <2> HIDE DEF g
  <2> QED BY <1>4 DEF Steps
<1>6. ASSUME NEW i \in (0 + 1) .. n
      PROVE  h[i] = Named(h[i - 1], MonthOf(p[i + 1] - 1), p[i], p[i + 1] - 1)
  <2>1. i - 1 \in 0 .. n
    OBVIOUS
  <2>2. <<i, h[i - 1]>> \in ((0 + 1) .. n) \X V
    <3> HIDE DEF V
    <3> QED BY <2>1
  <2> HIDE DEF V
  <2> QED BY <1>5, <2>2
<1>7. ASSUME NEW i \in 0 .. n
      PROVE  h[i] = IF i = 0 THEN <<>> ELSE Named(h[i - 1], MonthOf(p[i + 1] - 1), p[i], p[i + 1] - 1)
  <2>1. i = 0 \/ i \in (0 + 1) .. n
    OBVIOUS
  <2> HIDE DEF V, g
  <2> QED BY <1>5, <1>6, <2>1
<1>8. h = [i \in 0 .. n |-> h[i]]
  <2> HIDE DEF V
  <2> QED OBVIOUS
<1>9. h = [i \in 0 .. n |-> IF i = 0 THEN <<>>
                            ELSE Named(h[i - 1], MonthOf(p[i + 1] - 1), p[i], p[i + 1] - 1)]
  BY <1>7, <1>8, Zenon
<1> QED BY <1>9

\* The cycles, one payday after the other.
CyclesTo(c, p, n) ==
  \A i \in 0 .. n : c[i] = IF i = 0 THEN <<>> ELSE Named(c[i - 1], MonthOf(p[i + 1] - 1), p[i], p[i + 1] - 1)

LEMMA EntriesBuilt ==
  ASSUME NEW vs, Paydays(vs) # <<>>
  PROVE  LET p == Paydays(vs)
             n == Len(p) - 1
         IN  /\ n \in Nat /\ Len(p) = n + 1
             /\ \A i \in 1 .. (n + 1) : p[i] \in Nat /\ p[i] \in Days
             /\ \A i \in 1 .. n : p[i + 1] - 1 \in Days /\ p[i] <= p[i + 1] - 1 /\ p[i + 1] - 1 + 1 = p[i + 1]
             /\ \E c : Entries(vs) = c[n] /\ CyclesTo(c, p, n)
<1> DEFINE p == Paydays(vs)
           n == Len(p) - 1
           Body(t) == [i \in 0 .. (Len(p) - 1) |->
                         IF i = 0 THEN <<>>
                         ELSE Named(t[i - 1], MonthOf(p[i + 1] - 1), p[i], p[i + 1] - 1)]
<1>1. Rising(p, LastDay) /\ p # <<>>
  BY PaydaysAre
<1>2. Entries(vs) = (CHOOSE t : t = Body(t))[n]
  BY DEF Entries
<1> HIDE DEF p
<1>3. p \in Seq(1 .. LastDay) /\ LastDay \in Nat
  BY <1>1, LastDayHas DEF Rising
<1>4. n \in Nat /\ Len(p) = n + 1 /\ \A i \in 1 .. (n + 1) : p[i] \in 1 .. LastDay
  BY <1>1, <1>3
<1>5. ASSUME NEW i \in 1 .. n
      PROVE p[i] \in Days /\ p[i + 1] - 1 \in Days /\ p[i] <= p[i + 1] - 1 /\ p[i + 1] - 1 + 1 = p[i + 1]
  <2>1. i \in 1 .. (Len(p) - 1) /\ i \in 1 .. (n + 1) /\ i + 1 \in 1 .. (n + 1)
    BY <1>4
  <2>2. p[i] < p[i + 1] /\ p[i] \in 1 .. LastDay /\ p[i + 1] \in 1 .. LastDay
    BY <1>1, <1>4, <2>1 DEF Rising
  <2> QED BY <1>3, <2>2 DEF Days
<1>6. \A i \in 1 .. (n + 1) : p[i] \in Nat /\ p[i] \in Days
  BY <1>3, <1>4 DEF Days
<1> HIDE DEF n
<1>7. \E t : t = [i \in 0 .. n |-> IF i = 0 THEN <<>>
                     ELSE Named(t[i - 1], MonthOf(p[i + 1] - 1), p[i], p[i + 1] - 1)]
  BY <1>4, <1>5, <1>6, TableExists
<1>8. \E t : t = Body(t)
  BY <1>7 DEF n
<1> DEFINE c == CHOOSE t : t = Body(t)
<1>9. c = Body(c)
  BY <1>8
<1>11. Entries(vs) = c[n]
  BY <1>2
<1> HIDE DEF c
<1>10. CyclesTo(c, p, n)
  <2>1. \A i \in 0 .. n : c[i] = IF i = 0 THEN <<>>
                                ELSE Named(c[i - 1], MonthOf(p[i + 1] - 1), p[i], p[i + 1] - 1)
    BY <1>9, Zenon DEF n
  <2> QED BY <2>1 DEF CyclesTo
<1>12. \E t : Entries(vs) = t[n] /\ CyclesTo(t, p, n)
  BY <1>10, <1>11
<1> QED BY <1>4, <1>5, <1>6, <1>12 DEF p, n

\* From every payday to the eve of the next.
LEMMA EntriesTile ==
  ASSUME NEW vs, Anchors(vs) \cap Days # {}
  PROVE  Tiles(Entries(vs)) /\ Entries(vs) \in Seq(Entry)
<1> DEFINE p == Paydays(vs)
           n == Len(p) - 1
<1>1. p # <<>>
  BY PaydaysRise
<1>2. /\ n \in Nat
      /\ \A i \in 1 .. (n + 1) : p[i] \in Nat /\ p[i] \in Days
      /\ \A i \in 1 .. n : p[i + 1] - 1 \in Days /\ p[i] <= p[i + 1] - 1
      /\ \E c : Entries(vs) = c[n] /\ CyclesTo(c, p, n)
  BY <1>1, EntriesBuilt
<1>3. PICK c : Entries(vs) = c[n] /\ CyclesTo(c, p, n)
  BY <1>2
<1> HIDE DEF p, n
<1>4. \A i \in 0 .. n : c[i] = IF i = 0 THEN <<>>
                               ELSE Named(c[i - 1], MonthOf(p[i + 1] - 1), p[i], p[i + 1] - 1)
  BY <1>3 DEF CyclesTo
<1>5. /\ \A i \in 1 .. (n + 1) : p[i] \in Nat
      /\ \A i \in 1 .. n : p[i] \in Days /\ p[i + 1] - 1 \in Days /\ p[i] <= p[i + 1] - 1
  BY <1>2
<1>6. Tiled(c[n], p[n + 1])
  BY <1>2, <1>4, <1>5, TableTiles
<1> QED BY <1>3, <1>6 DEF Tiled

\* The months, one after the other.
MonthsTo(c, n) ==
  \A m \in 0 .. n : c[m] = IF m = 0 THEN <<>> ELSE Named(c[m - 1], m, FirstDay[m], FirstDay[m + 1] - 1)

MonthRow(m) == [key |-> 2 * m, start |-> FirstDay[m], end |-> FirstDay[m + 1] - 1]

\* A month of the table, with its days.
LEMMA MonthHas ==
  ASSUME NEW m \in Months
  PROVE  /\ FirstDay[m] \in Days /\ FirstDay[m] \in Nat /\ FirstDay[m + 1] \in Nat /\ FirstDay[m + 1] - 1 \in Days
         /\ FirstDay[m] <= FirstDay[m + 1] - 1 /\ MonthOf(FirstDay[m + 1] - 1) = m /\ MonthOf(FirstDay[m]) = m
         /\ FirstDay[m + 1] - 1 + 1 = FirstDay[m + 1] /\ FirstDay[m + 1] <= FirstDay[Len(Lengths)]
         /\ FirstDay[Len(Lengths)] \in Nat /\ m \in Nat /\ FirstDay[m + 1] - 1 < FirstDay[Len(Lengths)]
<1> DEFINE k == Len(Lengths)
           p == FirstDay
<1>1. k \in Nat /\ m \in 1 .. (k - 1)
  BY LengthsHave DEF Months
<1>2. m \in 1 .. k /\ m \in 1 .. (k + 1) /\ m + 1 \in 1 .. (k + 1)
      /\ k + 1 \in m .. (k + 1) /\ k + 1 \in (m + 1) .. (k + 1) /\ m \in 1 .. m /\ 1 \in 1 .. (k + 1)
      /\ k \in (m + 1) .. (k + 1) /\ k \in 1 .. (k + 1) /\ m \in Nat
  BY <1>1
<1>3. /\ p[m + 1] = p[m] + Lengths[m] /\ p[m] \in Nat /\ p[m + 1] \in Nat
      /\ Lengths[m] \in Nat /\ Lengths[m] > 0 /\ p[1] = 1 /\ p[k] \in Nat
  BY <1>2, FirstDays, LengthsHave
<1>4. p[m + 1] <= p[k + 1] /\ p[1] <= p[m] /\ p[m + 1] <= p[k]
  BY <1>2, FirstDaysGrow
<1>5. LastDay \in Nat /\ p[k + 1] = LastDay + 1
  BY LastDayHas
<1> HIDE DEF p, k
<1>6. p[m] \in Days /\ p[m + 1] - 1 \in Days /\ p[m] <= p[m + 1] - 1 /\ p[m + 1] - 1 \in Nat
      /\ p[m + 1] - 1 + 1 = p[m + 1] /\ p[m + 1] - 1 < p[m + 1] /\ p[m] < p[m + 1] /\ p[m] <= p[m]
      /\ p[m + 1] - 1 < p[k]
  BY <1>3, <1>4, <1>5 DEF Days
<1>7. MonthOf(p[m + 1] - 1) = m /\ MonthOf(p[m]) = m
  BY <1>2, <1>3, <1>6, MonthOfIs DEF p, k
<1> QED BY <1>2, <1>3, <1>4, <1>6, <1>7 DEF p, k

LEMMA MonthsBuilt ==
  \E c : MonthEntries = c[Len(Lengths) - 1] /\ MonthsTo(c, Len(Lengths) - 1)
<1> DEFINE n == Len(Lengths) - 1
           p == FirstDay
           Body(t) == [m \in 0 .. (Len(Lengths) - 1) |->
                         IF m = 0 THEN <<>> ELSE Named(t[m - 1], m, FirstDay[m], FirstDay[m + 1] - 1)]
           Table(t) == [m \in 0 .. n |->
                          IF m = 0 THEN <<>> ELSE Named(t[m - 1], MonthOf(p[m + 1] - 1), p[m], p[m + 1] - 1)]
<1>1. n \in Nat /\ Len(Lengths) = n + 1
  BY LengthsHave
<1>2. MonthEntries = (CHOOSE t : t = Body(t))[n]
  BY DEF MonthEntries
<1>3. \A i \in 1 .. (n + 1) : p[i] \in Nat
  BY <1>1, FirstDays
<1>4. ASSUME NEW m \in 1 .. n
      PROVE  /\ p[m] \in Days /\ p[m + 1] - 1 \in Days /\ p[m] <= p[m + 1] - 1
             /\ MonthOf(p[m + 1] - 1) = m
  BY MonthHas DEF Months
<1> HIDE DEF p
<1>5. \E t : t = Table(t)
  <2> HIDE DEF n
  <2> QED BY <1>1, <1>3, <1>4, TableExists
<1>6. \A t : Table(t) = Body(t)
  <2> TAKE t
  <2>1. ASSUME NEW m \in 0 .. n
        PROVE  (IF m = 0 THEN <<>> ELSE Named(t[m - 1], MonthOf(p[m + 1] - 1), p[m], p[m + 1] - 1))
                 = (IF m = 0 THEN <<>> ELSE Named(t[m - 1], m, p[m], p[m + 1] - 1))
    <3>1. m # 0 => m \in 1 .. n
      BY <1>1
    <3> HIDE DEF n
    <3> QED BY <1>4, <3>1
  <2> QED BY <2>1, Zenon DEF p
<1>7. \E t : t = Body(t)
  <2> HIDE DEF Table, Body
  <2> QED BY <1>5, <1>6
<1> DEFINE c == CHOOSE t : t = Body(t)
<1>8. c = Body(c)
  BY <1>7
<1>9. MonthEntries = c[n]
  BY <1>2
<1> HIDE DEF c
<1>10. \A m \in 0 .. n : c[m] = IF m = 0 THEN <<>> ELSE Named(c[m - 1], m, FirstDay[m], FirstDay[m + 1] - 1)
  BY <1>8, Zenon
<1> QED BY <1>9, <1>10 DEF MonthsTo

\* The months, each from its first day to the eve of the next month's.
LEMMA MonthsTile == Tiles(MonthEntries) /\ MonthEntries \in Seq(Entry)
<1> DEFINE n == Len(Lengths) - 1
           p == FirstDay
<1>1. n \in Nat /\ Months = 1 .. n /\ \A i \in 1 .. (n + 1) : p[i] \in Nat
  BY LengthsHave, FirstDays DEF Months
<1>2. PICK c : MonthEntries = c[n] /\ MonthsTo(c, n)
  BY MonthsBuilt
<1>3. \A m \in 1 .. n : /\ p[m] \in Days /\ p[m + 1] - 1 \in Days /\ p[m] <= p[m + 1] - 1
                        /\ MonthOf(p[m + 1] - 1) = m
  BY <1>1, MonthHas
<1>4. \A m \in 0 .. n : c[m] = IF m = 0 THEN <<>> ELSE Named(c[m - 1], m, p[m], p[m + 1] - 1)
  BY <1>2 DEF MonthsTo
<1> HIDE DEF p, n
<1>5. ASSUME NEW m \in 0 .. n
      PROVE  c[m] = IF m = 0 THEN <<>> ELSE Named(c[m - 1], MonthOf(p[m + 1] - 1), p[m], p[m + 1] - 1)
  <2>1. m # 0 => m \in 1 .. n
    BY <1>1
  <2> QED BY <1>3, <1>4, <2>1
<1>6. Tiled(c[n], p[n + 1])
  BY <1>1, <1>3, <1>5, TableTiles
<1> QED BY <1>2, <1>6 DEF Tiled

-----------------------------------------------------------------------------
(* The invariant.                                                          *)

\* A payday, with what a month that lacks it does and its first payment.
Version == [day : Nat \ {0}, policy : Policies, firstPay : Nat]

\* The paydays are of days of the table.
LEMMA AnchorDateHas ==
  ASSUME NEW m \in Months, NEW v, v.day \in Nat \ {0}, v.policy \in Policies
  PROVE  AnchorDate(m, v) \in Days
<1> DEFINE n == Len(Lengths)
           anchor == AnchorDate(m, v)
<1>1. n \in Nat /\ m \in 1 .. n /\ m + 1 \in 1 .. n
  BY LengthsHave DEF Months
<1>2. m \in 1 .. (n + 1) /\ m + 1 \in 1 .. (n + 1) /\ 1 \in 1 .. (n + 1) /\ (m + 1) + 1 \in 1 .. (n + 1)
      /\ m \in 1 .. (n + 1) /\ n + 1 \in ((m + 1) + 1) .. (n + 1)
  BY <1>1
<1>3. /\ FirstDay[m] \in Nat /\ FirstDay[m + 1] \in Nat /\ FirstDay[(m + 1) + 1] \in Nat /\ FirstDay[1] = 1
      /\ FirstDay[m + 1] = FirstDay[m] + Lengths[m]
      /\ FirstDay[(m + 1) + 1] = FirstDay[m + 1] + Lengths[m + 1]
      /\ Lengths[m] \in Nat /\ Lengths[m] > 0 /\ Lengths[m + 1] \in Nat /\ Lengths[m + 1] > 0
  BY <1>1, <1>2, FirstDays, LengthsHave
<1>4. m \in 1 .. (n + 1) /\ FirstDay[1] <= FirstDay[m] /\ FirstDay[(m + 1) + 1] <= FirstDay[n + 1]
  BY <1>2, FirstDaysGrow
<1>5. LastDay \in Nat /\ LastDay + 1 = FirstDay[n + 1]
  BY LastDayHas
<1>6. v.day \in Nat /\ v.day >= 1 /\ (v.policy = "last_day" \/ v.policy = "shift")
  BY DEF Policies
<1>7. \/ v.day <= Lengths[m] /\ anchor = FirstDay[m] + v.day - 1
      \/ anchor = FirstDay[m + 1] - 1
      \/ anchor = FirstDay[m + 1]
  <2>1. CASE v.day <= Lengths[m]
    BY <1>3, <1>6, <2>1 DEF AnchorDate
  <2>2. CASE ~(v.day <= Lengths[m])
    <3>1. v.day > Lengths[m]
      BY <1>3, <1>6, <2>2
    <3>2. CASE v.policy = "last_day"
      <4>1. anchor = FirstDay[m + 1] - 1
        BY <2>2, <3>1, <3>2 DEF AnchorDate
      <4> QED BY <4>1
    <3>3. CASE v.policy = "shift"
      <4>1. anchor = FirstDay[m + 1]
        BY <2>2, <3>1, <3>3 DEF AnchorDate
      <4> QED BY <4>1
    <3> QED BY <1>6, <3>2, <3>3
  <2> QED BY <2>1, <2>2
<1> HIDE DEF anchor, n
<1>8. anchor \in Int /\ 1 <= anchor /\ anchor <= LastDay
  <2>1. CASE v.day <= Lengths[m] /\ anchor = FirstDay[m] + v.day - 1
    BY <1>3, <1>4, <1>5, <1>6, <2>1
  <2>2. CASE anchor = FirstDay[m + 1] - 1
    BY <1>3, <1>4, <1>5, <2>2
  <2>3. CASE anchor = FirstDay[m + 1]
    BY <1>3, <1>4, <1>5, <2>3
  <2> QED BY <1>7, <2>1, <2>2, <2>3
<1>9. anchor \in Days
  BY <1>5, <1>8 DEF Days
<1> QED BY <1>9 DEF anchor

\* CalendarSound, of whatever calendar.
LEMMA SoundIs == CalendarSound <=> Tiles(calendar.entries)
BY DEF CalendarSound, Tiles

\* The calendar of months is sound,
LEMMA MonthsAreSound == Tiles(Calendar(<<>>).entries) /\ Calendar(<<>>).entries \in Seq(Entry)
<1>1. Calendar(<<>>).entries = MonthEntries
  BY DEF Calendar
<1> QED BY <1>1, MonthsTile

\* and one of cycles is, when some version has a payment of its own.
LEMMA CyclesAreSound ==
  ASSUME NEW vs, vs # <<>>, NEW i \in 1 .. Len(vs), Len(vs) \in Nat, NEW m \in Months,
         vs[i].day \in Nat \ {0}, vs[i].policy \in Policies,
         i > 1 => AnchorDate(m, vs[i]) >= vs[i].firstPay,
         i < Len(vs) => AnchorDate(m, vs[i]) < vs[i + 1].firstPay
  PROVE  Tiles(Calendar(vs).entries) /\ Calendar(vs).entries \in Seq(Entry)
<1>1. Calendar(vs).entries = Entries(vs)
  BY DEF Calendar
<1> DEFINE d == AnchorDate(m, vs[i])
<1>2. d \in Days
  BY AnchorDateHas
<1>3. d \in {x \in {AnchorDate(k, vs[i]) : k \in Months} :
               /\ i > 1 => x >= vs[i].firstPay
               /\ i < Len(vs) => x < vs[i + 1].firstPay}
  OBVIOUS
<1> HIDE DEF d
<1>4. d \in Anchors(vs)
  BY <1>3 DEF Anchors
<1> QED BY <1>1, <1>2, <1>4, EntriesTile

\* What is chosen is of the table, and the calendar is the one of the paydays.
CalendarInv ==
  /\ versions \in Seq(Version)
  /\ user.paydays \subseteq (Nat \ {0}) \X Policies
  /\ user.months \subseteq Middle
  /\ CalendarSound
  /\ calendar.entries \in Seq(Entry)

\* A ledger starts in months.
LEMMA CalendarInit == Init => CalendarInv
<1> SUFFICES ASSUME Init PROVE CalendarInv
  OBVIOUS
<1>1. PICK u \in Users : user = [x \in DOMAIN u \ {"ledgers"} |-> u[x]]
  BY DEF Init
<1>2. versions = <<>> /\ calendar = Calendar(<<>>)
  BY DEF Init
<1>3. /\ {"paydays", "months"} \subseteq DOMAIN u
      /\ u.paydays \subseteq (Nat \ {0}) \X Policies /\ u.months \subseteq Middle
  BY UsersAssumption
<1>4. "paydays" \in DOMAIN u \ {"ledgers"} /\ "months" \in DOMAIN u \ {"ledgers"}
  BY <1>3
<1>5. user.paydays = u.paydays /\ user.months = u.months
  BY <1>1, <1>4
<1>6. CalendarSound /\ calendar.entries \in Seq(Entry)
  BY <1>2, MonthsAreSound, SoundIs
<1> QED BY <1>2, <1>3, <1>5, <1>6 DEF CalendarInv

\* What may be asked for: no paydays, or one more of the type of the others.
LEMMA AskedHas ==
  ASSUME CalendarInv, NEW vs \in Asked, vs # <<>>
  PROVE  \E r \in Version : vs = Append(versions, r)
<1> DEFINE More(v, m) == Append(versions, [day |-> v[1], policy |-> v[2],
                                           firstPay |-> IF versions = <<>> THEN None
                                                        ELSE AnchorDate(m, [day |-> v[1], policy |-> v[2]])])
<1>1. PICK v \in user.paydays, m \in user.months : vs = More(v, m)
  <2>1. Asked = {<<>>} \cup {More(v, m) : v \in user.paydays, m \in user.months}
    BY DEF Asked
  <2> HIDE DEF More
  <2> QED BY <2>1
<1> DEFINE w == [day |-> v[1], policy |-> v[2]]
           first == IF versions = <<>> THEN None ELSE AnchorDate(m, w)
           r == [day |-> v[1], policy |-> v[2], firstPay |-> first]
<1>2. v[1] \in Nat \ {0} /\ v[2] \in Policies /\ m \in Months
  BY LengthsHave DEF CalendarInv, Middle, Months
<1>3. w.day = v[1] /\ w.policy = v[2]
  OBVIOUS
<1>4. first \in Nat
  <2>1. AnchorDate(m, w) \in Days
    <3> HIDE DEF w
    <3> QED BY <1>2, <1>3, AnchorDateHas
  <2> QED BY <2>1, LastDayHas DEF Days, None
<1>5. vs = Append(versions, r)
  BY <1>1
<1>6. r \in Version
  <2> HIDE DEF first
  <2> QED BY <1>2, <1>4 DEF Version
<1> HIDE DEF r
<1> QED BY <1>5, <1>6

\* An activation has the payments of its version; a change of payday is refused
\* before some payment on the old day, which stays; a return goes to months.
LEMMA ChangeKeeps ==
  ASSUME CalendarInv, Change
  PROVE  CalendarInv'
<1>1. PICK vs \in Asked : (Activate(vs) \/ ChangeDay(vs) \/ Return(vs)) /\ Apply(vs)
  BY DEF Change
<1>2. versions' = vs /\ calendar' = Calendar(vs) /\ user' = user
  BY <1>1 DEF Apply
<1>3. CASE vs = <<>>
  <2>1. Tiles(calendar'.entries) /\ calendar'.entries \in Seq(Entry)
    BY <1>2, <1>3, MonthsAreSound
  <2>2. CalendarSound'
    BY <2>1 DEF CalendarSound, Tiles
  <2>3. versions' \in Seq(Version)
    BY <1>2, <1>3
  <2> QED BY <1>2, <2>1, <2>2, <2>3 DEF CalendarInv
<1>4. CASE vs # <<>>
  <2>1. PICK r \in Version : vs = Append(versions, r)
    BY <1>4, AskedHas
  <2> DEFINE n == Len(versions)
  <2>2. /\ versions \in Seq(Version) /\ vs \in Seq(Version) /\ n \in Nat /\ Len(vs) = n + 1
        /\ vs[n + 1] = r /\ \A i \in 1 .. n : vs[i] = versions[i] /\ versions[i] \in Version
    BY <2>1 DEF CalendarInv
  <2>3. Tiles(Calendar(vs).entries) /\ Calendar(vs).entries \in Seq(Entry)
    <3>1. CASE Activate(vs)
      <4>1. Len(vs) = 1 /\ vs[1] = r
        BY <2>2, <3>1 DEF Activate
      <4>2. 1 \in Months /\ 1 \in 1 .. Len(vs) /\ ~(1 > 1) /\ ~(1 < Len(vs)) /\ Len(vs) \in Nat
        BY <4>1, LengthsHave DEF Months
      <4>3. vs[1].day \in Nat \ {0} /\ vs[1].policy \in Policies
        BY <4>1 DEF Version
      <4> QED BY <1>4, <4>2, <4>3, CyclesAreSound
    <3>2. CASE ChangeDay(vs)
      <4>1. versions # <<>> /\ n > 0
        BY <2>2, <3>2 DEF ChangeDay
      <4>2. Last(versions) = vs[n] /\ Last(vs) = vs[n + 1]
        <5>1. Last(versions) = versions[n] /\ n \in 1 .. n
          BY <2>2, <4>1 DEF Last
        <5>2. Last(vs) = vs[n + 1]
          BY <2>2 DEF Last
        <5> QED BY <2>2, <5>1, <5>2
      <4>3. PICK m \in Months : AnchorDate(m, Last(versions)) >= Last(versions).firstPay
                                /\ AnchorDate(m, Last(versions)) < Last(vs).firstPay
        BY <3>2 DEF ChangeDay
      <4>4. AnchorDate(m, vs[n]) >= vs[n].firstPay /\ AnchorDate(m, vs[n]) < vs[n + 1].firstPay
        BY <4>2, <4>3
      <4>5. n \in 1 .. Len(vs) /\ Len(vs) \in Nat
        BY <2>2, <4>1
      <4>6. vs[n].day \in Nat \ {0} /\ vs[n].policy \in Policies
        <5>1. vs[n] \in Version
          BY <2>2, <4>1
        <5> QED BY <5>1 DEF Version
      <4> HIDE DEF n
      <4> QED BY <1>4, <4>4, <4>5, <4>6, CyclesAreSound
    <3>3. ~Return(vs)
      BY <1>4 DEF Return
    <3> QED BY <1>1, <3>1, <3>2, <3>3
  <2>4. CalendarSound'
    BY <1>2, <2>3 DEF CalendarSound, Tiles
  <2> QED BY <1>2, <2>2, <2>3, <2>4 DEF CalendarInv
<1> QED BY <1>3, <1>4

\* Nothing else touches the calendar.
LEMMA CalendarNext == CalendarInv /\ [Next]_vars => CalendarInv'
<1> SUFFICES ASSUME CalendarInv, [Next]_vars PROVE CalendarInv'
  OBVIOUS
<1>1. CASE Change
  BY <1>1, ChangeKeeps
<1>2. ASSUME UNCHANGED <<versions, calendar, user>> PROVE CalendarInv'
  BY <1>2 DEF CalendarInv, CalendarSound
<1>3. ASSUME NEW next, Record(next) PROVE CalendarInv'
  BY <1>2, <1>3 DEF Record
<1>4. ASSUME NEW row, NEW leaf, NEW k, NEW v, TypeCell(row, leaf, k, v) PROVE CalendarInv'
  BY <1>3, <1>4 DEF TypeCell
<1>5. ASSUME NEW kind, NEW leaf, NEW d, NEW k, AddItem(kind, leaf, d, k) PROVE CalendarInv'
  BY <1>3, <1>5 DEF AddItem
<1>6. CASE Close
  BY <1>2, <1>6 DEF Close
<1>7. CASE UNCHANGED vars
  BY <1>2, <1>7 DEF vars
<1> QED BY <1>1, <1>4, <1>5, <1>6, <1>7 DEF Next

\* The calendar is always one cycle after another, each under a key of its own that
\* grows with its days (RV-03, RV-06, BG-078), whatever the lengths of the months,
\* the paydays and how often they change: buildCalendar names every cycle after the
\* month it ends in, and a change is refused before the first payment on the old day.
THEOREM CalendarIsSound == Spec => []CalendarSound
<1>1. Init => CalendarInv
  BY CalendarInit
<1>2. CalendarInv /\ [Next]_vars => CalendarInv'
  BY CalendarNext
<1>3. CalendarInv => CalendarSound
  BY DEF CalendarInv
<1> QED BY <1>1, <1>2, <1>3, PTL DEF Spec

-----------------------------------------------------------------------------
(* Sums.                                                                   *)

\* The amounts of cells, or of the parts of one.
CellSum(f, S) == MapThenSumSet(LAMBDA x : f[x], S)
DeltaSum(S) == MapThenSumSet(Delta, S)

\* The folds of the model add up as Total does.
LEMMA CellSumIs ==
  ASSUME NEW S, IsFiniteSet(S), NEW f, \A x \in S : f[x] \in Int
  PROVE  CellSum(f, S) = Total(f, S) /\ Total(f, S) \in Int
<1> DEFINE body(t) == [T \in SUBSET S |->
             IF T = {} THEN 0
             ELSE LET x == CHOOSE x \in T : TRUE IN f[x] + t[T \ {x}]]
           sum == CHOOSE t : t = body(t)
<1>2. ASSUME NEW t
      PROVE  body(t) = [T \in SUBSET S |-> IF T = {} THEN 0 ELSE f[Picked(T)] + t[T \ {Picked(T)}]]
  BY DEF Picked
<1>3. \E t : t = body(t)
  <2>1. PICK t \in [SUBSET S -> Int] : SumsOf(t, f, S)
    BY SumsExist
  <2> HIDE DEF body
  <2> QED BY <1>2, <2>1 DEF SumsOf
<1>4. sum = body(sum)
  <2> HIDE DEF body
  <2> QED BY <1>3
<1>5. SumsOf(sum, f, S)
  <2> HIDE DEF body, sum
  <2> QED BY <1>2, <1>4 DEF SumsOf
<1>6. sum[S] = Total(f, S) /\ Total(f, S) \in Int
  <2> HIDE DEF body, sum
  <2> QED BY <1>5, SumsTotal, TotalInt
<1>7. CellSum(f, S) = sum[S]
  BY DEF CellSum, MapThenSumSet, MapThenFoldSet
<1> QED BY <1>6, <1>7

LEMMA WeightIs ==
  ASSUME NEW S, IsFiniteSet(S), \A x \in S : x.amount \in Int
  PROVE  Weight(S) = Total([x \in S |-> x.amount], S) /\ Weight(S) \in Int
<1> DEFINE f == [x \in S |-> x.amount]
           body(t) == [T \in SUBSET S |->
             IF T = {} THEN 0
             ELSE LET x == CHOOSE x \in T : TRUE IN x.amount + t[T \ {x}]]
           sum == CHOOSE t : t = body(t)
<1>1. \A x \in S : f[x] \in Int
  OBVIOUS
<1>2. ASSUME NEW t
      PROVE  body(t) = [T \in SUBSET S |-> IF T = {} THEN 0 ELSE f[Picked(T)] + t[T \ {Picked(T)}]]
  <2>1. \A T \in SUBSET S : T # {} => Picked(T) \in S
    BY DEF Picked
  <2> QED BY <2>1 DEF Picked
<1>3. \E t : t = body(t)
  <2>1. PICK t \in [SUBSET S -> Int] : SumsOf(t, f, S)
    <3> HIDE DEF f
    <3> QED BY <1>1, SumsExist
  <2> HIDE DEF body, f
  <2> QED BY <1>2, <2>1 DEF SumsOf
<1>4. sum = body(sum)
  <2> HIDE DEF body
  <2> QED BY <1>3
<1>5. SumsOf(sum, f, S)
  <2> HIDE DEF body, f, sum
  <2> QED BY <1>2, <1>4 DEF SumsOf
<1>6. sum[S] = Total(f, S) /\ Total(f, S) \in Int
  <2> HIDE DEF body, f, sum
  <2> QED BY <1>1, <1>5, SumsTotal, TotalInt
<1>7. Weight(S) = sum[S]
  BY DEF Weight, MapThenSumSet, MapThenFoldSet
<1> QED BY <1>6, <1>7

LEMMA DeltaSumIs ==
  ASSUME NEW S, IsFiniteSet(S), \A x \in S : x.amount \in Int
  PROVE  DeltaSum(S) = Total([x \in S |-> Delta(x)], S) /\ DeltaSum(S) \in Int
<1> DEFINE f == [x \in S |-> Delta(x)]
           body(t) == [T \in SUBSET S |->
             IF T = {} THEN 0
             ELSE LET x == CHOOSE x \in T : TRUE IN Delta(x) + t[T \ {x}]]
           sum == CHOOSE t : t = body(t)
<1>1. \A x \in S : f[x] \in Int
  BY DEF Delta
<1>2. ASSUME NEW t
      PROVE  body(t) = [T \in SUBSET S |-> IF T = {} THEN 0 ELSE f[Picked(T)] + t[T \ {Picked(T)}]]
  <2>1. \A T \in SUBSET S : T # {} => Picked(T) \in S
    BY DEF Picked
  <2> QED BY <2>1 DEF Picked
<1>3. \E t : t = body(t)
  <2>1. PICK t \in [SUBSET S -> Int] : SumsOf(t, f, S)
    <3> HIDE DEF f
    <3> QED BY <1>1, SumsExist
  <2> HIDE DEF body, f
  <2> QED BY <1>2, <2>1 DEF SumsOf
<1>4. sum = body(sum)
  <2> HIDE DEF body
  <2> QED BY <1>3
<1>5. SumsOf(sum, f, S)
  <2> HIDE DEF body, f, sum
  <2> QED BY <1>2, <1>4 DEF SumsOf
<1>6. sum[S] = Total(f, S) /\ Total(f, S) \in Int
  <2> HIDE DEF body, f, sum
  <2> QED BY <1>1, <1>5, SumsTotal, TotalInt
<1>7. DeltaSum(S) = sum[S]
  BY DEF DeltaSum, MapThenSumSet, MapThenFoldSet
<1> QED BY <1>6, <1>7

\* A finite set of naturals has a first and a last one.
LEMMA FiniteMinMax ==
  ASSUME NEW T \in SUBSET Nat, IsFiniteSet(T), T # {}
  PROVE  /\ Min(T) \in T /\ \A y \in T : Min(T) <= y
         /\ Max(T) \in T /\ \A y \in T : y <= Max(T)
<1> DEFINE F == {U \in SUBSET T : \E b \in Nat : \A x \in U : x <= b}
<1>1. {} \in F
  OBVIOUS
<1>2. ASSUME NEW U \in SUBSET T, U # {}, \A x \in U : U \ {x} \in F PROVE U \in F
  <2>1. PICK x \in U : U \ {x} \in F
    BY <1>2
  <2>2. PICK b \in Nat : \A y \in U \ {x} : y <= b
    BY <2>1
  <2>3. x \in Nat /\ x + b \in Nat
    OBVIOUS
  <2>4. \A y \in U : y <= x + b
    <3> TAKE y \in U
    <3>1. y \in Nat
      OBVIOUS
    <3>2. CASE y = x
      BY <2>3, <3>2
    <3>3. CASE y # x
      <4>1. y <= b
        BY <2>2, <3>3
      <4> QED BY <2>3, <3>1, <4>1
    <3> QED BY <3>2, <3>3
  <2> QED BY <2>3, <2>4
<1>3. T \in F
  <2> HIDE DEF F
  <2> QED BY <1>1, <1>2, SubsetInd
<1>4. PICK b \in Nat : \A x \in T : x <= b
  BY <1>3
<1> QED BY <1>4, MinMax

\* Of two numbers.
LEMMA MaxOfZero ==
  ASSUME NEW x \in Int
  PROVE  Max({0, x}) = (IF x > 0 THEN x ELSE 0) /\ Max({0, x}) \in Nat
<1>1. \A y \in {0, x} : (\A z \in {0, x} : y >= z) <=> y = (IF x > 0 THEN x ELSE 0)
  OBVIOUS
<1>2. Max({0, x}) = CHOOSE y \in {0, x} : \A z \in {0, x} : y >= z
  BY DEF Max
<1>3. (IF x > 0 THEN x ELSE 0) \in {0, x}
  OBVIOUS
<1> QED BY <1>1, <1>2, <1>3

LEMMA MinOfTwo ==
  ASSUME NEW a \in Nat, NEW b \in Nat
  PROVE  Min({a, b}) = (IF a <= b THEN a ELSE b)
<1>1. \A y \in {a, b} : (\A z \in {a, b} : y <= z) <=> y = (IF a <= b THEN a ELSE b)
  OBVIOUS
<1>2. Min({a, b}) = CHOOSE y \in {a, b} : \A z \in {a, b} : y <= z
  BY DEF Min
<1>3. (IF a <= b THEN a ELSE b) \in {a, b}
  OBVIOUS
<1> QED BY <1>1, <1>2, <1>3

\* Of two parts that have nothing in common.
LEMMA TotalUnion ==
  ASSUME NEW S, IsFiniteSet(S), NEW R, IsFiniteSet(R), S \cap R = {},
         NEW f, \A x \in S \cup R : f[x] \in Int
  PROVE  Total(f, S \cup R) = Total(f, S) + Total(f, R)
<1> DEFINE U == S \cup R
           fs == [x \in U |-> IF x \in S THEN f[x] ELSE 0]
           fr == [x \in U |-> IF x \in R THEN f[x] ELSE 0]
<1>1. IsFiniteSet(U) /\ S \in SUBSET U /\ R \in SUBSET U
  BY FS_Union
<1>2. \A x \in U : fs[x] \in Int /\ fr[x] \in Int /\ f[x] = fs[x] + fr[x] /\ f[x] \in Int
  OBVIOUS
<1>3. (\A x \in U : fs[x] = IF x \in S THEN f[x] ELSE 0) /\ (\A x \in U : fr[x] = IF x \in R THEN f[x] ELSE 0)
  OBVIOUS
<1> HIDE DEF fs, fr, U
<1>4. Total(f, U) = Total(fs, U) + Total(fr, U)
  BY <1>1, <1>2, TotalAdd
<1>5. Total(fs, U) = Total(f, S) /\ Total(fr, U) = Total(f, R)
  BY <1>1, <1>2, <1>3, TotalWithin
<1> QED BY <1>4, <1>5 DEF U

\* g has at x so much more than f, and is the same elsewhere.
Raised(f, g, S, x, d) ==
  /\ x \in S /\ d \in Int /\ \A y \in S : f[y] \in Int
  /\ g[x] = f[x] + d /\ \A y \in S \ {x} : g[y] = f[y]

LEMMA TotalRaised ==
  ASSUME NEW S, IsFiniteSet(S), NEW f, NEW g, NEW x, NEW d, Raised(f, g, S, x, d)
  PROVE  Total(g, S) = Total(f, S) + d
BY TotalOne DEF Raised

\* f is zero outside T.
Within(f, S, T) == T \subseteq S /\ \A x \in S : f[x] \in Int /\ (x \notin T => f[x] = 0)

LEMMA TotalInside ==
  ASSUME NEW S, IsFiniteSet(S), NEW T, NEW f, Within(f, S, T)
  PROVE  Total(f, S) = Total(f, T)
<1> DEFINE g == [x \in S |-> IF x \in T THEN f[x] ELSE 0]
<1>1. T \in SUBSET S /\ \A x \in S : f[x] \in Int
  BY DEF Within
<1>2. \A x \in S : g[x] = IF x \in T THEN f[x] ELSE 0
  OBVIOUS
<1>3. \A x \in S : g[x] = f[x]
  BY <1>2 DEF Within
<1> HIDE DEF g
<1>4. Total(g, S) = Total(f, T)
  BY <1>1, <1>2, TotalWithin
<1>5. Total(g, S) = Total(f, S)
  BY <1>1, <1>3, TotalSame
<1> QED BY <1>4, <1>5

-----------------------------------------------------------------------------
(* What comes back to the months of a cell (restoreParts).                 *)

\* What a part can give when so much is needed.
Gives(parts, floor, m, n) ==
  IF m \in DOMAIN parts THEN Min({n, Max({0, parts[m] - floor[m]})}) ELSE 0

LEMMA GivesHas ==
  ASSUME NEW D, NEW parts \in [D -> Int], NEW floor \in [D -> Int], NEW m, NEW n \in Nat
  PROVE  /\ Gives(parts, floor, m, n) \in Nat /\ Gives(parts, floor, m, n) <= n
         /\ m \notin D => Gives(parts, floor, m, n) = 0
<1>1. DOMAIN parts = D
  OBVIOUS
<1>2. CASE m \in D
  <2> DEFINE x == parts[m] - floor[m]
             most == Max({0, x})
  <2>1. x \in Int
    BY <1>2
  <2> HIDE DEF x
  <2>2. most \in Nat
    BY <2>1, MaxOfZero
  <2>3. Gives(parts, floor, m, n) = Min({n, most})
    BY <1>1, <1>2 DEF Gives, x
  <2> HIDE DEF most
  <2>4. Min({n, most}) = IF n <= most THEN n ELSE most
    BY <2>2, MinOfTwo
  <2> QED BY <1>2, <2>2, <2>3, <2>4
<1>3. CASE m \notin D
  BY <1>1, <1>3 DEF Gives
<1> QED BY <1>2, <1>3

\* need: what is still needed when the parts after m have given.
Needs(need, parts, floor, top, first) ==
  need = [m \in 0 .. top + 1 |-> IF m = top + 1 THEN first
                                 ELSE need[m + 1] - Gives(parts, floor, m, need[m + 1])]

LEMMA NeedsExist ==
  ASSUME NEW D, NEW parts \in [D -> Int], NEW floor \in [D -> Int], NEW top \in Nat, NEW first \in Nat
  PROVE  \E need \in [0 .. top + 1 -> Nat] : Needs(need, parts, floor, top, first)
<1> DEFINE b == top + 1
           g == [x \in ((0 + 1) .. b) \X Nat |-> x[2] - Gives(parts, floor, b - x[1], x[2])]
<1>1. b \in Nat /\ b \in Int /\ 0 \in Int /\ 0 <= b
  OBVIOUS
<1>2. g \in [((0 + 1) .. b) \X Nat -> Nat]
  <2> SUFFICES ASSUME NEW x \in ((0 + 1) .. b) \X Nat PROVE g[x] \in Nat
    OBVIOUS
  <2> DEFINE m == b - x[1]
  <2>1. x[2] \in Nat /\ g[x] = x[2] - Gives(parts, floor, m, x[2])
    OBVIOUS
  <2> HIDE DEF m, g
  <2>2. Gives(parts, floor, m, x[2]) \in Nat /\ Gives(parts, floor, m, x[2]) <= x[2]
    BY <2>1, GivesHas
  <2> QED BY <2>1, <2>2
<1>3. PICK h \in [0 .. b -> Nat] : Steps(h, 0, b, first, g)
  <2> HIDE DEF g, b
  <2> QED BY <1>1, <1>2, RecursionExists
<1>4. \A n \in 1 .. b : h[n] = h[n - 1] - Gives(parts, floor, b - n, h[n - 1])
  <2> TAKE n \in 1 .. b
  <2>1. n \in (0 + 1) .. b /\ n - 1 \in 0 .. b
    OBVIOUS
  <2>2. h[n] = g[<<n, h[n - 1]>>] /\ h[n - 1] \in Nat
    BY <1>3, <2>1 DEF Steps
  <2>3. <<n, h[n - 1]>> \in ((0 + 1) .. b) \X Nat
    BY <2>1, <2>2
  <2> QED BY <2>2, <2>3
<1> DEFINE need == [m \in 0 .. b |-> h[b - m]]
<1>5. need \in [0 .. b -> Nat]
  <2>1. \A m \in 0 .. b : b - m \in 0 .. b
    BY <1>1
  <2> HIDE DEF b
  <2> QED BY <2>1
<1>6. ASSUME NEW m \in 0 .. b
      PROVE  need[m] = IF m = b THEN first ELSE need[m + 1] - Gives(parts, floor, m, need[m + 1])
  <2>1. CASE m = b
    <3>1. b - m = 0 /\ h[0] = first
      BY <1>1, <1>3, <2>1 DEF Steps
    <3> QED BY <2>1, <3>1
  <2>2. CASE m # b
    <3> DEFINE n == b - m
    <3>1. n \in 1 .. b /\ b - n = m /\ m + 1 \in 0 .. b /\ b - (m + 1) = n - 1
      BY <1>1, <2>2
    <3>2. need[m] = h[n] /\ need[m + 1] = h[n - 1]
      BY <3>1
    <3> HIDE DEF n, need
    <3> QED BY <1>4, <2>2, <3>1, <3>2
  <2> QED BY <2>1, <2>2
<1>7. Needs(need, parts, floor, top, first)
  <2> HIDE DEF b
  <2>1. need = [m \in 0 .. b |-> IF m = b THEN first ELSE need[m + 1] - Gives(parts, floor, m, need[m + 1])]
    BY <1>6
  <2> HIDE DEF need
  <2> QED BY <2>1 DEF b, Needs
<1> HIDE DEF need
<1> QED BY <1>5, <1>7

\* All that is given is what is no longer needed.
LEMMA GivenIs ==
  ASSUME NEW D \in SUBSET Nat, IsFiniteSet(D), NEW parts \in [D -> Int], NEW floor \in [D -> Int],
         NEW top \in Nat, \A m \in D : m <= top, NEW first \in Nat,
         NEW need, Needs(need, parts, floor, top, first)
  PROVE  /\ \A m \in 0 .. top + 1 : need[m] \in Nat
         /\ Total([m \in D |-> Gives(parts, floor, m, need[m + 1])], D) = first - need[0]
<1> DEFINE b == top + 1
           S == {i \in 0 .. b : need[b - i] \in Nat}
<1>1. b \in Nat /\ b \in Int /\ 0 \in Int /\ top \in Int
  OBVIOUS
<1>2. /\ need[b] = first
      /\ \A m \in 0 .. top : need[m] = need[m + 1] - Gives(parts, floor, m, need[m + 1])
  BY DEF Needs
<1>3. 0 \in S
  BY <1>2
<1>4. ASSUME NEW i \in 0 .. b, i \in S, i + 1 <= b PROVE i + 1 \in S
  <2> DEFINE m == b - (i + 1)
  <2>1. m \in 0 .. top /\ m + 1 = b - i /\ i + 1 \in 0 .. b /\ need[m + 1] \in Nat
    BY <1>4
  <2>2. need[m] = need[m + 1] - Gives(parts, floor, m, need[m + 1])
    BY <1>2, <2>1
  <2> HIDE DEF m
  <2>3. Gives(parts, floor, m, need[m + 1]) \in Nat /\ Gives(parts, floor, m, need[m + 1]) <= need[m + 1]
    BY <2>1, GivesHas
  <2>4. need[m] \in Nat
    BY <2>1, <2>2, <2>3
  <2> QED BY <2>1, <2>4 DEF m
<1>5. \A i \in 0 .. b : i \in S
  <2> HIDE DEF S, b
  <2> QED BY <1>1, <1>3, <1>4, UpTo
<1>6. ASSUME NEW m \in 0 .. b PROVE need[m] \in Nat
  <2>1. b - m \in 0 .. b /\ b - (b - m) = m
    BY <1>1
  <2> QED BY <1>5, <2>1
<1> DEFINE f == [m \in 0 .. top |-> Gives(parts, floor, m, need[m + 1])]
           V == {n \in 0 .. top : Total(f, 0 .. n) = need[n + 1] - need[0]}
<1>7. ASSUME NEW m \in 0 .. top
      PROVE  f[m] \in Nat /\ f[m] = need[m + 1] - need[m] /\ (m \notin D => f[m] = 0)
  <2>1. m + 1 \in 0 .. b /\ m \in 0 .. b
    BY <1>1
  <2>2. need[m + 1] \in Nat /\ need[m] \in Nat
    BY <1>6, <2>1
  <2>3. Gives(parts, floor, m, need[m + 1]) \in Nat /\ (m \notin D => Gives(parts, floor, m, need[m + 1]) = 0)
    BY <2>2, GivesHas
  <2> QED BY <1>2, <2>2, <2>3
<1>8. 0 \in V
  <2>1. 0 .. 0 = {0} /\ 0 \in 0 .. top /\ f[0] \in Int /\ f[0] = need[0 + 1] - need[0]
    BY <1>7
  <2> HIDE DEF f
  <2>2. Total(f, {0}) = f[0]
    BY <2>1, TotalSingle
  <2> QED BY <2>1, <2>2
<1>9. ASSUME NEW n \in 0 .. top, n \in V, n + 1 <= top PROVE n + 1 \in V
  <2> DEFINE k == n + 1
             T == 0 .. k
  <2>1. k \in 0 .. top /\ k \in T /\ T \ {k} = 0 .. n /\ \A x \in T : x \in 0 .. top
    BY <1>9
  <2>2. IsFiniteSet(T)
    <3>1. 0 \in Int /\ k \in Int
      OBVIOUS
    <3> QED BY <3>1, FS_Interval
  <2>3. \A x \in T : f[x] \in Int
    <3> HIDE DEF T, f
    <3> QED BY <1>7, <2>1
  <2>4. Total(f, T) = f[k] + Total(f, T \ {k})
    <3> HIDE DEF T, f, k
    <3> QED BY <2>1, <2>2, <2>3, TotalRemove
  <2>5. f[k] = need[k + 1] - need[k]
    <3> HIDE DEF f, k
    <3> QED BY <1>7, <2>1
  <2>8. Total(f, 0 .. n) = need[k] - need[0]
    <3> HIDE DEF f
    <3> QED BY <1>9
  <2>6. need[k + 1] \in Nat /\ need[k] \in Nat /\ need[0] \in Nat
    <3>1. k + 1 \in 0 .. b /\ k \in 0 .. b /\ 0 \in 0 .. b
      BY <2>1
    <3> HIDE DEF k, b
    <3> QED BY <1>6, <3>1
  <2>9. Total(f, T \ {k}) = Total(f, 0 .. n)
    BY <2>1
  <2>7. Total(f, T) = need[k + 1] - need[0]
    <3> HIDE DEF f, k, T
    <3> QED BY <2>9, <2>1, <2>4, <2>5, <2>6, <2>8
  <2> QED BY <2>1, <2>7
<1>10. \A n \in 0 .. top : n \in V
  <2> HIDE DEF V
  <2> QED BY <1>1, <1>8, <1>9, UpTo
<1>11. Total(f, 0 .. top) = first - need[0]
  <2>1. top \in 0 .. top
    OBVIOUS
  <2> HIDE DEF f
  <2> QED BY <1>2, <1>10, <2>1
<1> DEFINE given == [m \in D |-> Gives(parts, floor, m, need[m + 1])]
           U == 0 .. top
<1>12. IsFiniteSet(U) /\ D \in SUBSET U
  BY <1>1, FS_Interval
<1>13. \A m \in D : given[m] = f[m] /\ f[m] \in Int
  <2>1. \A m \in D : given[m] = f[m]
    BY <1>12
  <2> HIDE DEF f, given
  <2> QED BY <1>7, <1>12, <2>1
<1>14. Within(f, U, D)
  <2>1. \A m \in U : f[m] \in Int /\ (m \notin D => f[m] = 0)
    <3> HIDE DEF f
    <3> QED BY <1>7
  <2> HIDE DEF f, U
  <2> QED BY <1>12, <2>1 DEF Within
<1>15. Total(f, U) = Total(f, D)
  <2> HIDE DEF f, U
  <2> QED BY <1>12, <1>14, TotalInside
<1>16. Total(given, D) = Total(f, D)
  <2> HIDE DEF f, given
  <2> QED BY <1>13, TotalSame
<1> HIDE DEF f, given
<1> QED BY <1>6, <1>11, <1>15, <1>16 DEF given

\* What comes back adds up to what there was, but for what no part could give.
LEMMA RestoredHas ==
  ASSUME NEW value \in Int, NEW D \in SUBSET Nat, IsFiniteSet(D), D # {},
         NEW parts \in [D -> Int], NEW floor \in [D -> Int]
  PROVE  LET r == Restored(value, parts, floor) IN
         /\ r.parts \in [D -> Int] /\ r.missing \in Nat
         /\ Total(r.parts, D) = value + r.missing
<1> DEFINE top == Max(DOMAIN parts)
           diff == value - MapThenSumSet(LAMBDA m : parts[m], DOMAIN parts)
           first == Max({0, - diff})
           Body(n) == [m \in 0 .. top + 1 |-> IF m = top + 1 THEN first
                                              ELSE n[m + 1] - Gives(parts, floor, m, n[m + 1])]
           need == CHOOSE n : n = Body(n)
           last == Max({0, diff})
           back == [m \in D |-> parts[m] - Gives(parts, floor, m, need[m + 1])
                                  + (IF m = top THEN last ELSE 0)]
<1>1. DOMAIN parts = D
  OBVIOUS
<1>2. top \in D /\ top \in Nat /\ \A m \in D : m <= top
  BY <1>1, FiniteMinMax
<1>3. Restored(value, parts, floor) = [parts |-> back, missing |-> need[0]]
  BY <1>1 DEF Restored, Gives
<1>4. diff = value - Total(parts, D) /\ diff \in Int /\ Total(parts, D) \in Int
  <2>1. CellSum(parts, D) = Total(parts, D) /\ Total(parts, D) \in Int
    BY CellSumIs
  <2>2. CellSum(parts, D) = MapThenSumSet(LAMBDA m : parts[m], DOMAIN parts)
    BY <1>1 DEF CellSum
  <2> QED BY <2>1, <2>2
<1> HIDE DEF top, diff
<1>5. first \in Nat /\ last \in Nat /\ last - first = diff
  <2>1. - diff \in Int
    BY <1>4
  <2>2. first = (IF - diff > 0 THEN - diff ELSE 0) /\ last = (IF diff > 0 THEN diff ELSE 0)
    BY <1>4, <2>1, MaxOfZero
  <2> HIDE DEF first, last
  <2> QED BY <1>4, <2>2
<1> HIDE DEF first, last
<1>6. \E n : n = Body(n)
  <2>1. PICK n \in [0 .. top + 1 -> Nat] : Needs(n, parts, floor, top, first)
    BY <1>2, <1>5, NeedsExist
  <2> QED BY <2>1 DEF Needs
<1>7. need = Body(need)
  <2> HIDE DEF Body
  <2> QED BY <1>6
<1> HIDE DEF need
<1>8. Needs(need, parts, floor, top, first)
  BY <1>7 DEF Needs
<1> DEFINE given == [m \in D |-> Gives(parts, floor, m, need[m + 1])]
<1>9. (\A m \in 0 .. top + 1 : need[m] \in Nat) /\ Total(given, D) = first - need[0]
  BY <1>2, <1>5, <1>8, GivenIs
<1>10. need[0] \in Nat
  BY <1>2, <1>9
<1>11. \A m \in D : given[m] \in Int
  <2> TAKE m \in D
  <2>1. m + 1 \in 0 .. top + 1
    BY <1>2
  <2>2. need[m + 1] \in Nat
    BY <1>9, <2>1
  <2>3. Gives(parts, floor, m, need[m + 1]) \in Nat
    BY <2>2, GivesHas
  <2> QED BY <2>3
<1> DEFINE less == [m \in D |-> - given[m]]
           kept == [m \in D |-> parts[m] - given[m]]
<1>12. \A m \in D : /\ less[m] \in Int /\ kept[m] \in Int /\ parts[m] \in Int
                    /\ kept[m] = parts[m] + less[m]
  <2> HIDE DEF given
  <2> QED BY <1>11
<1>13. \A m \in D : back[m] = kept[m] + (IF m = top THEN last ELSE 0)
  OBVIOUS
<1>14. back \in [D -> Int]
  <2>1. \A m \in D : back[m] \in Int
    <3> HIDE DEF back, kept
    <3> QED BY <1>5, <1>12, <1>13
  <2>2. DOMAIN back = D /\ back = [m \in D |-> back[m]]
    OBVIOUS
  <2> HIDE DEF back
  <2> QED BY <2>1, <2>2
<1>15. Total(less, D) + Total(given, D) = 0
  <2> DEFINE none == [m \in D |-> 0]
  <2>1. \A m \in D : less[m] \in Int /\ given[m] \in Int /\ none[m] = less[m] + given[m]
    <3>1. \A m \in D : less[m] = - given[m]
      OBVIOUS
    <3> HIDE DEF less, given
    <3> QED BY <1>11, <1>12, <3>1
  <2>2. \A m \in D : none[m] = 0
    OBVIOUS
  <2> HIDE DEF less, given, none
  <2>3. Total(none, D) = Total(less, D) + Total(given, D)
    BY <2>1, TotalAdd
  <2>4. Total(none, D) = 0
    BY <2>2, TotalZero
  <2> QED BY <2>3, <2>4
<1>16. Total(kept, D) = Total(parts, D) + Total(less, D)
  <2>1. \A m \in D : parts[m] \in Int /\ less[m] \in Int /\ kept[m] = parts[m] + less[m]
    <3> HIDE DEF kept, less
    <3> QED BY <1>12
  <2> HIDE DEF kept, less
  <2> QED BY <2>1, TotalAdd
<1>17. Total(back, D) = Total(kept, D) + last
  <2>1. back[top] = kept[top] + last
    <3> HIDE DEF back, kept
    <3> QED BY <1>2, <1>13
  <2>2. \A m \in D \ {top} : back[m] = kept[m]
    <3> HIDE DEF back, kept
    <3> QED BY <1>12, <1>13
  <2>3. \A m \in D : kept[m] \in Int
    <3> HIDE DEF kept
    <3> QED BY <1>12
  <2>4. last \in Int /\ top \in D
    BY <1>2, <1>5
  <2> HIDE DEF back, kept, given, less
  <2>5. Raised(kept, back, D, top, last)
    BY <2>1, <2>2, <2>3, <2>4 DEF Raised
  <2> QED BY <2>5, TotalRaised
<1>18. Total(less, D) \in Int
  <2> HIDE DEF less
  <2> QED BY <1>12, TotalInt
<1>19. Total(back, D) = value + need[0]
  <2> HIDE DEF back, kept, less, given
  <2> QED BY <1>4, <1>5, <1>9, <1>10, <1>15, <1>16, <1>17, <1>18
<1> HIDE DEF back
<1> QED BY <1>3, <1>10, <1>14, <1>19

\* g takes each of S to one of R of its own, which has as much.
Taken(g, S, R, f, h) ==
  /\ \A x \in S : g[x] \in R /\ f[x] \in Int /\ h[g[x]] = f[x]
  /\ \A y \in R : \E x \in S : g[x] = y
  /\ \A x \in S : \A z \in S : g[x] = g[z] => x = z

LEMMA TotalTaken ==
  ASSUME NEW S, IsFiniteSet(S), NEW R, NEW g, NEW f, NEW h, Taken(g, S, R, f, h)
  PROVE  IsFiniteSet(R) /\ Total(h, R) = Total(f, S)
<1>1. IsFiniteSet(R)
  BY FiniteImage DEF Taken
<1> DEFINE of(y) == {x \in S : g[x] = y}
           by == [y \in R |-> Total(f, of(y))]
<1>2. Total(by, R) = Total(f, S)
  <2>1. (\A x \in S : f[x] \in Int) /\ \A x \in S : g[x] \in R
    BY DEF Taken
  <2>2. Total([y \in R |-> Total(f, {x \in S : g[x] = y})], R) = Total(f, S)
    BY <1>1, <2>1, TotalGrouped
  <2> QED BY <2>2
<1>3. \A y \in R : by[y] = h[y] /\ h[y] \in Int
  <2> TAKE y \in R
  <2>1. PICK x \in S : g[x] = y /\ h[y] = f[x] /\ f[x] \in Int
    BY DEF Taken
  <2>2. of(y) = {x}
    BY <2>1 DEF Taken
  <2>3. Total(f, {x}) = f[x]
    BY <2>1, TotalSingle
  <2> QED BY <2>1, <2>2, <2>3
<1>4. Total(by, R) = Total(h, R)
  <2> HIDE DEF by
  <2> QED BY <1>1, <1>3, TotalSame
<1> QED BY <1>1, <1>2, <1>4

-----------------------------------------------------------------------------
(* The ledger.                                                             *)

\* What is recorded, and the memory of where it was, is of its schema.
Shaped(l) ==
  /\ l = [cells |-> l.cells, moves |-> l.moves, origins |-> l.origins, start |-> l.start, closed |-> l.closed]
  /\ l.cells \in [DOMAIN l.cells -> Nat] /\ IsFiniteSet(DOMAIN l.cells)
  /\ DOMAIN l.cells \subseteq Rows \X Leaves \X Nat
  /\ l.moves \subseteq Item /\ IsFiniteSet(l.moves)
  /\ \A x, y \in l.moves : x.id = y.id => x = y
  /\ IsFiniteSet(l.origins)
  /\ \A o \in l.origins :
       /\ o = [row |-> o.row, ref |-> o.ref, period |-> o.period, origin |-> o.origin, amount |-> o.amount]
       /\ o.origin \in Nat /\ o.amount \in Int

\* What movements change is a number.
LEMMA DeltasInt ==
  ASSUME NEW moves \in SUBSET Item, IsFiniteSet(moves), NEW leaf, NEW k
  PROVE  Deltas(moves, leaf, k) \in Int
<1> DEFINE S == {x \in moves : x.leaf = leaf /\ x.period = k}
<1>1. IsFiniteSet(S) /\ \A x \in S : x.amount \in Int
  BY FS_Subset DEF Item
<1>2. Deltas(moves, leaf, k) = DeltaSum(S)
  BY DEF Deltas, DeltaSum
<1> HIDE DEF S
<1> QED BY <1>1, <1>2, DeltaSumIs

LEMMA OwnInt ==
  ASSUME NEW l, Shaped(l), NEW c
  PROVE  Cell(l, c[1], c[2], c[3]) \in Int /\ Own(l, c) \in Int
<1>1. Cell(l, c[1], c[2], c[3]) \in Int
  BY DEF Cell, Shaped
<1>2. Deltas(l.moves, c[2], c[3]) \in Int
  BY DeltasInt DEF Shaped
<1> QED BY <1>1, <1>2 DEF Own

\* The months a cell goes back to, with what each gets.
LEMMA PartsHave ==
  ASSUME NEW l, Shaped(l), NEW c, Memory(l, c) # {}, NEW moves \in SUBSET Item, IsFiniteSet(moves)
  PROVE  LET r == Parts(l, c, moves)
             D == {o.origin : o \in Memory(l, c)}
         IN  /\ D \in SUBSET Nat /\ IsFiniteSet(D)
             /\ r.parts \in [D -> Int] /\ r.missing \in Nat
             /\ Total(r.parts, D) = Own(l, c) + r.missing
<1> DEFINE memory == Memory(l, c)
           D == {o.origin : o \in memory}
           amount(m) == (CHOOSE o \in memory : o.origin = m).amount
           floor(m) == IF c[1] = "actual" THEN - Deltas(moves, c[2], m) ELSE 0
           parts == [m \in D |-> amount(m)]
           floors == [m \in D |-> floor(m)]
           own == Own(l, c)
<1>1. IsFiniteSet(memory) /\ \A o \in memory : o.origin \in Nat /\ o.amount \in Int
  BY FS_Subset DEF Memory, Shaped
<1>2. D \in SUBSET Nat /\ D # {}
  BY <1>1
<1>3. IsFiniteSet(D)
  <2> DEFINE f == [o \in memory |-> o.origin]
  <2>1. (\A o \in memory : f[o] \in D) /\ \A m \in D : \E o \in memory : f[o] = m
    OBVIOUS
  <2> HIDE DEF f, D, memory
  <2> QED BY <1>1, <2>1, FiniteImage
<1>4. own \in Int
  BY OwnInt
<1>5. parts \in [D -> Int]
  <2>1. \A m \in D : amount(m) \in Int
    <3> TAKE m \in D
    <3>1. \E o \in memory : o.origin = m
      OBVIOUS
    <3> HIDE DEF memory
    <3>2. (CHOOSE o \in memory : o.origin = m) \in memory
      BY <3>1
    <3> QED BY <1>1, <3>2
  <2> HIDE DEF amount, D
  <2> QED BY <2>1
<1>6. floors \in [D -> Int]
  <2>1. \A m \in D : floor(m) \in Int
    <3> TAKE m \in D
    <3>1. Deltas(moves, c[2], m) \in Int
      BY DeltasInt
    <3> QED BY <3>1
  <2> HIDE DEF floor, D
  <2> QED BY <2>1
<1>7. Parts(l, c, moves) = IF c[1] = "actual" /\ own = 0
                           THEN [parts |-> [m \in D |-> 0], missing |-> 0]
                           ELSE Restored(own, parts, floors)
  BY DEF Parts
<1> HIDE DEF D, parts, floors, own
<1>8. CASE c[1] = "actual" /\ own = 0
  <2> DEFINE none == [m \in D |-> 0]
  <2>1. \A m \in D : none[m] = 0
    OBVIOUS
  <2>2. none \in [D -> Int]
    OBVIOUS
  <2>3. Parts(l, c, moves) = [parts |-> none, missing |-> 0]
    BY <1>7, <1>8
  <2> HIDE DEF none
  <2>4. Total(none, D) = 0
    BY <1>3, <2>1, TotalZero
  <2> QED BY <1>2, <1>3, <1>8, <2>2, <2>3, <2>4 DEF D, own
<1>9. CASE ~(c[1] = "actual" /\ own = 0)
  <2>1. Parts(l, c, moves) = Restored(own, parts, floors)
    BY <1>7, <1>9
  <2>2. LET r == Restored(own, parts, floors) IN
        /\ r.parts \in [D -> Int] /\ r.missing \in Nat
        /\ Total(r.parts, D) = own + r.missing
    BY <1>2, <1>3, <1>4, <1>5, <1>6, RestoredHas
  <2> QED BY <1>2, <1>3, <2>1, <2>2 DEF D, own
<1> QED BY <1>8, <1>9

-----------------------------------------------------------------------------
(* The pieces of a relocation.                                             *)

Piece(row, leaf, k, src, amount, keep) ==
  [cell |-> <<row, leaf, k>>, src |-> src, amount |-> amount, keep |-> keep]

\* What a cell sends: its parts to their months, or what was typed in it.
Sent(l, from, to, moves, c) ==
  IF HasMemory(l, from, to, c)
  THEN LET parts == Parts(l, c, moves).parts IN
       {Piece(c[1], c[2], m, c, parts[m], TRUE) : m \in DOMAIN parts}
  ELSE {Piece(c[1], c[2], Place(l, from, to, c[2], c[3]), c, Own(l, c),
              c \in DOMAIN l.cells /\ l.cells[c] = 0)}

\* What a movement brings with it.
Brought(x) == Piece("actual", x.leaf, x.period, <<"item", x.leaf, x.id>>, Delta(x), FALSE)
Moving(moves) == {x \in moves : Delta(x) # 0}
Sources(l) == DOMAIN l.cells \cup Explained(l)

LEMMA PiecesAre ==
  ASSUME NEW l, NEW from, NEW to, NEW moves
  PROVE  Pieces(l, from, to, moves)
           = (UNION {Sent(l, from, to, moves, c) : c \in Sources(l)}) \cup {Brought(x) : x \in Moving(moves)}
<1> DEFINE piece(row, leaf, k, src, amount, keep) ==
             [cell |-> <<row, leaf, k>>, src |-> src, amount |-> amount, keep |-> keep]
           of(c) == IF HasMemory(l, from, to, c)
                    THEN LET parts == Parts(l, c, moves).parts IN
                         {piece(c[1], c[2], m, c, parts[m], TRUE) : m \in DOMAIN parts}
                    ELSE {piece(c[1], c[2], Place(l, from, to, c[2], c[3]), c, Own(l, c),
                               c \in DOMAIN l.cells /\ l.cells[c] = 0)}
           items == {piece("actual", x.leaf, x.period, <<"item", x.leaf, x.id>>, Delta(x), FALSE) :
                       x \in {y \in moves : Delta(y) # 0}}
<1>1. Pieces(l, from, to, moves) = (UNION {of(c) : c \in DOMAIN l.cells \cup Explained(l)}) \cup items
  BY DEF Pieces
<1>2. \A c : of(c) = Sent(l, from, to, moves, c)
  BY DEF Sent, Piece
<1>3. items = {Brought(x) : x \in Moving(moves)}
  BY DEF Brought, Moving, Piece
<1> HIDE DEF of, items
<1> QED BY <1>1, <1>2, <1>3 DEF Sources

LEMMA PieceHas ==
  ASSUME NEW row, NEW leaf, NEW k, NEW src, NEW amount, NEW keep
  PROVE  /\ Piece(row, leaf, k, src, amount, keep).cell = <<row, leaf, k>>
         /\ Piece(row, leaf, k, src, amount, keep).src = src
         /\ Piece(row, leaf, k, src, amount, keep).amount = amount
         /\ Piece(row, leaf, k, src, amount, keep).keep = keep
BY DEF Piece

Amounts(S) == [p \in S |-> p.amount]

\* No part of a cell is lost, when it is not the relocation that stops.
Nothing(l, from, to, moves, c) == HasMemory(l, from, to, c) => Parts(l, c, moves).missing = 0

\* A piece of a cell stays in its row and its leaf.
SentFrom(p, c) == p.cell = <<c[1], c[2], p.cell[3]>> /\ p.src = c /\ p.amount \in Int

\* What a cell sends adds up to what was typed in it.
LEMMA SentHas ==
  ASSUME NEW l, Shaped(l), NEW from, NEW to, NEW moves \in SUBSET Item, IsFiniteSet(moves), NEW c
  PROVE  LET S == Sent(l, from, to, moves, c) IN
         /\ IsFiniteSet(S)
         /\ \A p \in S : SentFrom(p, c)
         /\ Nothing(l, from, to, moves, c) => Total(Amounts(S), S) = Own(l, c)
<1> DEFINE S == Sent(l, from, to, moves, c)
<1>1. CASE HasMemory(l, from, to, c)
  <2> DEFINE r == Parts(l, c, moves)
             D == {o.origin : o \in Memory(l, c)}
             to2(m) == Piece(c[1], c[2], m, c, r.parts[m], TRUE)
             g == [m \in D |-> to2(m)]
  <2>1. Memory(l, c) # {}
    BY <1>1 DEF HasMemory
  <2>2. /\ D \in SUBSET Nat /\ IsFiniteSet(D) /\ r.parts \in [D -> Int] /\ r.missing \in Nat
        /\ Total(r.parts, D) = Own(l, c) + r.missing
    BY <2>1, PartsHave
  <2>3. S = {to2(m) : m \in D}
    <3>1. DOMAIN r.parts = D
      BY <2>2
    <3> QED BY <1>1, <3>1 DEF Sent
  <2> DEFINE parts == r.parts
  <2>4. \A m \in D : g[m] = to2(m) /\ parts[m] \in Int
    BY <2>2
  <2>5. \A m \in D : to2(m).cell = <<c[1], c[2], m>> /\ to2(m).src = c /\ to2(m).amount = parts[m]
    BY DEF Piece
  <2>6. Own(l, c) \in Int
    BY OwnInt
  <2> HIDE DEF S, D, g, parts, r, to2
  <2>7. Taken(g, D, S, parts, Amounts(S))
    <3>1. \A m \in D : g[m] \in S /\ parts[m] \in Int /\ Amounts(S)[g[m]] = parts[m]
      <4> TAKE m \in D
      <4>1. g[m] \in S /\ g[m].amount = parts[m]
        BY <2>3, <2>4, <2>5
      <4> QED BY <2>4, <4>1 DEF Amounts
    <3>2. \A y \in S : \E m \in D : g[m] = y
      BY <2>3, <2>4
    <3>3. ASSUME NEW m \in D, NEW n \in D, g[m] = g[n] PROVE m = n
      <4>1. g[m].cell = <<c[1], c[2], m>> /\ g[n].cell = <<c[1], c[2], n>>
        BY <2>4, <2>5
      <4>2. <<c[1], c[2], m>> = <<c[1], c[2], n>>
        BY <3>3, <4>1
      <4> QED BY <4>2
    <3> QED BY <3>1, <3>2, <3>3 DEF Taken
  <2>8. IsFiniteSet(S) /\ Total(Amounts(S), S) = Total(parts, D)
    BY <2>2, <2>7, TotalTaken
  <2>9. \A p \in S : SentFrom(p, c)
    <3> TAKE p \in S
    <3>1. PICK m \in D : p = to2(m)
      BY <2>3
    <3>2. p.cell = <<c[1], c[2], m>> /\ p.src = c /\ p.amount = parts[m] /\ parts[m] \in Int
      BY <2>4, <2>5, <3>1
    <3> QED BY <3>2 DEF SentFrom
  <2>10. Nothing(l, from, to, moves, c) => Total(Amounts(S), S) = Own(l, c)
    <3> SUFFICES ASSUME Nothing(l, from, to, moves, c) PROVE Total(Amounts(S), S) = Own(l, c)
      OBVIOUS
    <3>1. r.missing = 0
      BY <1>1 DEF Nothing, r
    <3> QED BY <2>2, <2>6, <2>8, <3>1 DEF parts
  <2> QED BY <2>8, <2>9, <2>10 DEF S
<1>2. CASE ~HasMemory(l, from, to, c)
  <2> DEFINE keep == c \in DOMAIN l.cells /\ l.cells[c] = 0
             k == Place(l, from, to, c[2], c[3])
             p == Piece(c[1], c[2], k, c, Own(l, c), keep)
  <2>1. S = {p}
    BY <1>2 DEF Sent
  <2> HIDE DEF keep, k
  <2>2. p.cell = <<c[1], c[2], k>> /\ p.src = c /\ p.amount = Own(l, c) /\ Own(l, c) \in Int
    BY PieceHas, OwnInt
  <2> HIDE DEF p, S
  <2>3. Amounts(S)[p] = Own(l, c)
    BY <2>1, <2>2 DEF Amounts
  <2>4. Total(Amounts(S), {p}) = Own(l, c)
    BY <2>2, <2>3, TotalSingle
  <2>5. IsFiniteSet(S)
    BY <2>1, FS_Singleton
  <2>6. \A q \in S : SentFrom(q, c)
    BY <2>1, <2>2 DEF SentFrom
  <2> QED BY <2>4, <2>5, <2>6, <2>1 DEF S
<1> QED BY <1>1, <1>2

\* What a movement brings is its own.
LEMMA BroughtHas ==
  ASSUME NEW x, x.amount \in Int
  PROVE  /\ Brought(x).cell = <<"actual", x.leaf, x.period>>
         /\ Brought(x).src = <<"item", x.leaf, x.id>>
         /\ Brought(x).amount = Delta(x) /\ Delta(x) \in Int
<1>1. Delta(x) \in Int
  BY DEF Delta
<1>2. /\ Brought(x).cell = <<"actual", x.leaf, x.period>>
      /\ Brought(x).src = <<"item", x.leaf, x.id>> /\ Brought(x).amount = Delta(x)
  BY DEF Brought, Piece
<1> QED BY <1>1, <1>2

\* A movement is another by its number.
Numbered(moves) == \A x, y \in moves : x.id = y.id => x = y

\* What movements of a leaf bring.
LEMMA BroughtTotal ==
  ASSUME NEW moves \in SUBSET Item, IsFiniteSet(moves), Numbered(moves), NEW leaf
  PROVE  LET M == {x \in Moving(moves) : x.leaf = leaf}
             B == {Brought(x) : x \in M}
         IN  IsFiniteSet(B) /\ Total(Amounts(B), B) = Total([x \in M |-> Delta(x)], M)
<1> DEFINE M == {x \in Moving(moves) : x.leaf = leaf}
           B == {Brought(x) : x \in M}
           g == [x \in M |-> Brought(x)]
           f == [x \in M |-> Delta(x)]
<1>1. M \subseteq moves
  BY DEF Moving
<1>2. IsFiniteSet(M) /\ \A x \in M : x \in moves /\ x.amount \in Int
  BY <1>1, FS_Subset DEF Item
<1>3. \A x \in M : g[x] = Brought(x) /\ f[x] = Delta(x) /\ g[x] \in B
  OBVIOUS
<1>4. \A y \in B : \E x \in M : g[x] = y
  OBVIOUS
<1> HIDE DEF M, B, g, f
<1>5. Taken(g, M, B, f, Amounts(B))
  <2>1. \A x \in M : g[x] \in B /\ f[x] \in Int /\ Amounts(B)[g[x]] = f[x]
    <3> TAKE x \in M
    <3>1. Brought(x).amount = Delta(x) /\ Delta(x) \in Int
      BY <1>2, BroughtHas
    <3> QED BY <1>3, <3>1 DEF Amounts
  <2>2. ASSUME NEW x \in M, NEW z \in M, g[x] = g[z] PROVE x = z
    <3>1. Brought(x).src = <<"item", x.leaf, x.id>> /\ Brought(z).src = <<"item", z.leaf, z.id>>
      BY <1>2, BroughtHas
    <3>2. <<"item", x.leaf, x.id>> = <<"item", z.leaf, z.id>>
      BY <1>3, <2>2, <3>1
    <3>3. x.id = z.id
      BY <3>2
    <3> QED BY <1>2, <3>3 DEF Numbered
  <2> QED BY <1>4, <2>1, <2>2 DEF Taken
<1>6. IsFiniteSet(B) /\ Total(Amounts(B), B) = Total(f, M)
  BY <1>2, <1>5, TotalTaken
<1> QED BY <1>6 DEF M, B, f

\* A cell that movements explain is of a leaf and of a month or a cycle.
LEMMA SourcesHave ==
  ASSUME NEW l, Shaped(l)
  PROVE  Sources(l) \subseteq Rows \X Leaves \X Nat /\ IsFiniteSet(Sources(l))
<1> DEFINE M == Moving(l.moves)
           f == [x \in M |-> <<"actual", x.leaf, x.period>>]
           E == Explained(l)
<1>1. M \subseteq Item /\ IsFiniteSet(M)
  BY FS_Subset DEF Moving, Shaped
<1>2. E = {<<"actual", x.leaf, x.period>> : x \in M}
  BY DEF Explained, Moving
<1>3. (\A x \in M : f[x] \in E) /\ \A c \in E : \E x \in M : f[x] = c
  BY <1>2
<1>4. E \subseteq Rows \X Leaves \X Nat
  BY <1>1, <1>2 DEF Item, Rows
<1> HIDE DEF M, f
<1>5. IsFiniteSet(E)
  BY <1>1, <1>3, FiniteImage
<1>6. DOMAIN l.cells \subseteq Rows \X Leaves \X Nat /\ IsFiniteSet(DOMAIN l.cells)
  BY DEF Shaped
<1> HIDE DEF E
<1>7. IsFiniteSet(DOMAIN l.cells \cup E)
  BY <1>5, <1>6, FS_Union
<1> QED BY <1>4, <1>6, <1>7 DEF Sources, E

\* What some cells send.
SentBy(l, from, to, moves, C) == UNION {Sent(l, from, to, moves, c) : c \in C}

LEMMA SentByFinite ==
  ASSUME NEW l, Shaped(l), NEW from, NEW to, NEW moves \in SUBSET Item, IsFiniteSet(moves),
         NEW C \in SUBSET Sources(l)
  PROVE  IsFiniteSet(C) /\ IsFiniteSet(SentBy(l, from, to, moves, C))
<1> DEFINE f == [c \in C |-> Sent(l, from, to, moves, c)]
           T == {Sent(l, from, to, moves, c) : c \in C}
<1>1. IsFiniteSet(C)
  BY SourcesHave, FS_Subset
<1>2. (\A c \in C : f[c] \in T) /\ \A S \in T : \E c \in C : f[c] = S
  OBVIOUS
<1>3. \A S \in T : IsFiniteSet(S)
  <2> TAKE S \in T
  <2>1. PICK c \in C : S = Sent(l, from, to, moves, c)
    OBVIOUS
  <2> QED BY <2>1, SentHas
<1>4. SentBy(l, from, to, moves, C) = UNION T
  BY DEF SentBy
<1> HIDE DEF T, f
<1>5. IsFiniteSet(T)
  BY <1>1, <1>2, FiniteImage
<1> QED BY <1>1, <1>3, <1>4, <1>5, FS_UNION

\* What a relocation moves is finitely many amounts, each to a cell of its leaf.
LEMMA PiecesHave ==
  ASSUME NEW l, Shaped(l), NEW from, NEW to, NEW moves \in SUBSET Item, IsFiniteSet(moves)
  PROVE  LET P == Pieces(l, from, to, moves) IN
         /\ IsFiniteSet(P)
         /\ \A p \in P : /\ p.amount \in Int /\ p.cell[1] \in Rows /\ p.cell[2] \in Leaves
                         /\ p.cell = <<p.cell[1], p.cell[2], p.cell[3]>>
<1> DEFINE P == Pieces(l, from, to, moves)
           A == SentBy(l, from, to, moves, Sources(l))
           M == Moving(moves)
           B == {Brought(x) : x \in M}
           g == [x \in M |-> Brought(x)]
<1>1. P = A \cup B
  BY PiecesAre DEF SentBy
<1>2. IsFiniteSet(A)
  BY SentByFinite
<1>3. M \subseteq moves /\ IsFiniteSet(M)
  BY FS_Subset DEF Moving
<1>4. (\A x \in M : g[x] \in B) /\ \A p \in B : \E x \in M : g[x] = p
  OBVIOUS
<1>5. \A p \in A : /\ p.amount \in Int /\ p.cell[1] \in Rows /\ p.cell[2] \in Leaves
                   /\ p.cell = <<p.cell[1], p.cell[2], p.cell[3]>>
  <2> TAKE p \in A
  <2>1. PICK c \in Sources(l) : p \in Sent(l, from, to, moves, c)
    BY DEF SentBy
  <2>2. c \in Rows \X Leaves \X Nat
    BY SourcesHave
  <2>3. p.cell = <<c[1], c[2], p.cell[3]>> /\ p.amount \in Int
    <3>1. SentFrom(p, c)
      BY <2>1, SentHas
    <3> QED BY <3>1 DEF SentFrom
  <2>4. c[1] \in Rows /\ c[2] \in Leaves /\ p.cell[1] = c[1] /\ p.cell[2] = c[2]
    BY <2>2, <2>3
  <2> QED BY <2>3, <2>4
<1>6. \A p \in B : /\ p.amount \in Int /\ p.cell[1] \in Rows /\ p.cell[2] \in Leaves
                   /\ p.cell = <<p.cell[1], p.cell[2], p.cell[3]>>
  <2> TAKE p \in B
  <2>1. PICK x \in M : p = Brought(x)
    OBVIOUS
  <2>2. x \in Item /\ x.amount \in Int /\ x.leaf \in Leaves
    BY <1>3 DEF Item
  <2>3. p.cell = <<"actual", x.leaf, x.period>> /\ p.amount \in Int
    BY <2>1, <2>2, BroughtHas
  <2> QED BY <2>2, <2>3 DEF Rows
<1> HIDE DEF A, B, M, g, P
<1>7. IsFiniteSet(B)
  BY <1>3, <1>4, FiniteImage
<1>8. IsFiniteSet(P)
  BY <1>1, <1>2, <1>7, FS_Union
<1> QED BY <1>1, <1>5, <1>6, <1>8 DEF P

\* What a relocation puts in the cells of a row of a leaf.
LEMMA CellsAfterHave ==
  ASSUME NEW P, IsFiniteSet(P), \A p \in P : p.amount \in Int
  PROVE  LET cells == CellsAfter(P) IN
         /\ IsFiniteSet(DOMAIN cells) /\ DOMAIN cells \subseteq {p.cell : p \in P}
         /\ cells \in [DOMAIN cells -> Int]
<1> DEFINE at(c) == {p \in P : p.cell = c}
           sum(c) == Weight(at(c))
           R == {p.cell : p \in P}
           D == {c \in R : sum(c) # 0 \/ \E p \in at(c) : p.keep}
           f == [p \in P |-> p.cell]
<1>1. CellsAfter(P) = [c \in D |-> sum(c)]
  BY DEF CellsAfter
<1>2. (\A p \in P : f[p] \in R) /\ \A c \in R : \E p \in P : f[p] = c
  OBVIOUS
<1>3. IsFiniteSet(R)
  <2> HIDE DEF f, R
  <2> QED BY <1>2, FiniteImage
<1>4. D \subseteq R /\ IsFiniteSet(D)
  <2>1. D \subseteq R
    OBVIOUS
  <2> HIDE DEF D, R
  <2> QED BY <1>3, <2>1, FS_Subset
<1>5. \A c : sum(c) \in Int
  <2> TAKE c
  <2> DEFINE S == at(c)
  <2>1. IsFiniteSet(S) /\ \A p \in S : p.amount \in Int
    BY FS_Subset
  <2> HIDE DEF S
  <2>2. Weight(S) \in Int
    BY <2>1, WeightIs
  <2> QED BY <2>2 DEF S
<1> DEFINE cells == [c \in D |-> sum(c)]
<1> HIDE DEF D, sum
<1>6. cells \in [D -> Int] /\ DOMAIN cells = D
  BY <1>5
<1> HIDE DEF cells
<1>7. CellsAfter(P) = cells
  BY <1>1 DEF cells
<1> QED BY <1>4, <1>6, <1>7

CellsOf(cells, row, leaf) == {c \in DOMAIN cells : c[1] = row /\ c[2] = leaf}
PiecesOf(P, row, leaf) == {p \in P : p.cell[1] = row /\ p.cell[2] = leaf}

LEMMA RowAfter ==
  ASSUME NEW P, IsFiniteSet(P), \A p \in P : p.amount \in Int, NEW row, NEW leaf
  PROVE  CellSum(CellsAfter(P), CellsOf(CellsAfter(P), row, leaf))
           = Total(Amounts(PiecesOf(P, row, leaf)), PiecesOf(P, row, leaf))
<1> DEFINE cells == CellsAfter(P)
           Q == {p \in P : p.cell[1] = row /\ p.cell[2] = leaf}
           K == {c \in DOMAIN cells : c[1] = row /\ c[2] = leaf}
           R == {p.cell : p \in Q}
           at(c) == {p \in P : p.cell = c}
           g == [p \in Q |-> p.cell]
           by == [c \in R |-> Total(Amounts(Q), {p \in Q : g[p] = c})]
           sums == [c \in R |-> Weight(at(c))]
<1>1. IsFiniteSet(Q) /\ \A p \in Q : p.amount \in Int
  BY FS_Subset
<1>2. /\ \A p \in Q : g[p] = p.cell /\ g[p] \in R
      /\ \A c \in R : \E p \in Q : g[p] = c
      /\ \A c \in R : c[1] = row /\ c[2] = leaf
  OBVIOUS
<1>3. IsFiniteSet(R)
  <2> HIDE DEF g, R, Q
  <2> QED BY <1>1, <1>2, FiniteImage
<1>4. \A p \in Q : Amounts(Q)[p] \in Int
  BY <1>1 DEF Amounts
<1>5. Total(by, R) = Total(Amounts(Q), Q)
  <2>1. Total([c \in R |-> Total(Amounts(Q), {p \in Q : g[p] = c})], R) = Total(Amounts(Q), Q)
    <3> HIDE DEF g, R, Q
    <3> QED BY <1>1, <1>2, <1>3, <1>4, TotalGrouped
  <2> QED BY <2>1
<1>6. \A c \in R : by[c] = sums[c] /\ sums[c] \in Int
  <2> TAKE c \in R
  <2> DEFINE S == at(c)
             h == [p \in S |-> p.amount]
  <2>1. {p \in Q : g[p] = c} = S
    BY <1>2
  <2>2. IsFiniteSet(S) /\ \A p \in S : p.amount \in Int
    BY FS_Subset
  <2>3. \A p \in S : Amounts(Q)[p] = h[p] /\ h[p] \in Int
    <3>1. \A p \in S : p \in Q
      BY <1>2
    <3>2. \A p \in S : h[p] = p.amount
      OBVIOUS
    <3> HIDE DEF S, Q, h
    <3> QED BY <2>2, <3>1, <3>2 DEF Amounts
  <2>4. by[c] = Total(Amounts(Q), S) /\ sums[c] = Weight(S)
    BY <2>1
  <2>5. Weight(S) = Total(h, S) /\ Weight(S) \in Int
    <3> HIDE DEF S
    <3> QED BY <2>2, WeightIs
  <2> HIDE DEF S, h, by, sums, Q
  <2>6. Total(Amounts(Q), S) = Total(h, S)
    BY <2>2, <2>3, TotalSame
  <2> QED BY <2>4, <2>5, <2>6
<1>7. Total(by, R) = Total(sums, R)
  <2>1. \A c \in R : by[c] \in Int
    <3> HIDE DEF by, sums, R
    <3> QED BY <1>6
  <2> HIDE DEF by, sums, R
  <2> QED BY <1>3, <1>6, <2>1, TotalSame
<1>8. K \subseteq R /\ \A c \in R : c \in K \/ sums[c] = 0
  <2> DEFINE U == {p.cell : p \in P}
             D == {c \in U : Weight(at(c)) # 0 \/ \E p \in at(c) : p.keep}
  <2>1. cells = [c \in D |-> Weight(at(c))]
    BY DEF CellsAfter
  <2>2. DOMAIN cells = D
    BY <2>1
  <2>3. ASSUME NEW c \in K PROVE c \in R
    <3>1. c \in U /\ c[1] = row /\ c[2] = leaf
      BY <2>2
    <3> QED BY <3>1
  <2>4. ASSUME NEW c \in R PROVE c \in K \/ sums[c] = 0
    <3>1. c \in U /\ c[1] = row /\ c[2] = leaf /\ sums[c] = Weight(at(c))
      OBVIOUS
    <3>2. Weight(at(c)) # 0 => c \in D
      BY <3>1
    <3> QED BY <2>2, <3>1, <3>2
  <2> QED BY <2>3, <2>4
<1>9. \A c \in K : cells[c] = sums[c] /\ sums[c] \in Int
  <2> DEFINE U == {p.cell : p \in P}
             D == {c \in U : Weight(at(c)) # 0 \/ \E p \in at(c) : p.keep}
  <2>1. cells = [c \in D |-> Weight(at(c))]
    BY DEF CellsAfter
  <2>2. \A c \in K : c \in D /\ c \in R /\ sums[c] \in Int
    <3>1. DOMAIN cells = D
      BY <2>1
    <3> HIDE DEF sums, D, cells, R
    <3> QED BY <1>6, <1>8, <3>1
  <2>3. \A c \in D : cells[c] = Weight(at(c))
    <3> HIDE DEF D
    <3> QED BY <2>1
  <2>4. \A c \in R : sums[c] = Weight(at(c))
    OBVIOUS
  <2> HIDE DEF K, D, R, sums, cells
  <2> QED BY <2>2, <2>3, <2>4
<1> HIDE DEF Q, K, R, sums, by, cells
<1>10. Within(sums, R, K)
  BY <1>6, <1>8 DEF Within
<1>11. Total(sums, R) = Total(sums, K)
  BY <1>3, <1>10, TotalInside
<1>12. IsFiniteSet(K) /\ \A c \in K : cells[c] \in Int
  BY <1>3, <1>8, <1>9, FS_Subset
<1>13. Total(cells, K) = Total(sums, K)
  BY <1>9, <1>12, TotalSame
<1>14. CellSum(cells, K) = Total(cells, K)
  BY <1>12, CellSumIs
<1>15. CellSum(cells, K) = Total(Amounts(Q), Q)
  BY <1>5, <1>7, <1>11, <1>13, <1>14
<1> QED BY <1>15 DEF cells, K, Q, CellsOf, PiecesOf

NothingLost(l, from, to, moves, C) == \A c \in C : Nothing(l, from, to, moves, c)

\* What some cells send adds up to what was typed in them.
LEMMA SentTotal ==
  ASSUME NEW l, Shaped(l), NEW from, NEW to, NEW moves \in SUBSET Item, IsFiniteSet(moves),
         NEW C \in SUBSET Sources(l), NothingLost(l, from, to, moves, C)
  PROVE  LET A == SentBy(l, from, to, moves, C) IN
         Total(Amounts(A), A) = Total([c \in C |-> Own(l, c)], C)
<1> DEFINE A == SentBy(l, from, to, moves, C)
           g == [p \in A |-> p.src]
           own == [c \in C |-> Own(l, c)]
           by == [c \in C |-> Total(Amounts(A), {p \in A : g[p] = c})]
<1>1. IsFiniteSet(C) /\ IsFiniteSet(A)
  BY SentByFinite
<1>8. ASSUME NEW c \in C, NEW p \in Sent(l, from, to, moves, c) PROVE p.src = c /\ p.amount \in Int
  <2> HIDE DEF A, g, own, by
  <2>1. SentFrom(p, c)
    BY SentHas
  <2> QED BY <2>1 DEF SentFrom
<1>9. ASSUME NEW c \in C
      PROVE  LET S == Sent(l, from, to, moves, c) IN IsFiniteSet(S) /\ Total(Amounts(S), S) = Own(l, c)
  <2>1. Nothing(l, from, to, moves, c)
    BY DEF NothingLost
  <2> HIDE DEF A, g, own, by
  <2> QED BY <2>1, SentHas
<1>2. \A c \in C : \A p \in Sent(l, from, to, moves, c) : p \in A /\ p.src = c /\ p.amount \in Int
  <2> TAKE c \in C
  <2>1. \A p \in Sent(l, from, to, moves, c) : p.src = c /\ p.amount \in Int
    BY <1>8
  <2> QED BY <2>1 DEF SentBy
<1>3. \A p \in A : \E c \in C : p \in Sent(l, from, to, moves, c)
  BY DEF SentBy
<1>4. \A p \in A : g[p] = p.src /\ g[p] \in C /\ Amounts(A)[p] \in Int /\ Amounts(A)[p] = p.amount
  <2> TAKE p \in A
  <2>1. PICK c \in C : p \in Sent(l, from, to, moves, c)
    BY <1>3
  <2> HIDE DEF A
  <2>2. p.src = c /\ p.amount \in Int
    BY <1>2, <2>1
  <2> QED BY <2>2 DEF Amounts
<1>5. Total(by, C) = Total(Amounts(A), A)
  <2>1. Total([c \in C |-> Total(Amounts(A), {p \in A : g[p] = c})], C) = Total(Amounts(A), A)
    <3> HIDE DEF g, A
    <3> QED BY <1>1, <1>4, TotalGrouped
  <2> QED BY <2>1
<1>6. \A c \in C : by[c] = own[c] /\ own[c] \in Int
  <2> TAKE c \in C
  <2> DEFINE S == Sent(l, from, to, moves, c)
  <2>1. {p \in A : g[p] = c} = S
    <3> HIDE DEF A
    <3> QED BY <1>2, <1>3, <1>4
  <2>2. IsFiniteSet(S) /\ Total(Amounts(S), S) = Own(l, c)
    BY <1>9
  <2>3. \A p \in S : Amounts(A)[p] = Amounts(S)[p] /\ Amounts(S)[p] \in Int
    <3> HIDE DEF A
    <3> QED BY <1>2, <1>4 DEF Amounts
  <2>4. by[c] = Total(Amounts(A), S) /\ own[c] = Own(l, c) /\ Own(l, c) \in Int
    BY <2>1, OwnInt
  <2> HIDE DEF S, A, by, own
  <2>5. Total(Amounts(A), S) = Total(Amounts(S), S)
    BY <2>2, <2>3, TotalSame
  <2> QED BY <2>2, <2>4, <2>5
<1>7. Total(by, C) = Total(own, C)
  <2> HIDE DEF by, own
  <2> QED BY <1>1, <1>6, TotalSame
<1> QED BY <1>5, <1>7

\* What a row of a leaf is made of: what was typed, and what movements explain.
RowCells(l, row, leaf) == {c \in DOMAIN l.cells : c[1] = row /\ c[2] = leaf}
RowSources(l, row, leaf) == {c \in Sources(l) : c[1] = row /\ c[2] = leaf}
MovingOf(moves, row, leaf) == {x \in Moving(moves) : row = "actual" /\ x.leaf = leaf}
Changed(M) == [x \in M |-> Delta(x)]

LEMMA TypedTotal ==
  ASSUME NEW l, Shaped(l), NEW row, row # "actual", NEW leaf
  PROVE  LET C == RowSources(l, row, leaf) IN
         RowTotal(l, row, leaf) = Total([c \in C |-> Own(l, c)], C)
<1> DEFINE C == RowSources(l, row, leaf)
           K == RowCells(l, row, leaf)
           own == [c \in C |-> Own(l, c)]
<1>1. C = K
  <2>1. \A c \in Explained(l) : c[1] = "actual"
    BY DEF Explained
  <2> QED BY <2>1 DEF RowSources, Sources, RowCells
<1>2. IsFiniteSet(K) /\ \A c \in K : c \in DOMAIN l.cells /\ l.cells[c] \in Int /\ c = <<c[1], c[2], c[3]>>
  BY FS_Subset DEF RowCells, Shaped
<1>3. \A c \in K : own[c] = l.cells[c]
  <2> TAKE c \in K
  <2>1. c[1] # "actual"
    BY DEF RowCells
  <2>2. Cell(l, c[1], c[2], c[3]) = l.cells[c]
    BY <1>2 DEF Cell
  <2>3. Own(l, c) = l.cells[c]
    BY <1>2, <2>1, <2>2 DEF Own
  <2> QED BY <1>1, <2>3
<1>4. RowTotal(l, row, leaf) = CellSum(l.cells, K)
  BY DEF RowTotal, CellSum, RowCells
<1> DEFINE f == l.cells
<1> HIDE DEF K, own, f, C
<1>5. CellSum(f, K) = Total(f, K)
  BY <1>2, CellSumIs DEF f
<1>6. Total(own, K) = Total(f, K)
  BY <1>2, <1>3, TotalSame DEF f
<1> QED BY <1>1, <1>4, <1>5, <1>6 DEF C, own, f

LEMMA DoneTotal ==
  ASSUME NEW l, Shaped(l), NEW leaf
  PROVE  LET C == RowSources(l, "actual", leaf)
             M == MovingOf(l.moves, "actual", leaf)
         IN  RowTotal(l, "actual", leaf) = Total([c \in C |-> Own(l, c)], C) + Total(Changed(M), M)
<1> DEFINE C == RowSources(l, "actual", leaf)
           K == RowCells(l, "actual", leaf)
           M == MovingOf(l.moves, "actual", leaf)
           own == [c \in C |-> Own(l, c)]
           cell == [c \in C |-> Cell(l, c[1], c[2], c[3])]
           g == [x \in M |-> <<"actual", x.leaf, x.period>>]
           due == [c \in C |-> Total(Changed(M), {x \in M : g[x] = c})]
           f == l.cells
<1>1. C \subseteq Rows \X Leaves \X Nat /\ IsFiniteSet(C)
  BY SourcesHave, FS_Subset DEF RowSources
<1>2. K \subseteq C /\ IsFiniteSet(K)
  BY <1>1, FS_Subset DEF RowSources, RowCells, Sources
<1>3. M \subseteq l.moves /\ IsFiniteSet(M) /\ \A x \in M : x.amount \in Int /\ Delta(x) \in Int
  <2>1. M \subseteq l.moves
    BY DEF MovingOf, Moving
  <2>2. l.moves \subseteq Item /\ IsFiniteSet(l.moves)
    BY DEF Shaped
  <2>3. \A x \in M : x.amount \in Int
    BY <2>1, <2>2 DEF Item
  <2> HIDE DEF M
  <2> QED BY <2>1, <2>2, <2>3, FS_Subset DEF Delta
<1>4. \A x \in M : g[x] = <<"actual", x.leaf, x.period>> /\ g[x] \in C /\ Changed(M)[x] = Delta(x)
  <2> TAKE x \in M
  <2>1. x \in l.moves /\ Delta(x) # 0 /\ x.leaf = leaf
    BY DEF MovingOf, Moving
  <2>2. <<"actual", x.leaf, x.period>> \in Explained(l)
    BY <2>1 DEF Explained
  <2>3. <<"actual", x.leaf, x.period>> \in C
    BY <2>1, <2>2 DEF RowSources, Sources
  <2> QED BY <2>3 DEF Changed
<1>5. Total(due, C) = Total(Changed(M), M)
  <2>1. Total([c \in C |-> Total(Changed(M), {x \in M : g[x] = c})], C) = Total(Changed(M), M)
    <3>1. (\A x \in M : Changed(M)[x] \in Int) /\ \A x \in M : g[x] \in C
      BY <1>3, <1>4
    <3> HIDE DEF g, C, M
    <3> QED BY <1>1, <1>3, <3>1, TotalGrouped
  <2> QED BY <2>1
<1>6. \A c \in C : due[c] \in Int /\ due[c] = Deltas(l.moves, c[2], c[3])
  <2> TAKE c \in C
  <2> DEFINE S == {x \in l.moves : x.leaf = c[2] /\ x.period = c[3]}
             h == [x \in S |-> Delta(x)]
             T == {x \in M : g[x] = c}
  <2>1. c = <<"actual", leaf, c[3]>>
    <3>1. c \in Rows \X Leaves \X Nat /\ c[1] = "actual" /\ c[2] = leaf
      BY <1>1 DEF RowSources
    <3> QED BY <3>1
  <2>2. T \subseteq S /\ \A x \in S : x \in T \/ h[x] = 0
    <3>1. ASSUME NEW x \in T PROVE x \in S
      <4>1. x \in M /\ <<"actual", x.leaf, x.period>> = <<"actual", leaf, c[3]>> /\ x \in l.moves
        BY <1>3, <1>4, <2>1
      <4>2. x.leaf = c[2] /\ x.period = c[3]
        BY <2>1, <4>1
      <4> QED BY <4>1, <4>2
    <3>2. ASSUME NEW x \in S, h[x] # 0 PROVE x \in T
      <4>1. x \in l.moves /\ x.leaf = leaf /\ x.period = c[3] /\ Delta(x) # 0
        BY <2>1, <3>2
      <4>2. x \in M
        BY <4>1 DEF MovingOf, Moving
      <4>3. g[x] = c
        BY <2>1, <4>1, <4>2
      <4> QED BY <4>2, <4>3
    <3> QED BY <3>1, <3>2
  <2>3. IsFiniteSet(S) /\ \A x \in S : x.amount \in Int
    BY FS_Subset DEF Shaped, Item
  <2>4. \A x \in S : h[x] \in Int
    BY <2>3 DEF Delta
  <2>5. Deltas(l.moves, c[2], c[3]) = DeltaSum(S)
    BY DEF Deltas, DeltaSum
  <2>6. due[c] = Total(Changed(M), T)
    OBVIOUS
  <2>7. \A x \in T : Changed(M)[x] = h[x] /\ h[x] \in Int
    <3>1. \A x \in T : Changed(M)[x] = Delta(x) /\ x \in S
      <4>1. \A x \in T : x \in M
        OBVIOUS
      <4> HIDE DEF T, S, M
      <4> QED BY <1>4, <2>2, <4>1
    <3>2. \A x \in S : h[x] = Delta(x)
      OBVIOUS
    <3> HIDE DEF T, S, M, h
    <3> QED BY <2>4, <3>1, <3>2
  <2>8. DeltaSum(S) = Total(h, S) /\ DeltaSum(S) \in Int
    <3> HIDE DEF S
    <3> QED BY <2>3, DeltaSumIs
  <2> HIDE DEF S, T, h, M, due
  <2>9. Within(h, S, T)
    BY <2>2, <2>4 DEF Within
  <2>10. Total(h, S) = Total(h, T)
    BY <2>3, <2>9, TotalInside
  <2>11. IsFiniteSet(T)
    BY <2>2, <2>3, FS_Subset
  <2>12. Total(Changed(M), T) = Total(h, T)
    BY <2>7, <2>11, TotalSame
  <2> QED BY <2>5, <2>6, <2>8, <2>10, <2>12
<1>7. \A c \in C : own[c] \in Int /\ due[c] \in Int /\ cell[c] = own[c] + due[c]
  <2> TAKE c \in C
  <2>1. c[1] = "actual"
    BY DEF RowSources
  <2>2. Cell(l, c[1], c[2], c[3]) \in Int /\ Own(l, c) \in Int
    BY OwnInt
  <2>3. Own(l, c) = Cell(l, c[1], c[2], c[3]) - Deltas(l.moves, c[2], c[3])
    BY <2>1 DEF Own
  <2>4. own[c] = Own(l, c) /\ cell[c] = Cell(l, c[1], c[2], c[3])
    OBVIOUS
  <2> HIDE DEF own, cell, due, C
  <2> QED BY <1>6, <2>2, <2>3, <2>4
<1>8. Within(cell, C, K)
  <2>1. ASSUME NEW c \in C PROVE cell[c] \in Int /\ (c \notin K => cell[c] = 0)
    <3>1. cell[c] = Cell(l, c[1], c[2], c[3]) /\ Cell(l, c[1], c[2], c[3]) \in Int
      BY OwnInt
    <3>2. c = <<c[1], c[2], c[3]>> /\ c[1] = "actual" /\ c[2] = leaf
      BY <1>1 DEF RowSources
    <3>3. c \notin K => c \notin DOMAIN l.cells
      BY <3>2 DEF RowCells
    <3>4. c \notin DOMAIN l.cells => Cell(l, c[1], c[2], c[3]) = 0
      BY <3>2 DEF Cell
    <3> QED BY <3>1, <3>3, <3>4
  <2> HIDE DEF cell, C, K
  <2> QED BY <1>2, <2>1 DEF Within
<1>9. \A c \in K : cell[c] = f[c] /\ f[c] \in Int
  <2> TAKE c \in K
  <2>1. c \in DOMAIN l.cells /\ c \in C /\ l.cells[c] \in Int
    BY <1>2 DEF RowCells, Shaped
  <2>2. c = <<c[1], c[2], c[3]>>
    BY <1>1, <2>1
  <2>3. Cell(l, c[1], c[2], c[3]) = l.cells[c]
    BY <2>1, <2>2 DEF Cell
  <2> QED BY <2>1, <2>3
<1>10. RowTotal(l, "actual", leaf) = CellSum(f, K)
  BY DEF RowTotal, CellSum, RowCells
<1> HIDE DEF C, K, M, own, cell, due, g, f
<1>11. Total(cell, C) = Total(own, C) + Total(due, C)
  BY <1>1, <1>7, TotalAdd
<1>12. Total(cell, C) = Total(cell, K)
  BY <1>1, <1>8, TotalInside
<1>13. Total(cell, K) = Total(f, K)
  BY <1>2, <1>9, TotalSame
<1>14. CellSum(f, K) = Total(f, K)
  BY <1>2, <1>9, CellSumIs
<1>15. RowTotal(l, "actual", leaf) = Total(own, C) + Total(Changed(M), M)
  BY <1>5, <1>10, <1>11, <1>12, <1>13, <1>14
<1> QED BY <1>15 DEF C, M, own

\* A movement relocated is the same one in another period.
Sending(l, from, to, x) == [x EXCEPT !.period = PeriodAfter(l, from, to, x)]

\* They are the same but for the period.
SameItem(y, x) ==
  y.id = x.id /\ y.kind = x.kind /\ y.leaf = x.leaf /\ y.date = x.date /\ y.amount = x.amount

LEMMA SendingHas ==
  ASSUME NEW l, NEW from, NEW to, NEW x \in Item
  PROVE  SameItem(Sending(l, from, to, x), x)
BY DEF Sending, Item, SameItem

LEMMA SendingItem ==
  ASSUME NEW l, NEW from, NEW to, NEW x \in Item, Sending(l, from, to, x).period \in Nat
  PROVE  Sending(l, from, to, x) \in Item
BY DEF Sending, Item

LEMMA SendingDelta ==
  ASSUME NEW l, NEW from, NEW to, NEW x \in Item
  PROVE  Delta(Sending(l, from, to, x)) = Delta(x)
<1> DEFINE y == Sending(l, from, to, x)
<1>1. SameItem(y, x)
  BY SendingHas
<1> HIDE DEF y
<1>2. Delta(y) = Delta(x)
  BY <1>1 DEF SameItem, Delta
<1> QED BY <1>2 DEF y

LEMMA SendingSame ==
  ASSUME NEW l, NEW from, NEW to, NEW x \in Item
  PROVE  [Sending(l, from, to, x) EXCEPT !.period = None] = [x EXCEPT !.period = None]
BY DEF Sending, Item

LEMMA MovesAfterHave ==
  ASSUME NEW l, Shaped(l), NEW from, NEW to, \A y \in MovesAfter(l, from, to) : y.period \in Nat
  PROVE  /\ MovesAfter(l, from, to) \in SUBSET Item /\ IsFiniteSet(MovesAfter(l, from, to))
         /\ Numbered(MovesAfter(l, from, to))
<1> DEFINE R == MovesAfter(l, from, to)
           S == l.moves
           g == [x \in S |-> Sending(l, from, to, x)]
<1>1. R = {Sending(l, from, to, x) : x \in S}
  BY DEF MovesAfter, Sending
<1>2. S \subseteq Item /\ IsFiniteSet(S) /\ \A x, y \in S : x.id = y.id => x = y
  BY DEF Shaped
<1>3. (\A x \in S : g[x] = Sending(l, from, to, x) /\ g[x] \in R) /\ \A y \in R : \E x \in S : g[x] = y
  BY <1>1
<1> HIDE DEF g, S
<1>4. IsFiniteSet(R)
  <2> HIDE DEF R
  <2> QED BY <1>2, <1>3, FiniteImage
<1>5. ASSUME NEW y \in R PROVE y \in Item
  <2>1. PICK x \in S : y = Sending(l, from, to, x)
    BY <1>1
  <2>2. x \in Item /\ y.period \in Nat
    BY <1>2
  <2> QED BY <2>1, <2>2, SendingItem
<1>6. ASSUME NEW y \in R, NEW z \in R, y.id = z.id PROVE y = z
  <2>1. PICK x \in S : y = Sending(l, from, to, x)
    BY <1>1
  <2>2. PICK w \in S : z = Sending(l, from, to, w)
    BY <1>1
  <2>3. SameItem(y, x) /\ SameItem(z, w)
    BY <1>2, <2>1, <2>2, SendingHas
  <2>4. x = w
    BY <1>2, <1>6, <2>3 DEF SameItem
  <2> QED BY <2>1, <2>2, <2>4
<1> QED BY <1>4, <1>5, <1>6 DEF Numbered

\* What the movements of a leaf add up to stays.
LEMMA MovingTotal ==
  ASSUME NEW l, Shaped(l), NEW from, NEW to, NEW leaf
  PROVE  LET M == MovingOf(l.moves, "actual", leaf)
             N == MovingOf(MovesAfter(l, from, to), "actual", leaf)
         IN  Total(Changed(N), N) = Total(Changed(M), M)
<1> DEFINE M == MovingOf(l.moves, "actual", leaf)
           N == MovingOf(MovesAfter(l, from, to), "actual", leaf)
           g == [x \in M |-> Sending(l, from, to, x)]
           R == MovesAfter(l, from, to)
<1>1. R = {Sending(l, from, to, x) : x \in l.moves}
  BY DEF MovesAfter, Sending
<1>2. /\ l.moves \subseteq Item /\ IsFiniteSet(l.moves) /\ \A x, y \in l.moves : x.id = y.id => x = y
  BY DEF Shaped
<1>3. M \subseteq l.moves /\ IsFiniteSet(M)
  BY <1>2, FS_Subset DEF MovingOf, Moving
<1>4. ASSUME NEW x \in M
      PROVE  Sending(l, from, to, x) \in N /\ Changed(M)[x] \in Int
             /\ Changed(N)[Sending(l, from, to, x)] = Changed(M)[x]
  <2>1. x \in Item /\ x \in l.moves /\ x.leaf = leaf /\ Delta(x) # 0
    BY <1>2, <1>3 DEF MovingOf, Moving
  <2> DEFINE y == Sending(l, from, to, x)
  <2>6. SameItem(y, x) /\ Delta(y) = Delta(x)
    BY <2>1, SendingHas, SendingDelta
  <2>2. y.leaf = leaf /\ Delta(y) = Delta(x) /\ y \in R
    BY <1>1, <2>1, <2>6 DEF SameItem
  <2> HIDE DEF y, R
  <2>3. y \in N
    BY <2>1, <2>2 DEF MovingOf, Moving, R
  <2>4. Delta(x) \in Int
    BY <2>1 DEF Delta, Item
  <2> HIDE DEF M, N
  <2>5. Changed(N)[y] = Delta(y) /\ Changed(M)[x] = Delta(x)
    BY <2>3 DEF Changed
  <2> QED BY <2>2, <2>3, <2>4, <2>5 DEF y
<1>5. \A x \in M : g[x] = Sending(l, from, to, x)
  OBVIOUS
<1>6. ASSUME NEW y \in N PROVE \E x \in M : g[x] = y
  <2>1. y \in R /\ y.leaf = leaf /\ Delta(y) # 0
    BY DEF MovingOf, Moving
  <2>2. PICK x \in l.moves : y = Sending(l, from, to, x)
    BY <1>1, <2>1
  <2>5. SameItem(y, x) /\ Delta(y) = Delta(x)
    BY <1>2, <2>2, SendingHas, SendingDelta
  <2>3. x.leaf = leaf /\ Delta(x) # 0
    BY <2>1, <2>5 DEF SameItem
  <2>4. x \in M
    BY <2>3 DEF MovingOf, Moving
  <2> QED BY <1>5, <2>2, <2>4
<1>7. ASSUME NEW x \in M, NEW z \in M, g[x] = g[z] PROVE x = z
  <2>1. x \in Item /\ z \in Item /\ x \in l.moves /\ z \in l.moves
    BY <1>2, <1>3
  <2>2. Sending(l, from, to, x) = Sending(l, from, to, z)
    BY <1>5, <1>7
  <2>3. SameItem(Sending(l, from, to, x), x) /\ SameItem(Sending(l, from, to, z), z)
    BY <2>1, SendingHas
  <2>4. x.id = z.id
    BY <2>2, <2>3 DEF SameItem
  <2> QED BY <1>2, <2>1, <2>4
<1> HIDE DEF g, M, N, R
<1>8. Taken(g, M, N, Changed(M), Changed(N))
  BY <1>4, <1>5, <1>6, <1>7 DEF Taken
<1> QED BY <1>3, <1>8, TotalTaken DEF M, N

\* The pieces of a row of a leaf: what its cells send and what its movements bring.
LEMMA RowPieces ==
  ASSUME NEW l, Shaped(l), NEW from, NEW to, NEW moves \in SUBSET Item, IsFiniteSet(moves), Numbered(moves),
         NEW row, NEW leaf, NothingLost(l, from, to, moves, Sources(l))
  PROVE  LET Q == PiecesOf(Pieces(l, from, to, moves), row, leaf)
             C == RowSources(l, row, leaf)
             N == MovingOf(moves, row, leaf)
         IN  Total(Amounts(Q), Q) = Total([c \in C |-> Own(l, c)], C) + Total(Changed(N), N)
<1> DEFINE P == Pieces(l, from, to, moves)
           Q == {p \in P : p.cell[1] = row /\ p.cell[2] = leaf}
           C == RowSources(l, row, leaf)
           N == MovingOf(moves, row, leaf)
           A == SentBy(l, from, to, moves, C)
           B == {Brought(x) : x \in N}
           all == SentBy(l, from, to, moves, Sources(l))
<1>1. P = all \cup {Brought(x) : x \in Moving(moves)}
  BY PiecesAre DEF SentBy
<1>2. C \in SUBSET Sources(l) /\ NothingLost(l, from, to, moves, C)
  BY DEF RowSources, NothingLost
<1>3. IsFiniteSet(A)
  BY <1>2, SentByFinite
<1>4. Total(Amounts(A), A) = Total([c \in C |-> Own(l, c)], C)
  BY <1>2, SentTotal
<1>5. IsFiniteSet(B) /\ Total(Amounts(B), B) = Total(Changed(N), N)
  <2>1. CASE row = "actual"
    <3> DEFINE M == {x \in Moving(moves) : x.leaf = leaf}
               D == {Brought(x) : x \in M}
    <3>1. IsFiniteSet(D) /\ Total(Amounts(D), D) = Total([x \in M |-> Delta(x)], M)
      BY BroughtTotal
    <3>2. N = M
      BY <2>1 DEF MovingOf
    <3> QED BY <3>1, <3>2 DEF Changed
  <2>2. CASE row # "actual"
    <3>1. N = {} /\ B = {}
      BY <2>2 DEF MovingOf
    <3>2. IsFiniteSet({}) /\ Total(Amounts(B), {}) = 0 /\ Total(Changed(N), {}) = 0
      BY FS_EmptySet, TotalEmpty
    <3> QED BY <3>1, <3>2
  <2> QED BY <2>1, <2>2
<1>6. ASSUME NEW c \in Sources(l), NEW p \in Sent(l, from, to, moves, c)
      PROVE  p.src = c /\ p.amount \in Int /\ p.cell[1] = c[1] /\ p.cell[2] = c[2] /\ c[1] \in Rows
  <2>1. SentFrom(p, c)
    BY SentHas
  <2>2. c \in Rows \X Leaves \X Nat
    BY SourcesHave
  <2> QED BY <2>1, <2>2 DEF SentFrom
<1>7. ASSUME NEW x \in Moving(moves)
      PROVE  /\ Brought(x).cell[1] = "actual" /\ Brought(x).cell[2] = x.leaf
             /\ Brought(x).src[1] = "item" /\ Brought(x).amount \in Int
  <2>1. x.amount \in Int
    BY DEF Moving, Item
  <2> QED BY <2>1, BroughtHas
<1>8. \A p \in A : p \in Q /\ p.src[1] # "item" /\ p.amount \in Int
  <2> TAKE p \in A
  <2>1. PICK c \in C : p \in Sent(l, from, to, moves, c)
    BY DEF SentBy
  <2>2. c \in Sources(l) /\ c[1] = row /\ c[2] = leaf
    BY DEF RowSources
  <2>3. p \in P
    BY <1>1, <2>1, <2>2 DEF SentBy
  <2> HIDE DEF A, C, P
  <2>4. p.src = c /\ p.amount \in Int /\ p.cell[1] = c[1] /\ p.cell[2] = c[2] /\ c[1] \in Rows
    BY <1>6, <2>1, <2>2
  <2> QED BY <2>2, <2>3, <2>4 DEF Rows
<1>9. \A p \in B : p \in Q /\ p.src[1] = "item" /\ p.amount \in Int
  <2> TAKE p \in B
  <2>1. PICK x \in N : p = Brought(x)
    OBVIOUS
  <2>2. x \in Moving(moves) /\ row = "actual" /\ x.leaf = leaf
    BY DEF MovingOf
  <2>3. p \in P
    BY <1>1, <2>1, <2>2
  <2> HIDE DEF N, P, B
  <2> QED BY <1>7, <2>1, <2>2, <2>3
<1>10. \A p \in Q : p \in A \/ p \in B
  <2> TAKE p \in Q
  <2>1. p.cell[1] = row /\ p.cell[2] = leaf /\ p \in P
    OBVIOUS
  <2>2. CASE p \in all
    <3>1. PICK c \in Sources(l) : p \in Sent(l, from, to, moves, c)
      BY <2>2 DEF SentBy
    <3>2. c[1] = row /\ c[2] = leaf
      <4> HIDE DEF P, Q
      <4> QED BY <1>6, <2>1, <3>1
    <3>3. c \in C
      BY <3>2 DEF RowSources
    <3> QED BY <3>1, <3>3 DEF SentBy
  <2>3. CASE \E x \in Moving(moves) : p = Brought(x)
    <3>1. PICK x \in Moving(moves) : p = Brought(x)
      BY <2>3
    <3>2. row = "actual" /\ x.leaf = leaf
      <4> HIDE DEF P, Q
      <4> QED BY <1>7, <2>1, <3>1
    <3> QED BY <3>1, <3>2 DEF MovingOf
  <2> HIDE DEF P, all
  <2> QED BY <1>1, <2>1, <2>2, <2>3
<1> HIDE DEF P, Q, C, N, A, B, all
<1>11. Q = A \cup B /\ A \cap B = {}
  BY <1>8, <1>9, <1>10
<1>12. \A p \in A \cup B : Amounts(Q)[p] = p.amount /\ Amounts(Q)[p] \in Int
  BY <1>8, <1>9 DEF Amounts
<1>13. Total(Amounts(Q), A \cup B) = Total(Amounts(Q), A) + Total(Amounts(Q), B)
  <2>1. IsFiniteSet(A) /\ IsFiniteSet(B) /\ A \cap B = {}
    BY <1>3, <1>5, <1>11
  <2>2. \A p \in A \cup B : Amounts(Q)[p] \in Int
    BY <1>12
  <2> QED BY <2>1, <2>2, TotalUnion
<1>14. Total(Amounts(Q), A) = Total(Amounts(A), A)
  <2>1. \A p \in A : Amounts(A)[p] \in Int /\ Amounts(Q)[p] = Amounts(A)[p]
    BY <1>8, <1>12 DEF Amounts
  <2> QED BY <1>3, <2>1, TotalSame
<1>15. Total(Amounts(Q), B) = Total(Amounts(B), B)
  <2>1. \A p \in B : Amounts(B)[p] \in Int /\ Amounts(Q)[p] = Amounts(B)[p]
    BY <1>9, <1>12 DEF Amounts
  <2> QED BY <1>5, <2>1, TotalSame
<1>16. Total(Amounts(Q), Q) = Total([c \in C |-> Own(l, c)], C) + Total(Changed(N), N)
  BY <1>4, <1>5, <1>11, <1>13, <1>14, <1>15
<1> QED BY <1>16 DEF Q, P, C, N, PiecesOf

\* A relocation that nothing stops keeps what every row of every leaf adds up to.
LEMMA RowConserved ==
  ASSUME NEW l, Shaped(l), NEW from, NEW to, NEW row, NEW leaf,
         MovesAfter(l, from, to) \in SUBSET Item, IsFiniteSet(MovesAfter(l, from, to)),
         Numbered(MovesAfter(l, from, to)),
         NothingLost(l, from, to, MovesAfter(l, from, to), Sources(l))
  PROVE  LET cells == CellsAfter(Pieces(l, from, to, MovesAfter(l, from, to))) IN
         CellSum(cells, CellsOf(cells, row, leaf)) = RowTotal(l, row, leaf)
<1> DEFINE moves == MovesAfter(l, from, to)
           P == Pieces(l, from, to, moves)
           Q == PiecesOf(P, row, leaf)
           cells == CellsAfter(P)
           C == RowSources(l, row, leaf)
           N == MovingOf(moves, row, leaf)
           own == [c \in C |-> Own(l, c)]
<1>1. IsFiniteSet(P) /\ \A p \in P : p.amount \in Int
  BY PiecesHave
<1>6. \A p \in P : p.amount \in Int
  BY <1>1
<1>2. CellSum(cells, CellsOf(cells, row, leaf)) = Total(Amounts(Q), Q)
  <2>1. IsFiniteSet(P)
    BY <1>1
  <2> HIDE DEF P
  <2> QED BY <1>6, <2>1, RowAfter
<1>3. Total(Amounts(Q), Q) = Total(own, C) + Total(Changed(N), N)
  BY RowPieces
<1>4. RowTotal(l, row, leaf) = Total(own, C) + Total(Changed(N), N)
  <2>1. CASE row # "actual"
    <3>1. RowTotal(l, row, leaf) = Total(own, C)
      BY <2>1, TypedTotal
    <3>2. N = {}
      BY <2>1 DEF MovingOf
    <3>3. Total(Changed(N), {}) = 0
      BY TotalEmpty
    <3>4. IsFiniteSet(C) /\ \A c \in C : own[c] \in Int
      <4>1. C \subseteq Sources(l) /\ IsFiniteSet(Sources(l))
        BY SourcesHave DEF RowSources
      <4>2. \A c \in C : own[c] = Own(l, c) /\ Own(l, c) \in Int
        BY OwnInt
      <4> HIDE DEF C, own
      <4> QED BY <4>1, <4>2, FS_Subset
    <3> HIDE DEF C, own, N
    <3>5. Total(own, C) \in Int
      BY <3>4, TotalInt
    <3> QED BY <3>1, <3>2, <3>3, <3>5
  <2>2. CASE row = "actual"
    <3> DEFINE M == MovingOf(l.moves, "actual", leaf)
    <3>1. RowTotal(l, "actual", leaf) = Total([c \in RowSources(l, "actual", leaf) |-> Own(l, c)], RowSources(l, "actual", leaf)) + Total(Changed(M), M)
      BY DoneTotal
    <3>2. Total(Changed(MovingOf(moves, "actual", leaf)), MovingOf(moves, "actual", leaf)) = Total(Changed(M), M)
      BY MovingTotal
    <3> QED BY <2>2, <3>1, <3>2
  <2> QED BY <2>1, <2>2
<1> HIDE DEF cells, Q, C, N, own, P
<1>5. CellSum(cells, CellsOf(cells, row, leaf)) = RowTotal(l, row, leaf)
  BY <1>2, <1>3, <1>4
<1> QED BY <1>5 DEF cells, P

\* The parts of a ledger.
Parted(l) == l = [cells |-> l.cells, moves |-> l.moves, origins |-> l.origins, start |-> l.start, closed |-> l.closed]

Changing(l, x, y, z, w) == [l EXCEPT !.cells = x, !.moves = y, !.origins = z, !.closed = w]

LEMMA PartsChange ==
  ASSUME NEW l, Parted(l), NEW x, NEW y, NEW z, NEW w
  PROVE  Changing(l, x, y, z, w)
           = [cells |-> x, moves |-> y, origins |-> z, start |-> l.start, closed |-> w]
<1>1. l \in [cells : {l.cells}, moves : {l.moves}, origins : {l.origins}, start : {l.start}, closed : {l.closed}]
  BY DEF Parted
<1> DEFINE a == [l EXCEPT !.cells = x]
           b == [a EXCEPT !.moves = y]
           c == [b EXCEPT !.origins = z]
           d == [c EXCEPT !.closed = w]
<1>2. a \in [cells : {x}, moves : {l.moves}, origins : {l.origins}, start : {l.start}, closed : {l.closed}]
  BY <1>1
<1>3. d = Changing(l, x, y, z, w)
  BY DEF Changing
<1> HIDE DEF a
<1>4. b \in [cells : {x}, moves : {y}, origins : {l.origins}, start : {l.start}, closed : {l.closed}]
  BY <1>2
<1> HIDE DEF b
<1>5. c \in [cells : {x}, moves : {y}, origins : {z}, start : {l.start}, closed : {l.closed}]
  BY <1>4
<1> HIDE DEF c
<1>6. d \in [cells : {x}, moves : {y}, origins : {z}, start : {l.start}, closed : {w}]
  BY <1>5
<1> HIDE DEF d
<1>7. d = [cells |-> x, moves |-> y, origins |-> z, start |-> l.start, closed |-> w]
  BY <1>6
<1> QED BY <1>3, <1>7

\* What a relocation makes of each part of a ledger.
LEMMA RelocateHas ==
  ASSUME NEW l, Shaped(l), NEW from, NEW to
  PROVE  LET r == Relocate(l, from, to) IN
         /\ r = [cells |-> r.cells, moves |-> r.moves, origins |-> r.origins, start |-> r.start,
                 closed |-> r.closed]
         /\ r.moves = MovesAfter(l, from, to)
         /\ r.cells = CellsAfter(Pieces(l, from, to, MovesAfter(l, from, to)))
         /\ r.origins = OriginsAfter(l, from, to)
         /\ r.closed = IF l.closed = None THEN None ELSE MapKey(from, to, l.closed)
         /\ r.start = StartAfter(l, from, to, UsedKeys(r))
<1> DEFINE moves == MovesAfter(l, from, to)
           cells == CellsAfter(Pieces(l, from, to, moves))
           origins == OriginsAfter(l, from, to)
           closed == IF l.closed = None THEN None ELSE MapKey(from, to, l.closed)
           next == [l EXCEPT !.cells = cells, !.moves = moves, !.origins = origins, !.closed = closed]
           start == StartAfter(l, from, to, UsedKeys(next))
           r == [cells |-> cells, moves |-> moves, origins |-> origins, start |-> start, closed |-> closed]
<1>1. Relocate(l, from, to) = [next EXCEPT !.start = start]
  BY DEF Relocate
<1>2. Parted(l)
  BY DEF Shaped, Parted
<1> HIDE DEF moves, cells, origins, closed, start
<1>3. next = [cells |-> cells, moves |-> moves, origins |-> origins, start |-> l.start, closed |-> closed]
  <2>1. next = Changing(l, cells, moves, origins, closed)
    BY DEF Changing
  <2>2. Changing(l, cells, moves, origins, closed)
          = [cells |-> cells, moves |-> moves, origins |-> origins, start |-> l.start, closed |-> closed]
    BY <1>2, PartsChange
  <2> HIDE DEF next
  <2> QED BY <2>1, <2>2
<1> HIDE DEF next
<1>4. Relocate(l, from, to) = r
  BY <1>1, <1>3
<1>5. r.moves = moves /\ r.cells = cells /\ r.origins = origins /\ r.start = start /\ r.closed = closed
  OBVIOUS
<1>6. Relocate(l, from, to).moves = moves /\ Relocate(l, from, to).cells = cells
      /\ Relocate(l, from, to).origins = origins /\ Relocate(l, from, to).closed = closed
      /\ Relocate(l, from, to).start = start
  BY <1>4
<1>7. LET q == Relocate(l, from, to) IN
      q = [cells |-> q.cells, moves |-> q.moves, origins |-> q.origins, start |-> q.start, closed |-> q.closed]
  BY <1>4
<1>8. next.cells = cells /\ next.moves = moves
  BY <1>3
<1>9. UsedKeys(Relocate(l, from, to)) = UsedKeys(next)
  BY <1>6, <1>8 DEF UsedKeys
<1>10. Relocate(l, from, to).start = StartAfter(l, from, to, UsedKeys(Relocate(l, from, to)))
  BY <1>6, <1>9 DEF start
<1> QED BY <1>6, <1>7, <1>10 DEF moves, cells, origins, closed

\* A memory is of a place and an amount.
Remembered(o) ==
  /\ o = [row |-> o.row, ref |-> o.ref, period |-> o.period, origin |-> o.origin, amount |-> o.amount]
  /\ o.origin \in Nat /\ o.amount \in Int

LEMMA MemoryMapped ==
  ASSUME NEW o, Remembered(o), NEW k
  PROVE  Remembered([o EXCEPT !.period = k])
BY DEF Remembered

LEMMA MemoryMade ==
  ASSUME NEW row, NEW ref, NEW k, NEW origin \in Nat, NEW amount \in Int
  PROVE  Remembered([row |-> row, ref |-> ref, period |-> k, origin |-> origin, amount |-> amount])
BY DEF Remembered

\* The memory a relocation leaves is finite, and of its schema.
LEMMA OriginsHave ==
  ASSUME NEW l, Shaped(l), NEW from, NEW to
  PROVE  LET R == OriginsAfter(l, from, to) IN IsFiniteSet(R) /\ \A o \in R : Remembered(o)
<1>1. CASE Returning(from, to)
  BY <1>1, FS_EmptySet DEF OriginsAfter
<1>2. CASE ~Returning(from, to) /\ from.cycles
  <2> DEFINE S == l.origins
             f == [o \in S |-> [o EXCEPT !.period = MapKey(from, to, o.period)]]
             R == {[o EXCEPT !.period = MapKey(from, to, o.period)] : o \in S}
  <2>1. OriginsAfter(l, from, to) = R
    BY <1>2 DEF OriginsAfter
  <2>2. IsFiniteSet(S) /\ \A o \in S : Remembered(o)
    BY DEF Shaped, Remembered
  <2>3. (\A o \in S : f[o] \in R) /\ \A y \in R : \E o \in S : f[o] = y
    OBVIOUS
  <2>4. \A y \in R : Remembered(y)
    <3> TAKE y \in R
    <3>1. PICK o \in S : y = [o EXCEPT !.period = MapKey(from, to, o.period)]
      OBVIOUS
    <3> QED BY <2>2, <3>1, MemoryMapped
  <2> HIDE DEF S, f, R
  <2>5. IsFiniteSet(R)
    BY <2>2, <2>3, FiniteImage
  <2> QED BY <2>1, <2>4, <2>5
<1>3. CASE ~Returning(from, to) /\ ~from.cycles
  <2> DEFINE S == DOMAIN l.cells
             T == {y \in l.moves : y.date = None}
             ofCell(c) == [row |-> c[1], ref |-> c[2], period |-> PlaceDateless(l, to, c[2], c[3]),
                           origin |-> c[3], amount |-> Own(l, c)]
             ofItem(x) == [row |-> "item", ref |-> x.id, period |-> PlaceDateless(l, to, x.leaf, x.period),
                           origin |-> x.period, amount |-> 0]
             A == {ofCell(c) : c \in S}
             B == {ofItem(x) : x \in T}
             f == [c \in S |-> ofCell(c)]
             g == [x \in T |-> ofItem(x)]
  <2>1. OriginsAfter(l, from, to) = A \cup B
    BY <1>3 DEF OriginsAfter
  <2>2. IsFiniteSet(S) /\ S \subseteq Rows \X Leaves \X Nat /\ IsFiniteSet(T) /\ T \subseteq Item
    BY FS_Subset DEF Shaped
  <2>3. (\A c \in S : f[c] \in A) /\ \A y \in A : \E c \in S : f[c] = y
    OBVIOUS
  <2>4. (\A x \in T : g[x] \in B) /\ \A y \in B : \E x \in T : g[x] = y
    OBVIOUS
  <2>5. \A y \in A : Remembered(y)
    <3> TAKE y \in A
    <3>1. PICK c \in S : y = ofCell(c)
      OBVIOUS
    <3>2. c[3] \in Nat /\ Own(l, c) \in Int
      BY <2>2, OwnInt
    <3> HIDE DEF S, A
    <3> QED BY <3>1, <3>2, MemoryMade
  <2>6. \A y \in B : Remembered(y)
    <3> TAKE y \in B
    <3>1. PICK x \in T : y = ofItem(x)
      OBVIOUS
    <3>2. x.period \in Nat /\ 0 \in Int
      BY <2>2 DEF Item
    <3> HIDE DEF T, B
    <3> QED BY <3>1, <3>2, MemoryMade
  <2> HIDE DEF S, T, A, B, f, g, ofCell, ofItem
  <2>7. IsFiniteSet(A) /\ IsFiniteSet(B)
    BY <2>2, <2>3, <2>4, FiniteImage
  <2>8. IsFiniteSet(A \cup B)
    BY <2>7, FS_Union
  <2> QED BY <2>1, <2>5, <2>6, <2>8
<1> QED BY <1>1, <1>2, <1>3

\* Everything is in a period.
Dated(l) ==
  /\ \A c \in DOMAIN l.cells : c[3] \in Nat
  /\ \A x \in l.moves : x.period \in Nat

\* What is relocated without a cell below zero is a ledger again.
LEMMA RelocateShaped ==
  ASSUME NEW l, Shaped(l), NEW from, NEW to, Dated(Relocate(l, from, to)),
         \A c \in DOMAIN Relocate(l, from, to).cells : ~(Relocate(l, from, to).cells[c] < 0)
  PROVE  Shaped(Relocate(l, from, to))
<1> DEFINE r == Relocate(l, from, to)
           moves == MovesAfter(l, from, to)
           P == Pieces(l, from, to, moves)
           cells == CellsAfter(P)
<1>1. /\ r = [cells |-> r.cells, moves |-> r.moves, origins |-> r.origins, start |-> r.start, closed |-> r.closed]
      /\ r.moves = moves /\ r.cells = cells /\ r.origins = OriginsAfter(l, from, to)
  BY RelocateHas
<1>2. moves \in SUBSET Item /\ IsFiniteSet(moves) /\ Numbered(moves)
  <2>1. \A y \in moves : y.period \in Nat
    BY <1>1 DEF Dated
  <2> QED BY <2>1, MovesAfterHave
<1> HIDE DEF moves
<1>3. IsFiniteSet(P) /\ \A p \in P : /\ p.amount \in Int /\ p.cell[1] \in Rows /\ p.cell[2] \in Leaves
                                     /\ p.cell = <<p.cell[1], p.cell[2], p.cell[3]>>
  BY <1>2, PiecesHave
<1> HIDE DEF P
<1>4. \A p \in P : p.amount \in Int
  BY <1>3
<1>5. /\ IsFiniteSet(DOMAIN cells) /\ DOMAIN cells \subseteq {p.cell : p \in P}
      /\ cells \in [DOMAIN cells -> Int]
  BY <1>3, <1>4, CellsAfterHave
<1> HIDE DEF cells
<1>6. \A c \in DOMAIN cells : c[3] \in Nat /\ ~(cells[c] < 0)
  BY <1>1 DEF Dated
<1>7. DOMAIN cells \subseteq Rows \X Leaves \X Nat
  <2> SUFFICES ASSUME NEW c \in DOMAIN cells PROVE c \in Rows \X Leaves \X Nat
    OBVIOUS
  <2>1. PICK p \in P : c = p.cell
    BY <1>5
  <2>2. c = <<c[1], c[2], c[3]>> /\ c[1] \in Rows /\ c[2] \in Leaves
    BY <1>3, <2>1
  <2>3. c[3] \in Nat
    BY <1>6
  <2>4. <<c[1], c[2], c[3]>> \in Rows \X Leaves \X Nat
    BY <2>2, <2>3
  <2> QED BY <2>2, <2>4
<1>8. cells \in [DOMAIN cells -> Nat]
  BY <1>5, <1>6
<1>9. IsFiniteSet(r.origins) /\ \A o \in r.origins : Remembered(o)
  BY <1>1, OriginsHave
<1>10. \A x, y \in moves : x.id = y.id => x = y
  BY <1>2 DEF Numbered
<1> HIDE DEF r
<1>11. Shaped(r)
  BY <1>1, <1>2, <1>5, <1>7, <1>8, <1>9, <1>10 DEF Shaped, Remembered
<1> QED BY <1>11 DEF r

\* A relocation that is not blocked gives back every part.
LEMMA NothingIsLost ==
  ASSUME NEW l, Shaped(l), NEW from, NEW to, NEW next, ~Blocked(l, next, from, to),
         next.moves \in SUBSET Item, IsFiniteSet(next.moves), NEW C
  PROVE  NothingLost(l, from, to, next.moves, C)
<1> SUFFICES ASSUME NEW c \in C, HasMemory(l, from, to, c) PROVE Parts(l, c, next.moves).missing = 0
  BY DEF NothingLost, Nothing
<1>1. c \in DOMAIN l.cells /\ Memory(l, c) # {}
  BY DEF HasMemory
<1>2. ~(Parts(l, c, next.moves).missing > 0)
  BY <1>1 DEF Blocked
<1>3. Parts(l, c, next.moves).missing \in Nat
  BY <1>1, PartsHave
<1> QED BY <1>2, <1>3

-----------------------------------------------------------------------------
(* What is recorded, and what a relocation keeps of it.                    *)

LedgerInv ==
  /\ Shaped(ledger)
  /\ user.entries \subseteq (Rows \cup Kinds) \X Leaves
  /\ user.size \in Nat

LEMMA LedgerInit == Init => LedgerInv
<1> SUFFICES ASSUME Init PROVE LedgerInv
  OBVIOUS
<1>1. PICK u \in Users : user = [x \in DOMAIN u \ {"ledgers"} |-> u[x]] /\ ledger \in u.ledgers
  BY DEF Init
<1>2. /\ {"entries", "size", "ledgers"} \subseteq DOMAIN u
      /\ u.entries \subseteq (Rows \cup Kinds) \X Leaves /\ u.size \in Nat
  BY LedgersAssumption
<1>3. "entries" \in DOMAIN u \ {"ledgers"} /\ "size" \in DOMAIN u \ {"ledgers"}
  BY <1>2
<1>4. user.entries = u.entries /\ user.size = u.size
  BY <1>1, <1>3
<1>5. /\ ledger = [cells |-> ledger.cells, moves |-> ledger.moves, origins |-> {}, start |-> ledger.start,
                   closed |-> ledger.closed]
      /\ ledger.cells \in [DOMAIN ledger.cells -> Nat]
      /\ DOMAIN ledger.cells \subseteq Rows \X Leaves \X Nat /\ IsFiniteSet(DOMAIN ledger.cells)
      /\ ledger.moves \subseteq Item /\ IsFiniteSet(ledger.moves)
      /\ \A x, y \in ledger.moves : x.id = y.id => x = y
  BY <1>1, LedgersAssumption
<1>6. ledger.origins = {}
  BY <1>5
<1>7. Shaped(ledger)
  BY <1>5, <1>6, FS_EmptySet DEF Shaped
<1> QED BY <1>2, <1>4, <1>7 DEF LedgerInv

\* A ledger keeps its schema when a cell or a movement is added to it.
LEMMA CellsShaped ==
  ASSUME NEW l, Shaped(l), NEW c \in Rows \X Leaves \X Nat, NEW v \in Nat
  PROVE  Shaped([l EXCEPT !.cells = [x \in DOMAIN l.cells \cup {c} |-> IF x = c THEN v ELSE l.cells[x]]])
<1> DEFINE D == DOMAIN l.cells \cup {c}
           cells == [x \in D |-> IF x = c THEN v ELSE l.cells[x]]
           r == [l EXCEPT !.cells = cells]
<1>1. D \subseteq Rows \X Leaves \X Nat
  BY DEF Shaped
<1>2. IsFiniteSet(D)
  <2>1. IsFiniteSet(DOMAIN l.cells) /\ IsFiniteSet({c})
    BY FS_Singleton DEF Shaped
  <2> QED BY <2>1, FS_Union
<1>3. cells \in [D -> Nat]
  <2>1. \A x \in DOMAIN l.cells : l.cells[x] \in Nat
    BY DEF Shaped
  <2> QED BY <2>1
<1> HIDE DEF D
<1>4. DOMAIN cells = D
  OBVIOUS
<1> HIDE DEF cells
<1>5. l = [cells |-> l.cells, moves |-> l.moves, origins |-> l.origins, start |-> l.start, closed |-> l.closed]
  BY DEF Shaped
<1>6. r = [cells |-> cells, moves |-> l.moves, origins |-> l.origins, start |-> l.start, closed |-> l.closed]
  BY <1>5
<1> HIDE DEF r
<1>7. r.cells = cells /\ r.moves = l.moves /\ r.origins = l.origins /\ r.start = l.start /\ r.closed = l.closed
  BY <1>6
<1>8. Shaped(r)
  BY <1>1, <1>2, <1>3, <1>4, <1>6, <1>7 DEF Shaped
<1> QED BY <1>8 DEF r, cells, D

LEMMA MovesShaped ==
  ASSUME NEW l, Shaped(l), NEW x \in Item, \A y \in l.moves : y.id # x.id
  PROVE  Shaped([l EXCEPT !.moves = l.moves \cup {x}])
<1> DEFINE moves == l.moves \cup {x}
           r == [l EXCEPT !.moves = moves]
<1>1. moves \subseteq Item /\ \A y, z \in moves : y.id = z.id => y = z
  BY DEF Shaped
<1>2. IsFiniteSet(moves)
  <2>1. IsFiniteSet(l.moves) /\ IsFiniteSet({x})
    BY FS_Singleton DEF Shaped
  <2> QED BY <2>1, FS_Union
<1> HIDE DEF moves
<1>5. l = [cells |-> l.cells, moves |-> l.moves, origins |-> l.origins, start |-> l.start, closed |-> l.closed]
  BY DEF Shaped
<1>6. r = [cells |-> l.cells, moves |-> moves, origins |-> l.origins, start |-> l.start, closed |-> l.closed]
  BY <1>5
<1> HIDE DEF r
<1>7. r.cells = l.cells /\ r.moves = moves /\ r.origins = l.origins /\ r.start = l.start /\ r.closed = l.closed
  BY <1>6
<1>8. Shaped(r)
  BY <1>1, <1>2, <1>6, <1>7 DEF Shaped
<1> QED BY <1>8 DEF r, moves

LEMMA ClosedShaped ==
  ASSUME NEW l, Shaped(l), NEW k
  PROVE  LET r == [l EXCEPT !.closed = k] IN Shaped(r) /\ r.cells = l.cells /\ r.moves = l.moves
<1> DEFINE r == [l EXCEPT !.closed = k]
<1>1. l = [cells |-> l.cells, moves |-> l.moves, origins |-> l.origins, start |-> l.start, closed |-> l.closed]
  BY DEF Shaped
<1>2. r = [cells |-> l.cells, moves |-> l.moves, origins |-> l.origins, start |-> l.start, closed |-> k]
  BY <1>1
<1> HIDE DEF r
<1>3. r.cells = l.cells /\ r.moves = l.moves /\ r.origins = l.origins /\ r.start = l.start /\ r.closed = k
  BY <1>2
<1>4. Shaped(r)
  BY <1>2, <1>3 DEF Shaped
<1> QED BY <1>3, <1>4 DEF r

\* The keys of a calendar are numbers.
LEMMA KeysHave ==
  ASSUME CalendarInv
  PROVE  Keys(calendar) \subseteq Nat
<1>1. calendar.entries \in Seq(Entry)
  BY DEF CalendarInv
<1>2. \A i \in DOMAIN calendar.entries : calendar.entries[i] \in Entry
  BY <1>1
<1> QED BY <1>2 DEF Keys, Entry

LEMMA PlacedDated ==
  ASSUME NEW l, NEW cal, cal.entries \in Seq(Entry),
         \A c \in DOMAIN l.cells : c[3] \in Keys(cal), \A x \in l.moves : x.period \in Keys(cal)
  PROVE  Dated(l)
<1>1. \A i \in DOMAIN cal.entries : cal.entries[i] \in Entry
  OBVIOUS
<1>2. Keys(cal) \subseteq Nat
  BY <1>1 DEF Keys, Entry
<1> QED BY <1>2 DEF Dated

\* A relocation that is not blocked keeps the ledger, every sum and every movement.
SameTotals(next, l) ==
  /\ \A row \in Rows, leaf \in Leaves : RowTotal(next, row, leaf) = RowTotal(l, row, leaf)
  /\ {[x EXCEPT !.period = None] : x \in next.moves} = {[x EXCEPT !.period = None] : x \in l.moves}

LEMMA RelocationConserves ==
  ASSUME NEW l, Shaped(l), NEW from, NEW to, NEW next, next = Relocate(l, from, to), Dated(next),
         ~Blocked(l, next, from, to)
  PROVE  Shaped(next) /\ SameTotals(next, l)
<1> DEFINE moves == MovesAfter(l, from, to)
           cells == CellsAfter(Pieces(l, from, to, moves))
<1>1. next.moves = moves /\ next.cells = cells
  BY RelocateHas
<1>2. Shaped(next)
  <2>1. \A c \in DOMAIN next.cells : ~(next.cells[c] < 0)
    BY DEF Blocked
  <2> QED BY <2>1, RelocateShaped
<1>3. moves \in SUBSET Item /\ IsFiniteSet(moves) /\ Numbered(moves)
  <2>1. \A y \in moves : y.period \in Nat
    BY <1>1 DEF Dated
  <2> QED BY <2>1, MovesAfterHave
<1>4. NothingLost(l, from, to, moves, Sources(l))
  <2>1. next.moves \in SUBSET Item /\ IsFiniteSet(next.moves)
    BY <1>1, <1>3
  <2>2. NothingLost(l, from, to, next.moves, Sources(l))
    BY <2>1, NothingIsLost
  <2> QED BY <1>1, <2>2
<1>5. ASSUME NEW row \in Rows, NEW leaf \in Leaves PROVE RowTotal(next, row, leaf) = RowTotal(l, row, leaf)
  <2>1. CellSum(cells, CellsOf(cells, row, leaf)) = RowTotal(l, row, leaf)
    BY <1>3, <1>4, RowConserved
  <2>2. RowTotal(next, row, leaf) = CellSum(next.cells, CellsOf(next.cells, row, leaf))
    BY DEF RowTotal, CellSum, CellsOf
  <2> HIDE DEF cells
  <2> QED BY <1>1, <2>1, <2>2
<1>6. {[x EXCEPT !.period = None] : x \in next.moves} = {[x EXCEPT !.period = None] : x \in l.moves}
  <2>1. moves = {Sending(l, from, to, x) : x \in l.moves}
    BY DEF MovesAfter, Sending
  <2>2. \A x \in l.moves : [Sending(l, from, to, x) EXCEPT !.period = None] = [x EXCEPT !.period = None]
    BY SendingSame DEF Shaped
  <2> DEFINE A == {[x EXCEPT !.period = None] : x \in next.moves}
             B == {[x EXCEPT !.period = None] : x \in l.moves}
             gone(x) == [x EXCEPT !.period = None]
             to2(x) == Sending(l, from, to, x)
  <2>3. A = {gone(y) : y \in {to2(x) : x \in l.moves}} /\ B = {gone(x) : x \in l.moves}
    BY <1>1, <2>1
  <2>4. \A x \in l.moves : gone(to2(x)) = gone(x)
    BY <2>2
  <2> HIDE DEF moves, gone, to2, A, B
  <2>5. A = B
    BY <2>3, <2>4
  <2> QED BY <2>5 DEF A, B
<1> QED BY <1>2, <1>5, <1>6 DEF SameTotals

LEMMA ApplyKeeps ==
  ASSUME LedgerInv, CalendarInv', EverythingPlaced', NEW vs, Apply(vs)
  PROVE  LedgerInv' /\ SameTotals(ledger', ledger)
<1>1. /\ ledger' = Relocate(ledger, calendar, calendar') /\ user' = user
      /\ ~Blocked(ledger, ledger', calendar, calendar')
  BY DEF Apply
<1>2. Dated(ledger')
  <2>1. calendar'.entries \in Seq(Entry)
    BY DEF CalendarInv
  <2>2. /\ \A c \in DOMAIN ledger'.cells : c[3] \in Keys(calendar')
        /\ \A x \in ledger'.moves : x.period \in Keys(calendar')
    BY DEF EverythingPlaced
  <2> QED BY <2>1, <2>2, PlacedDated
<1>3. Shaped(ledger)
  BY DEF LedgerInv
<1>4. Shaped(ledger') /\ SameTotals(ledger', ledger)
  BY <1>1, <1>2, <1>3, RelocationConserves
<1> QED BY <1>1, <1>4 DEF LedgerInv

-----------------------------------------------------------------------------
(* What is recorded meanwhile.                                             *)

LEMMA TypeKeeps ==
  ASSUME LedgerInv, CalendarInv, NEW e \in user.entries, e[1] \in Rows, NEW k \in Keys(calendar),
         NEW v \in 0 .. 1, TypeCell(e[1], e[2], k, v)
  PROVE  LedgerInv' /\ (EverythingPlaced => EverythingPlaced')
<1> DEFINE c == <<e[1], e[2], k>>
           cells == [x \in DOMAIN ledger.cells \cup {c} |-> IF x = c THEN v ELSE ledger.cells[x]]
           next == [ledger EXCEPT !.cells = cells]
<1>1. c \in Rows \X Leaves \X Nat /\ v \in Nat
  BY KeysHave DEF LedgerInv
<1>2. ledger' = next /\ user' = user /\ calendar' = calendar
  BY DEF TypeCell, Record
<1>3. Shaped(ledger)
  BY DEF LedgerInv
<1>4. Shaped(next)
  <2> HIDE DEF c
  <2> QED BY <1>1, <1>3, CellsShaped
<1>5. next.moves = ledger.moves /\ DOMAIN next.cells = DOMAIN ledger.cells \cup {c}
  <2> HIDE DEF c
  <2>1. DOMAIN cells = DOMAIN ledger.cells \cup {c}
    OBVIOUS
  <2> HIDE DEF cells
  <2> QED BY <1>3, <2>1 DEF Shaped
<1>6. EverythingPlaced => EverythingPlaced'
  <2>1. c[3] = k
    OBVIOUS
  <2> HIDE DEF next, c
  <2> QED BY <1>2, <1>5, <2>1 DEF EverythingPlaced
<1> HIDE DEF next
<1> QED BY <1>2, <1>4, <1>6 DEF LedgerInv

\* The number of a new movement is free.
LEMMA FreeNumber ==
  ASSUME NEW l, Shaped(l), NEW n \in Nat, Cardinality(l.moves) <= n
  PROVE  LET free == (1 .. n + 1) \ {x.id : x \in l.moves} IN
         Min(free) \in free /\ Min(free) \in Nat
<1> DEFINE ids == {x.id : x \in l.moves}
           free == (1 .. n + 1) \ ids
           f == [x \in l.moves |-> x.id]
<1>1. IsFiniteSet(l.moves)
  BY DEF Shaped
<1>2. f \in Surjection(l.moves, ids)
  BY DEF Surjection
<1> HIDE DEF f, ids
<1>3. IsFiniteSet(ids) /\ Cardinality(ids) <= Cardinality(l.moves)
  BY <1>1, <1>2, FS_Surjection
<1>4. IsFiniteSet(1 .. n + 1) /\ Cardinality(1 .. n + 1) = n + 1
  BY FS_Interval
<1>5. free # {}
  <2> SUFFICES ASSUME 1 .. n + 1 \subseteq ids PROVE FALSE
    OBVIOUS
  <2>1. Cardinality(1 .. n + 1) <= Cardinality(ids)
    BY <1>3, FS_Subset
  <2>2. Cardinality(l.moves) \in Nat /\ Cardinality(ids) \in Nat
    BY <1>1, <1>3, FS_CardinalityType
  <2> QED BY <1>3, <1>4, <2>1, <2>2
<1>6. free \in SUBSET Nat /\ IsFiniteSet(free)
  BY <1>4, FS_Subset
<1>7. Min(free) \in free
  <2> HIDE DEF free
  <2> QED BY <1>5, <1>6, FiniteMinMax
<1>8. Min(free) \in Nat
  <2> HIDE DEF free
  <2> QED BY <1>6, <1>7
<1> QED BY <1>7, <1>8 DEF ids

\* What a ledger holds is at least its movements.
LEMMA SizeHas ==
  ASSUME NEW l, l.cells \in [DOMAIN l.cells -> Nat], IsFiniteSet(DOMAIN l.cells), IsFiniteSet(l.moves)
  PROVE  Size(l) \in Nat /\ Cardinality(l.moves) <= Size(l)
<1> DEFINE D == DOMAIN l.cells
           f == l.cells
           zero == [c \in D |-> 0]
<1>1. IsFiniteSet(D) /\ \A c \in D : f[c] \in Nat /\ f[c] \in Int /\ zero[c] = 0 /\ zero[c] \in Int /\ zero[c] <= f[c]
  OBVIOUS
<1>2. Size(l) = Cardinality(l.moves) + CellSum(f, D)
  BY DEF Size, CellSum
<1> HIDE DEF D, f, zero
<1>3. Total(zero, D) = 0
  BY <1>1, TotalZero
<1>4. \A c \in D : zero[c] \in Int
  BY <1>1
<1>5. \A c \in D : f[c] \in Int /\ zero[c] <= f[c]
  BY <1>1
<1>6. Total(zero, D) <= Total(f, D)
  BY <1>1, <1>4, <1>5, TotalMonotone
<1>7. CellSum(f, D) = Total(f, D) /\ Total(f, D) \in Int
  BY <1>1, CellSumIs
<1>8. Cardinality(l.moves) \in Nat
  BY FS_CardinalityType
<1> QED BY <1>2, <1>3, <1>6, <1>7, <1>8

LEMMA AddKeeps ==
  ASSUME LedgerInv, CalendarInv, NEW e \in user.entries, e[1] \notin Rows, NEW k \in Keys(calendar),
         NEW d \in {None} \cup Days, AddItem(e[1], e[2], d, k)
  PROVE  LedgerInv' /\ (EverythingPlaced => EverythingPlaced')
<1> DEFINE kind == e[1]
           leaf == e[2]
           id == Min((1..user.size + 1) \ {x.id : x \in ledger.moves})
           amount == CASE kind = "note" -> 0 [] kind = "adjustment" -> -1 [] OTHER -> 1
           x == [id |-> id, kind |-> kind, leaf |-> leaf, date |-> d, period |-> k, amount |-> amount]
           c == <<"actual", leaf, k>>
           v == Cell(ledger, "actual", leaf, k) + Delta(x)
           more == [y \in DOMAIN ledger.cells \cup {c} |-> IF y = c THEN v ELSE ledger.cells[y]]
           cells == IF Delta(x) = 0 THEN ledger.cells ELSE more
           next == [ledger EXCEPT !.cells = cells, !.moves = ledger.moves \cup {x}]
<1>1. /\ ledger' = next /\ user' = user /\ calendar' = calendar /\ Size(next) <= user.size
      /\ kind = "adjustment" => Cell(ledger, "actual", leaf, k) > 0
      /\ d # None => ValidPeriod(calendar, x)
  BY DEF AddItem, Record
<1>2. /\ Shaped(ledger) /\ user.size \in Nat /\ kind \in Kinds /\ leaf \in Leaves /\ k \in Nat /\ d \in Nat
      /\ c \in Rows \X Leaves \X Nat /\ c[3] = k
  <2>1. e \in (Rows \cup Kinds) \X Leaves
    BY DEF LedgerInv
  <2>2. k \in Nat /\ d \in Nat
    BY KeysHave, LastDayHas DEF Days, None
  <2> QED BY <2>1, <2>2 DEF LedgerInv, Rows
<1>3. /\ x.kind = kind /\ x.amount = amount /\ x.period = k /\ x.date = d /\ x.id = id /\ x.leaf = leaf
      /\ x = [id |-> id, kind |-> kind, leaf |-> leaf, date |-> d, period |-> k, amount |-> amount]
  OBVIOUS
<1>4. amount \in Int /\ (kind \notin {"note", "adjustment"} => amount = 1) /\ (kind = "adjustment" => amount = -1)
  OBVIOUS
<1> HIDE DEF amount, id, kind, leaf
<1>5. v \in Nat
  <2>1. Cell(ledger, "actual", leaf, k) \in Nat
    BY <1>2 DEF Shaped, Cell
  <2>2. Delta(x) = (IF kind \in {"income", "adjustment", "aside"} THEN amount ELSE 0)
    BY <1>3 DEF Delta
  <2> HIDE DEF x
  <2> QED BY <1>1, <1>2, <1>4, <2>1, <2>2 DEF Kinds
<1> HIDE DEF x, v, c
<1> DEFINE first == [ledger EXCEPT !.cells = cells]
<1>6. Shaped(first) /\ first.moves = ledger.moves /\ first.cells = cells
  <2>1. CASE Delta(x) = 0
    <3>1. first = ledger
      BY <1>2, <2>1 DEF Shaped
    <3> QED BY <1>2, <2>1, <3>1
  <2>2. CASE Delta(x) # 0
    <3>1. Shaped([ledger EXCEPT !.cells = more])
      BY <1>2, <1>5, CellsShaped
    <3>2. first = [ledger EXCEPT !.cells = more] /\ cells = more
      BY <2>2
    <3> HIDE DEF more, cells
    <3>3. first.moves = ledger.moves /\ first.cells = cells
      BY <1>2 DEF Shaped
    <3> QED BY <3>1, <3>2, <3>3
  <2> QED BY <2>1, <2>2
<1>7. next = [first EXCEPT !.moves = first.moves \cup {x}]
  <2>1. first.moves = ledger.moves
    BY <1>6
  <2> HIDE DEF cells
  <2> QED BY <2>1
<1>8. DOMAIN cells \subseteq DOMAIN ledger.cells \cup {c}
  OBVIOUS
<1> HIDE DEF next, cells
<1>9. next.cells = cells /\ next.moves = ledger.moves \cup {x}
  <2> HIDE DEF first
  <2>1. next.cells = first.cells /\ next.moves = first.moves \cup {x}
    BY <1>6, <1>7 DEF Shaped
  <2> QED BY <1>6, <2>1
<1>10. Cardinality(ledger.moves) <= user.size
  <2>1. cells \in [DOMAIN cells -> Nat] /\ IsFiniteSet(DOMAIN cells)
    <3> HIDE DEF first
    <3> QED BY <1>6 DEF Shaped
  <2>2. IsFiniteSet(ledger.moves \cup {x}) /\ IsFiniteSet(ledger.moves)
    <3>1. IsFiniteSet(ledger.moves) /\ IsFiniteSet({x})
      BY <1>2, FS_Singleton DEF Shaped
    <3> QED BY <3>1, FS_Union
  <2>3. Size(next) \in Nat /\ Cardinality(next.moves) <= Size(next)
    <3>1. /\ next.cells \in [DOMAIN next.cells -> Nat] /\ IsFiniteSet(DOMAIN next.cells)
          /\ IsFiniteSet(next.moves)
      BY <1>9, <2>1, <2>2
    <3> QED BY <3>1, SizeHas
  <2>4. Cardinality(ledger.moves) <= Cardinality(next.moves) /\ Cardinality(ledger.moves) \in Nat
        /\ Cardinality(next.moves) \in Nat
    <3>1. ledger.moves \in SUBSET (ledger.moves \cup {x})
      OBVIOUS
    <3>2. Cardinality(ledger.moves) <= Cardinality(ledger.moves \cup {x})
      BY <2>2, <3>1, FS_Subset
    <3> QED BY <1>9, <2>2, <3>2, FS_CardinalityType
  <2> QED BY <1>1, <1>2, <2>3, <2>4
<1>11. id \in Nat /\ id \notin {y.id : y \in ledger.moves}
  <2>1. LET free == (1 .. user.size + 1) \ {y.id : y \in ledger.moves} IN
        Min(free) \in free /\ Min(free) \in Nat
    BY <1>2, <1>10, FreeNumber
  <2> QED BY <2>1 DEF id
<1>12. x \in Item
  BY <1>2, <1>3, <1>4, <1>11 DEF Item
<1>13. \A y \in first.moves : y.id # x.id
  BY <1>3, <1>6, <1>11
<1> HIDE DEF first
<1>14. Shaped(next)
  <2>1. Shaped([first EXCEPT !.moves = first.moves \cup {x}])
    BY <1>6, <1>12, <1>13, MovesShaped
  <2> QED BY <1>7, <2>1
<1>15. EverythingPlaced => EverythingPlaced'
  BY <1>1, <1>2, <1>3, <1>8, <1>9 DEF EverythingPlaced
<1> QED BY <1>1, <1>14, <1>15 DEF LedgerInv

LEMMA CloseKeeps ==
  ASSUME LedgerInv, Close
  PROVE  LedgerInv' /\ (EverythingPlaced => EverythingPlaced')
         /\ ledger'.cells = ledger.cells /\ ledger'.moves = ledger.moves /\ calendar' = calendar
         /\ versions' = versions
<1>1. PICK k : ledger' = [ledger EXCEPT !.closed = k]
  BY DEF Close
<1>2. user' = user /\ calendar' = calendar /\ versions' = versions
  BY DEF Close
<1>3. Shaped(ledger') /\ ledger'.cells = ledger.cells /\ ledger'.moves = ledger.moves
  BY <1>1, ClosedShaped DEF LedgerInv
<1> QED BY <1>2, <1>3 DEF LedgerInv, EverythingPlaced

-----------------------------------------------------------------------------
(* Paydays.                                                                *)

\* A payday is in its month, or on the first of the next when its month lacks the day.
LEMMA AnchorBetween ==
  ASSUME NEW m \in Months, NEW v, v.day \in Nat \ {0}, v.policy \in Policies
  PROVE  /\ AnchorDate(m, v) \in Nat /\ FirstDay[m] <= AnchorDate(m, v) /\ AnchorDate(m, v) <= FirstDay[m + 1]
         /\ AnchorDate(m, v) = FirstDay[m + 1] => v.day > 1 /\ v.policy = "shift"
         /\ v.day > 1 /\ v.policy = "shift" => AnchorDate(m, v) > FirstDay[m]
<1> DEFINE n == Len(Lengths)
           anchor == AnchorDate(m, v)
<1>1. n \in Nat /\ m \in 1 .. n /\ m + 1 \in 1 .. n /\ m \in 1 .. (n + 1) /\ m + 1 \in 1 .. (n + 1)
  BY LengthsHave DEF Months
<1>2. /\ FirstDay[m] \in Nat /\ FirstDay[m + 1] \in Nat
      /\ FirstDay[m + 1] = FirstDay[m] + Lengths[m] /\ Lengths[m] \in Nat /\ Lengths[m] > 0
  BY <1>1, FirstDays, LengthsHave
<1>3. v.day \in Nat /\ v.day >= 1 /\ (v.policy = "last_day" \/ v.policy = "shift")
  BY DEF Policies
<1>4. FirstDay[m] >= 1
  <2>1. 1 \in 1 .. (n + 1) /\ m \in 1 .. (n + 1) /\ FirstDay[1] = 1
    BY <1>1, FirstDays
  <2> QED BY <1>1, <2>1, FirstDaysGrow
<1>5. CASE v.day <= Lengths[m]
  <2>1. anchor = FirstDay[m] + v.day - 1
    BY <1>2, <1>3, <1>5 DEF AnchorDate
  <2> QED BY <1>2, <1>3, <1>4, <1>5, <2>1
<1>6. CASE ~(v.day <= Lengths[m])
  <2>1. v.day > Lengths[m]
    BY <1>2, <1>3, <1>6
  <2>2. CASE v.policy = "last_day"
    <3>1. anchor = FirstDay[m + 1] - 1
      BY <1>6, <2>1, <2>2 DEF AnchorDate
    <3>2. v.policy # "shift"
      BY <2>2
    <3> QED BY <1>2, <1>4, <3>1, <3>2
  <2>3. CASE v.policy = "shift"
    <3>1. anchor = FirstDay[m + 1]
      BY <1>6, <2>1, <2>3 DEF AnchorDate
    <3> QED BY <1>2, <1>3, <1>4, <2>1, <2>3, <3>1
  <2> QED BY <1>3, <2>2, <2>3
<1> QED BY <1>5, <1>6

\* The payday of a later month is later.
LEMMA AnchorsGrow ==
  ASSUME NEW a \in Months, NEW b \in Months, a < b, NEW v, v.day \in Nat \ {0}, v.policy \in Policies
  PROVE  AnchorDate(a, v) < AnchorDate(b, v)
<1> DEFINE n == Len(Lengths)
<1>1. /\ n \in Nat /\ a + 1 \in 1 .. n /\ a + 1 \in 1 .. (n + 1) /\ b \in (a + 1) .. (n + 1) /\ a \in Int
      /\ b \in 1 .. (n + 1) /\ b \in Int
  BY LengthsHave DEF Months
<1>2. /\ FirstDay[a + 1] \in Nat /\ FirstDay[b] \in Nat /\ FirstDay[a + 1] <= FirstDay[b]
  BY <1>1, FirstDays, FirstDaysGrow
<1>3. /\ AnchorDate(a, v) \in Nat /\ AnchorDate(a, v) <= FirstDay[a + 1]
      /\ AnchorDate(b, v) \in Nat /\ FirstDay[b] <= AnchorDate(b, v)
      /\ AnchorDate(a, v) = FirstDay[a + 1] => v.day > 1 /\ v.policy = "shift"
      /\ v.day > 1 /\ v.policy = "shift" => AnchorDate(b, v) > FirstDay[b]
  BY AnchorBetween
<1>4. CASE AnchorDate(a, v) # FirstDay[a + 1]
  BY <1>2, <1>3, <1>4
<1>5. CASE AnchorDate(a, v) = FirstDay[a + 1]
  BY <1>2, <1>3, <1>5
<1> QED BY <1>4, <1>5

-----------------------------------------------------------------------------
(* The first and the last payday.                                          *)

\* Each version starts on a payday of its own, after one of the version before.
Chain(vs) ==
  /\ vs \in Seq(Version)
  /\ \A i \in 1 .. (Len(vs) - 1) : \E m \in Months :
       AnchorDate(m, vs[i]) >= vs[i].firstPay /\ AnchorDate(m, vs[i]) < vs[i + 1].firstPay
  /\ \A i \in 2 .. Len(vs) : \E m \in Months : vs[i].firstPay = AnchorDate(m, vs[i])

\* The first day of the first payment, and the last payday.
Opening(vs) == AnchorDate(1, vs[1])
Ending(vs) == AnchorDate(Len(Lengths) - 1, vs[Len(vs)])

LEMMA EndMonths == 1 \in Months /\ Len(Lengths) - 1 \in Months /\ \A m \in Months : 1 <= m /\ m <= Len(Lengths) - 1
BY LengthsHave DEF Months

LEMMA ChainHas ==
  ASSUME NEW vs, Chain(vs), NEW i \in 1 .. Len(vs)
  PROVE  vs[i].day \in Nat \ {0} /\ vs[i].policy \in Policies /\ vs[i].firstPay \in Nat
<1>1. vs \in Seq(Version)
  BY DEF Chain
<1>2. vs[i] \in Version
  BY <1>1
<1> QED BY <1>2 DEF Version

\* The versions after the first start after the opening.
LEMMA StartsAfter ==
  ASSUME NEW vs, Chain(vs), NEW i \in 2 .. Len(vs)
  PROVE  Opening(vs) < vs[i].firstPay
<1> DEFINE n == Len(vs)
           S == {j \in 2 .. n : Opening(vs) < vs[j].firstPay}
<1>1. n \in Nat /\ 2 <= n /\ vs \in Seq(Version)
  BY DEF Chain
<1>2. \A j \in 1 .. n : vs[j].day \in Nat \ {0} /\ vs[j].policy \in Policies /\ vs[j].firstPay \in Nat
  BY ChainHas
<1>3. 2 \in S
  <2>1. 1 \in 1 .. (n - 1) /\ 1 + 1 = 2 /\ 1 \in 1 .. n /\ 2 \in 1 .. n
    BY <1>1
  <2>2. PICK m \in Months : AnchorDate(m, vs[1]) < vs[1 + 1].firstPay
    BY <2>1 DEF Chain
  <2>3. 1 \in Months /\ 1 <= m /\ m \in Int
    BY EndMonths DEF Months
  <2>4. AnchorDate(1, vs[1]) \in Nat /\ AnchorDate(m, vs[1]) \in Nat
    BY <1>2, <2>1, <2>3, AnchorBetween
  <2>5. AnchorDate(1, vs[1]) <= AnchorDate(m, vs[1])
    <3>1. CASE m = 1
      BY <2>4, <3>1
    <3>2. CASE m # 1
      <4>1. 1 < m
        BY <2>3, <3>2
      <4>2. AnchorDate(1, vs[1]) < AnchorDate(m, vs[1])
        BY <1>2, <2>1, <2>3, <4>1, AnchorsGrow
      <4> QED BY <2>4, <4>2
    <3> QED BY <3>1, <3>2
  <2>6. vs[2].firstPay \in Nat /\ AnchorDate(m, vs[1]) < vs[2].firstPay
    BY <1>2, <2>1, <2>2
  <2> QED BY <1>1, <2>4, <2>5, <2>6 DEF Opening
<1>4. ASSUME NEW j \in 2 .. n, j \in S, j + 1 <= n PROVE j + 1 \in S
  <2>1. j \in 1 .. (n - 1) /\ j + 1 \in 2 .. n /\ j \in 1 .. n /\ j + 1 \in 1 .. n
    BY <1>1, <1>4
  <2>2. PICK m \in Months : AnchorDate(m, vs[j]) >= vs[j].firstPay /\ AnchorDate(m, vs[j]) < vs[j + 1].firstPay
    BY <2>1 DEF Chain
  <2>3. AnchorDate(m, vs[j]) \in Nat /\ vs[j].firstPay \in Nat /\ vs[j + 1].firstPay \in Nat
    BY <1>2, <2>1, AnchorBetween
  <2>4. Opening(vs) \in Nat
    <3>1. 1 \in 1 .. n /\ 1 \in Months
      BY <1>1, EndMonths
    <3> QED BY <1>2, <3>1, AnchorBetween DEF Opening
  <2>5. Opening(vs) < vs[j].firstPay
    BY <1>4
  <2> QED BY <2>1, <2>2, <2>3, <2>4, <2>5
<1>5. \A j \in 2 .. n : j \in S
  <2>1. 2 \in Int /\ n \in Int
    BY <1>1
  <2> HIDE DEF S
  <2> QED BY <1>3, <1>4, <2>1, UpTo
<1> QED BY <1>5

\* The opening is a payday, the first one.
LEMMA OpeningIs ==
  ASSUME NEW vs, Chain(vs), vs # <<>>
  PROVE  /\ Opening(vs) \in Anchors(vs) /\ Opening(vs) \in Days
         /\ \A a \in Anchors(vs) : Opening(vs) <= a /\ a \in Days
<1> DEFINE n == Len(vs)
           Of(i) == {d \in {AnchorDate(m, vs[i]) : m \in Months} :
                       /\ i > 1 => d >= vs[i].firstPay
                       /\ i < n => d < vs[i + 1].firstPay}
<1>1. n \in Nat /\ 1 \in 1 .. n /\ vs \in Seq(Version)
  BY DEF Chain
<1>2. \A j \in 1 .. n : vs[j].day \in Nat \ {0} /\ vs[j].policy \in Policies /\ vs[j].firstPay \in Nat
  BY ChainHas
<1>3. Anchors(vs) = UNION {Of(i) : i \in 1 .. n}
  BY DEF Anchors
<1>4. 1 \in Months /\ Opening(vs) \in Days /\ Opening(vs) \in Nat
  BY <1>1, <1>2, EndMonths, AnchorDateHas, AnchorBetween DEF Opening
<1>5. Opening(vs) \in Of(1)
  <2>1. ASSUME 1 < n PROVE Opening(vs) < vs[1 + 1].firstPay
    <3>1. 2 \in 2 .. n /\ 1 + 1 = 2
      BY <1>1, <2>1
    <3> QED BY <3>1, StartsAfter
  <2> QED BY <1>4, <2>1 DEF Opening
<1>6. ASSUME NEW a \in Anchors(vs) PROVE Opening(vs) <= a /\ a \in Days
  <2>1. PICK i \in 1 .. n : a \in Of(i)
    BY <1>3
  <2>2. PICK m \in Months : a = AnchorDate(m, vs[i])
    BY <2>1
  <2>3. a \in Days /\ a \in Nat
    BY <1>2, <2>2, AnchorDateHas, AnchorBetween
  <2>4. CASE i = 1
    <3>1. CASE m = 1
      BY <1>4, <2>2, <2>3, <2>4, <3>1 DEF Opening
    <3>2. CASE m # 1
      <4>1. 1 < m
        BY <3>2, EndMonths DEF Months
      <4>2. AnchorDate(1, vs[1]) < AnchorDate(m, vs[1])
        BY <1>1, <1>2, <1>4, <4>1, AnchorsGrow
      <4> QED BY <1>4, <2>2, <2>3, <2>4, <4>2 DEF Opening
    <3> QED BY <3>1, <3>2
  <2>5. CASE i # 1
    <3>1. i \in 2 .. n /\ i > 1
      BY <1>1, <2>5
    <3>2. Opening(vs) < vs[i].firstPay /\ a >= vs[i].firstPay /\ vs[i].firstPay \in Nat
      BY <1>2, <2>1, <3>1, StartsAfter
    <3> QED BY <1>4, <2>3, <3>2
  <2> QED BY <2>4, <2>5
<1> HIDE DEF Of
<1>7. Opening(vs) \in Anchors(vs)
  BY <1>1, <1>3, <1>5
<1> QED BY <1>4, <1>6, <1>7

\* So is the last payday of the last version.
LEMMA EndingIs ==
  ASSUME NEW vs, Chain(vs), vs # <<>>
  PROVE  Ending(vs) \in Anchors(vs) /\ Ending(vs) \in Days /\ FirstDay[Len(Lengths) - 1] <= Ending(vs)
<1> DEFINE n == Len(vs)
           last == Len(Lengths) - 1
           Of(i) == {d \in {AnchorDate(m, vs[i]) : m \in Months} :
                       /\ i > 1 => d >= vs[i].firstPay
                       /\ i < n => d < vs[i + 1].firstPay}
<1>1. n \in Nat /\ n \in 1 .. n /\ vs \in Seq(Version)
  BY DEF Chain
<1>2. vs[n].day \in Nat \ {0} /\ vs[n].policy \in Policies /\ vs[n].firstPay \in Nat
  BY <1>1, ChainHas
<1>3. Anchors(vs) = UNION {Of(i) : i \in 1 .. n}
  BY DEF Anchors
<1>4. last \in Months /\ Ending(vs) \in Days /\ Ending(vs) \in Nat /\ FirstDay[last] <= Ending(vs)
  BY <1>1, <1>2, EndMonths, AnchorDateHas, AnchorBetween DEF Ending
<1>5. ASSUME n > 1 PROVE Ending(vs) >= vs[n].firstPay
  <2>1. n \in 2 .. n
    BY <1>1, <1>5
  <2>2. PICK m \in Months : vs[n].firstPay = AnchorDate(m, vs[n])
    BY <2>1 DEF Chain
  <2>3. CASE m = last
    BY <1>4, <2>2, <2>3 DEF Ending
  <2>4. CASE m # last
    <3>1. m < last
      <4>1. m \in Int /\ m <= last /\ last \in Int
        BY EndMonths, LengthsHave DEF Months
      <4> QED BY <2>4, <4>1
    <3>2. AnchorDate(m, vs[n]) < AnchorDate(last, vs[n])
      BY <1>2, <1>4, <3>1, AnchorsGrow
    <3> QED BY <1>2, <1>4, <2>2, <3>2 DEF Ending
  <2> QED BY <2>3, <2>4
<1>6. Ending(vs) \in Of(n)
  BY <1>1, <1>4, <1>5 DEF Ending
<1> HIDE DEF Of
<1>7. Ending(vs) \in Anchors(vs)
  BY <1>1, <1>3, <1>6
<1> QED BY <1>4, <1>7

\* A cycle more does not move where the table starts.
StartKept(next, done, start) ==
  next # <<>> /\ next[1].start = IF done = <<>> THEN start ELSE done[1].start

LEMMA NamedFirst ==
  ASSUME NEW done \in Seq(Entry), NEW month \in Nat, NEW start \in Nat, NEW end \in Nat
  PROVE  StartKept(Named(done, month, start, end), done, start)
<1> DEFINE taken == done # <<>> /\ Last(done).key \div 2 = month
           new == [key |-> 2 * month + (IF taken THEN 1 ELSE 0), start |-> start, end |-> end]
           longer == [Last(done) EXCEPT !.end = end]
           next == Named(done, month, start, end)
           n == Len(done)
<1>1. next = IF taken /\ Last(done).key % 2 = 1 THEN Append(Front(done), longer) ELSE Append(done, new)
  BY DEF Named
<1>2. n \in Nat /\ new.start = start /\ new \in Entry
  BY DEF Entry
<1>3. CASE taken /\ Last(done).key % 2 = 1
  <2>1. done # <<>> /\ n >= 1 /\ n \in 1 .. n
    BY <1>3
  <2>2. Last(done) = done[n] /\ done[n] \in Entry
    BY <2>1 DEF Last
  <2>3. longer \in Entry /\ longer.start = done[n].start
    BY <2>2 DEF Entry
  <2>4. Front(done) \in Seq(Entry) /\ Len(Front(done)) = n - 1 /\ \A i \in 1 .. (n - 1) : Front(done)[i] = done[i]
    BY <2>1, FrontHas
  <2>5. next = Append(Front(done), longer)
    BY <1>1, <1>3
  <2> DEFINE f == Front(done)
  <2>6. f \in Seq(Entry) /\ Len(f) = n - 1 /\ \A i \in 1 .. (n - 1) : f[i] = done[i]
    BY <2>4
  <2>7. next = Append(f, longer)
    BY <2>5
  <2> HIDE DEF f, longer, next, taken, n, new
  <2>8. Len(next) = n /\ next[n] = longer /\ \A i \in 1 .. (n - 1) : next[i] = f[i]
    BY <1>2, <2>3, <2>6, <2>7
  <2>9. next[1].start = done[1].start
    <3>1. CASE n = 1
      BY <2>3, <2>8, <3>1
    <3>2. CASE n # 1
      <4>1. 1 \in 1 .. (n - 1)
        BY <1>2, <2>1, <3>2
      <4> QED BY <2>6, <2>8, <4>1
    <3> QED BY <3>1, <3>2
  <2>10. next # <<>>
    BY <2>1, <2>8
  <2> QED BY <2>1, <2>9, <2>10 DEF next, StartKept
<1>4. CASE ~(taken /\ Last(done).key % 2 = 1)
  <2>1. next = Append(done, new)
    BY <1>1, <1>4
  <2> HIDE DEF new, next, taken
  <2>2. Len(next) = n + 1 /\ next[n + 1] = new /\ \A i \in 1 .. n : next[i] = done[i]
    BY <1>2, <2>1
  <2>3. next # <<>>
    BY <1>2, <2>2
  <2>4. CASE done = <<>>
    <3>1. n = 0
      BY <2>4
    <3> HIDE DEF n
    <3>2. next[1] = new
      BY <2>2, <3>1
    <3> QED BY <1>2, <2>3, <2>4, <3>2 DEF next, StartKept
  <2>5. CASE done # <<>>
    <3>1. 1 \in 1 .. n
      BY <2>5
    <3> QED BY <2>2, <2>3, <2>5, <3>1 DEF next, StartKept
  <2> QED BY <2>4, <2>5
<1> QED BY <1>3, <1>4

\* The table starts at the first payday and ends on the eve of the last.
Stretch(p, n) ==
  /\ n \in Nat /\ \A i \in 1 .. (n + 1) : p[i] \in Nat
  /\ \A i \in 1 .. n : p[i] \in Days /\ p[i + 1] - 1 \in Days /\ p[i] <= p[i + 1] - 1

Stretched(t, p, k) == Tiled(t, p[k + 1]) /\ (k > 0 => t # <<>> /\ t[1].start = p[1])

LEMMA TableBounds ==
  ASSUME NEW n, NEW p, Stretch(p, n), NEW c, CyclesTo(c, p, n), NEW k \in 0 .. n
  PROVE  Stretched(c[k], p, k)
<1>a. /\ n \in Nat /\ \A i \in 1 .. (n + 1) : p[i] \in Nat
      /\ \A i \in 1 .. n : p[i] \in Days /\ p[i + 1] - 1 \in Days /\ p[i] <= p[i + 1] - 1
  BY DEF Stretch
<1> DEFINE S == {i \in 0 .. n : Tiled(c[i], p[i + 1]) /\ (i > 0 => c[i] # <<>> /\ c[i][1].start = p[1])}
<1>0. \A i \in 0 .. n : c[i] = IF i = 0 THEN <<>> ELSE Named(c[i - 1], MonthOf(p[i + 1] - 1), p[i], p[i + 1] - 1)
  BY DEF CyclesTo
<1>1. 0 \in S
  <2>1. 0 \in 0 .. n /\ c[0] = <<>> /\ ~(0 > 0)
    BY <1>0, <1>a
  <2> QED BY <2>1, NothingYet
<1>2. ASSUME NEW i \in 0 .. n, i \in S, i + 1 <= n PROVE i + 1 \in S
  <2>1. i + 1 \in 1 .. n /\ i + 1 \in 0 .. n /\ i + 1 # 0 /\ (i + 1) - 1 = i /\ (i + 1) + 1 \in 1 .. (n + 1)
        /\ i + 1 \in 1 .. (n + 1) /\ 1 \in 1 .. (n + 1)
    BY <1>a, <1>2
  <2> DEFINE j == i + 1
             end == p[j + 1] - 1
  <2>2. c[j] = Named(c[i], MonthOf(end), p[j], end)
    BY <1>0, <2>1
  <2>3. p[j] \in Days /\ end \in Days /\ p[j] <= end /\ Tiled(c[i], p[j])
    BY <1>a, <1>2, <2>1
  <2>4. end + 1 = p[j + 1] /\ p[j] \in Nat /\ p[1] \in Nat
    <3>1. p[j + 1] \in Nat /\ p[j] \in Nat /\ p[1] \in Nat
      BY <1>a, <2>1
    <3> QED BY <3>1
  <2>5. (i = 0 => c[i] = <<>>) /\ (i # 0 => c[i] # <<>> /\ c[i][1].start = p[1])
    BY <1>0, <1>2
  <2>5a. i = 0 => p[j] = p[1]
    OBVIOUS
  <2> HIDE DEF j, end
  <2>6. Tiled(c[j], end + 1)
    BY <2>2, <2>3, NamedTiles
  <2>7. end \in Nat /\ MonthOf(end) \in Nat /\ c[i] \in Seq(Entry)
    BY <2>3, MonthOfHas, LengthsHave, LastDayHas DEF Days, Tiled
  <2>8. c[j] # <<>> /\ c[j][1].start = IF c[i] = <<>> THEN p[j] ELSE c[i][1].start
    <3>1. StartKept(Named(c[i], MonthOf(end), p[j], end), c[i], p[j])
      BY <2>4, <2>7, NamedFirst
    <3>2. StartKept(c[j], c[i], p[j])
      BY <2>2, <3>1
    <3> QED BY <3>2 DEF StartKept
  <2>9. c[j][1].start = p[1]
    BY <2>5, <2>5a, <2>8
  <2> QED BY <2>1, <2>4, <2>6, <2>8, <2>9 DEF j
<1>3. \A i \in 0 .. n : i \in S
  <2>1. 0 \in Int /\ n \in Int
    BY <1>a
  <2> HIDE DEF S
  <2> QED BY <1>1, <1>2, <2>1, UpTo
<1> QED BY <1>3 DEF Stretched

\* Entries in order, and their keys.
LEMMA TilesOrder ==
  ASSUME NEW e \in Seq(Entry), Tiles(e), NEW i \in DOMAIN e, NEW j \in DOMAIN e, i < j
  PROVE  e[i].end < e[j].start /\ e[i].key < e[j].key
<1> DEFINE n == Len(e)
           S == {k \in (i + 1) .. n : e[i].end < e[k].start /\ e[i].key < e[k].key}
<1>1. n \in Nat /\ DOMAIN e = 1 .. n
  OBVIOUS
<1>2. \A k \in 1 .. n : e[k] \in Entry
  BY <1>1
<1>3. \A k \in 1 .. n : e[k].key \in Nat /\ e[k].start \in Nat /\ e[k].end \in Nat /\ e[k].start <= e[k].end
  BY <1>1, <1>2 DEF Tiles, Entry
<1>4. \A k \in 1 .. (n - 1) : e[k + 1].start = e[k].end + 1 /\ e[k].key < e[k + 1].key
  BY DEF Tiles
<1> HIDE DEF n
<1>5. i \in 1 .. n /\ j \in (i + 1) .. n /\ i \in 1 .. (n - 1) /\ i + 1 \in (i + 1) .. n /\ i + 1 \in 1 .. n
  BY <1>1
<1>6. i + 1 \in S
  BY <1>3, <1>4, <1>5
<1>7. ASSUME NEW k \in (i + 1) .. n, k \in S, k + 1 <= n PROVE k + 1 \in S
  <2>1. k \in 1 .. (n - 1) /\ k + 1 \in (i + 1) .. n /\ k \in 1 .. n /\ k + 1 \in 1 .. n
    BY <1>1, <1>5, <1>7
  <2>2. /\ e[i].end \in Nat /\ e[i].key \in Nat
        /\ e[k].key \in Nat /\ e[k].start \in Nat /\ e[k].end \in Nat /\ e[k].start <= e[k].end
        /\ e[k + 1].key \in Nat /\ e[k + 1].start \in Nat
        /\ e[k + 1].start = e[k].end + 1 /\ e[k].key < e[k + 1].key
    BY <1>3, <1>4, <1>5, <2>1
  <2>3. e[i].end < e[k].start /\ e[i].key < e[k].key
    BY <1>7
  <2>4. e[i].end < e[k + 1].start /\ e[i].key < e[k + 1].key
    <3> DEFINE a == e[i].end
               b == e[k].start
               h == e[k].end
               f == e[k + 1].start
               x == e[i].key
               y == e[k].key
               z == e[k + 1].key
    <3>1. a \in Nat /\ b \in Nat /\ h \in Nat /\ f \in Nat /\ b <= h /\ f = h + 1 /\ a < b
      BY <2>2, <2>3
    <3>2. x \in Nat /\ y \in Nat /\ z \in Nat /\ x < y /\ y < z
      BY <2>2, <2>3
    <3> HIDE DEF a, b, h, f, x, y, z
    <3>3. a < f /\ x < z
      BY <3>1, <3>2
    <3> QED BY <3>3 DEF a, f, x, z
  <2> QED BY <2>1, <2>4
<1>8. \A k \in (i + 1) .. n : k \in S
  <2>1. i + 1 \in Int /\ n \in Int
    BY <1>1, <1>5
  <2> HIDE DEF S
  <2> QED BY <1>6, <1>7, <2>1, UpTo
<1> QED BY <1>5, <1>8

\* Every day from the first to the last of a table is in one of its cycles.
LEMMA TilesCover ==
  ASSUME NEW e \in Seq(Entry), Tiles(e), e # <<>>, NEW d \in Nat, e[1].start <= d, d <= e[Len(e)].end
  PROVE  \E i \in DOMAIN e : e[i].start <= d /\ d <= e[i].end
<1> DEFINE n == Len(e)
           T == {i \in 1 .. n : d <= e[i].end}
<1>1. n \in Nat /\ DOMAIN e = 1 .. n /\ n >= 1
  OBVIOUS
<1>2. \A k \in 1 .. n : e[k] \in Entry
  BY <1>1
<1>3. \A k \in 1 .. n : e[k].start \in Nat /\ e[k].end \in Nat
  BY <1>1, <1>2 DEF Entry
<1>4. \A k \in 1 .. (n - 1) : e[k + 1].start = e[k].end + 1
  BY DEF Tiles
<1>4a. T \in SUBSET Nat /\ n \in T
  BY <1>1
<1>5. PICK i \in T : \A k \in T : i <= k
  <2>1. T # {}
    BY <1>4a
  <2> HIDE DEF T
  <2> QED BY <1>4a, <2>1, Least
<1> HIDE DEF n
<1>6. i \in 1 .. n /\ d <= e[i].end
  OBVIOUS
<1>7. CASE i = 1
  BY <1>1, <1>6, <1>7
<1>8. CASE i # 1
  <2>1. i - 1 \in 1 .. (n - 1) /\ i - 1 \in 1 .. n /\ (i - 1) + 1 = i /\ ~(i <= i - 1)
    BY <1>1, <1>6, <1>8
  <2>2. ~(d <= e[i - 1].end)
    <3>1. i - 1 \notin T
      BY <1>5, <2>1
    <3> QED BY <2>1, <3>1
  <2>3. e[i].start = e[i - 1].end + 1
    BY <1>4, <2>1
  <2>4. e[i].start \in Nat /\ e[i - 1].end \in Nat
    BY <1>3, <1>6, <2>1
  <2>5. e[i].start <= d
    BY <2>2, <2>3, <2>4
  <2> QED BY <1>1, <1>6, <2>5
<1> QED BY <1>7, <1>8

\* A table by its entries: the range of a key and the key of a day are those of the
\* only entry that has them.
LEMMA EntryIs ==
  ASSUME NEW cal, cal.entries \in Seq(Entry), Tiles(cal.entries), NEW i \in DOMAIN cal.entries
  PROVE  LET e == cal.entries[i] IN
         /\ e \in Entry /\ e.key \in Keys(cal) /\ RangeOf(cal, e.key) = e
         /\ \A d \in Nat : e.start <= d /\ d <= e.end => PeriodOf(cal, d) = e.key
<1> DEFINE t == cal.entries
           e == t[i]
<1>1. e \in Entry /\ DOMAIN t = 1 .. Len(t) /\ Len(t) \in Nat
  OBVIOUS
<1>2. Range(t) = {t[j] : j \in DOMAIN t}
  BY DEF Range
<1>3. e.key \in Keys(cal) /\ e \in Range(t)
  BY <1>2 DEF Keys
<1>4. \A j \in DOMAIN t : t[j] \in Entry
  OBVIOUS
<1>5. ASSUME NEW f \in Range(t), f.key = e.key PROVE f = e
  <2>1. PICK j \in DOMAIN t : f = t[j]
    BY <1>2
  <2>2. t[i].key \in Nat /\ t[j].key \in Nat
    BY <1>4, <2>1 DEF Entry
  <2>3. ~(i < j) /\ ~(j < i)
    BY <1>5, <2>1, <2>2, TilesOrder
  <2>4. i = j
    BY <1>1, <2>1, <2>3
  <2> QED BY <2>1, <2>4
<1>6. RangeOf(cal, e.key) = e
  <2> HIDE DEF e
  <2>1. RangeOf(cal, e.key) = CHOOSE f \in Range(t) : f.key = e.key
    BY DEF RangeOf
  <2> HIDE DEF t
  <2> QED BY <1>3, <1>5, <2>1
<1>7. ASSUME NEW d \in Nat, e.start <= d, d <= e.end PROVE PeriodOf(cal, d) = e.key
  <2>1. ASSUME NEW f \in Range(t), f.start <= d, d <= f.end PROVE f = e
    <3>1. PICK j \in DOMAIN t : f = t[j]
      BY <1>2, <2>1
    <3>2. t[i].start \in Nat /\ t[i].end \in Nat /\ t[j].start \in Nat /\ t[j].end \in Nat
      BY <1>4, <3>1 DEF Entry
    <3>3. ~(i < j)
      <4> SUFFICES ASSUME i < j PROVE FALSE
        OBVIOUS
      <4>1. t[i].end < t[j].start
        BY <3>1, TilesOrder
      <4> QED BY <1>7, <2>1, <3>1, <3>2, <4>1
    <3>4. ~(j < i)
      <4> SUFFICES ASSUME j < i PROVE FALSE
        OBVIOUS
      <4>1. t[j].end < t[i].start
        BY <3>1, TilesOrder
      <4> QED BY <1>7, <2>1, <3>1, <3>2, <4>1
    <3>5. i = j
      BY <1>1, <3>1, <3>3, <3>4
    <3> QED BY <3>1, <3>5
  <2> HIDE DEF e
  <2> DEFINE its == CHOOSE f \in Range(t) : f.start <= d /\ d <= f.end
  <2>2. PeriodOf(cal, d) = its.key
    BY DEF PeriodOf
  <2>3. its = e
    <3> HIDE DEF t
    <3> QED BY <1>3, <1>7, <2>1
  <2> HIDE DEF its
  <2> QED BY <2>2, <2>3
<1> QED BY <1>1, <1>3, <1>6, <1>7

\* Each month has its own entry, under its own key.
LEMMA MonthsAre ==
  MonthEntries = [m \in Months |-> MonthRow(m)]
<1> DEFINE n == Len(Lengths) - 1
           Rows1(i) == [m \in 1 .. i |-> MonthRow(m)]
<1>1. n \in Nat /\ Months = 1 .. n
  BY LengthsHave DEF Months
<1>2. PICK c : MonthEntries = c[n] /\ MonthsTo(c, n)
  BY MonthsBuilt
<1> HIDE DEF n
<1>3. \A m \in 0 .. n : c[m] = IF m = 0 THEN <<>> ELSE Named(c[m - 1], m, FirstDay[m], FirstDay[m + 1] - 1)
  BY <1>2 DEF MonthsTo
<1> DEFINE S == {i \in 0 .. n : c[i] = Rows1(i)}
<1>4. 0 \in S
  <2>1. c[0] = <<>> /\ 0 \in 0 .. n
    BY <1>1, <1>3
  <2>2. Rows1(0) = <<>>
    OBVIOUS
  <2> QED BY <2>1, <2>2
<1>5. ASSUME NEW i \in 0 .. n, i \in S, i + 1 <= n PROVE i + 1 \in S
  <2>1. i + 1 \in 0 .. n /\ i + 1 # 0 /\ (i + 1) - 1 = i /\ i \in Nat /\ i + 1 \in Months
    BY <1>1, <1>5
  <2> DEFINE done == c[i]
             j == i + 1
             row == MonthRow(j)
             taken == done # <<>> /\ Last(done).key \div 2 = j
  <2>2. c[j] = Named(done, j, FirstDay[j], FirstDay[j + 1] - 1)
    BY <1>3, <2>1
  <2>3. done = Rows1(i) /\ Len(done) = i /\ (\A m \in 1 .. i : done[m] = MonthRow(m)) /\ done \in Seq({MonthRow(m) : m \in Nat})
    BY <1>5, <2>1
  <2>4. ~taken
    <3> SUFFICES ASSUME done # <<>> PROVE Last(done).key \div 2 # j
      OBVIOUS
    <3>1. i \in 1 .. i
      <4>1. i # 0
        BY <2>3
      <4> QED BY <2>1, <4>1
    <3>2. Last(done) = MonthRow(i)
      BY <2>3, <3>1 DEF Last
    <3>3. Last(done).key = 2 * i
      BY <3>2 DEF MonthRow
    <3>4. (2 * i) \div 2 = i /\ i # j
      BY <2>1
    <3> QED BY <3>3, <3>4
  <2>5. Named(done, j, FirstDay[j], FirstDay[j + 1] - 1) = Append(done, row)
    <3>1. [key |-> 2 * j + (IF taken THEN 1 ELSE 0), start |-> FirstDay[j], end |-> FirstDay[j + 1] - 1] = row
      <4>1. 2 * j + (IF taken THEN 1 ELSE 0) = 2 * j
        BY <2>1, <2>4
      <4> HIDE DEF taken, j
      <4> QED BY <4>1 DEF MonthRow
    <3>2. Named(done, j, FirstDay[j], FirstDay[j + 1] - 1)
            = IF taken /\ Last(done).key % 2 = 1 THEN Append(Front(done), [Last(done) EXCEPT !.end = FirstDay[j + 1] - 1])
              ELSE Append(done, [key |-> 2 * j + (IF taken THEN 1 ELSE 0), start |-> FirstDay[j], end |-> FirstDay[j + 1] - 1])
      BY DEF Named
    <3> HIDE DEF taken, row, done, j
    <3> QED BY <2>4, <3>1, <3>2
  <2>6. Append(done, row) = Rows1(j)
    <3>1. Append(done, row) = [m \in 1 .. (i + 1) |-> IF m = i + 1 THEN row ELSE done[m]]
      <4> HIDE DEF done, row
      <4> QED BY <2>1, <2>3
    <3>2. \A m \in 1 .. (i + 1) : (IF m = i + 1 THEN row ELSE done[m]) = MonthRow(m)
      <4> TAKE m \in 1 .. (i + 1)
      <4>1. m = i + 1 \/ m \in 1 .. i
        BY <2>1
      <4> HIDE DEF done
      <4> QED BY <2>3, <4>1
    <3> HIDE DEF done, row
    <3> QED BY <3>1, <3>2
  <2> QED BY <2>1, <2>2, <2>5, <2>6
<1>6. \A i \in 0 .. n : i \in S
  <2>1. 0 \in Int /\ n \in Int
    BY <1>1
  <2> HIDE DEF S
  <2> QED BY <1>4, <1>5, <2>1, UpTo
<1>7. c[n] = Rows1(n)
  <2>1. n \in 0 .. n
    BY <1>1
  <2> HIDE DEF Rows1
  <2> QED BY <1>6, <2>1
<1> QED BY <1>1, <1>2, <1>7

\* The keys, the ranges and the days of the calendar of months.
LEMMA MonthsCalendar ==
  LET cal == Calendar(<<>>) IN
  /\ cal.cycles = FALSE /\ cal.entries \in Seq(Entry) /\ Tiles(cal.entries)
  /\ Keys(cal) = {2 * m : m \in Months}
  /\ \A m \in Months : RangeOf(cal, 2 * m) = MonthRow(m)
  /\ \A d \in Days : MonthOf(d) \in Months => PeriodOf(cal, d) = MonthKey(d) /\ MonthKey(d) \in Keys(cal)
<1> DEFINE cal == Calendar(<<>>)
<1>1. cal.cycles = FALSE /\ cal.entries = MonthEntries
  BY DEF Calendar
<1>2. cal.entries \in Seq(Entry) /\ Tiles(cal.entries)
  BY MonthsAreSound
<1> HIDE DEF cal
<1>3. DOMAIN cal.entries = Months /\ \A m \in Months : cal.entries[m] = MonthRow(m)
  BY <1>1, MonthsAre
<1>4. \A m \in Months : MonthRow(m).key = 2 * m /\ MonthRow(m).start = FirstDay[m] /\ MonthRow(m).end = FirstDay[m + 1] - 1
  BY DEF MonthRow
<1>5. Keys(cal) = {2 * m : m \in Months}
  BY <1>3, <1>4 DEF Keys
<1>6. \A m \in Months : RangeOf(cal, 2 * m) = MonthRow(m)
  <2> TAKE m \in Months
  <2>1. RangeOf(cal, cal.entries[m].key) = cal.entries[m]
    BY <1>2, <1>3, EntryIs
  <2> QED BY <1>3, <1>4, <2>1
<1>7. ASSUME NEW d \in Days, MonthOf(d) \in Months PROVE PeriodOf(cal, d) = MonthKey(d) /\ MonthKey(d) \in Keys(cal)
  <2> DEFINE m == MonthOf(d)
             e == cal.entries[m]
  <2>1. FirstDay[m] <= d /\ d < FirstDay[m + 1] /\ d \in Nat
    BY MonthOfHas, LastDayHas DEF Days
  <2>2. m \in Months /\ e = MonthRow(m)
    BY <1>3, <1>7
  <2>2a. FirstDay[m] \in Nat /\ FirstDay[m + 1] \in Nat
    BY <2>2, MonthHas
  <2>3. e.start <= d /\ d <= e.end /\ e.key = 2 * m
    <3> HIDE DEF m, e
    <3> QED BY <1>4, <2>1, <2>2, <2>2a
  <2>4. PeriodOf(cal, d) = e.key /\ e.key \in Keys(cal)
    <3> HIDE DEF m
    <3> QED BY <1>2, <1>3, <2>1, <2>2, <2>3, EntryIs
  <2> QED BY <2>3, <2>4 DEF MonthKey
<1> QED BY <1>1, <1>2, <1>5, <1>6, <1>7 DEF cal

\* The cycles of paydays: every day from the opening to the ending is in one, and
\* each starts after the opening and ends before the last month of the table.
LEMMA CyclesCalendar ==
  ASSUME NEW vs, Chain(vs), vs # <<>>
  PROVE  LET cal == Calendar(vs) IN
         /\ cal.cycles = TRUE /\ cal.first = vs[1] /\ cal.entries \in Seq(Entry) /\ Tiles(cal.entries)
         /\ \A i \in DOMAIN cal.entries :
              /\ Opening(vs) <= cal.entries[i].start /\ cal.entries[i].start <= cal.entries[i].end
              /\ cal.entries[i].end \in Days /\ cal.entries[i].end < FirstDay[Len(Lengths)]
         /\ \A d \in Days : Opening(vs) <= d /\ d < Ending(vs) =>
              \E i \in DOMAIN cal.entries : cal.entries[i].start <= d /\ d <= cal.entries[i].end
<1> DEFINE cal == Calendar(vs)
           p == Paydays(vs)
           n == Len(p) - 1
           t == Entries(vs)
<1>1. cal.cycles = TRUE /\ cal.first = vs[1] /\ cal.entries = t
  BY DEF Calendar
<1>2. /\ Opening(vs) \in Anchors(vs) /\ Opening(vs) \in Days
      /\ \A a \in Anchors(vs) : Opening(vs) <= a /\ a \in Days
  BY OpeningIs
<1>3. Ending(vs) \in Anchors(vs) /\ Ending(vs) \in Days
  BY EndingIs
<1>4. Rising(p, LastDay) /\ DaysIn(p) = Anchors(vs) \cap Days /\ p \in Seq(Nat)
  BY PaydaysAre
<1>5. p # <<>>
  <2>1. DaysIn(p) # {}
    BY <1>2, <1>4
  <2> HIDE DEF p
  <2>2. p = <<>> => DaysIn(p) = {}
    BY DEF DaysIn
  <2> QED BY <2>1, <2>2
<1>6. /\ n \in Nat /\ Len(p) = n + 1
      /\ \A i \in 1 .. (n + 1) : p[i] \in Nat /\ p[i] \in Days
      /\ \A i \in 1 .. n : p[i + 1] - 1 \in Days /\ p[i] <= p[i + 1] - 1 /\ p[i + 1] - 1 + 1 = p[i + 1]
      /\ \E c : t = c[n] /\ CyclesTo(c, p, n)
  BY <1>5, EntriesBuilt
<1>7. PICK c : t = c[n] /\ CyclesTo(c, p, n)
  BY <1>6
<1> HIDE DEF p, n, t, cal
<1>8. Tiled(t, p[n + 1]) /\ (n > 0 => t # <<>> /\ t[1].start = p[1])
  <2>1. Stretch(p, n)
    BY <1>6 DEF Stretch
  <2>2. n \in 0 .. n
    BY <1>6
  <2>3. Stretched(c[n], p, n)
    BY <1>7, <2>1, <2>2, TableBounds
  <2> QED BY <1>7, <2>3 DEF Stretched
<1>9. t \in Seq(Entry) /\ Tiles(t) /\ (t # <<>> => Last(t).end + 1 = p[n + 1])
  BY <1>8 DEF Tiled
<1>10. (n = 0 => t = <<>>)
  <2>1. \A i \in 0 .. n : c[i] = IF i = 0 THEN <<>> ELSE Named(c[i - 1], MonthOf(p[i + 1] - 1), p[i], p[i + 1] - 1)
    BY <1>7 DEF CyclesTo
  <2>2. 0 \in 0 .. n
    BY <1>6
  <2>3. c[0] = <<>>
    BY <2>1, <2>2
  <2> QED BY <1>7, <2>3
<1>11. Opening(vs) \in Nat /\ Ending(vs) \in Nat /\ Days \subseteq Nat
  BY <1>2, <1>3, LastDayHas DEF Days
\* The first and the last payday.
<1>12. p[1] = Opening(vs)
  <2>1. PICK i \in 1 .. (n + 1) : p[i] = Opening(vs)
    BY <1>2, <1>4, <1>6 DEF DaysIn
  <2>2. 1 \in 1 .. (n + 1) /\ 1 \in 1 .. Len(p) /\ i \in 1 .. Len(p)
    BY <1>6
  <2>3. p[1] \in Anchors(vs)
    BY <1>4, <2>2 DEF DaysIn
  <2>4. Opening(vs) <= p[1]
    BY <1>2, <2>3
  <2>5. CASE i = 1
    BY <2>1, <2>5
  <2>6. CASE i # 1
    <3>1. 1 < i
      BY <1>6, <2>6
    <3>2. p[1] < p[i]
      BY <1>4, <2>2, <3>1, LastDayHas, RisingOrder
    <3>3. p[1] \in Nat
      BY <1>6, <2>2
    <3> QED BY <1>11, <2>1, <2>4, <3>2, <3>3
  <2> QED BY <2>5, <2>6
<1>13. Ending(vs) <= p[n + 1] /\ p[n + 1] \in Nat
  <2>1. PICK i \in 1 .. (n + 1) : p[i] = Ending(vs)
    BY <1>3, <1>4, <1>6 DEF DaysIn
  <2>2. n + 1 \in 1 .. (n + 1) /\ n + 1 \in 1 .. Len(p) /\ i \in 1 .. Len(p)
    BY <1>6
  <2>3. p[n + 1] \in Nat /\ p[i] \in Nat
    BY <1>6, <2>2
  <2>4. CASE i = n + 1
    BY <2>1, <2>3, <2>4
  <2>5. CASE i # n + 1
    <3>1. i < n + 1
      BY <1>6, <2>5
    <3>2. p[i] < p[n + 1]
      BY <1>4, <2>2, <3>1, LastDayHas, RisingOrder
    <3> QED BY <2>1, <2>3, <3>2
  <2> QED BY <2>4, <2>5
<1>14. p[n + 1] <= FirstDay[Len(Lengths)] /\ FirstDay[Len(Lengths)] \in Nat
  <2>1. n + 1 \in 1 .. Len(p)
    BY <1>6
  <2>2. p[n + 1] \in Anchors(vs)
    BY <1>4, <2>1 DEF DaysIn
  <2>3. PICK i \in 1 .. Len(vs), m \in Months : p[n + 1] = AnchorDate(m, vs[i])
    <3> DEFINE Of(i) == {d \in {AnchorDate(m, vs[i]) : m \in Months} :
                           /\ i > 1 => d >= vs[i].firstPay
                           /\ i < Len(vs) => d < vs[i + 1].firstPay}
    <3>1. Anchors(vs) = UNION {Of(i) : i \in 1 .. Len(vs)}
      BY DEF Anchors
    <3>2. PICK i \in 1 .. Len(vs) : p[n + 1] \in Of(i)
      BY <2>2, <3>1
    <3> QED BY <3>2
  <2>4. vs[i].day \in Nat \ {0} /\ vs[i].policy \in Policies
    BY ChainHas
  <2>5. AnchorDate(m, vs[i]) <= FirstDay[m + 1] /\ AnchorDate(m, vs[i]) \in Nat
    BY <2>4, AnchorBetween
  <2>6. FirstDay[m + 1] <= FirstDay[Len(Lengths)] /\ FirstDay[m + 1] \in Nat /\ FirstDay[Len(Lengths)] \in Nat
    BY MonthHas
  <2> QED BY <2>3, <2>5, <2>6
<1>15. ASSUME NEW i \in DOMAIN t
       PROVE  /\ Opening(vs) <= t[i].start /\ t[i].start <= t[i].end
              /\ t[i].end \in Days /\ t[i].end < FirstDay[Len(Lengths)]
  <2> DEFINE k == Len(t)
  <2>1. k \in Nat /\ DOMAIN t = 1 .. k /\ 1 \in DOMAIN t /\ k \in DOMAIN t /\ t # <<>> /\ i \in 1 .. k
        /\ Last(t) = t[k]
    BY <1>9 DEF Last
  <2>2. \A j \in DOMAIN t : t[j].start \in Nat /\ t[j].end \in Nat /\ t[j].start <= t[j].end
    <3>1. \A j \in DOMAIN t : t[j] \in Entry
      BY <1>9
    <3> QED BY <1>9, <3>1 DEF Tiles, Entry
  <2>3. n > 0
    BY <1>6, <1>10, <2>1
  <2>4. t[1].start = Opening(vs) /\ t[k].end + 1 = p[n + 1]
    BY <1>8, <1>9, <1>12, <2>1, <2>3
  <2> HIDE DEF k
  <2>5. Opening(vs) <= t[i].start
    <3>1. CASE i = 1
      BY <1>11, <2>4, <3>1
    <3>2. CASE i # 1
      <4>1. 1 < i
        BY <2>1, <3>2
      <4>2. t[1].end < t[i].start
        BY <1>9, <2>1, <4>1, TilesOrder
      <4> QED BY <1>11, <2>1, <2>2, <2>4, <4>2
    <3> QED BY <3>1, <3>2
  <2>6. t[i].end <= t[k].end
    <3>1. CASE i = k
      BY <2>1, <2>2, <3>1
    <3>2. CASE i # k
      <4>1. i < k
        BY <2>1, <3>2
      <4>2. t[i].end < t[k].start
        BY <1>9, <2>1, <4>1, TilesOrder
      <4> QED BY <2>1, <2>2, <4>2
    <3> QED BY <3>1, <3>2
  <2>7. t[i].end < FirstDay[Len(Lengths)]
    BY <1>13, <1>14, <2>1, <2>2, <2>4, <2>6
  <2>8. t[i].end \in Days
    <3>1. t[i].end <= p[n + 1] /\ p[n + 1] \in Days /\ t[i].end \in Nat
      <4>1. n + 1 \in 1 .. (n + 1)
        BY <1>6
      <4>2. p[n + 1] \in Days
        BY <1>6, <4>1
      <4>3. t[i].end \in Nat /\ t[k].end \in Nat
        BY <2>1, <2>2
      <4> QED BY <1>13, <2>4, <2>6, <4>2, <4>3
    <3>2. 1 <= Opening(vs)
      BY <1>2, LastDayHas DEF Days
    <3>3. 1 <= t[i].end
      BY <1>11, <2>2, <2>5, <3>2
    <3> QED BY <3>1, <3>3, LastDayHas DEF Days
  <2> QED BY <2>2, <2>5, <2>7, <2>8
<1>16. ASSUME NEW d \in Days, Opening(vs) <= d, d < Ending(vs)
       PROVE  \E i \in DOMAIN t : t[i].start <= d /\ d <= t[i].end
  <2>1. d \in Nat
    BY <1>11
  <2>2. n > 0
    <3>1. n # 0
      BY <1>11, <1>12, <1>13, <1>16, <2>1
    <3> QED BY <1>6, <3>1
  <2>3. t # <<>> /\ t[1].start = Opening(vs) /\ Last(t).end + 1 = p[n + 1] /\ Last(t) = t[Len(t)] /\ Len(t) \in DOMAIN t
    BY <1>8, <1>9, <1>12, <2>2 DEF Last
  <2>4. t[Len(t)] \in Entry
    BY <1>9, <2>3
  <2>5. d <= t[Len(t)].end
    <3>1. t[Len(t)].end \in Nat
      BY <2>4 DEF Entry
    <3> QED BY <1>11, <1>13, <1>16, <2>1, <2>3, <3>1
  <2>6. t[1].start <= d
    BY <1>16, <2>3
  <2> QED BY <1>9, <2>1, <2>3, <2>5, <2>6, TilesCover
<1> QED BY <1>1, <1>9, <1>15, <1>16 DEF cal

-----------------------------------------------------------------------------
(* Where a key, a day and what has no day go.                              *)

\* What is asked of a calendar: its paydays, if any, follow from one another.
LEMMA CalendarHas ==
  ASSUME NEW vs, Chain(vs)
  PROVE  LET cal == Calendar(vs) IN
         /\ cal.entries \in Seq(Entry) /\ Tiles(cal.entries) /\ cal.cycles \in BOOLEAN
         /\ cal.cycles <=> vs # <<>>
         /\ cal.cycles => cal.first = vs[1]
<1>1. CASE vs = <<>>
  BY <1>1, MonthsCalendar
<1>2. CASE vs # <<>>
  BY <1>2, CyclesCalendar
<1> QED BY <1>1, <1>2

LEMMA MiddleHas ==
  ASSUME NEW m \in Middle
  PROVE  /\ m \in Months /\ m + 1 \in Months /\ m \in Nat /\ 1 < m /\ m < Len(Lengths) - 1
         /\ FirstDay[2] <= FirstDay[m] /\ FirstDay[m + 1] <= FirstDay[Len(Lengths) - 1]
         /\ FirstDay[2] \in Nat /\ FirstDay[m] \in Nat /\ FirstDay[m + 1] \in Nat
         /\ FirstDay[Len(Lengths) - 1] \in Nat
<1> DEFINE n == Len(Lengths)
<1>1. n \in Nat /\ m \in 2 .. (n - 2)
  BY LengthsHave DEF Middle
<1>2. /\ m \in 1 .. (n + 1) /\ m + 1 \in 1 .. (n + 1) /\ 2 \in 1 .. (n + 1) /\ n - 1 \in 1 .. (n + 1)
      /\ m \in 2 .. (n + 1) /\ n - 1 \in (m + 1) .. (n + 1)
      /\ m \in Nat /\ 1 < m /\ m < n - 1 /\ m \in 1 .. (n - 1) /\ m + 1 \in 1 .. (n - 1)
  BY <1>1
<1>3. FirstDay[2] <= FirstDay[m] /\ FirstDay[m + 1] <= FirstDay[n - 1]
  BY <1>2, FirstDaysGrow
<1>4. FirstDay[2] \in Nat /\ FirstDay[m] \in Nat /\ FirstDay[m + 1] \in Nat /\ FirstDay[n - 1] \in Nat
  BY <1>2, FirstDays
<1> QED BY <1>2, <1>3, <1>4 DEF Months

\* A table of cycles reaches past the middle on both sides.
LEMMA TableReaches ==
  ASSUME NEW vs, Chain(vs), vs # <<>>, NEW m \in Middle
  PROVE  /\ Opening(vs) <= FirstDay[m] /\ FirstDay[m + 1] <= Ending(vs)
         /\ Opening(vs) \in Nat /\ Ending(vs) \in Nat
<1>1. vs \in Seq(Version) /\ 1 \in 1 .. Len(vs)
  BY DEF Chain
<1>2. vs[1].day \in Nat \ {0} /\ vs[1].policy \in Policies /\ 1 \in Months
  BY <1>1, ChainHas, EndMonths
<1>3. Opening(vs) <= FirstDay[1 + 1] /\ Opening(vs) \in Nat
  BY <1>2, AnchorBetween DEF Opening
<1>4. Ending(vs) \in Days /\ FirstDay[Len(Lengths) - 1] <= Ending(vs)
  BY EndingIs
<1>5. Ending(vs) \in Nat
  BY <1>4, LastDayHas DEF Days
<1> QED BY <1>3, <1>4, <1>5, MiddleHas

\* A day of the table in the middle is in a cycle, or in its month.
LEMMA DayHasKey ==
  ASSUME NEW vs, Chain(vs), NEW d \in Days, MonthOf(d) \in Middle
  PROVE  PeriodOf(Calendar(vs), d) \in Keys(Calendar(vs))
<1>1. CASE vs = <<>>
  <2>1. MonthOf(d) \in Months
    BY MiddleHas
  <2> QED BY <1>1, <2>1, MonthsCalendar
<1>2. CASE vs # <<>>
  <2> DEFINE cal == Calendar(vs)
             m == MonthOf(d)
  <2>1. FirstDay[m] <= d /\ d < FirstDay[m + 1] /\ d \in Nat
    BY MonthOfHas, LastDayHas DEF Days
  <2>2. /\ Opening(vs) <= FirstDay[m] /\ FirstDay[m + 1] <= Ending(vs)
        /\ Opening(vs) \in Nat /\ Ending(vs) \in Nat
    BY <1>2, TableReaches
  <2>3. FirstDay[m] \in Nat /\ FirstDay[m + 1] \in Nat
    BY MiddleHas
  <2>4. Opening(vs) <= d /\ d < Ending(vs)
    BY <2>1, <2>2, <2>3
  <2>5. PICK i \in DOMAIN cal.entries : cal.entries[i].start <= d /\ d <= cal.entries[i].end
    BY <1>2, <2>4, CyclesCalendar
  <2>6. cal.entries \in Seq(Entry) /\ Tiles(cal.entries)
    BY <1>2, CyclesCalendar
  <2> HIDE DEF cal
  <2>7. PeriodOf(cal, d) = cal.entries[i].key /\ cal.entries[i].key \in Keys(cal)
    BY <2>1, <2>5, <2>6, EntryIs
  <2> QED BY <2>7 DEF cal
<1> QED BY <1>1, <1>2

\* A day between the opening and the ending too.
LEMMA DayInside ==
  ASSUME NEW vs, Chain(vs), vs # <<>>, NEW d \in Days, Opening(vs) <= d, d < Ending(vs)
  PROVE  PeriodOf(Calendar(vs), d) \in Keys(Calendar(vs))
<1> DEFINE cal == Calendar(vs)
<1>1. PICK i \in DOMAIN cal.entries : cal.entries[i].start <= d /\ d <= cal.entries[i].end
  BY CyclesCalendar
<1>2. cal.entries \in Seq(Entry) /\ Tiles(cal.entries)
  BY CyclesCalendar
<1>3. d \in Nat
  BY LastDayHas DEF Days
<1> HIDE DEF cal
<1>4. PeriodOf(cal, d) = cal.entries[i].key /\ cal.entries[i].key \in Keys(cal)
  BY <1>1, <1>2, <1>3, EntryIs
<1> QED BY <1>4 DEF cal

\* The days of a key.
LEMMA RangeHas ==
  ASSUME NEW vs, Chain(vs), NEW k \in Keys(Calendar(vs))
  PROVE  LET e == RangeOf(Calendar(vs), k) IN
         /\ e \in Entry /\ e.key = k /\ e.start \in Days /\ e.end \in Days /\ e.start <= e.end
         /\ MonthOf(e.end) = k \div 2 /\ MonthOf(e.end) \in Months /\ MonthOf(e.start) \in Months
         /\ vs # <<>> => Opening(vs) <= e.start
         /\ k \in Nat
<1> DEFINE cal == Calendar(vs)
           t == cal.entries
<1>1. t \in Seq(Entry) /\ Tiles(t)
  BY CalendarHas
<1>2. PICK i \in DOMAIN t : t[i].key = k
  BY DEF Keys
<1>3. t[i] \in Entry /\ RangeOf(cal, k) = t[i]
  BY <1>1, <1>2, EntryIs
<1>4. /\ t[i].start \in Days /\ t[i].end \in Days /\ t[i].end < FirstDay[Len(Lengths)]
      /\ vs # <<>> => Opening(vs) <= t[i].start
  <2>1. CASE vs = <<>>
    <3>1. t = MonthEntries
      BY <2>1 DEF Calendar
    <3>2. i \in Months /\ t[i] = MonthRow(i)
      BY <1>2, <3>1, MonthsAre
    <3>3. t[i].start = FirstDay[i] /\ t[i].end = FirstDay[i + 1] - 1
      BY <3>2 DEF MonthRow
    <3> QED BY <2>1, <3>2, <3>3, MonthHas
  <2>2. CASE vs # <<>>
    <3>1. /\ Opening(vs) <= t[i].start /\ t[i].start <= t[i].end
          /\ t[i].end \in Days /\ t[i].end < FirstDay[Len(Lengths)]
      BY <1>2, <2>2, CyclesCalendar
    <3>2. Opening(vs) \in Days
      BY <2>2, OpeningIs
    <3>3. t[i].start \in Nat /\ t[i].end \in Nat
      BY <1>3 DEF Entry
    <3>4. t[i].start \in Days
      BY <3>1, <3>2, <3>3, LastDayHas DEF Days
    <3> QED BY <3>1, <3>4
  <2> QED BY <2>1, <2>2
<1>5. t[i].start <= t[i].end /\ t[i].key \div 2 = MonthOf(t[i].end)
  BY <1>1, <1>2 DEF Tiles
<1>6. MonthOf(t[i].end) \in Months /\ MonthOf(t[i].start) \in Months
  <2> DEFINE a == MonthOf(t[i].start)
             b == MonthOf(t[i].end)
             n == Len(Lengths)
  <2>1. a \in 1 .. n /\ b \in 1 .. n /\ FirstDay[b] <= t[i].end /\ a <= b /\ n \in Nat
    BY <1>4, <1>5, MonthOfHas, MonthsGrow, LengthsHave
  <2>2. t[i].end \in Nat /\ FirstDay[b] \in Nat /\ FirstDay[n] \in Nat
    <3>1. b \in 1 .. (n + 1) /\ n \in 1 .. (n + 1)
      BY <2>1, LengthsHave
    <3> QED BY <1>3, <3>1, FirstDays DEF Entry
  <2>3. b # n
    BY <1>4, <2>1, <2>2
  <2> HIDE DEF a, b, n
  <2>4. a \in 1 .. (n - 1) /\ b \in 1 .. (n - 1)
    BY <2>1, <2>3
  <2> QED BY <2>4 DEF a, b, n, Months
<1>7. k \in Nat
  BY <1>2, <1>3 DEF Entry
<1> QED BY <1>2, <1>3, <1>4, <1>5, <1>6, <1>7

\* What one calendar may change into.
Leads(vs, ws) ==
  /\ Chain(vs) /\ Chain(ws)
  /\ \/ vs = <<>> /\ Len(ws) = 1
     \/ vs # <<>> /\ ws = <<>>
     \/ vs # <<>> /\ ws # <<>> /\ ws[1] = vs[1]

LEMMA LeadsHas ==
  ASSUME NEW vs, NEW ws, Leads(vs, ws)
  PROVE  LET from == Calendar(vs)
             to == Calendar(ws)
         IN  \/ ~from.cycles /\ to.cycles /\ vs = <<>> /\ ws # <<>> /\ Len(ws) = 1
             \/ from.cycles /\ ~to.cycles /\ vs # <<>> /\ ws = <<>>
             \/ from.cycles /\ to.cycles /\ vs # <<>> /\ ws # <<>> /\ Opening(ws) = Opening(vs)
<1>1. Calendar(vs).cycles <=> vs # <<>>
  BY CalendarHas DEF Leads
<1>2. Calendar(ws).cycles <=> ws # <<>>
  BY CalendarHas DEF Leads
<1>3. Len(ws) = 1 => ws # <<>>
  OBVIOUS
<1> QED BY <1>1, <1>2, <1>3 DEF Leads, Opening

\* The payday of a month of the middle, on the first payday of a calendar of one.
LEMMA PaydayInside ==
  ASSUME NEW ws, Chain(ws), Len(ws) = 1, NEW m \in Middle
  PROVE  PeriodOf(Calendar(ws), AnchorDate(m, Calendar(ws).first)) \in Keys(Calendar(ws))
<1> DEFINE v == ws[1]
           d == AnchorDate(m, v)
           last == Len(Lengths) - 1
<1>1. ws # <<>> /\ 1 \in 1 .. Len(ws)
  OBVIOUS
<1>2. v.day \in Nat \ {0} /\ v.policy \in Policies
  BY <1>1, ChainHas
<1>3. Calendar(ws).first = v
  BY <1>1, CyclesCalendar
<1>4. 1 \in Months /\ last \in Months /\ m \in Months /\ 1 < m /\ m < last
  BY EndMonths, MiddleHas
<1>5. Opening(ws) = AnchorDate(1, v) /\ Ending(ws) = AnchorDate(last, v)
  BY DEF Opening, Ending
<1> HIDE DEF v
<1>6. AnchorDate(1, v) < d /\ d < AnchorDate(last, v)
  BY <1>2, <1>4, AnchorsGrow
<1>7. AnchorDate(1, v) \in Nat /\ d \in Nat /\ d \in Days
  BY <1>2, <1>4, AnchorBetween, AnchorDateHas
<1>8. Opening(ws) <= d /\ d < Ending(ws)
  BY <1>5, <1>6, <1>7
<1> HIDE DEF d
<1>9. PeriodOf(Calendar(ws), d) \in Keys(Calendar(ws))
  BY <1>1, <1>7, <1>8, DayInside
<1> QED BY <1>3, <1>9 DEF d

\* Where a key goes is a key.
LEMMA MapKeyPlaced ==
  ASSUME NEW vs, NEW ws, Leads(vs, ws), NEW k \in Keys(Calendar(vs)), k \div 2 \in Middle
  PROVE  MapKey(Calendar(vs), Calendar(ws), k) \in Keys(Calendar(ws))
<1> DEFINE from == Calendar(vs)
           to == Calendar(ws)
           e == RangeOf(from, k)
<1>0. Chain(vs) /\ Chain(ws)
  BY DEF Leads
<1>1. /\ e \in Entry /\ e.start \in Days /\ e.end \in Days /\ e.start <= e.end /\ MonthOf(e.end) = k \div 2
      /\ MonthOf(e.start) \in Months /\ (vs # <<>> => Opening(vs) <= e.start)
  BY <1>0, RangeHas
<1>2. CASE ~from.cycles /\ to.cycles /\ vs = <<>> /\ ws # <<>> /\ Len(ws) = 1
  <2>1. MapKey(from, to, k) = PeriodOf(to, AnchorDate(k \div 2, to.first))
    BY <1>2 DEF MapKey
  <2> QED BY <1>0, <1>2, <2>1, PaydayInside
<1>3. CASE from.cycles /\ ~to.cycles /\ vs # <<>> /\ ws = <<>>
  <2>1. MapKey(from, to, k) = MonthKey(e.start)
    BY <1>3 DEF MapKey
  <2>2. MonthKey(e.start) \in Keys(Calendar(<<>>))
    BY <1>1, MonthsCalendar
  <2> QED BY <1>3, <2>1, <2>2
<1>4. CASE from.cycles /\ to.cycles /\ vs # <<>> /\ ws # <<>> /\ Opening(ws) = Opening(vs)
  <2>1. MapKey(from, to, k) = IF k \in Keys(to) THEN k ELSE PeriodOf(to, e.start)
    BY <1>4 DEF MapKey
  <2>2. PeriodOf(to, e.start) \in Keys(to)
    <3> DEFINE m == k \div 2
    <3>1. e.end < FirstDay[m + 1] /\ FirstDay[m + 1] <= Ending(ws) /\ FirstDay[m + 1] \in Nat /\ Ending(ws) \in Nat
      BY <1>0, <1>1, <1>4, MonthOfHas, TableReaches, MiddleHas
    <3>2. e.start \in Nat /\ e.end \in Nat
      BY <1>1 DEF Entry
    <3>3. e.start < Ending(ws) /\ Opening(ws) <= e.start
      BY <1>1, <1>4, <3>1, <3>2
    <3> QED BY <1>0, <1>1, <1>4, <3>3, DayInside
  <2> QED BY <2>1, <2>2
<1> QED BY <1>2, <1>3, <1>4, LeadsHas

\* Where most of the money is, is one of the places.
LEMMA HeaviestIs ==
  ASSUME NEW at, IsFiniteSet(DOMAIN at), DOMAIN at # {},
         \A x \in DOMAIN at : at[x] \in Nat /\ x.amount \in Int
  PROVE  \E x \in DOMAIN at : Heaviest(at) = at[x]
<1> DEFINE D == DOMAIN at
           sum(k) == Weight({x \in D : at[x] = k})
           keys == {at[x] : x \in D}
           f == [x \in D |-> at[x]]
           R == {q \in keys \X keys : sum(q[1]) < sum(q[2]) \/ (sum(q[1]) = sum(q[2]) /\ q[2] <= q[1])}
<1>1. IsFiniteSet(keys) /\ keys # {} /\ keys \subseteq Nat
  <2>1. (\A x \in D : f[x] \in keys) /\ \A y \in keys : \E x \in D : f[x] = y
    OBVIOUS
  <2>2. keys # {} /\ keys \subseteq Nat
    OBVIOUS
  <2> HIDE DEF f, keys, D
  <2>3. IsFiniteSet(D)
    BY DEF D
  <2> QED BY <2>1, <2>2, <2>3, FiniteImage
<1>2. \A k : sum(k) \in Int
  <2> TAKE k
  <2> DEFINE S == {x \in D : at[x] = k}
  <2>1. IsFiniteSet(S) /\ \A x \in S : x.amount \in Int
    BY FS_Subset
  <2> HIDE DEF S
  <2>2. Weight(S) \in Int
    BY <2>1, WeightIs
  <2> QED BY <2>2 DEF S
<1>3. Heaviest(at) = CHOOSE k \in keys : \A j \in keys : sum(k) > sum(j) \/ (sum(k) = sum(j) /\ k <= j)
  BY DEF Heaviest
<1> HIDE DEF sum, f
<1>4. \A x, y \in keys : x # y => <<x, y>> \in R \/ <<y, x>> \in R
  <2> HIDE DEF keys
  <2> TAKE x, y \in keys
  <2>1. sum(x) \in Int /\ sum(y) \in Int /\ x \in Nat /\ y \in Nat
    BY <1>1, <1>2
  <2> QED BY <2>1
<1>5. \A x, y, z \in keys : <<x, y>> \in R /\ <<y, z>> \in R => <<x, z>> \in R
  <2> HIDE DEF keys
  <2> TAKE x, y, z \in keys
  <2>1. sum(x) \in Int /\ sum(y) \in Int /\ sum(z) \in Int /\ x \in Nat /\ y \in Nat /\ z \in Nat
    BY <1>1, <1>2
  <2> QED BY <2>1
<1>6. \E x \in keys : \A y \in keys \ {x} : <<y, x>> \in R
  <2> HIDE DEF R, keys, D
  <2>1. IsFiniteSet(keys)
    BY <1>1
  <2>2. /\ \A x, y \in keys : x # y => <<x, y>> \in R \/ <<y, x>> \in R
        /\ \A x, y, z \in keys : <<x, y>> \in R /\ <<y, z>> \in R => <<x, z>> \in R
    BY <1>4, <1>5
  <2> DEFINE T == keys
  <2>3. T \in SUBSET keys /\ T # {}
    BY <1>1
  <2> HIDE DEF T
  <2>4. \E x \in T : \A y \in T \ {x} : <<y, x>> \in R
    BY <2>1, <2>2, <2>3, LastOne
  <2> QED BY <2>4 DEF T
<1>7. \E k \in keys : \A j \in keys : sum(k) > sum(j) \/ (sum(k) = sum(j) /\ k <= j)
  <2>1. PICK k \in keys : \A y \in keys \ {k} : <<y, k>> \in R
    BY <1>6
  <2> HIDE DEF keys
  <2>2. ASSUME NEW j \in keys PROVE sum(k) > sum(j) \/ (sum(k) = sum(j) /\ k <= j)
    <3>1. sum(k) \in Int /\ sum(j) \in Int /\ k \in Nat /\ j \in Nat
      BY <1>1, <1>2
    <3>2. CASE j = k
      BY <3>1, <3>2
    <3>3. CASE j # k
      <4>1. <<j, k>> \in R
        BY <2>1, <3>3
      <4>2. sum(j) < sum(k) \/ (sum(j) = sum(k) /\ k <= j)
        BY <4>1
      <4> QED BY <3>1, <4>2
    <3> QED BY <3>2, <3>3
  <2> QED BY <2>1, <2>2
<1>8. Heaviest(at) \in keys
  <2> HIDE DEF keys
  <2> QED BY <1>3, <1>7
<1> QED BY <1>8

\* The days of what is recorded are of the middle.
DaysInMiddle(l) == \A x \in l.moves : x.date # None => x.date \in Days /\ MonthOf(x.date) \in Middle

LEMMA TrackedHas ==
  ASSUME NEW l, Shaped(l), DaysInMiddle(l), NEW leaf
  PROVE  /\ IsFiniteSet(Tracked(l, leaf))
         /\ \A x \in Tracked(l, leaf) : x.date \in Days /\ MonthOf(x.date) \in Middle /\ x.amount \in Int
<1>1. IsFiniteSet(Tracked(l, leaf))
  BY FS_Subset DEF Tracked, Shaped
<1>2. ASSUME NEW x \in Tracked(l, leaf) PROVE x.date \in Days /\ MonthOf(x.date) \in Middle /\ x.amount \in Int
  <2>1. x \in l.moves /\ x.date # None
    BY DEF Tracked
  <2>2. x \in Item
    BY <2>1 DEF Shaped
  <2> QED BY <2>1, <2>2 DEF DaysInMiddle, Item
<1> QED BY <1>1, <1>2

\* When cycles are activated,
LEMMA DatelessPlaced ==
  ASSUME NEW l, Shaped(l), DaysInMiddle(l), NEW ws, Chain(ws), Len(ws) = 1, NEW leaf,
         NEW k, k \div 2 \in Middle
  PROVE  PlaceDateless(l, Calendar(ws), leaf, k) \in Keys(Calendar(ws))
<1> DEFINE to == Calendar(ws)
           T == Tracked(l, leaf)
           at == [x \in T |-> PeriodOf(to, x.date)]
           here == {x \in DOMAIN at : MonthKey(x.date) = k}
           near == [x \in here |-> at[x]]
<1>1. PlaceDateless(l, to, leaf, k)
        = CASE here # {}                  -> Heaviest(near)
            [] here = {} /\ Habitual(at)  -> PeriodOf(to, AnchorDate(k \div 2, to.first))
            [] here = {} /\ ~Habitual(at) -> IF k \in Keys(to) THEN k ELSE PeriodOf(to, FirstDay[k \div 2])
  BY DEF PlaceDateless
<1>2. IsFiniteSet(T) /\ \A x \in T : x.date \in Days /\ MonthOf(x.date) \in Middle /\ x.amount \in Int
  BY TrackedHas
<1>3. Keys(to) \subseteq Nat
  BY RangeHas
<1>4. \A x \in T : at[x] = PeriodOf(to, x.date) /\ at[x] \in Keys(to)
  BY <1>2, DayHasKey
<1>5. DOMAIN at = T /\ here \subseteq T /\ DOMAIN near = here /\ \A x \in here : near[x] = at[x]
  OBVIOUS
<1> HIDE DEF T, at, here, near, to
<1>6. CASE here # {}
  <2>1. IsFiniteSet(DOMAIN near) /\ DOMAIN near # {}
    BY <1>2, <1>5, <1>6, FS_Subset
  <2>2. \A x \in DOMAIN near : near[x] \in Nat /\ x.amount \in Int
    BY <1>2, <1>3, <1>4, <1>5
  <2>3. PICK x \in DOMAIN near : Heaviest(near) = near[x]
    BY <2>1, <2>2, HeaviestIs
  <2>4. near[x] \in Keys(to)
    BY <1>4, <1>5, <2>3
  <2>5. PlaceDateless(l, to, leaf, k) = Heaviest(near)
    BY <1>1, <1>6
  <2> QED BY <2>3, <2>4, <2>5 DEF to
<1>7. CASE here = {} /\ Habitual(at)
  <2>1. PlaceDateless(l, to, leaf, k) = PeriodOf(to, AnchorDate(k \div 2, to.first))
    BY <1>1, <1>7
  <2> QED BY <2>1, PaydayInside DEF to
<1>8. CASE here = {} /\ ~Habitual(at)
  <2>1. PlaceDateless(l, to, leaf, k) = IF k \in Keys(to) THEN k ELSE PeriodOf(to, FirstDay[k \div 2])
    BY <1>1, <1>8
  <2>2. PeriodOf(to, FirstDay[k \div 2]) \in Keys(to)
    <3>1. FirstDay[k \div 2] \in Days /\ MonthOf(FirstDay[k \div 2]) = k \div 2
      BY MiddleHas, MonthHas
    <3> QED BY <3>1, DayHasKey DEF to
  <2> QED BY <2>1, <2>2 DEF to
<1> QED BY <1>6, <1>7, <1>8

\* and when one goes back to months.
LEMMA DatelessBack ==
  ASSUME NEW l, Shaped(l), DaysInMiddle(l), NEW vs, Chain(vs), NEW leaf, NEW k \in Keys(Calendar(vs))
  PROVE  ReturnDateless(l, Calendar(vs), leaf, k) \in Keys(Calendar(<<>>))
<1> DEFINE from == Calendar(vs)
           T == Tracked(l, leaf)
           here == {x \in T : x.period = k}
           habitual == Habitual([x \in T |-> x.period])
           near == [x \in here |-> MonthKey(x.date)]
           months == Keys(Calendar(<<>>))
<1>1. ReturnDateless(l, from, leaf, k)
        = CASE here # {}               -> Heaviest(near)
            [] here = {} /\ habitual  -> MonthKey(RangeOf(from, k).start)
            [] here = {} /\ ~habitual -> 2 * (k \div 2)
  BY DEF ReturnDateless
<1>2. IsFiniteSet(T) /\ \A x \in T : x.date \in Days /\ MonthOf(x.date) \in Middle /\ x.amount \in Int
  BY TrackedHas
<1>3. months = {2 * m : m \in Months}
  BY MonthsCalendar
<1>4. \A d : MonthOf(d) \in Months => MonthKey(d) \in months
  BY <1>3 DEF MonthKey
<1>5. months \subseteq Nat
  <2>1. Months \subseteq Nat
    BY DEF Months
  <2> HIDE DEF months
  <2> QED BY <1>3, <2>1
<1> HIDE DEF months
<1>6. \A x \in here : near[x] = MonthKey(x.date) /\ near[x] \in months /\ x \in T
  BY <1>2, <1>4, MiddleHas
<1>6a. DOMAIN near = here /\ here \subseteq T
  OBVIOUS
<1> HIDE DEF T, here, near, habitual
<1>7. CASE here # {}
  <2>1. IsFiniteSet(DOMAIN near) /\ DOMAIN near # {}
    BY <1>2, <1>6a, <1>7, FS_Subset
  <2>2. \A x \in DOMAIN near : near[x] \in Nat /\ x.amount \in Int
    BY <1>2, <1>5, <1>6, <1>6a
  <2>3. PICK x \in DOMAIN near : Heaviest(near) = near[x]
    BY <2>1, <2>2, HeaviestIs
  <2>4. ReturnDateless(l, from, leaf, k) = Heaviest(near)
    BY <1>1, <1>7
  <2>5. near[x] \in months
    BY <1>6, <1>6a, <2>3
  <2> QED BY <2>3, <2>4, <2>5 DEF months
<1> DEFINE e == RangeOf(from, k)
<1>8. MonthOf(e.start) \in Months /\ k \div 2 \in Months
  <2>1. /\ MonthOf(e.end) = k \div 2 /\ MonthOf(e.end) \in Months /\ MonthOf(e.start) \in Months
    BY RangeHas
  <2> QED BY <2>1
<1>9. CASE here = {} /\ habitual
  <2>1. ReturnDateless(l, from, leaf, k) = MonthKey(e.start)
    BY <1>1, <1>9
  <2> QED BY <1>4, <1>8, <2>1 DEF months
<1>10. CASE here = {} /\ ~habitual
  <2>1. ReturnDateless(l, from, leaf, k) = 2 * (k \div 2)
    BY <1>1, <1>10
  <2> QED BY <1>3, <1>8, <2>1 DEF months
<1> QED BY <1>7, <1>9, <1>10

\* Where anything without a day goes is a key.
LEMMA PlacePlaced ==
  ASSUME NEW l, Shaped(l), DaysInMiddle(l), NEW vs, NEW ws, Leads(vs, ws), NEW leaf,
         NEW k \in Keys(Calendar(vs)), k \div 2 \in Middle
  PROVE  Place(l, Calendar(vs), Calendar(ws), leaf, k) \in Keys(Calendar(ws))
<1> DEFINE from == Calendar(vs)
           to == Calendar(ws)
<1>0. Chain(vs) /\ Chain(ws)
  BY DEF Leads
<1>1. CASE ~from.cycles /\ to.cycles /\ vs = <<>> /\ ws # <<>> /\ Len(ws) = 1
  <2>1. Place(l, from, to, leaf, k) = PlaceDateless(l, to, leaf, k)
    BY <1>1 DEF Place
  <2> QED BY <1>0, <1>1, <2>1, DatelessPlaced
<1>2. CASE from.cycles /\ ~to.cycles /\ vs # <<>> /\ ws = <<>>
  <2>1. Place(l, from, to, leaf, k) = ReturnDateless(l, from, leaf, k)
    BY <1>2 DEF Place
  <2>2. ReturnDateless(l, from, leaf, k) \in Keys(Calendar(<<>>))
    BY <1>0, DatelessBack
  <2> QED BY <1>2, <2>1, <2>2
<1>3. CASE from.cycles /\ to.cycles /\ vs # <<>> /\ ws # <<>> /\ Opening(ws) = Opening(vs)
  <2>1. Place(l, from, to, leaf, k) = MapKey(from, to, k)
    BY <1>3 DEF Place
  <2> QED BY <2>1, MapKeyPlaced
<1> QED BY <1>1, <1>2, <1>3, LeadsHas

-----------------------------------------------------------------------------
(* Where a relocation leaves everything.                                   *)

\* The cycle an income may open is one of the table.
LEMMA OpeningPlaced ==
  ASSUME NEW cal, cal.entries \in Seq(Entry), NEW d, ProposeOpening(cal, d) # None
  PROVE  ProposeOpening(cal, d) \in Keys(cal)
<1> DEFINE e == cal.entries
           D == DOMAIN e
           K == Keys(cal)
           f == [i \in D |-> e[i].key]
           next == Following(cal, PeriodOf(cal, d))
<1>1. IsFiniteSet(D)
  <2>1. D = 1 .. Len(e) /\ Len(e) \in Nat
    OBVIOUS
  <2> HIDE DEF D
  <2> QED BY <2>1, FS_Interval
<1>2. (\A i \in D : f[i] \in K) /\ \A k \in K : \E i \in D : f[i] = k
  BY DEF Keys
<1>3. K \subseteq Nat
  <2>1. \A i \in D : e[i] \in Entry
    OBVIOUS
  <2> QED BY <2>1 DEF Keys, Entry
<1>4. next # {} /\ ProposeOpening(cal, d) = Min(next)
  BY DEF ProposeOpening
<1>5. next \subseteq K
  BY DEF Following
<1> HIDE DEF e, D, f, K, next
<1>6. IsFiniteSet(K)
  BY <1>1, <1>2, FiniteImage
<1>7. next \in SUBSET Nat /\ IsFiniteSet(next)
  BY <1>3, <1>5, <1>6, FS_Subset
<1>8. Min(next) \in next
  BY <1>4, <1>7, FiniteMinMax
<1> QED BY <1>4, <1>5, <1>8 DEF K

\* Everything is of a key of a calendar, and of the period of its day or of the one
\* it opens.
Placed(l, cal) ==
  /\ \A x \in l.moves : x.date # None => ValidPeriod(cal, x)
  /\ \A c \in DOMAIN l.cells : c[3] \in Keys(cal)
  /\ \A x \in l.moves : x.period \in Keys(cal)

\* What is remembered is of the months it came from.
Remembering(l) == \A o \in l.origins : o.origin \in Keys(Calendar(<<>>))

\* A movement is relocated to a key, by its day if it has one.
LEMMA MovePlaced ==
  ASSUME NEW l, Shaped(l), DaysInMiddle(l), InTheMiddle(l), Remembering(l), NEW vs, NEW ws, Leads(vs, ws),
         Placed(l, Calendar(vs)), NEW x \in l.moves
  PROVE  LET to == Calendar(ws)
             y == Sending(l, Calendar(vs), to, x)
         IN  y.period \in Keys(to) /\ (y.date # None => ValidPeriod(to, y))
<1> DEFINE from == Calendar(vs)
           to == Calendar(ws)
           y == Sending(l, from, to, x)
           p == PeriodAfter(l, from, to, x)
           opens == from.cycles /\ x.kind = "income" /\ ProposeOpening(from, x.date) = x.period
           proposed == IF opens THEN ProposeOpening(to, x.date) ELSE None
           memory == {o \in l.origins : o.row = "item" /\ o.ref = x.id}
<1>1. x \in Item /\ x.period \in Keys(from) /\ x.period \div 2 \in Middle /\ Chain(ws)
  BY DEF Shaped, Placed, InTheMiddle, Leads
<1>2. y.period = p /\ y.date = x.date /\ y.kind = x.kind
  BY <1>1 DEF Sending, Item
<1>3. p = IF x.date # None
          THEN IF proposed # None THEN proposed ELSE PeriodOf(to, x.date)
          ELSE IF Returning(from, to) /\ memory # {} THEN (CHOOSE o \in memory : TRUE).origin
          ELSE Place(l, from, to, x.leaf, x.period)
  BY DEF PeriodAfter
<1>4. to.entries \in Seq(Entry)
  BY <1>1, CalendarHas
<1> HIDE DEF y, p, from, to
<1>5. CASE x.date # None
  <2>1. x.date \in Days /\ MonthOf(x.date) \in Middle
    BY <1>5 DEF DaysInMiddle
  <2>2. CASE proposed # None
    <3>1. x.kind = "income" /\ p = ProposeOpening(to, x.date) /\ ProposeOpening(to, x.date) # None
      BY <1>3, <1>5, <2>2
    <3>2. p \in Keys(to)
      BY <1>4, <3>1, OpeningPlaced
    <3> QED BY <1>2, <3>1, <3>2 DEF ValidPeriod, y, to, from
  <2>3. CASE proposed = None
    <3>1. p = PeriodOf(to, x.date)
      BY <1>3, <1>5, <2>3
    <3>2. p \in Keys(to)
      BY <1>1, <2>1, <3>1, DayHasKey DEF to
    <3>3. ValidPeriod(to, y)
      BY <1>2, <1>5, <3>1 DEF ValidPeriod
    <3> QED BY <1>2, <3>2, <3>3 DEF y, to, from
  <2> QED BY <2>2, <2>3
<1>6. CASE x.date = None
  <2>1. CASE Returning(from, to) /\ memory # {}
    <3>1. PICK o \in memory : p = o.origin
      BY <1>3, <1>6, <2>1
    <3>2. p \in Keys(Calendar(<<>>))
      BY <3>1 DEF Remembering
    <3>3. ws = <<>>
      BY <1>1, <2>1, CalendarHas DEF Returning, to
    <3> QED BY <1>2, <1>6, <3>2, <3>3 DEF y, to, from
  <2>2. CASE ~(Returning(from, to) /\ memory # {})
    <3>1. p = Place(l, from, to, x.leaf, x.period)
      BY <1>3, <1>6, <2>2
    <3>2. p \in Keys(to)
      BY <1>1, <3>1, PlacePlaced DEF from, to
    <3> QED BY <1>2, <1>6, <3>2 DEF y, to, from
  <2> QED BY <2>1, <2>2
<1> QED BY <1>5, <1>6

\* A cell goes to a key, or gives back to months.
LEMMA SentPlaced ==
  ASSUME NEW l, Shaped(l), DaysInMiddle(l), InTheMiddle(l), Remembering(l), NEW vs, NEW ws, Leads(vs, ws),
         Placed(l, Calendar(vs)), NEW moves \in SUBSET Item, IsFiniteSet(moves), NEW c \in Sources(l),
         NEW p \in Sent(l, Calendar(vs), Calendar(ws), moves, c)
  PROVE  p.cell[3] \in Keys(Calendar(ws))
<1> DEFINE from == Calendar(vs)
           to == Calendar(ws)
<1>1. c[3] \in Keys(from) /\ c[3] \div 2 \in Middle
  <2>1. CASE c \in DOMAIN l.cells
    BY <2>1 DEF Placed, InTheMiddle
  <2>2. CASE c \in Explained(l)
    <3>1. PICK x \in l.moves : c = <<"actual", x.leaf, x.period>>
      BY <2>2 DEF Explained
    <3>2. c[3] = x.period
      BY <3>1
    <3> QED BY <3>2 DEF Placed, InTheMiddle
  <2> QED BY <2>1, <2>2 DEF Sources
<1>2. Chain(ws)
  BY DEF Leads
<1>3. CASE HasMemory(l, from, to, c)
  <2> DEFINE parts == Parts(l, c, moves).parts
             D == {o.origin : o \in Memory(l, c)}
  <2>1. Memory(l, c) # {} /\ Returning(from, to)
    BY <1>3 DEF HasMemory
  <2>2. parts \in [D -> Int]
    BY <2>1, PartsHave
  <2>3. DOMAIN parts = D
    <3> HIDE DEF parts, D
    <3> QED BY <2>2
  <2>4. PICK m \in D : p = Piece(c[1], c[2], m, c, parts[m], TRUE)
    BY <1>3, <2>3 DEF Sent
  <2>5. p.cell[3] = m
    <3> HIDE DEF parts, D
    <3>1. p.cell = <<c[1], c[2], m>>
      BY <2>4 DEF Piece
    <3> QED BY <3>1
  <2>6. m \in Keys(Calendar(<<>>))
    BY <2>4 DEF Memory, Remembering
  <2>7. ws = <<>>
    BY <1>2, <2>1, CalendarHas DEF Returning
  <2> QED BY <2>5, <2>6, <2>7
<1>4. CASE ~HasMemory(l, from, to, c)
  <2> DEFINE k == Place(l, from, to, c[2], c[3])
             keep == c \in DOMAIN l.cells /\ l.cells[c] = 0
             own == Own(l, c)
  <2>1. p = Piece(c[1], c[2], k, c, own, keep)
    BY <1>4 DEF Sent
  <2>2. k \in Keys(to)
    BY <1>1, PlacePlaced
  <2> HIDE DEF k, keep, own, to
  <2>3. p.cell[3] = k
    <3>1. p.cell = <<c[1], c[2], k>>
      BY <2>1, PieceHas
    <3> QED BY <3>1
  <2> QED BY <2>2, <2>3 DEF to
<1> QED BY <1>3, <1>4

\* A relocation leaves everything in a key of the new calendar, and everything with
\* a day in the period of that day, or in the one it opens.
LEMMA RelocatePlaced ==
  ASSUME NEW l, Shaped(l), DaysInMiddle(l), InTheMiddle(l), Remembering(l), NEW vs, NEW ws, Leads(vs, ws),
         Placed(l, Calendar(vs))
  PROVE  Placed(Relocate(l, Calendar(vs), Calendar(ws)), Calendar(ws))
<1> DEFINE from == Calendar(vs)
           to == Calendar(ws)
           r == Relocate(l, from, to)
           moves == MovesAfter(l, from, to)
           P == Pieces(l, from, to, moves)
<1>1. r.moves = moves /\ r.cells = CellsAfter(P)
  BY RelocateHas
<1>2. moves = {Sending(l, from, to, x) : x \in l.moves}
  BY DEF MovesAfter, Sending
<1>3. ASSUME NEW y \in moves PROVE y.period \in Keys(to) /\ (y.date # None => ValidPeriod(to, y))
  <2>1. PICK x \in l.moves : y = Sending(l, from, to, x)
    BY <1>2
  <2> QED BY <2>1, MovePlaced
<1>4. Keys(to) \subseteq Nat
  BY RangeHas DEF Leads
<1>5. moves \in SUBSET Item /\ IsFiniteSet(moves)
  BY <1>3, <1>4, MovesAfterHave
<1>6. IsFiniteSet(P) /\ \A p \in P : p.amount \in Int
  BY <1>5, PiecesHave
<1>7. P = (UNION {Sent(l, from, to, moves, c) : c \in Sources(l)}) \cup {Brought(x) : x \in Moving(moves)}
  BY PiecesAre
<1>8. DOMAIN CellsAfter(P) \subseteq {p.cell : p \in P}
  <2> HIDE DEF P
  <2> QED BY <1>6, CellsAfterHave
<1>9. ASSUME NEW p \in P PROVE p.cell[3] \in Keys(to)
  <2>1. CASE \E c \in Sources(l) : p \in Sent(l, from, to, moves, c)
    <3>1. PICK c \in Sources(l) : p \in Sent(l, from, to, moves, c)
      BY <2>1
    <3> QED BY <1>5, <3>1, SentPlaced
  <2>2. CASE \E x \in Moving(moves) : p = Brought(x)
    <3>1. PICK x \in Moving(moves) : p = Brought(x)
      BY <2>2
    <3>2. p.cell = <<"actual", x.leaf, x.period>>
      BY <3>1 DEF Brought, Piece
    <3>3. x \in moves
      BY DEF Moving
    <3> QED BY <1>3, <3>2, <3>3
  <2> QED BY <1>7, <2>1, <2>2
<1> HIDE DEF from, to, moves, P
<1>10. \A c \in DOMAIN r.cells : c[3] \in Keys(to)
  BY <1>1, <1>8, <1>9
<1>11. Placed(r, to)
  BY <1>1, <1>3, <1>10 DEF Placed
<1> QED BY <1>11 DEF r, from, to

\* The days stay, and what is remembered is always of months.
LEMMA RelocateRemembers ==
  ASSUME NEW l, Shaped(l), DaysInMiddle(l), Remembering(l), NEW vs, NEW ws, Leads(vs, ws), Placed(l, Calendar(vs))
  PROVE  LET r == Relocate(l, Calendar(vs), Calendar(ws)) IN DaysInMiddle(r) /\ Remembering(r)
<1> DEFINE from == Calendar(vs)
           to == Calendar(ws)
           r == Relocate(l, from, to)
           months == Keys(Calendar(<<>>))
<1>1. r.moves = MovesAfter(l, from, to) /\ r.origins = OriginsAfter(l, from, to)
  BY RelocateHas
<1>2. DaysInMiddle(r)
  <2> SUFFICES ASSUME NEW y \in MovesAfter(l, from, to), y.date # None
               PROVE  y.date \in Days /\ MonthOf(y.date) \in Middle
    BY <1>1 DEF DaysInMiddle
  <2>1. PICK x \in l.moves : y = Sending(l, from, to, x)
    BY DEF MovesAfter, Sending
  <2>2. x \in Item
    BY DEF Shaped
  <2>3. y.date = x.date
    BY <2>1, <2>2, SendingHas DEF SameItem
  <2> QED BY <2>3 DEF DaysInMiddle
<1>3. Remembering(r)
  <2> SUFFICES ASSUME NEW o \in OriginsAfter(l, from, to) PROVE o.origin \in months
    BY <1>1 DEF Remembering
  <2>1. CASE Returning(from, to)
    BY <2>1 DEF OriginsAfter
  <2>2. CASE ~Returning(from, to) /\ from.cycles
    <3>1. PICK q \in l.origins : o = [q EXCEPT !.period = MapKey(from, to, q.period)]
      BY <2>2 DEF OriginsAfter
    <3>2. Remembered(q)
      BY DEF Shaped, Remembered
    <3>3. o.origin = q.origin
      BY <3>1, <3>2 DEF Remembered
    <3> QED BY <3>3 DEF Remembering
  <2>3. CASE ~Returning(from, to) /\ ~from.cycles
    <3>1. vs = <<>>
      BY <2>3, CalendarHas DEF Leads
    <3> DEFINE A == {[row |-> c[1], ref |-> c[2], period |-> PlaceDateless(l, to, c[2], c[3]), origin |-> c[3],
                      amount |-> Own(l, c)] : c \in DOMAIN l.cells}
               B == {[row |-> "item", ref |-> x.id, period |-> PlaceDateless(l, to, x.leaf, x.period),
                      origin |-> x.period, amount |-> 0] : x \in {y \in l.moves : y.date = None}}
    <3>2. OriginsAfter(l, from, to) = A \cup B
      BY <2>3 DEF OriginsAfter
    <3>3. (\A q \in A : \E c \in DOMAIN l.cells : q.origin = c[3]) /\ \A q \in B : \E x \in l.moves : q.origin = x.period
      OBVIOUS
    <3> HIDE DEF A, B
    <3>4. (\E c \in DOMAIN l.cells : o.origin = c[3]) \/ \E x \in l.moves : o.origin = x.period
      BY <3>2, <3>3
    <3> QED BY <3>1, <3>4 DEF Placed
  <2> QED BY <2>1, <2>2, <2>3
<1> QED BY <1>2, <1>3

-----------------------------------------------------------------------------
(* Every step.                                                             *)

\* The calendar is the one of the paydays, which follow from one another.
VersionsInv == Chain(versions) /\ calendar = Calendar(versions)

\* What is recorded, or remembered, is well inside the table.
MiddleOf(l) == InTheMiddle(l) /\ DaysInMiddle(l) /\ Remembering(l)

\* The pockets hold enough in what was done, and in the plan.
Floors == HeldOK(ledger, calendar) /\ \A p \in Pockets : PlanOK(ledger, calendar, p)

PlacedInv ==
  CalendarInv /\ VersionsInv /\ LedgerInv /\ EverythingPlaced /\ MiddleOf(ledger)

LEMMA PlacedIs == EverythingPlaced <=> Placed(ledger, calendar)
BY DEF EverythingPlaced, Placed

\* A ledger first found is of months.
LEMMA PlacedInit == Init => PlacedInv
<1> SUFFICES ASSUME Init PROVE PlacedInv
  OBVIOUS
<1> DEFINE l == ledger
           cal == Calendar(<<>>)
<1>1. CalendarInv /\ LedgerInv
  BY CalendarInit, LedgerInit
<1>2. versions = <<>> /\ calendar = cal
  BY DEF Init
<1>3. Chain(<<>>)
  BY DEF Chain
<1>4. PICK u \in Users : l \in u.ledgers
  BY DEF Init
<1>5. /\ l.origins = {}
      /\ {c[3] : c \in DOMAIN l.cells} \cup {x.period : x \in l.moves} \cup ({l.start, l.closed} \ {None})
           \subseteq {2 * m : m \in Middle}
      /\ \A x \in l.moves : x.date # None => x.date \in Days /\ x.period = MonthKey(x.date)
  <2>1. l = [cells |-> l.cells, moves |-> l.moves, origins |-> {}, start |-> l.start, closed |-> l.closed]
    BY <1>4, LedgersAssumption
  <2>2. l.origins = {}
    BY <2>1
  <2> QED BY <1>4, <2>2, LedgersAssumption
<1>6. \A m \in Middle : m \in Nat /\ m \in Months /\ (2 * m) \div 2 = m
  <2> TAKE m \in Middle
  <2>1. m \in Nat /\ m \in Months
    BY MiddleHas
  <2> QED BY <2>1
<1> HIDE DEF l, cal
<1>7. InTheMiddle(l)
  BY <1>5, <1>6 DEF InTheMiddle
<1>8. /\ \A c \in DOMAIN l.cells : \E m \in Middle : c[3] = 2 * m
      /\ \A x \in l.moves : \E m \in Middle : x.period = 2 * m
  <2> DEFINE T == {2 * m : m \in Middle}
  <2>1. (\A c \in DOMAIN l.cells : c[3] \in T) /\ \A x \in l.moves : x.period \in T
    <3> HIDE DEF T
    <3>1. {c[3] : c \in DOMAIN l.cells} \cup {x.period : x \in l.moves} \subseteq T
      BY <1>5 DEF T
    <3> QED BY <3>1
  <2> QED BY <2>1
<1>9. ASSUME NEW x \in l.moves, x.date # None
      PROVE  x.date \in Days /\ MonthOf(x.date) \in Middle /\ x.period = MonthKey(x.date)
  <2>1. x.date \in Days /\ x.period = 2 * MonthOf(x.date)
    BY <1>5, <1>9 DEF MonthKey
  <2>2. PICK m \in Middle : x.period = 2 * m
    BY <1>8
  <2>3. MonthOf(x.date) \in Int
    BY <2>1, MonthOfHas
  <2>4. MonthOf(x.date) = m
    BY <1>6, <2>1, <2>2, <2>3
  <2> QED BY <1>5, <1>9, <2>4
<1>10. MiddleOf(l)
  BY <1>5, <1>7, <1>9 DEF MiddleOf, DaysInMiddle, Remembering
<1>11. Placed(l, cal)
  <2>1. Keys(cal) = {2 * m : m \in Months}
    BY MonthsCalendar DEF cal
  <2>2. \A m \in Middle : 2 * m \in Keys(cal)
    BY <1>6, <2>1
  <2>3. \A c \in DOMAIN l.cells : c[3] \in Keys(cal)
    BY <1>8, <2>2
  <2>4. \A x \in l.moves : x.period \in Keys(cal)
    BY <1>8, <2>2
  <2>5. ASSUME NEW x \in l.moves, x.date # None PROVE ValidPeriod(cal, x)
    <3>1. x.date \in Days /\ MonthOf(x.date) \in Months /\ x.period = MonthKey(x.date)
      BY <1>6, <1>9, <2>5
    <3>2. PeriodOf(cal, x.date) = MonthKey(x.date)
      BY <3>1, MonthsCalendar DEF cal
    <3> QED BY <2>5, <3>1, <3>2 DEF ValidPeriod
  <2> QED BY <2>3, <2>4, <2>5 DEF Placed
<1>12. EverythingPlaced
  BY <1>2, <1>11, PlacedIs DEF l
<1> QED BY <1>1, <1>2, <1>3, <1>10, <1>12 DEF PlacedInv, VersionsInv, l, cal

\* A first payday, one more after a payment on the last, or none again.
LEMMA ChangeLeads ==
  ASSUME CalendarInv, Chain(versions), NEW vs \in Asked, Activate(vs) \/ ChangeDay(vs) \/ Return(vs)
  PROVE  Leads(versions, vs)
<1> DEFINE n == Len(versions)
<1>1. CASE Return(vs)
  <2>1. versions # <<>> /\ vs = <<>>
    BY <1>1 DEF Return
  <2>2. Chain(<<>>)
    BY DEF Chain
  <2> QED BY <2>1, <2>2 DEF Leads
<1>2. CASE Activate(vs)
  <2>1. versions = <<>> /\ Len(vs) = 1
    BY <1>2 DEF Activate
  <2>2. vs # <<>>
    BY <2>1
  <2>3. PICK r \in Version : vs = Append(versions, r)
    BY <2>2, AskedHas
  <2>4. vs \in Seq(Version)
    BY <2>3 DEF Chain
  <2>5. Chain(vs)
    BY <2>1, <2>4 DEF Chain
  <2> QED BY <2>1, <2>5 DEF Leads
<1>3. CASE ChangeDay(vs)
  <2>1. versions # <<>> /\ Front(vs) = versions
    BY <1>3 DEF ChangeDay
  <2>2. vs # <<>>
    <3>1. Front(<<>>) = <<>>
      BY DEF Front
    <3> QED BY <2>1, <3>1
  <2>3. PICK r \in Version : vs = Append(versions, r)
    BY <2>2, AskedHas
  <2>4. versions \in Seq(Version)
    BY DEF Chain
  <2>5. /\ n \in Nat /\ n > 0 /\ vs \in Seq(Version) /\ Len(vs) = n + 1 /\ vs[n + 1] = r
        /\ \A i \in 1 .. n : vs[i] = versions[i]
    BY <2>1, <2>3, <2>4
  <2>6. Last(versions) = vs[n] /\ Last(vs) = vs[n + 1]
    <3>1. Last(versions) = versions[n] /\ n \in 1 .. n
      BY <2>5 DEF Last
    <3>2. Last(vs) = vs[n + 1]
      BY <2>5 DEF Last
    <3> QED BY <2>5, <3>1, <3>2
  <2>7. \E m \in Months : AnchorDate(m, vs[n]) >= vs[n].firstPay /\ AnchorDate(m, vs[n]) < vs[n + 1].firstPay
    <3>1. \E m \in Months : AnchorDate(m, Last(versions)) >= Last(versions).firstPay
                            /\ AnchorDate(m, Last(versions)) < Last(vs).firstPay
      BY <1>3 DEF ChangeDay
    <3> QED BY <2>6, <3>1
  <2>8. \E m \in Months : vs[n + 1].firstPay = AnchorDate(m, vs[n + 1])
    <3>1. \E m \in Months : Last(vs).firstPay = AnchorDate(m, Last(vs))
      BY <1>3 DEF ChangeDay
    <3> QED BY <2>6, <3>1
  <2> HIDE DEF n
  <2>9. \A i \in 1 .. (Len(vs) - 1) : \E m \in Months :
           AnchorDate(m, vs[i]) >= vs[i].firstPay /\ AnchorDate(m, vs[i]) < vs[i + 1].firstPay
    <3> SUFFICES ASSUME NEW i \in 1 .. n
                 PROVE  \E m \in Months : AnchorDate(m, vs[i]) >= vs[i].firstPay
                                          /\ AnchorDate(m, vs[i]) < vs[i + 1].firstPay
      BY <2>5
    <3>1. CASE i = n
      BY <2>7, <3>1
    <3>2. CASE i # n
      <4>1. i \in 1 .. (n - 1) /\ i + 1 \in 1 .. n
        BY <2>5, <3>2
      <4>2. vs[i] = versions[i] /\ vs[i + 1] = versions[i + 1]
        BY <2>5, <4>1
      <4>3. \E m \in Months : AnchorDate(m, versions[i]) >= versions[i].firstPay
                              /\ AnchorDate(m, versions[i]) < versions[i + 1].firstPay
        BY <4>1 DEF Chain, n
      <4> QED BY <4>2, <4>3
    <3> QED BY <3>1, <3>2
  <2>10. \A i \in 2 .. Len(vs) : \E m \in Months : vs[i].firstPay = AnchorDate(m, vs[i])
    <3> SUFFICES ASSUME NEW i \in 2 .. (n + 1)
                 PROVE  \E m \in Months : vs[i].firstPay = AnchorDate(m, vs[i])
      BY <2>5
    <3>1. CASE i = n + 1
      BY <2>8, <3>1
    <3>2. CASE i # n + 1
      <4>1. i \in 2 .. n /\ i \in 1 .. n
        BY <2>5, <3>2
      <4>2. vs[i] = versions[i]
        BY <2>5, <4>1
      <4>3. \E m \in Months : versions[i].firstPay = AnchorDate(m, versions[i])
        BY <4>1 DEF Chain, n
      <4> QED BY <4>2, <4>3
    <3> QED BY <3>1, <3>2
  <2>11. Chain(vs) /\ vs[1] = versions[1]
    <3>1. 1 \in 1 .. n
      BY <2>5
    <3> QED BY <2>5, <2>9, <2>10, <3>1 DEF Chain
  <2> QED BY <2>1, <2>2, <2>11 DEF Leads
<1> QED BY <1>1, <1>2, <1>3

\* A change of calendar leaves everything in its place.
LEMMA ChangePlaced ==
  ASSUME PlacedInv, Change, CalendarInv'
  PROVE  PlacedInv' /\ SameTotals(ledger', ledger) /\ (Floors => Floors')
<1>1. PICK vs \in Asked : (Activate(vs) \/ ChangeDay(vs) \/ Return(vs)) /\ Apply(vs)
  BY DEF Change
<1>2. /\ versions' = vs /\ calendar' = Calendar(vs) /\ ledger' = Relocate(ledger, calendar, Calendar(vs))
      /\ ~Blocked(ledger, ledger', calendar, calendar') /\ InTheMiddle(ledger')
  BY <1>1 DEF Apply
<1>3. Leads(versions, vs) /\ calendar = Calendar(versions)
  BY <1>1, ChangeLeads DEF PlacedInv, VersionsInv
<1>4. /\ Shaped(ledger) /\ InTheMiddle(ledger) /\ DaysInMiddle(ledger) /\ Remembering(ledger)
      /\ Placed(ledger, Calendar(versions))
  BY <1>3, PlacedIs DEF PlacedInv, LedgerInv, MiddleOf
<1>5. Placed(ledger', calendar')
  <2>1. Placed(Relocate(ledger, Calendar(versions), Calendar(vs)), Calendar(vs))
    BY <1>3, <1>4, RelocatePlaced
  <2> QED BY <1>2, <1>3, <2>1
<1>6. EverythingPlaced'
  BY <1>5 DEF EverythingPlaced, Placed
<1>7. DaysInMiddle(ledger') /\ Remembering(ledger')
  <2>1. LET r == Relocate(ledger, Calendar(versions), Calendar(vs)) IN DaysInMiddle(r) /\ Remembering(r)
    BY <1>3, <1>4, RelocateRemembers
  <2> QED BY <1>2, <1>3, <2>1
<1>8. LedgerInv' /\ SameTotals(ledger', ledger)
  BY <1>1, <1>6, ApplyKeeps DEF PlacedInv
<1>9. VersionsInv'
  BY <1>2, <1>3 DEF VersionsInv, Leads
<1>10. MiddleOf(ledger)'
  BY <1>2, <1>7 DEF MiddleOf
<1>11. Floors => Floors'
  BY <1>2 DEF Floors, Blocked
<1> QED BY <1>6, <1>8, <1>9, <1>10, <1>11 DEF PlacedInv

\* What is typed or noted is of a key and a day of the middle.
LEMMA MiddleGrows ==
  ASSUME NEW l, MiddleOf(l), NEW r, r.origins = l.origins, r.start = l.start, r.closed = l.closed,
         \A c \in DOMAIN r.cells : c \in DOMAIN l.cells \/ c[3] \div 2 \in Middle,
         \A x \in r.moves : \/ x \in l.moves
                            \/ /\ x.period \div 2 \in Middle
                               /\ x.date # None => x.date \in Days /\ MonthOf(x.date) \in Middle
  PROVE  MiddleOf(r)
<1>1. \A c \in DOMAIN r.cells : c[3] \div 2 \in Middle
  BY DEF MiddleOf, InTheMiddle
<1>2. \A x \in r.moves : x.period \div 2 \in Middle
  BY DEF MiddleOf, InTheMiddle
<1>3. \A k \in {r.start, r.closed} \ {None} : k \div 2 \in Middle
  BY DEF MiddleOf, InTheMiddle
<1>4. InTheMiddle(r)
  BY <1>1, <1>2, <1>3 DEF InTheMiddle
<1>5. DaysInMiddle(r) /\ Remembering(r)
  BY DEF MiddleOf, DaysInMiddle, Remembering
<1> QED BY <1>4, <1>5 DEF MiddleOf

LEMMA CloseMiddle ==
  ASSUME PlacedInv, Close
  PROVE  MiddleOf(ledger')
<1>1. PICK k : ledger' = [ledger EXCEPT !.closed = k] /\ k \div 2 \in user.months
  BY DEF Close
<1>2. k \div 2 \in Middle /\ Shaped(ledger)
  BY <1>1 DEF PlacedInv, CalendarInv, LedgerInv
<1>3. /\ ledger'.cells = ledger.cells /\ ledger'.moves = ledger.moves /\ ledger'.origins = ledger.origins
      /\ ledger'.start = ledger.start /\ ledger'.closed = k
  BY <1>1, <1>2 DEF Shaped
<1> QED BY <1>2, <1>3 DEF PlacedInv, MiddleOf, InTheMiddle, DaysInMiddle, Remembering

\* A step that is not a change of calendar.
Recorded ==
  \E e \in user.entries, k \in {k \in Keys(calendar) : k \div 2 \in user.months} :
    \/ e[1] \in Rows /\ \E v \in 0..1 : TypeCell(e[1], e[2], k, v)
    \/ e[1] \notin Rows
         /\ \E d \in {None} \cup {x \in Days : MonthOf(x) \in user.months} : AddItem(e[1], e[2], d, k)

LEMMA RecordedKeeps ==
  ASSUME PlacedInv, Recorded
  PROVE  /\ LedgerInv' /\ EverythingPlaced' /\ Floors' /\ MiddleOf(ledger')
         /\ versions' = versions /\ calendar' = calendar
<1>1. PICK e \in user.entries, k \in {k \in Keys(calendar) : k \div 2 \in user.months} :
        \/ e[1] \in Rows /\ \E v \in 0..1 : TypeCell(e[1], e[2], k, v)
        \/ e[1] \notin Rows
             /\ \E d \in {None} \cup {x \in Days : MonthOf(x) \in user.months} : AddItem(e[1], e[2], d, k)
  BY DEF Recorded
<1>2. ASSUME NEW next, Record(next)
      PROVE  Floors' /\ versions' = versions /\ calendar' = calendar /\ ledger' = next
  <2>1. ledger' = next /\ calendar' = calendar /\ HeldOK(next, calendar) /\ versions' = versions
        /\ \A p \in Pockets : PlanOK(next, calendar, p)
    BY <1>2 DEF Record
  <2> QED BY <2>1 DEF Floors
<1>3. /\ Shaped(ledger) /\ MiddleOf(ledger) /\ k \div 2 \in Middle /\ user.months \subseteq Middle
      /\ LedgerInv /\ CalendarInv /\ EverythingPlaced
  BY DEF PlacedInv, LedgerInv, CalendarInv
<1>4. CASE e[1] \in Rows
  <2>1. PICK v \in 0 .. 1 : TypeCell(e[1], e[2], k, v)
    BY <1>1, <1>4
  <2>2. LedgerInv' /\ EverythingPlaced'
    BY <1>3, <1>4, <2>1, TypeKeeps
  <2> DEFINE c == <<e[1], e[2], k>>
             D == DOMAIN ledger.cells \cup {c}
             cells == [x \in D |-> IF x = c THEN v ELSE ledger.cells[x]]
             next == [ledger EXCEPT !.cells = cells]
  <2>3. Record(next)
    BY <2>1 DEF TypeCell
  <2>4. c[3] = k /\ DOMAIN cells = D
    OBVIOUS
  <2> HIDE DEF c, cells
  <2>5. /\ next.cells = cells /\ next.moves = ledger.moves /\ next.origins = ledger.origins
        /\ next.start = ledger.start /\ next.closed = ledger.closed
    BY <1>3 DEF Shaped
  <2> HIDE DEF next
  <2>6. \A y \in DOMAIN next.cells : y \in DOMAIN ledger.cells \/ y[3] \div 2 \in Middle
    BY <1>3, <2>4, <2>5
  <2>7. MiddleOf(next)
    BY <1>3, <2>5, <2>6, MiddleGrows
  <2> QED BY <1>2, <2>2, <2>3, <2>7
<1>5. CASE e[1] \notin Rows
  <2>1. PICK d \in {None} \cup {x \in Days : MonthOf(x) \in user.months} : AddItem(e[1], e[2], d, k)
    BY <1>1, <1>5
  <2>2. LedgerInv' /\ EverythingPlaced'
    BY <1>3, <1>5, <2>1, AddKeeps
  <2> DEFINE kind == e[1]
             leaf == e[2]
             id == Min((1..user.size + 1) \ {x.id : x \in ledger.moves})
             amount == CASE kind = "note" -> 0 [] kind = "adjustment" -> -1 [] OTHER -> 1
             x == [id |-> id, kind |-> kind, leaf |-> leaf, date |-> d, period |-> k, amount |-> amount]
             c == <<"actual", leaf, k>>
             v == Cell(ledger, "actual", leaf, k) + Delta(x)
             more == [y \in DOMAIN ledger.cells \cup {c} |-> IF y = c THEN v ELSE ledger.cells[y]]
             cells == IF Delta(x) = 0 THEN ledger.cells ELSE more
             next == [ledger EXCEPT !.cells = cells, !.moves = ledger.moves \cup {x}]
  <2>3. Record(next)
    BY <2>1 DEF AddItem
  <2>4. x.period = k /\ x.date = d /\ c[3] = k
    OBVIOUS
  <2> HIDE DEF x, v, c
  <2>5. DOMAIN cells \subseteq DOMAIN ledger.cells \cup {c}
    OBVIOUS
  <2> HIDE DEF cells
  <2>6. /\ next.cells = cells /\ next.moves = ledger.moves \cup {x} /\ next.origins = ledger.origins
        /\ next.start = ledger.start /\ next.closed = ledger.closed
    BY <1>3 DEF Shaped
  <2> HIDE DEF next
  <2>7. \A y \in DOMAIN next.cells : y \in DOMAIN ledger.cells \/ y[3] \div 2 \in Middle
    BY <1>3, <2>4, <2>5, <2>6
  <2>8. d # None => d \in Days /\ MonthOf(d) \in Middle
    BY <1>3
  <2>9. \A y \in next.moves : \/ y \in ledger.moves
                              \/ /\ y.period \div 2 \in Middle
                                 /\ y.date # None => y.date \in Days /\ MonthOf(y.date) \in Middle
    BY <1>3, <2>4, <2>6, <2>8
  <2>10. MiddleOf(next)
    BY <1>3, <2>6, <2>7, <2>9, MiddleGrows
  <2> QED BY <1>2, <2>2, <2>3, <2>10
<1> QED BY <1>4, <1>5

\* What pockets hold is of the cells and the movements.
PlanSum(f, S) == MapThenSumSet(LAMBDA c : IF c[1] = "budget" THEN f[c] ELSE - f[c], S)

LEMMA SameHeld ==
  ASSUME NEW l, NEW m, m.cells = l.cells, m.moves = l.moves, NEW p, NEW k
  PROVE  Held(m, p, k) = Held(l, p, k) /\ Planned(m, p, k) = Planned(l, p, k)
<1>1. ASSUME NEW j
      PROVE  Held(j, p, k) = CellSum(j.cells, {c \in DOMAIN j.cells : c[1] = "actual" /\ c[2] = p /\ c[3] <= k})
                               - Weight({x \in j.moves : x.kind = "out" /\ x.leaf = p /\ x.period <= k})
  BY DEF Held, CellSum
<1>2. ASSUME NEW j
      PROVE  Planned(j, p, k)
               = PlanSum(j.cells, {c \in DOMAIN j.cells : c[1] \in {"budget", "plan"} /\ c[2] = p /\ c[3] <= k})
  BY DEF Planned, PlanSum
<1> QED BY <1>1, <1>2

LEMMA PlacedNext == PlacedInv /\ [Next]_vars => PlacedInv' /\ (Floors => Floors')
<1> SUFFICES ASSUME PlacedInv, [Next]_vars PROVE PlacedInv' /\ (Floors => Floors')
  OBVIOUS
<1>1. CalendarInv'
  BY CalendarNext DEF PlacedInv
<1>2. CASE UNCHANGED vars
  BY <1>1, <1>2 DEF PlacedInv, VersionsInv, LedgerInv, EverythingPlaced, Floors, HeldOK, PlanOK, vars
<1>3. CASE Change
  BY <1>1, <1>3, ChangePlaced
<1>4. CASE Recorded
  BY <1>1, <1>4, RecordedKeeps DEF PlacedInv, VersionsInv
<1>5. CASE Close
  <2>1. /\ LedgerInv' /\ EverythingPlaced' /\ ledger'.cells = ledger.cells /\ ledger'.moves = ledger.moves
        /\ calendar' = calendar /\ versions' = versions
    BY <1>5, CloseKeeps DEF PlacedInv
  <2>2. /\ \A p, k : Held(ledger', p, k) = Held(ledger, p, k)
        /\ \A p, k : Planned(ledger', p, k) = Planned(ledger, p, k)
    BY <2>1, SameHeld
  <2>3. Floors => Floors'
    BY <2>1, <2>2 DEF Floors, HeldOK, PlanOK
  <2> QED BY <1>1, <1>5, <2>1, <2>3, CloseMiddle DEF PlacedInv, VersionsInv
<1> QED BY <1>2, <1>3, <1>4, <1>5 DEF Next, Recorded

\* Everything stays in its place: a cell is of a key of the calendar, a movement of
\* the period of its day or of the one it opens, whatever is recorded and however the
\* calendar changes, so that what relocate looks for before it gives the relocated
\* state (cycles.ts:974) is never missing.
THEOREM EverythingStaysPlaced == Spec => []EverythingPlaced
<1>1. Init => PlacedInv
  BY PlacedInit
<1>2. PlacedInv /\ [Next]_vars => PlacedInv'
  BY PlacedNext
<1>3. PlacedInv => EverythingPlaced
  BY DEF PlacedInv
<1> QED BY <1>1, <1>2, <1>3, PTL DEF Spec

\* What a change of calendar must keep.
ConservedStep == versions' # versions => SameTotals(ledger', ledger)

\* A change of calendar keeps what every row of every leaf adds up to, and every
\* movement and note (the sums of cyclesRepo.ts), however it splits, merges or gives
\* back cells: what the pieces of a row add up to is what was typed in it and what
\* its movements bring.
THEOREM RelocationsConserve == Spec => Conserved
<1>1. Init => PlacedInv
  BY PlacedInit
<1>2. PlacedInv /\ [Next]_vars => PlacedInv'
  BY PlacedNext
<1>3. PlacedInv /\ [Next]_vars => [ConservedStep]_vars
  <2> SUFFICES ASSUME PlacedInv, [Next]_vars, versions' # versions
               PROVE  SameTotals(ledger', ledger)
    BY DEF ConservedStep
  <2>1. ~UNCHANGED vars
    BY DEF vars
  <2>2. ~Recorded /\ ~Close
    BY RecordedKeeps, CloseKeeps DEF PlacedInv
  <2>3. Change
    BY <2>1, <2>2 DEF Next, Recorded
  <2>4. CalendarInv'
    BY CalendarNext DEF PlacedInv
  <2> QED BY <2>3, <2>4, ChangePlaced
<1>4. [][ConservedStep]_vars => Conserved
  BY PTL DEF ConservedStep, SameTotals, Conserved
<1> QED BY <1>1, <1>2, <1>3, <1>4, PTL DEF Spec

\* What pockets hold is never below zero, in what was done nor in the plan, when it
\* was not at first: every save looks at it, and a relocation is blocked by a pocket
\* it would leave in the red (BG-062); and what is recorded is of its type.
THEOREM LedgerIsTyped == Spec /\ Floors => []TypeOK
<1>1. Init => PlacedInv
  BY PlacedInit
<1>2. PlacedInv /\ Floors /\ [Next]_vars => PlacedInv' /\ Floors'
  BY PlacedNext
<1>3. PlacedInv /\ Floors => TypeOK
  BY DEF PlacedInv, Floors, CalendarInv, LedgerInv, Shaped, Item, TypeOK, Version
<1> QED BY <1>1, <1>2, <1>3, PTL DEF Spec

-----------------------------------------------------------------------------
(* What two tables have in common.                                         *)

\* What is gathered up to a day stays, and comes of the paydays up to it.
Starts(s, t) == Len(s) <= Len(t) /\ \A i \in 1 .. Len(s) : t[i] = s[i]

LEMMA GatheredLonger ==
  ASSUME NEW c, NEW A, NEW n \in Nat, GatheredTo(c, A, n), NEW d \in 0 .. n, NEW e \in d .. n
  PROVE  Starts(c[d], c[e])
<1> DEFINE S == {x \in d .. n : Starts(c[d], c[x])}
<1>1. ASSUME NEW x \in 0 .. n PROVE c[x] \in Seq(Nat) /\ Len(c[x]) \in Nat
  <2>1. Rising(c[x], x)
    BY GatheredHas
  <2>2. c[x] \in Seq(1 .. x) /\ x \in Nat
    BY <2>1 DEF Rising
  <2>3. c[x] \in Seq(Nat)
    BY <2>2
  <2> QED BY <2>3
<1>2. d \in 0 .. n /\ Starts(c[d], c[d])
  BY <1>1 DEF Starts
<1>3. ASSUME NEW x \in d .. n, x \in S, x + 1 <= n PROVE x + 1 \in S
  <2>1. x + 1 \in 0 .. n /\ x \in 0 .. n /\ x + 1 # 0 /\ (x + 1) - 1 = x /\ x + 1 \in d .. n
    BY <1>3
  <2>2. c[x + 1] = IF x + 1 \in A THEN Append(c[x], x + 1) ELSE c[x]
    BY <2>1 DEF GatheredTo
  <2>3. Starts(c[d], c[x])
    BY <1>3
  <2> DEFINE s == c[d]
             t == c[x]
             u == c[x + 1]
  <2>4. s \in Seq(Nat) /\ t \in Seq(Nat) /\ x + 1 \in Nat
    BY <1>1, <2>1
  <2>5. u = t \/ u = Append(t, x + 1)
    BY <2>2
  <2>6. Starts(s, t)
    BY <2>3
  <2> HIDE DEF s, t, u
  <2>7. CASE u = t
    BY <2>6, <2>7, <2>1 DEF s, u
  <2>8. CASE u = Append(t, x + 1)
    <3>1. Len(u) = Len(t) + 1 /\ \A i \in 1 .. Len(t) : u[i] = t[i]
      BY <2>4, <2>8
    <3>2. Starts(s, u)
      BY <2>4, <2>6, <3>1 DEF Starts
    <3> QED BY <2>1, <3>2 DEF s, u
  <2> QED BY <2>5, <2>7, <2>8
<1>4. \A x \in d .. n : x \in S
  <2>1. d \in Int /\ n \in Int /\ (d <= n => d \in S)
    BY <1>2
  <2> HIDE DEF S
  <2> QED BY <1>3, <2>1, UpTo
<1> QED BY <1>4

LEMMA GatheredSame ==
  ASSUME NEW c, NEW A, NEW b, NEW B, NEW n \in Nat, GatheredTo(c, A, n), GatheredTo(b, B, n),
         NEW d \in 0 .. n, A \cap (1 .. d) = B \cap (1 .. d)
  PROVE  b[d] = c[d]
<1> DEFINE S == {x \in 0 .. d : b[x] = c[x]}
<1>1. 0 \in S
  <2>1. 0 \in 0 .. n /\ 0 \in 0 .. d
    OBVIOUS
  <2> QED BY <2>1 DEF GatheredTo
<1>2. ASSUME NEW x \in 0 .. d, x \in S, x + 1 <= d PROVE x + 1 \in S
  <2>1. x + 1 \in 0 .. n /\ x + 1 # 0 /\ (x + 1) - 1 = x /\ x + 1 \in 0 .. d /\ x + 1 \in 1 .. d
    BY <1>2
  <2>2. c[x + 1] = IF x + 1 \in A THEN Append(c[x], x + 1) ELSE c[x]
    BY <2>1 DEF GatheredTo
  <2>3. b[x + 1] = IF x + 1 \in B THEN Append(b[x], x + 1) ELSE b[x]
    BY <2>1 DEF GatheredTo
  <2>4. x + 1 \in A <=> x + 1 \in B
    BY <2>1
  <2> QED BY <1>2, <2>1, <2>2, <2>3, <2>4
<1>3. \A x \in 0 .. d : x \in S
  <2>1. 0 \in Int /\ d \in Int
    OBVIOUS
  <2> HIDE DEF S
  <2> QED BY <1>1, <1>2, <2>1, UpTo
<1> QED BY <1>3

\* Up to a payday of both, the paydays are the same when the anchors are.
LEMMA PaydaysShare ==
  ASSUME NEW vs, NEW ws, NEW d \in Days, d \in Anchors(vs), Anchors(vs) \cap (1 .. d) = Anchors(ws) \cap (1 .. d)
  PROVE  LET p == Paydays(vs)
             q == Paydays(ws)
         IN  \E j \in Nat \ {0} : j <= Len(p) /\ j <= Len(q) /\ p[j] = d /\ \A i \in 1 .. j : q[i] = p[i]
<1> DEFINE p == Paydays(vs)
           q == Paydays(ws)
           A == Anchors(vs)
           B == Anchors(ws)
           n == LastDay
<1>1. PICK c : p = c[n] /\ GatheredTo(c, A, n)
  BY PaydaysBuilt
<1>2. PICK b : q = b[n] /\ GatheredTo(b, B, n)
  BY PaydaysBuilt
<1>3. n \in Nat /\ d \in 0 .. n /\ n \in d .. n /\ d - 1 \in 0 .. n /\ d # 0 /\ d \in Nat
  BY LastDayHas DEF Days
<1>4. d \in A /\ A \cap (1 .. d) = B \cap (1 .. d)
  OBVIOUS
<1> HIDE DEF p, q, A, B, n
<1>5. b[d] = c[d] /\ Starts(c[d], p) /\ Starts(b[d], q)
  BY <1>1, <1>2, <1>3, <1>4, GatheredSame, GatheredLonger
<1>6. c[d] = Append(c[d - 1], d)
  BY <1>1, <1>3, <1>4 DEF GatheredTo
<1>7. c[d - 1] \in Seq(Nat)
  <2>1. Rising(c[d - 1], d - 1)
    BY <1>1, <1>3, GatheredHas
  <2>2. c[d - 1] \in Seq(1 .. (d - 1))
    BY <2>1 DEF Rising
  <2> QED BY <1>3, <2>2
<1> DEFINE s == c[d]
           j == Len(s)
<1>8. j \in Nat \ {0} /\ s[j] = d
  BY <1>3, <1>6, <1>7
<1>9. j <= Len(p) /\ j <= Len(q) /\ (\A i \in 1 .. j : p[i] = s[i]) /\ \A i \in 1 .. j : q[i] = s[i]
  BY <1>5 DEF Starts
<1> HIDE DEF s, j
<1>10. j \in 1 .. j
  BY <1>8
<1>11. p[j] = d /\ \A i \in 1 .. j : q[i] = p[i]
  BY <1>8, <1>9, <1>10
<1> QED BY <1>8, <1>9, <1>11 DEF p, q

\* A longer table keeps every entry but the last, which may go on.
Extends(s, t) ==
  /\ Len(s) > 0 /\ Len(s) <= Len(t) /\ \A i \in 1 .. (Len(s) - 1) : t[i] = s[i]
  /\ t[Len(s)].key = s[Len(s)].key /\ t[Len(s)].start = s[Len(s)].start /\ s[Len(s)].end <= t[Len(s)].end

LEMMA NamedExtends ==
  ASSUME NEW done \in Seq(Entry), done # <<>>, NEW month \in Nat, NEW start \in Nat, NEW end \in Nat,
         Last(done).end <= end
  PROVE  Extends(done, Named(done, month, start, end))
<1> DEFINE last == done[Len(done)]
           taken == done # <<>> /\ Last(done).key \div 2 = month
           new == [key |-> 2 * month + (IF taken THEN 1 ELSE 0), start |-> start, end |-> end]
           longer == [last EXCEPT !.end = end]
           f == Front(done)
           next == Named(done, month, start, end)
           n == Len(done)
<1>1. n \in Nat /\ n > 0 /\ Last(done) = last /\ last \in Entry /\ n \in 1 .. n
  <2>1. n \in Nat /\ n > 0 /\ n \in 1 .. n
    OBVIOUS
  <2>2. last \in Entry
    BY <2>1
  <2> QED BY <2>1, <2>2 DEF Last
<1>2. next = IF taken /\ Last(done).key % 2 = 1 THEN Append(f, longer) ELSE Append(done, new)
  BY <1>1 DEF Named
<1>3. f \in Seq(Entry) /\ Len(f) = n - 1 /\ \A i \in 1 .. (n - 1) : f[i] = done[i]
  BY FrontHas
<1>4. longer \in Entry /\ longer.key = last.key /\ longer.start = last.start /\ longer.end = end
  BY <1>1 DEF Entry
<1>5. last.end \in Nat /\ last.end <= end
  BY <1>1 DEF Entry
<1>6. done[n] = last
  OBVIOUS
<1> HIDE DEF last, new, longer, f, next, n, taken
<1>7. CASE next = Append(f, longer)
  <2>1. Len(next) = n /\ next[n] = longer /\ \A i \in 1 .. (n - 1) : next[i] = f[i]
    BY <1>1, <1>3, <1>4, <1>7
  <2>2. \A i \in 1 .. (n - 1) : next[i] = done[i]
    BY <1>3, <2>1
  <2>3. n <= Len(next)
    BY <1>1, <2>1
  <2>4. Extends(done, next)
    BY <1>1, <1>4, <1>5, <1>6, <2>1, <2>2, <2>3 DEF Extends, n
  <2> QED BY <2>4 DEF next
<1>8. CASE next = Append(done, new)
  <2>1. Len(next) = n + 1 /\ \A i \in 1 .. n : next[i] = done[i]
    BY <1>8 DEF n
  <2>2. \A i \in 1 .. (n - 1) : next[i] = done[i]
    BY <1>1, <2>1
  <2>3. next[n] = done[n] /\ n <= Len(next) /\ last.end <= last.end
    BY <1>1, <1>5, <2>1
  <2>4. Extends(done, next)
    BY <1>1, <1>6, <2>2, <2>3 DEF Extends, n
  <2> QED BY <2>4 DEF next
<1> QED BY <1>2, <1>7, <1>8

LEMMA ExtendsMore ==
  ASSUME NEW s \in Seq(Entry), NEW t \in Seq(Entry), NEW u \in Seq(Entry), Extends(s, t), Extends(t, u)
  PROVE  Extends(s, u)
<1> DEFINE k == Len(s)
           m == Len(t)
<1>1. k \in Nat /\ m \in Nat /\ Len(u) \in Nat /\ k > 0 /\ k <= m /\ m <= Len(u)
  BY DEF Extends
<1>2. \A i \in 1 .. (k - 1) : u[i] = s[i]
  <2> TAKE i \in 1 .. (k - 1)
  <2>1. i \in 1 .. (m - 1)
    BY <1>1
  <2> QED BY <2>1 DEF Extends
<1>3. u[k].key = s[k].key /\ u[k].start = s[k].start /\ s[k].end <= u[k].end
  <2>1. t[k].key = s[k].key /\ t[k].start = s[k].start /\ s[k].end <= t[k].end
    BY DEF Extends
  <2>2. CASE k = m
    <3>1. u[k].key = t[k].key /\ u[k].start = t[k].start /\ t[k].end <= u[k].end
      BY <2>2 DEF Extends
    <3>2. k \in 1 .. Len(s) /\ k \in 1 .. Len(t) /\ k \in 1 .. Len(u)
      BY <1>1
    <3>3. s[k] \in Entry /\ t[k] \in Entry /\ u[k] \in Entry
      BY <3>2
    <3>4. s[k].end \in Nat /\ t[k].end \in Nat /\ u[k].end \in Nat
      BY <3>3 DEF Entry
    <3> QED BY <2>1, <3>1, <3>4
  <2>3. CASE k # m
    <3>1. k \in 1 .. (m - 1)
      BY <1>1, <2>3
    <3>2. u[k] = t[k]
      BY <3>1 DEF Extends
    <3> QED BY <2>1, <3>2
  <2> QED BY <2>2, <2>3
<1> QED BY <1>1, <1>2, <1>3 DEF Extends

LEMMA TableExtends ==
  ASSUME NEW n, NEW p, Stretch(p, n), NEW c, CyclesTo(c, p, n), NEW k \in 1 .. n, NEW j \in k .. n
  PROVE  Extends(c[k], c[j])
<1> DEFINE S == {i \in k .. n : Extends(c[k], c[i])}
<1>1. n \in Nat /\ k \in Nat /\ \A i \in k .. n : i \in 0 .. n /\ i > 0
  BY DEF Stretch
<1>2. ASSUME NEW i \in k .. n
      PROVE  c[i] \in Seq(Entry) /\ c[i] # <<>> /\ Last(c[i]).end + 1 = p[i + 1] /\ Last(c[i]).end \in Days
  <2>1. Stretched(c[i], p, i)
    BY <1>1, TableBounds
  <2> QED BY <1>1, <2>1 DEF Stretched, Tiled
<1>3. k \in S
  <2>1. k \in k .. n /\ c[k] \in Seq(Entry) /\ c[k] # <<>>
    BY <1>1, <1>2
  <2> DEFINE s == c[k]
  <2>2. s \in Seq(Entry) /\ s # <<>>
    BY <2>1
  <2> HIDE DEF s
  <2>3. Len(s) \in 1 .. Len(s) /\ Len(s) > 0
    BY <2>2
  <2>4. s[Len(s)] \in Entry
    BY <2>2, <2>3
  <2>5. s[Len(s)].end <= s[Len(s)].end
    BY <2>4 DEF Entry
  <2>6. Extends(s, s)
    BY <2>3, <2>5 DEF Extends
  <2> QED BY <2>1, <2>6 DEF s
<1>4. ASSUME NEW i \in k .. n, i \in S, i + 1 <= n PROVE i + 1 \in S
  <2>1. i + 1 \in k .. n /\ i + 1 \in 0 .. n /\ i + 1 # 0 /\ (i + 1) - 1 = i /\ i + 1 \in 1 .. n
        /\ i \in k .. n /\ k \in k .. n
    BY <1>1, <1>4
  <2> DEFINE end == p[(i + 1) + 1] - 1
  <2>2. c[i + 1] = Named(c[i], MonthOf(end), p[i + 1], end)
    BY <2>1 DEF CyclesTo
  <2>3. p[i + 1] \in Days /\ end \in Days /\ p[i + 1] <= end
    BY <2>1 DEF Stretch
  <2> HIDE DEF end
  <2>4. end \in Nat /\ p[i + 1] \in Nat /\ MonthOf(end) \in Nat
    <3>1. Days \subseteq Nat
      BY LastDayHas DEF Days
    <3>2. MonthOf(end) \in 1 .. Len(Lengths)
      BY <2>3, MonthOfHas
    <3>3. end \in Nat /\ p[i + 1] \in Nat
      BY <2>3, <3>1
    <3>4. MonthOf(end) \in Nat
      BY <3>2, LengthsHave
    <3> QED BY <3>3, <3>4
  <2>5. c[i] \in Seq(Entry) /\ c[i] # <<>> /\ Last(c[i]).end + 1 = p[i + 1] /\ Last(c[i]).end \in Nat
    BY <1>2, LastDayHas DEF Days
  <2>6. Last(c[i]).end <= end
    <3> DEFINE a == Last(c[i]).end
               d == p[i + 1]
    <3>1. a + 1 = d /\ d <= end /\ a \in Nat /\ d \in Nat
      BY <2>3, <2>4, <2>5
    <3> HIDE DEF a, d
    <3>2. a <= end
      BY <2>4, <3>1
    <3> QED BY <3>2 DEF a
  <2>7. Extends(c[i], c[i + 1])
    BY <2>2, <2>4, <2>5, <2>6, NamedExtends
  <2>8. c[k] \in Seq(Entry) /\ c[i + 1] \in Seq(Entry) /\ Extends(c[k], c[i])
    BY <1>2, <1>4, <2>1
  <2>9. Extends(c[k], c[i + 1])
    BY <2>5, <2>7, <2>8, ExtendsMore
  <2> QED BY <2>1, <2>9
<1>5. \A i \in k .. n : i \in S
  <2>1. k \in Int /\ n \in Int
    BY <1>1
  <2> HIDE DEF S
  <2> QED BY <1>3, <1>4, <2>1, UpTo
<1> QED BY <1>5

LEMMA TableSame ==
  ASSUME NEW n \in Nat, NEW p, NEW c, CyclesTo(c, p, n), NEW m \in Nat, NEW q, NEW b, CyclesTo(b, q, m),
         NEW k \in Nat, k <= n, k <= m, \A i \in 1 .. (k + 1) : q[i] = p[i]
  PROVE  b[k] = c[k]
<1> DEFINE S == {i \in 0 .. k : b[i] = c[i]}
<1>1. 0 \in S
  <2>1. 0 \in 0 .. n /\ 0 \in 0 .. m /\ 0 \in 0 .. k
    OBVIOUS
  <2> QED BY <2>1 DEF CyclesTo
<1>2. ASSUME NEW i \in 0 .. k, i \in S, i + 1 <= k PROVE i + 1 \in S
  <2>1. /\ i + 1 \in 0 .. n /\ i + 1 \in 0 .. m /\ i + 1 \in 0 .. k /\ i + 1 # 0 /\ (i + 1) - 1 = i
        /\ i + 1 \in 1 .. (k + 1) /\ (i + 1) + 1 \in 1 .. (k + 1)
    BY <1>2
  <2>2. c[i + 1] = Named(c[i], MonthOf(p[(i + 1) + 1] - 1), p[i + 1], p[(i + 1) + 1] - 1)
    BY <2>1 DEF CyclesTo
  <2>3. b[i + 1] = Named(b[i], MonthOf(q[(i + 1) + 1] - 1), q[i + 1], q[(i + 1) + 1] - 1)
    BY <2>1 DEF CyclesTo
  <2>4. q[i + 1] = p[i + 1] /\ q[(i + 1) + 1] = p[(i + 1) + 1] /\ b[i] = c[i]
    BY <1>2, <2>1
  <2> QED BY <2>1, <2>2, <2>3, <2>4
<1>3. \A i \in 0 .. k : i \in S
  <2>1. 0 \in Int /\ k \in Int
    OBVIOUS
  <2> HIDE DEF S
  <2> QED BY <1>1, <1>2, <2>1, UpTo
<1> QED BY <1>3

\* Cycles start on a payday and end on the eve of one.
DaysOf(t, done, start, end) ==
  \A i \in DOMAIN t : /\ t[i].start = start \/ \E j \in DOMAIN done : t[i].start = done[j].start
                      /\ t[i].end = end \/ \E j \in DOMAIN done : t[i].end = done[j].end

LEMMA NamedDays ==
  ASSUME NEW done \in Seq(Entry), NEW month \in Nat, NEW start \in Nat, NEW end \in Nat
  PROVE  DaysOf(Named(done, month, start, end), done, start, end)
<1> DEFINE taken == done # <<>> /\ Last(done).key \div 2 = month
           new == [key |-> 2 * month + (IF taken THEN 1 ELSE 0), start |-> start, end |-> end]
           longer == [Last(done) EXCEPT !.end = end]
           f == Front(done)
           next == Named(done, month, start, end)
           n == Len(done)
<1>1. next = IF taken /\ Last(done).key % 2 = 1 THEN Append(f, longer) ELSE Append(done, new)
  BY DEF Named
<1>2. n \in Nat /\ new.start = start /\ new.end = end /\ new \in Entry
  BY DEF Entry
<1>3. CASE taken /\ Last(done).key % 2 = 1
  <2>1. done # <<>> /\ n >= 1 /\ n \in 1 .. n /\ n \in DOMAIN done
    BY <1>3
  <2>2. Last(done) = done[n] /\ done[n] \in Entry
    BY <2>1 DEF Last
  <2>3. longer \in Entry /\ longer.start = done[n].start /\ longer.end = end
    BY <2>2 DEF Entry
  <2>4. f \in Seq(Entry) /\ Len(f) = n - 1 /\ \A i \in 1 .. (n - 1) : f[i] = done[i]
    BY <2>1, FrontHas
  <2>5. next = Append(f, longer)
    BY <1>1, <1>3
  <2>6. \A i \in 1 .. (n - 1) : i \in DOMAIN done
    BY <1>2
  <2> HIDE DEF f, longer, next, taken, n, new
  <2>7. DOMAIN next = 1 .. n /\ next[n] = longer /\ \A i \in 1 .. (n - 1) : next[i] = f[i]
    BY <1>2, <2>1, <2>3, <2>4, <2>5
  <2>8. ASSUME NEW i \in DOMAIN next
        PROVE  /\ next[i].start = start \/ \E j \in DOMAIN done : next[i].start = done[j].start
               /\ next[i].end = end \/ \E j \in DOMAIN done : next[i].end = done[j].end
    <3>1. CASE i = n
      BY <2>1, <2>3, <2>7, <3>1
    <3>2. CASE i # n
      <4>1. i \in 1 .. (n - 1)
        BY <1>2, <2>7, <3>2
      <4>2. next[i] = done[i] /\ i \in DOMAIN done
        BY <2>4, <2>6, <2>7, <4>1
      <4> QED BY <4>2
    <3> QED BY <3>1, <3>2
  <2>9. DaysOf(next, done, start, end)
    BY <2>8 DEF DaysOf
  <2> QED BY <2>9 DEF next
<1>4. CASE ~(taken /\ Last(done).key % 2 = 1)
  <2>1. next = Append(done, new) /\ DOMAIN done = 1 .. n
    BY <1>1, <1>4
  <2> HIDE DEF new, next, taken
  <2>2. DOMAIN next = 1 .. (n + 1) /\ next[n + 1] = new /\ \A i \in 1 .. n : next[i] = done[i]
    BY <1>2, <2>1
  <2>3. ASSUME NEW i \in DOMAIN next
        PROVE  /\ next[i].start = start \/ \E j \in DOMAIN done : next[i].start = done[j].start
               /\ next[i].end = end \/ \E j \in DOMAIN done : next[i].end = done[j].end
    <3> HIDE DEF n
    <3>1. CASE i = n + 1
      BY <1>2, <2>2, <3>1
    <3>2. CASE i # n + 1
      <4>1. i \in 1 .. n
        BY <1>2, <2>2, <3>2
      <4>2. next[i] = done[i] /\ i \in DOMAIN done
        BY <2>1, <2>2, <4>1
      <4> QED BY <4>2
    <3> QED BY <3>1, <3>2
  <2>4. DaysOf(next, done, start, end)
    BY <2>3 DEF DaysOf
  <2> QED BY <2>4 DEF next
<1> QED BY <1>3, <1>4

OnDays(t, p, k) ==
  \A i \in DOMAIN t : (\E a \in 1 .. k : t[i].start = p[a]) /\ \E a \in 2 .. (k + 1) : t[i].end + 1 = p[a]

LEMMA TableDays ==
  ASSUME NEW n, NEW p, Stretch(p, n), NEW c, CyclesTo(c, p, n), NEW k \in 0 .. n
  PROVE  OnDays(c[k], p, k)
<1> DEFINE S == {i \in 0 .. n : OnDays(c[i], p, i)}
<1>1. n \in Nat
  BY DEF Stretch
<1>2. 0 \in S
  <2>1. 0 \in 0 .. n /\ c[0] = <<>>
    BY <1>1 DEF CyclesTo
  <2> QED BY <2>1 DEF OnDays
<1>3. ASSUME NEW i \in 0 .. n, i \in S, i + 1 <= n PROVE i + 1 \in S
  <2>1. /\ i + 1 \in 0 .. n /\ i + 1 # 0 /\ (i + 1) - 1 = i /\ i + 1 \in 1 .. n /\ (i + 1) + 1 \in 1 .. (n + 1)
        /\ i + 1 \in 1 .. (n + 1) /\ i \in Nat
    BY <1>1, <1>3
  <2> DEFINE j == i + 1
             start == p[j]
             end == p[j + 1] - 1
             done == c[i]
             t == c[j]
  <2>2. t = Named(done, MonthOf(end), start, end)
    BY <2>1 DEF CyclesTo
  <2>3. start \in Days /\ end \in Days /\ start \in Nat /\ p[j + 1] \in Nat
    BY <2>1 DEF Stretch
  <2>4. end + 1 = p[j + 1] /\ OnDays(done, p, i) /\ j = i + 1
    BY <1>3, <2>3
  <2>5. done \in Seq(Entry)
    <3>1. Stretched(c[i], p, i)
      BY TableBounds
    <3> QED BY <3>1 DEF Stretched, Tiled
  <2> HIDE DEF start, end, done, t, j
  <2>6. end \in Nat /\ MonthOf(end) \in Nat
    <3>1. Days \subseteq Nat
      BY LastDayHas DEF Days
    <3>2. MonthOf(end) \in 1 .. Len(Lengths)
      BY <2>3, MonthOfHas
    <3>3. MonthOf(end) \in Nat
      BY <3>2, LengthsHave
    <3> QED BY <2>3, <3>1, <3>3
  <2>7. DaysOf(t, done, start, end)
    BY <2>2, <2>3, <2>5, <2>6, NamedDays
  <2>8. ASSUME NEW x \in DOMAIN t
        PROVE  (\E a \in 1 .. j : t[x].start = p[a]) /\ \E a \in 2 .. (j + 1) : t[x].end + 1 = p[a]
    <3>1. j \in 1 .. j /\ j + 1 \in 2 .. (j + 1) /\ \A a \in 1 .. i : a \in 1 .. j
      BY <2>1, <2>4
    <3>2. \A a \in 2 .. (i + 1) : a \in 2 .. (j + 1)
      BY <2>1, <2>4
    <3>3. \E a \in 1 .. j : t[x].start = p[a]
      <4>1. CASE t[x].start = start
        BY <3>1, <4>1 DEF start
      <4>2. CASE t[x].start # start
        <5>1. PICK y \in DOMAIN done : t[x].start = done[y].start
          BY <2>7, <4>2 DEF DaysOf
        <5>2. PICK a \in 1 .. i : done[y].start = p[a]
          BY <2>4 DEF OnDays
        <5> QED BY <3>1, <5>1, <5>2
      <4> QED BY <4>1, <4>2
    <3>4. \E a \in 2 .. (j + 1) : t[x].end + 1 = p[a]
      <4>1. CASE t[x].end = end
        BY <2>4, <3>1, <4>1
      <4>2. CASE t[x].end # end
        <5>1. PICK y \in DOMAIN done : t[x].end = done[y].end
          BY <2>7, <4>2 DEF DaysOf
        <5>2. PICK a \in 2 .. (i + 1) : done[y].end + 1 = p[a]
          BY <2>4 DEF OnDays
        <5> QED BY <3>2, <5>1, <5>2
      <4> QED BY <4>1, <4>2
    <3> QED BY <3>3, <3>4
  <2>9. OnDays(t, p, j)
    BY <2>8 DEF OnDays
  <2> QED BY <2>1, <2>9 DEF t, j
<1>4. \A i \in 0 .. n : i \in S
  <2>1. 0 \in Int /\ n \in Int
    BY <1>1
  <2> HIDE DEF S
  <2> QED BY <1>2, <1>3, <2>1, UpTo
<1> QED BY <1>4

LEMMA CyclesBuilt ==
  ASSUME NEW vs, Chain(vs), vs # <<>>
  PROVE  LET p == Paydays(vs)
             n == Len(p) - 1
         IN  /\ Stretch(p, n) /\ Len(p) = n + 1 /\ Rising(p, LastDay) /\ DaysIn(p) = Anchors(vs) \cap Days
             /\ \E c : Entries(vs) = c[n] /\ CyclesTo(c, p, n)
<1> DEFINE p == Paydays(vs)
           n == Len(p) - 1
<1>1. Opening(vs) \in Anchors(vs) /\ Opening(vs) \in Days
  BY OpeningIs
<1>2. Rising(p, LastDay) /\ DaysIn(p) = Anchors(vs) \cap Days
  BY PaydaysAre
<1>3. p # <<>>
  <2>1. DaysIn(p) # {}
    BY <1>1, <1>2
  <2> HIDE DEF p
  <2>2. p = <<>> => DaysIn(p) = {}
    BY DEF DaysIn
  <2> QED BY <2>1, <2>2
<1>4. /\ n \in Nat /\ Len(p) = n + 1
      /\ \A i \in 1 .. (n + 1) : p[i] \in Nat /\ p[i] \in Days
      /\ \A i \in 1 .. n : p[i + 1] - 1 \in Days /\ p[i] <= p[i + 1] - 1 /\ p[i + 1] - 1 + 1 = p[i + 1]
      /\ \E c : Entries(vs) = c[n] /\ CyclesTo(c, p, n)
  BY <1>3, EntriesBuilt
<1> HIDE DEF p, n
<1>5. Stretch(p, n)
  <2>1. \A i \in 1 .. n : i \in 1 .. (n + 1)
    BY <1>4
  <2> QED BY <1>4, <2>1 DEF Stretch
<1> QED BY <1>2, <1>4, <1>5 DEF p, n

LEMMA OnAnchors ==
  ASSUME NEW vs, Chain(vs), vs # <<>>, NEW i \in DOMAIN Entries(vs)
  PROVE  Entries(vs)[i].start \in Anchors(vs) /\ Entries(vs)[i].end + 1 \in Anchors(vs) \cap Days
<1> DEFINE p == Paydays(vs)
           n == Len(p) - 1
           t == Entries(vs)
<1>1. /\ Stretch(p, n) /\ Len(p) = n + 1 /\ DaysIn(p) = Anchors(vs) \cap Days
      /\ \E c : t = c[n] /\ CyclesTo(c, p, n)
  BY CyclesBuilt
<1>2. PICK c : t = c[n] /\ CyclesTo(c, p, n)
  BY <1>1
<1> HIDE DEF p, n, t
<1>3. n \in Nat /\ n \in 0 .. n
  BY <1>1 DEF Stretch
<1>4. OnDays(t, p, n)
  <2>1. OnDays(c[n], p, n)
    BY <1>1, <1>2, <1>3, TableDays
  <2> QED BY <1>2, <2>1
<1>5. \A a \in 1 .. (n + 1) : p[a] \in Anchors(vs) \cap Days
  BY <1>1 DEF DaysIn
<1>6. i \in DOMAIN t
  BY DEF t
<1>7. (\E a \in 1 .. n : t[i].start = p[a]) /\ \E a \in 2 .. (n + 1) : t[i].end + 1 = p[a]
  BY <1>4, <1>6 DEF OnDays
<1>8. (\A a \in 1 .. n : a \in 1 .. (n + 1)) /\ \A a \in 2 .. (n + 1) : a \in 1 .. (n + 1)
  BY <1>3
<1> QED BY <1>5, <1>7, <1>8 DEF t

\* A cycle that ends where the shorter table does is its last.
LEMMA ExtendsEnd ==
  ASSUME NEW s \in Seq(Entry), Tiles(s), NEW t \in Seq(Entry), Tiles(t), Extends(s, t), NEW i \in DOMAIN t,
         t[i].end = s[Len(s)].end
  PROVE  i = Len(s) /\ \A x \in 1 .. i : t[x] = s[x]
<1> DEFINE n == Len(s)
<1>1. n \in Nat /\ n > 0 /\ n \in DOMAIN s /\ n \in DOMAIN t /\ DOMAIN t = 1 .. Len(t) /\ Len(t) \in Nat
  BY DEF Extends
<1>2. s[n] \in Entry /\ t[n] \in Entry /\ t[i] \in Entry
  BY <1>1
<1>3. s[n].start <= s[n].end /\ t[i].start <= t[i].end
  BY <1>1 DEF Tiles
<1>4. t[n].key = s[n].key /\ t[n].start = s[n].start /\ s[n].end <= t[n].end /\ t[i].end = s[n].end
  BY DEF Extends
<1>5. /\ s[n].start \in Nat /\ s[n].end \in Nat /\ t[n].start \in Nat /\ t[n].end \in Nat
      /\ t[i].start \in Nat /\ t[i].end \in Nat
  BY <1>2 DEF Entry
<1>6. ~(i < n)
  <2> SUFFICES ASSUME i < n PROVE FALSE
    OBVIOUS
  <2>1. t[i].end < t[n].start
    BY <1>1, TilesOrder
  <2> QED BY <1>3, <1>4, <1>5, <2>1
<1>7. ~(n < i)
  <2> SUFFICES ASSUME n < i PROVE FALSE
    OBVIOUS
  <2>1. t[n].end < t[i].start
    BY <1>1, TilesOrder
  <2> QED BY <1>3, <1>4, <1>5, <2>1
<1>8. i = n
  BY <1>1, <1>6, <1>7
<1>9. t[n] = s[n]
  <2> DEFINE x == t[n]
             y == s[n]
  <2>1. x \in Entry /\ y \in Entry /\ x.key = y.key /\ x.start = y.start /\ x.end = y.end
    BY <1>2, <1>4, <1>8
  <2> HIDE DEF x, y
  <2>2. x = [key |-> x.key, start |-> x.start, end |-> x.end] /\ y = [key |-> y.key, start |-> y.start, end |-> y.end]
    BY <2>1 DEF Entry
  <2>3. x = y
    BY <2>1, <2>2
  <2> QED BY <2>3 DEF x, y
<1>10. \A x \in 1 .. n : t[x] = s[x]
  <2> TAKE x \in 1 .. n
  <2>1. CASE x = n
    BY <1>9, <2>1
  <2>2. CASE x # n
    <3>1. x \in 1 .. (n - 1)
      BY <1>1, <2>2
    <3> QED BY <3>1 DEF Extends
  <2> QED BY <2>1, <2>2
<1> QED BY <1>8, <1>10

\* Two tables share their cycles up to one that both end, if they share the paydays.
Shared(s, t, i) == i \in DOMAIN s /\ i \in DOMAIN t /\ \A x \in 1 .. i : t[x] = s[x]

LEMMA TablesShare ==
  ASSUME NEW vs, Chain(vs), vs # <<>>, NEW ws, Chain(ws), ws # <<>>, NEW i \in DOMAIN Entries(vs),
         NEW d, d = Entries(vs)[i].end + 1, Anchors(vs) \cap (1 .. d) = Anchors(ws) \cap (1 .. d),
         NEW j \in DOMAIN Entries(ws), Entries(ws)[j].end = Entries(vs)[i].end
  PROVE  Shared(Entries(vs), Entries(ws), i)
<1> DEFINE p == Paydays(vs)
           n == Len(p) - 1
           t == Entries(vs)
           q == Paydays(ws)
           m == Len(q) - 1
           u == Entries(ws)
<1>1. Stretch(p, n) /\ Len(p) = n + 1 /\ Rising(p, LastDay) /\ \E c : t = c[n] /\ CyclesTo(c, p, n)
  BY CyclesBuilt
<1>2. Stretch(q, m) /\ Len(q) = m + 1 /\ \E b : u = b[m] /\ CyclesTo(b, q, m)
  BY CyclesBuilt
<1>3. PICK c : t = c[n] /\ CyclesTo(c, p, n)
  BY <1>1
<1>4. PICK b : u = b[m] /\ CyclesTo(b, q, m)
  BY <1>2
<1>5. d \in Anchors(vs) /\ d \in Days
  BY OnAnchors
<1>6. \E k \in Nat \ {0} : k <= Len(p) /\ k <= Len(q) /\ p[k] = d /\ \A x \in 1 .. k : q[x] = p[x]
  BY <1>5, PaydaysShare
<1>7. i \in DOMAIN t /\ j \in DOMAIN u /\ t[i].end + 1 = d /\ u[j].end = t[i].end
  OBVIOUS
<1> HIDE DEF p, n, t, q, m, u
<1>8. n \in Nat /\ m \in Nat /\ n \in 0 .. n /\ m \in 0 .. m
  BY <1>1, <1>2 DEF Stretch
<1>9. PICK k \in Nat \ {0} : k <= n + 1 /\ k <= m + 1 /\ p[k] = d /\ \A x \in 1 .. k : q[x] = p[x]
  BY <1>1, <1>2, <1>6
<1>10. k > 1
  <2>1. OnDays(c[n], p, n)
    BY <1>1, <1>3, <1>8, TableDays
  <2>2. PICK a \in 2 .. (n + 1) : d = p[a]
    BY <1>3, <1>7, <2>1 DEF OnDays
  <2>3. k # 1
    <3> SUFFICES ASSUME k = 1 PROVE FALSE
      OBVIOUS
    <3>1. 1 \in 1 .. Len(p) /\ a \in 1 .. Len(p) /\ 1 < a
      BY <1>1, <1>8, <2>2
    <3>2. LastDay \in Nat
      BY LastDayHas
    <3>3. p[1] < p[a] /\ p[1] \in Nat /\ p[a] \in Nat
      BY <1>1, <3>1, <3>2, RisingOrder
    <3> QED BY <1>9, <2>2, <3>3
  <2> QED BY <1>9, <2>3
<1> DEFINE h == k - 1
           s == c[h]
<1>11. h \in 1 .. n /\ h \in 1 .. m /\ h \in Nat /\ h <= n /\ h <= m /\ h + 1 = k /\ n \in h .. n /\ m \in h .. m
       /\ h \in 0 .. n /\ h > 0
  BY <1>8, <1>9, <1>10
<1> HIDE DEF h
<1>12. b[h] = s
  <2>1. \A x \in 1 .. (h + 1) : q[x] = p[x]
    BY <1>9, <1>11
  <2> QED BY <1>3, <1>4, <1>8, <1>11, <2>1, TableSame
<1>13. Extends(s, t) /\ Extends(s, u)
  <2>1. Extends(c[h], c[n]) /\ Extends(b[h], b[m])
    BY <1>1, <1>2, <1>3, <1>4, <1>11, TableExtends
  <2> QED BY <1>3, <1>4, <1>12, <2>1
<1>14. s \in Seq(Entry) /\ Tiles(s) /\ s # <<>> /\ Last(s).end + 1 = d /\ Last(s).end \in Days
  <2>1. Stretched(c[h], p, h)
    BY <1>1, <1>3, <1>11, TableBounds
  <2> QED BY <1>9, <1>11, <2>1 DEF Stretched, Tiled
<1>15. t \in Seq(Entry) /\ Tiles(t) /\ u \in Seq(Entry) /\ Tiles(u)
  <2>1. Stretched(c[n], p, n) /\ Stretched(b[m], q, m)
    BY <1>1, <1>2, <1>3, <1>4, <1>8, TableBounds
  <2> QED BY <1>3, <1>4, <2>1 DEF Stretched, Tiled
<1> HIDE DEF s
<1>16. t[i].end = s[Len(s)].end
  <2>1. Last(s) = s[Len(s)]
    BY <1>14 DEF Last
  <2>2. s[Len(s)].end \in Nat
    BY <1>14, <2>1, LastDayHas DEF Days
  <2>3. t[i].end \in Nat
    <3>1. t[i] \in Entry
      BY <1>7, <1>15
    <3> QED BY <3>1 DEF Entry
  <2> QED BY <1>7, <1>14, <2>1, <2>2, <2>3
<1>17. i = Len(s) /\ \A x \in 1 .. i : t[x] = s[x]
  BY <1>7, <1>13, <1>14, <1>15, <1>16, ExtendsEnd
<1>18. j = Len(s) /\ \A x \in 1 .. j : u[x] = s[x]
  <2>1. u[j].end = s[Len(s)].end
    BY <1>7, <1>16
  <2> QED BY <1>7, <1>13, <1>14, <1>15, <2>1, ExtendsEnd
<1>19. Shared(t, u, i)
  BY <1>7, <1>17, <1>18 DEF Shared
<1> QED BY <1>19 DEF t, u

SameUpTo(A, B, d) == A \cap (1 .. d) = B \cap (1 .. d)

\* A payday of a version, in its time.
AnchorOf(a, vs, i, m) ==
  /\ a = AnchorDate(m, vs[i])
  /\ i > 1 => a >= vs[i].firstPay
  /\ i < Len(vs) => a < vs[i + 1].firstPay

LEMMA AnchorsAre ==
  ASSUME NEW vs, NEW a
  PROVE  a \in Anchors(vs) <=> \E i \in 1 .. Len(vs), m \in Months : AnchorOf(a, vs, i, m)
<1>1. ASSUME a \in Anchors(vs)
      PROVE  \E i \in 1 .. Len(vs), m \in Months : AnchorOf(a, vs, i, m)
  <2>1. PICK i \in 1 .. Len(vs) : a \in {d \in {AnchorDate(m, vs[i]) : m \in Months} :
                                           /\ i > 1 => d >= vs[i].firstPay
                                           /\ i < Len(vs) => d < vs[i + 1].firstPay}
    BY <1>1 DEF Anchors
  <2>2. PICK m \in Months : a = AnchorDate(m, vs[i])
    BY <2>1
  <2> QED BY <2>1, <2>2 DEF AnchorOf
<1>2. ASSUME NEW i \in 1 .. Len(vs), NEW m \in Months, AnchorOf(a, vs, i, m)
      PROVE  a \in Anchors(vs)
  <2>1. a \in {d \in {AnchorDate(x, vs[i]) : x \in Months} :
                 /\ i > 1 => d >= vs[i].firstPay
                 /\ i < Len(vs) => d < vs[i + 1].firstPay}
    BY <1>2 DEF AnchorOf
  <2> QED BY <2>1 DEF Anchors
<1> QED BY <1>1, <1>2

\* Up to a payday that a new version does not pass, the paydays are the ones there were.
LEMMA AnchorsShare ==
  ASSUME NEW vs, Chain(vs), vs # <<>>, NEW r \in Version, NEW ws, ws = Append(vs, r), Chain(ws),
         NEW d \in Nat, d <= r.firstPay, d \in Anchors(vs)
  PROVE  SameUpTo(Anchors(vs), Anchors(ws), d)
<1> DEFINE n == Len(vs)
<1>1. /\ n \in Nat /\ n > 0 /\ Len(ws) = n + 1 /\ ws[n + 1] = r /\ \A i \in 1 .. n : ws[i] = vs[i]
  <2>1. vs \in Seq(Version)
    BY DEF Chain
  <2> QED BY <2>1
<1>2. r.firstPay \in Nat
  BY DEF Version
<1>3. ASSUME NEW a \in 1 .. d, a \in Anchors(vs)
      PROVE  a \in Anchors(ws)
  <2>1. PICK i \in 1 .. n, m \in Months : AnchorOf(a, vs, i, m)
    BY <1>3, AnchorsAre
  <2>2. CASE a < r.firstPay
    <3>1. i \in 1 .. Len(ws) /\ ws[i] = vs[i] /\ (i < n => i + 1 \in 1 .. n /\ ws[i + 1] = vs[i + 1])
      BY <1>1
    <3> HIDE DEF n
    <3>2. i < Len(ws) => a < ws[i + 1].firstPay
      <4>1. CASE i < n
        <5>1. a < vs[i + 1].firstPay
          BY <2>1, <4>1 DEF AnchorOf, n
        <5> QED BY <3>1, <4>1, <5>1
      <4>2. CASE ~(i < n)
        <5>1. i = n
          BY <1>1, <4>2
        <5> QED BY <1>1, <2>2, <5>1
      <4> QED BY <4>1, <4>2
    <3>3. AnchorOf(a, ws, i, m)
      BY <2>1, <3>1, <3>2 DEF AnchorOf
    <3> QED BY <3>1, <3>3, AnchorsAre
  <2>3. CASE ~(a < r.firstPay)
    <3>1. a = r.firstPay
      BY <1>2, <2>3
    <3>2. n + 1 \in 2 .. Len(ws) /\ n + 1 \in 1 .. Len(ws) /\ ~(n + 1 < Len(ws))
      BY <1>1
    <3> HIDE DEF n
    <3>3. PICK x \in Months : r.firstPay = AnchorDate(x, r)
      BY <1>1, <3>2 DEF Chain
    <3>4. AnchorOf(a, ws, n + 1, x)
      BY <1>1, <1>2, <3>1, <3>2, <3>3 DEF AnchorOf
    <3> QED BY <3>2, <3>4, AnchorsAre
  <2> QED BY <2>2, <2>3
<1>4. ASSUME NEW a \in 1 .. d, a \in Anchors(ws)
      PROVE  a \in Anchors(vs)
  <2>1. PICK i \in 1 .. Len(ws), m \in Months : AnchorOf(a, ws, i, m)
    BY <1>4, AnchorsAre
  <2>2. CASE i = n + 1
    <3>1. a >= r.firstPay
      BY <1>1, <2>1, <2>2 DEF AnchorOf
    <3>2. a = d
      BY <1>2, <3>1
    <3> QED BY <3>2
  <2>3. CASE i # n + 1
    <3>1. i \in 1 .. n /\ ws[i] = vs[i] /\ i < Len(ws) /\ (i < n => i + 1 \in 1 .. n /\ ws[i + 1] = vs[i + 1])
      BY <1>1, <2>3
    <3> HIDE DEF n
    <3>2. i < n => a < vs[i + 1].firstPay
      BY <2>1, <3>1 DEF AnchorOf
    <3>3. AnchorOf(a, vs, i, m)
      BY <2>1, <3>1, <3>2 DEF AnchorOf, n
    <3> QED BY <3>1, <3>3, AnchorsAre DEF n
  <2> QED BY <2>2, <2>3
<1>5. Anchors(vs) \cap (1 .. d) = Anchors(ws) \cap (1 .. d)
  BY <1>3, <1>4
<1> QED BY <1>5 DEF SameUpTo

\* Two tables have a cycle in common, and the ones before it.
SharedAt(from, to, k) == \E i : Shared(from.entries, to.entries, i) /\ from.entries[i].key = k

\* The last closed cycle, and the ones before it, are in the table of a new payday.
LEMMA PastShared ==
  ASSUME NEW vs, Chain(vs), vs # <<>>, NEW r \in Version, NEW ws, ws = Append(vs, r), Chain(ws),
         NEW k \in Keys(Calendar(vs)), k \div 2 \in Middle, NEW end, end = RangeOf(Calendar(vs), k).end,
         r.firstPay > end, ClosedAsItWas(Calendar(ws), end)
  PROVE  SharedAt(Calendar(vs), Calendar(ws), k)
<1> DEFINE from == Calendar(vs)
           to == Calendar(ws)
           e == RangeOf(from, k)
<1>0. ws # <<>> /\ from.entries = Entries(vs) /\ to.entries = Entries(ws)
  <2>1. vs \in Seq(Version)
    BY DEF Chain
  <2>2. ws # <<>>
    BY <2>1
  <2> QED BY <2>2 DEF Calendar
<1>1. /\ e \in Entry /\ e.key = k /\ e.end \in Days /\ MonthOf(e.end) = k \div 2
  BY RangeHas
<1>2. end \in Days /\ MonthOf(end) \in Middle /\ end \in Nat /\ end # None /\ r.firstPay \in Nat
  <2>1. e.end \in Nat /\ \A x \in Days : x # 0
    BY <1>1, LastDayHas DEF Entry, Days
  <2> QED BY <1>1, <2>1 DEF None, Version
<1>3. from.entries \in Seq(Entry) /\ Tiles(from.entries) /\ to.entries \in Seq(Entry) /\ Tiles(to.entries)
  BY CalendarHas
<1>4. PICK i \in DOMAIN from.entries : from.entries[i].key = k
  BY DEF Keys
<1>5. PeriodOf(to, end) \in Keys(to)
  BY <1>2, DayHasKey
<1>6. PICK j \in DOMAIN to.entries : to.entries[j].key = PeriodOf(to, end)
  BY <1>5 DEF Keys
<1>7. RangeOf(to, PeriodOf(to, end)).end = end
  BY <1>2 DEF ClosedAsItWas
<1> HIDE DEF from, to
<1>8. from.entries[i].end = end
  <2>1. RangeOf(from, from.entries[i].key) = from.entries[i]
    BY <1>3, EntryIs
  <2> QED BY <1>4, <2>1 DEF from
<1>9. to.entries[j].end = end
  <2>1. RangeOf(to, to.entries[j].key) = to.entries[j]
    BY <1>3, EntryIs
  <2> QED BY <1>6, <1>7, <2>1
<1> DEFINE d == end + 1
<1>10. d \in Nat /\ d <= r.firstPay /\ d = Entries(vs)[i].end + 1
  BY <1>0, <1>2, <1>8
<1>11. i \in DOMAIN Entries(vs) /\ j \in DOMAIN Entries(ws) /\ Entries(ws)[j].end = Entries(vs)[i].end
  BY <1>0, <1>8, <1>9
<1> HIDE DEF d
<1>12. d \in Anchors(vs)
  BY <1>10, <1>11, OnAnchors
<1>13. SameUpTo(Anchors(vs), Anchors(ws), d)
  BY <1>10, <1>12, AnchorsShare
<1>14. Shared(Entries(vs), Entries(ws), i)
  BY <1>0, <1>10, <1>11, <1>13, TablesShare DEF SameUpTo
<1> QED BY <1>0, <1>4, <1>14 DEF from, to, SharedAt

\* A day of some cycle, before and after one of them.
Covered(cal, d) == \E i \in DOMAIN cal.entries : cal.entries[i].start <= d /\ d <= cal.entries[i].end

LEMMA DayCovered ==
  ASSUME NEW vs, Chain(vs), vs # <<>>, NEW d \in Days, MonthOf(d) \in Middle
  PROVE  Covered(Calendar(vs), d)
<1> DEFINE m == MonthOf(d)
<1>1. FirstDay[m] <= d /\ d < FirstDay[m + 1] /\ d \in Nat
  BY MonthOfHas, LastDayHas DEF Days
<1>2. /\ Opening(vs) <= FirstDay[m] /\ FirstDay[m + 1] <= Ending(vs)
      /\ Opening(vs) \in Nat /\ Ending(vs) \in Nat
  BY TableReaches
<1>3. FirstDay[m] \in Nat /\ FirstDay[m + 1] \in Nat
  BY MiddleHas
<1>4. Opening(vs) <= d /\ d < Ending(vs)
  BY <1>1, <1>2, <1>3
<1> QED BY <1>4, CyclesCalendar DEF Covered

LEMMA StartCovered ==
  ASSUME NEW vs, Chain(vs), vs # <<>>, NEW ws, Chain(ws), ws # <<>>, Opening(ws) = Opening(vs),
         NEW k \in Keys(Calendar(vs)), k \div 2 \in Middle
  PROVE  Covered(Calendar(ws), RangeOf(Calendar(vs), k).start)
<1> DEFINE e == RangeOf(Calendar(vs), k)
           m == k \div 2
<1>1. /\ e \in Entry /\ e.start \in Days /\ e.end \in Days /\ e.start <= e.end /\ MonthOf(e.end) = m
      /\ Opening(vs) <= e.start
  BY RangeHas
<1>2. e.end < FirstDay[m + 1] /\ FirstDay[m + 1] <= Ending(ws) /\ FirstDay[m + 1] \in Nat /\ Ending(ws) \in Nat
  BY <1>1, MonthOfHas, TableReaches, MiddleHas
<1>3. e.start \in Nat /\ e.end \in Nat
  BY <1>1 DEF Entry
<1>4. Opening(ws) <= e.start /\ e.start < Ending(ws)
  BY <1>1, <1>2, <1>3
<1> QED BY <1>1, <1>4, CyclesCalendar DEF Covered

LEMMA KeyOrder ==
  ASSUME NEW cal, cal.entries \in Seq(Entry), Tiles(cal.entries), NEW n \in DOMAIN cal.entries,
         NEW d \in Nat, Covered(cal, d)
  PROVE  /\ d > cal.entries[n].end => PeriodOf(cal, d) > cal.entries[n].key
         /\ d <= cal.entries[n].end => PeriodOf(cal, d) <= cal.entries[n].key
         /\ PeriodOf(cal, d) \in Keys(cal) /\ PeriodOf(cal, d) \in Nat
<1> DEFINE t == cal.entries
<1>1. PICK i \in DOMAIN t : t[i].start <= d /\ d <= t[i].end
  BY DEF Covered
<1>2. PeriodOf(cal, d) = t[i].key /\ t[i].key \in Keys(cal)
  BY <1>1, EntryIs
<1>3. t \in Seq(Entry) /\ Tiles(t) /\ n \in DOMAIN t
  OBVIOUS
<1> HIDE DEF t
<1>4. DOMAIN t = 1 .. Len(t) /\ Len(t) \in Nat
  BY <1>3
<1>5. t[i] \in Entry /\ t[n] \in Entry
  BY <1>1, <1>3
<1>6. /\ t[i].start \in Nat /\ t[i].end \in Nat /\ t[i].key \in Nat
      /\ t[n].start \in Nat /\ t[n].end \in Nat /\ t[n].key \in Nat
  BY <1>5 DEF Entry
<1>7. t[n].start <= t[n].end
  BY <1>3 DEF Tiles
<1>8. i < n => t[i].end < t[n].start /\ t[i].key < t[n].key
  BY <1>1, <1>3, TilesOrder
<1>9. n < i => t[n].end < t[i].start /\ t[n].key < t[i].key
  BY <1>1, <1>3, TilesOrder
<1>10. i \in Nat /\ n \in Nat
  BY <1>1, <1>3, <1>4
<1>11. d > t[n].end => t[i].key > t[n].key
  BY <1>1, <1>6, <1>7, <1>8, <1>9, <1>10
<1>12. d <= t[n].end => t[i].key <= t[n].key
  BY <1>1, <1>6, <1>7, <1>8, <1>9, <1>10
<1> QED BY <1>2, <1>6, <1>11, <1>12 DEF t

\* An income may open the next cycle, if there is one.
LEMMA OpensNext ==
  ASSUME NEW cal, cal.entries \in Seq(Entry), Tiles(cal.entries), cal.cycles, NEW i \in DOMAIN cal.entries,
         NEW d \in Nat, cal.entries[i].start <= d, d <= cal.entries[i].end
  PROVE  ProposeOpening(cal, d)
           = IF i + 1 \in DOMAIN cal.entries /\ cal.entries[i + 1].start - d \in 1 .. Window
             THEN cal.entries[i + 1].key ELSE None
<1> DEFINE t == cal.entries
           next == Following(cal, PeriodOf(cal, d))
           near == 1 .. Window
<1>1. PeriodOf(cal, d) = t[i].key
  BY EntryIs
<1>2. next = {k \in Keys(cal) : k > t[i].key}
  BY <1>1 DEF Following
<1>3. Keys(cal) = {t[j].key : j \in DOMAIN t} /\ t \in Seq(Entry) /\ Tiles(t) /\ i \in DOMAIN t
  BY DEF Keys
<1>4. ProposeOpening(cal, d)
        = IF next # {} /\ RangeOf(cal, Min(next)).start - d \in near THEN Min(next) ELSE None
  BY DEF ProposeOpening
<1>5. \A j \in DOMAIN t : RangeOf(cal, t[j].key) = t[j]
  BY EntryIs
<1> HIDE DEF t, next, near
<1>6. \A j \in DOMAIN t : t[j].key \in Nat
  <2>1. \A j \in DOMAIN t : t[j] \in Entry
    BY <1>3
  <2> QED BY <2>1 DEF Entry
<1>7. DOMAIN t = 1 .. Len(t) /\ Len(t) \in Nat /\ i \in Nat
  BY <1>3
<1>8. CASE i + 1 \in DOMAIN t
  <2> DEFINE k == t[i + 1].key
  <2>1. k \in Nat /\ k > t[i].key
    <3>1. i < i + 1 /\ t[i + 1].key \in Nat /\ t[i].key \in Nat
      BY <1>3, <1>6, <1>7, <1>8
    <3>2. t[i].key < t[i + 1].key
      BY <1>3, <1>8, <3>1, TilesOrder
    <3> QED BY <3>1, <3>2
  <2>2. k \in next
    BY <1>2, <1>3, <1>8, <2>1
  <2>3. ASSUME NEW x \in next PROVE k <= x /\ x \in Nat
    <3>1. PICK j \in DOMAIN t : x = t[j].key
      BY <1>2, <1>3
    <3>2. x > t[i].key /\ x \in Nat /\ t[i].key \in Nat
      BY <1>2, <1>3, <1>6, <3>1
    <3>3. ~(j < i) /\ j # i
      BY <1>3, <1>6, <3>1, <3>2, TilesOrder
    <3>4. j = i + 1 \/ i + 1 < j
      BY <1>7, <3>1, <3>3
    <3>5. i + 1 < j => k < x
      BY <1>3, <1>8, <3>1, TilesOrder
    <3> QED BY <2>1, <3>1, <3>2, <3>4, <3>5
  <2> HIDE DEF k
  <2>4. Min(next) = k
    <3>1. Min(next) = CHOOSE x \in next : \A y \in next : x <= y
      BY DEF Min
    <3>2. \A x \in next : (\A y \in next : x <= y) => x = k
      BY <2>1, <2>2, <2>3
    <3> QED BY <2>2, <2>3, <3>1, <3>2
  <2>5. RangeOf(cal, k).start = t[i + 1].start
    BY <1>5, <1>8 DEF k
  <2> QED BY <1>4, <1>8, <2>2, <2>4, <2>5 DEF t, k, near
<1>9. CASE i + 1 \notin DOMAIN t
  <2>1. next = {}
    <3> SUFFICES ASSUME NEW x \in next PROVE FALSE
      OBVIOUS
    <3>1. PICK j \in DOMAIN t : x = t[j].key
      BY <1>2, <1>3
    <3>2. j < i \/ j = i
      BY <1>7, <1>9, <3>1
    <3>3. x > t[i].key /\ x \in Nat /\ t[i].key \in Nat
      BY <1>2, <1>3, <1>6, <3>1
    <3>4. j < i => t[j].key < t[i].key
      BY <1>3, <3>1, TilesOrder
    <3> QED BY <3>1, <3>2, <3>3, <3>4
  <2> QED BY <1>4, <1>9, <2>1 DEF t
<1> QED BY <1>8, <1>9

\* Two calendars of cycles that share what is before the end of one.
Past(from, to, n) ==
  /\ from.cycles /\ from.entries \in Seq(Entry) /\ Tiles(from.entries)
  /\ to.cycles /\ to.entries \in Seq(Entry) /\ Tiles(to.entries)
  /\ Shared(from.entries, to.entries, n)
  /\ \A k \in Keys(from) : k \div 2 \in Middle => Covered(to, RangeOf(from, k).start)
  /\ \A d \in Days : MonthOf(d) \in Middle => Covered(from, d) /\ Covered(to, d)

LEMMA PastKeys ==
  ASSUME NEW from, NEW to, NEW n, Past(from, to, n), NEW k \in Keys(from), k <= from.entries[n].key
  PROVE  k \in Keys(to) /\ RangeOf(to, k) = RangeOf(from, k)
<1> DEFINE s == from.entries
           t == to.entries
<1>1. s \in Seq(Entry) /\ Tiles(s) /\ t \in Seq(Entry) /\ Tiles(t) /\ Shared(s, t, n)
  BY DEF Past
<1>2. PICK i \in DOMAIN s : s[i].key = k
  BY DEF Keys
<1>3. RangeOf(from, s[i].key) = s[i]
  BY <1>1, <1>2, EntryIs
<1>4. n \in DOMAIN s /\ n \in DOMAIN t /\ k <= s[n].key
  BY <1>1 DEF Shared
<1>5. i \in DOMAIN t => t[i].key \in Keys(to) /\ RangeOf(to, t[i].key) = t[i]
  BY <1>1, EntryIs
<1> HIDE DEF s, t
<1>6. DOMAIN s = 1 .. Len(s) /\ DOMAIN t = 1 .. Len(t) /\ Len(s) \in Nat /\ Len(t) \in Nat
  BY <1>1
<1>7. ~(n < i)
  <2> SUFFICES ASSUME n < i PROVE FALSE
    OBVIOUS
  <2>1. s[n].key < s[i].key
    BY <1>1, <1>2, <1>4, TilesOrder
  <2>2. s[n] \in Entry /\ s[i] \in Entry
    BY <1>1, <1>2, <1>4
  <2>3. s[n].key \in Nat /\ s[i].key \in Nat
    BY <2>2 DEF Entry
  <2> QED BY <1>2, <1>4, <2>1, <2>3
<1>8. i \in 1 .. n /\ i \in DOMAIN t
  BY <1>2, <1>4, <1>6, <1>7
<1>9. t[i] = s[i]
  BY <1>1, <1>8 DEF Shared
<1> QED BY <1>2, <1>3, <1>5, <1>8, <1>9

LEMMA PastMapped ==
  ASSUME NEW from, NEW to, NEW n, Past(from, to, n), NEW k \in Keys(from)
  PROVE  /\ k <= from.entries[n].key => MapKey(from, to, k) = k
         /\ k > from.entries[n].key /\ k \div 2 \in Middle => MapKey(from, to, k) > from.entries[n].key
<1>1. from.cycles /\ to.cycles
  BY DEF Past
<1>2. MapKey(from, to, k) = IF k \in Keys(to) THEN k ELSE PeriodOf(to, RangeOf(from, k).start)
  BY <1>1 DEF MapKey
<1>3. k <= from.entries[n].key => MapKey(from, to, k) = k
  BY <1>2, PastKeys
<1>4. ASSUME k > from.entries[n].key, k \div 2 \in Middle
      PROVE  PeriodOf(to, RangeOf(from, k).start) > from.entries[n].key
  <2> DEFINE s == from.entries
             t == to.entries
             d == RangeOf(from, k).start
  <2>1. s \in Seq(Entry) /\ Tiles(s) /\ t \in Seq(Entry) /\ Tiles(t) /\ Shared(s, t, n) /\ Covered(to, d)
    BY <1>4 DEF Past
  <2>2. PICK i \in DOMAIN s : s[i].key = k
    BY DEF Keys
  <2>3. d = s[i].start
    <3>1. RangeOf(from, s[i].key) = s[i]
      BY <2>1, <2>2, EntryIs
    <3> QED BY <2>2, <3>1
  <2>4. k > s[n].key
    BY <1>4
  <2> HIDE DEF s, d
  <2>5. n \in DOMAIN s /\ n \in DOMAIN t /\ t[n] = s[n]
    <3>1. n \in DOMAIN s /\ n \in DOMAIN t /\ \A x \in 1 .. n : t[x] = s[x]
      BY <2>1 DEF Shared
    <3>2. n \in 1 .. n
      BY <2>1, <3>1
    <3> QED BY <3>1, <3>2
  <2>6. s[n] \in Entry /\ s[i] \in Entry /\ DOMAIN s = 1 .. Len(s)
    BY <2>1, <2>2, <2>5
  <2>7. s[n].key \in Nat /\ s[i].key \in Nat /\ s[n].end \in Nat /\ s[i].start \in Nat
    BY <2>6 DEF Entry
  <2>8. n < i
    <3>1. i < n => s[i].key < s[n].key
      BY <2>1, <2>2, <2>5, TilesOrder
    <3>2. i \in Nat /\ n \in Nat /\ i # n
      BY <2>2, <2>4, <2>5, <2>6, <2>7
    <3> QED BY <2>2, <2>4, <2>7, <3>1, <3>2
  <2>9. s[n].end < d
    BY <2>1, <2>2, <2>3, <2>5, <2>8, TilesOrder
  <2>10. d > t[n].end /\ d \in Nat
    BY <2>3, <2>5, <2>7, <2>9
  <2>11. PeriodOf(to, d) > t[n].key
    BY <2>1, <2>5, <2>10, KeyOrder
  <2> QED BY <2>5, <2>11 DEF s, d
<1> QED BY <1>2, <1>3, <1>4

\* A movement of a period up to that end stays in it, and one after it goes after it.
LEMMA PastMoves ==
  ASSUME NEW from, NEW to, NEW n, Past(from, to, n), NEW l, NEW x,
         x.period \in Keys(from), x.period \div 2 \in Middle,
         x.date # None => x.date \in Days /\ MonthOf(x.date) \in Middle /\ ValidPeriod(from, x)
  PROVE  LET y == PeriodAfter(l, from, to, x)
             k == from.entries[n].key
         IN  IF x.period <= k THEN y = x.period ELSE y > k
<1> DEFINE s == from.entries
           t == to.entries
           y == PeriodAfter(l, from, to, x)
           k == s[n].key
           d == x.date
<1>1. /\ from.cycles /\ to.cycles /\ s \in Seq(Entry) /\ Tiles(s) /\ t \in Seq(Entry) /\ Tiles(t)
      /\ Shared(s, t, n)
  BY DEF Past
<1>2. n \in DOMAIN s /\ n \in DOMAIN t /\ (\A i \in 1 .. n : t[i] = s[i]) /\ n \in Nat /\ n \in 1 .. n
      /\ DOMAIN s = 1 .. Len(s) /\ DOMAIN t = 1 .. Len(t) /\ Len(s) \in Nat /\ Len(t) \in Nat
  <2>1. n \in DOMAIN s /\ n \in DOMAIN t /\ \A i \in 1 .. n : t[i] = s[i]
    BY <1>1 DEF Shared
  <2> HIDE DEF s, t
  <2>2. DOMAIN s = 1 .. Len(s) /\ DOMAIN t = 1 .. Len(t) /\ Len(s) \in Nat /\ Len(t) \in Nat
    BY <1>1
  <2> QED BY <2>1, <2>2
<1>3. /\ \A i \in DOMAIN s : s[i].key \in Nat /\ s[i].start \in Nat /\ s[i].end \in Nat
      /\ \A i \in DOMAIN t : t[i].key \in Nat /\ t[i].start \in Nat /\ t[i].end \in Nat
  <2>1. (\A i \in DOMAIN s : s[i] \in Entry) /\ \A i \in DOMAIN t : t[i] \in Entry
    BY <1>1
  <2> QED BY <2>1 DEF Entry
<1>4. PICK e \in DOMAIN s : s[e].key = x.period
  BY DEF Keys
<1>5. CASE d = None
  <2>1. y = Place(l, from, to, x.leaf, x.period)
    BY <1>1, <1>5 DEF PeriodAfter, Returning
  <2>2. y = MapKey(from, to, x.period)
    BY <1>1, <2>1 DEF Place
  <2>3. /\ x.period <= k => y = x.period
        /\ x.period > k => y > k
    BY <2>2, PastMapped
  <2>4. x.period \in Nat /\ k \in Nat
    BY <1>2, <1>3, <1>4
  <2> QED BY <2>3, <2>4
<1>6. CASE d # None
  <2> DEFINE a == ProposeOpening(from, d)
             b == ProposeOpening(to, d)
             opens == x.kind = "income" /\ a = x.period
  <2>1. y = IF opens /\ b # None THEN b ELSE PeriodOf(to, d)
    BY <1>1, <1>6 DEF PeriodAfter
  <2>2. d \in Days /\ MonthOf(d) \in Middle /\ ValidPeriod(from, x)
    BY <1>6
  <2>3. Covered(from, d) /\ Covered(to, d) /\ Covered(to, RangeOf(from, x.period).start) /\ d \in Nat
    BY <2>2, LastDayHas DEF Past, Days
  <2>4. x.period = PeriodOf(from, d) \/ opens
    BY <1>6, <2>2 DEF ValidPeriod
  <2>5. PICK i \in DOMAIN s : s[i].start <= d /\ d <= s[i].end
    BY <2>3 DEF Covered
  <2>6. PeriodOf(from, d) = s[i].key
    BY <1>1, <2>3, <2>5, EntryIs
  <2>7. a = IF i + 1 \in DOMAIN s /\ s[i + 1].start - d \in 1 .. Window THEN s[i + 1].key ELSE None
    BY <1>1, <2>3, <2>5, OpensNext
  <2>8. RangeOf(from, x.period) = s[e]
    BY <1>1, <1>4, EntryIs
  <2>9. \A j \in DOMAIN t : t[j].start <= d /\ d <= t[j].end =>
          /\ PeriodOf(to, d) = t[j].key
          /\ b = IF j + 1 \in DOMAIN t /\ t[j + 1].start - d \in 1 .. Window THEN t[j + 1].key ELSE None
    BY <1>1, <2>3, EntryIs, OpensNext
  <2>10. d > t[n].end => PeriodOf(to, d) > t[n].key /\ (b # None => b > PeriodOf(to, d))
    <3>1. d > t[n].end => PeriodOf(to, d) > t[n].key
      BY <1>1, <1>2, <2>3, KeyOrder
    <3>2. ASSUME b # None PROVE b > PeriodOf(to, d)
      <4>1. PICK j \in DOMAIN t : t[j].start <= d /\ d <= t[j].end
        BY <2>3 DEF Covered
      <4>2. PeriodOf(to, d) = t[j].key /\ j + 1 \in DOMAIN t /\ b = t[j + 1].key
        BY <2>9, <3>2, <4>1
      <4> HIDE DEF t
      <4>3. j < j + 1
        BY <1>2, <4>1
      <4>4. t[j].key < t[j + 1].key
        BY <1>1, <4>1, <4>2, <4>3, TilesOrder
      <4> QED BY <1>3, <4>1, <4>2, <4>4
    <3> QED BY <3>1, <3>2
  <2>11. e = i \/ (opens /\ e = i + 1)
    <3>1. ASSUME NEW j \in DOMAIN s, s[j].key = s[e].key PROVE j = e
      <4>1. j < e => s[j].key < s[e].key
        BY <1>1, <1>4, TilesOrder
      <4>2. e < j => s[e].key < s[j].key
        BY <1>1, <1>4, TilesOrder
      <4> HIDE DEF s
      <4>3. j \in Nat /\ e \in Nat
        BY <1>2, <1>4
      <4> QED BY <1>3, <1>4, <3>1, <4>1, <4>2, <4>3
    <3>2. s[e].key # None
      <4>1. s[e].key \div 2 = x.period \div 2 /\ x.period \div 2 # 0
        BY <1>4, MiddleHas
      <4> QED BY <4>1 DEF None
    <3>3. CASE x.period = PeriodOf(from, d)
      BY <1>4, <2>5, <2>6, <3>1, <3>3
    <3>4. CASE opens
      <4>1. i + 1 \in DOMAIN s /\ s[i + 1].key = s[e].key
        BY <1>4, <2>7, <3>2, <3>4
      <4> QED BY <3>1, <3>4, <4>1
    <3> QED BY <2>4, <3>3, <3>4
  <2>12. t[n].key = k /\ t[n].end = s[n].end /\ t[n].start = s[n].start /\ k \in Nat /\ s[e].key \in Nat
    BY <1>2, <1>3, <1>4
  <2> HIDE DEF s, t, k, y, a, b
  <2>13. CASE i > n
    <3>1. s[n].end < s[i].start /\ s[n].key < s[i].key
      BY <1>1, <1>2, <2>5, <2>13, TilesOrder
    <3>2. d > t[n].end
      BY <1>2, <1>3, <2>3, <2>5, <2>12, <3>1
    <3>3. y > k
      <4>1. PeriodOf(to, d) > k /\ (b # None => b > PeriodOf(to, d)) /\ PeriodOf(to, d) \in Nat
        BY <1>1, <1>2, <2>3, <2>10, <2>12, <3>2, KeyOrder DEF t
      <4>2. b \in Nat
        <5>1. PICK j \in DOMAIN t : t[j].start <= d /\ d <= t[j].end
          BY <2>3 DEF Covered, t
        <5> QED BY <1>3, <2>9, <5>1 DEF None
      <4> QED BY <2>1, <2>12, <4>1, <4>2
    <3>4. n < e
      BY <1>2, <2>5, <2>11, <2>13
    <3>5. k < s[e].key
      BY <1>1, <1>2, <1>4, <3>4, TilesOrder DEF k
    <3> QED BY <1>4, <2>12, <3>3, <3>5 DEF y, k, s
  <2>14. CASE i < n
    <3>1. /\ i \in DOMAIN t /\ t[i] = s[i] /\ i + 1 \in DOMAIN s /\ i + 1 \in DOMAIN t /\ t[i + 1] = s[i + 1]
          /\ i + 1 = n \/ i + 1 < n
      BY <1>2, <2>5, <2>14
    <3>2. PeriodOf(to, d) = s[i].key /\ b = a
      BY <2>5, <2>7, <2>9, <3>1
    <3>3. y = s[e].key
      <4>1. CASE opens
        <5>1. a # None
          <6>1. x.period \div 2 # 0
            BY MiddleHas
          <6> QED BY <4>1, <6>1 DEF None
        <5> QED BY <1>4, <2>1, <3>2, <4>1, <5>1
      <4>2. CASE ~opens
        BY <2>1, <2>11, <3>2, <4>2
      <4> QED BY <4>1, <4>2
    <3>4. s[e].key <= k
      <4>1. i + 1 < n => s[i + 1].key < s[n].key
        BY <1>1, <1>2, <3>1, TilesOrder
      <4>2. s[i].key < s[n].key
        BY <1>1, <1>2, <2>5, <2>14, TilesOrder
      <4>3. s[i].key \in Nat /\ s[n].key \in Nat /\ s[i + 1].key \in Nat
        BY <1>2, <1>3, <2>5, <3>1
      <4> QED BY <2>11, <3>1, <4>1, <4>2, <4>3 DEF k
    <3> QED BY <1>4, <3>3, <3>4 DEF y, k, s
  <2>15. CASE i = n
    <3>1. t[n] = s[n] /\ n \in DOMAIN t
      BY <1>2
    <3>2. /\ PeriodOf(to, d) = k
          /\ b = IF n + 1 \in DOMAIN t /\ t[n + 1].start - d \in 1 .. Window THEN t[n + 1].key ELSE None
      BY <2>5, <2>9, <2>12, <2>15, <3>1
    <3>3. CASE ~opens
      <4>1. y = k /\ s[e].key = k
        BY <2>1, <2>11, <2>15, <3>2, <3>3 DEF k
      <4> QED BY <1>4, <2>12, <4>1 DEF y, k, s
    <3>4. CASE opens
      <4>1. n + 1 \in DOMAIN s /\ s[n + 1].start - d \in 1 .. Window /\ a = s[n + 1].key
        <5>1. x.period \div 2 # 0
          BY MiddleHas
        <5> QED BY <2>7, <2>15, <3>4, <5>1 DEF None
      <4>2. e = n + 1
        <5>1. s[n].key < s[n + 1].key
          BY <1>1, <1>2, <4>1, TilesOrder
        <5>2. s[e].key = s[n + 1].key
          BY <1>4, <3>4, <4>1
        <5>3. e # n
          BY <1>2, <1>3, <4>1, <5>1, <5>2
        <5> QED BY <2>11, <2>15, <5>3
      <4>3. s[n + 1].start = s[n].end + 1 /\ s[n].key < s[n + 1].key
        <5>1. n \in 1 .. (Len(s) - 1)
          BY <1>2, <4>1
        <5> QED BY <1>1, <5>1 DEF Tiles
      <4>4. n + 1 \in DOMAIN t
        <5>1. Covered(to, s[n + 1].start)
          BY <2>3, <2>8, <4>2
        <5>2. PICK j \in DOMAIN t : t[j].start <= s[n + 1].start /\ s[n + 1].start <= t[j].end
          BY <5>1 DEF Covered, t
        <5>3. ~(j < n) /\ j # n
          <6>1. j < n => t[j].end < t[n].start
            BY <1>1, <1>2, <5>2, TilesOrder
          <6>2. t[n].start <= t[n].end
            BY <1>1, <1>2 DEF Tiles
          <6> QED BY <1>2, <1>3, <2>12, <4>1, <4>3, <5>2, <6>1, <6>2
        <5> QED BY <1>2, <5>2, <5>3
      <4>5. t[n + 1].start = t[n].end + 1 /\ t[n].key < t[n + 1].key
        <5>1. n \in 1 .. (Len(t) - 1)
          BY <1>2, <4>4
        <5> QED BY <1>1, <5>1 DEF Tiles
      <4>6. b = t[n + 1].key /\ b > k
        BY <2>12, <3>2, <4>1, <4>3, <4>4, <4>5, <1>3
      <4>7. y > k
        <5>1. b # None
          BY <2>12, <4>6 DEF None
        <5> QED BY <2>1, <3>4, <4>6, <5>1
      <4>8. s[e].key > k
        BY <1>3, <2>12, <4>1, <4>2, <4>3 DEF k
      <4> QED BY <1>4, <2>12, <4>7, <4>8 DEF y, k, s
    <3> QED BY <3>3, <3>4
  <2>16. i \in Nat /\ n \in Nat
    BY <1>2, <2>5
  <2> QED BY <2>13, <2>14, <2>15, <2>16
<1> QED BY <1>5, <1>6

-----------------------------------------------------------------------------
(* What a new payday leaves as it was.                                     *)

\* The cells that a relocation leaves as they are.
At(P, c) == {p \in P : p.cell = c}
MovesAt(moves, c) == {x \in Moving(moves) : <<"actual", x.leaf, x.period>> = c}
Stays(l, from, to, moves, c) ==
  /\ \A d \in Sources(l) :
       /\ ~HasMemory(l, from, to, d)
       /\ <<d[1], d[2], Place(l, from, to, d[2], d[3])>> = c <=> d = c
  /\ MovesAt(moves, c) = MovesAt(l.moves, c)

\* What the movements of a cell bring is what they changed in it.
LEMMA AtMoves ==
  ASSUME NEW moves \in SUBSET Item, IsFiniteSet(moves), NEW c \in Rows \X Leaves \X Nat
  PROVE  LET M == MovesAt(moves, c) IN
         /\ IsFiniteSet(M)
         /\ Total(Changed(M), M) = IF c[1] = "actual" THEN Deltas(moves, c[2], c[3]) ELSE 0
<1> DEFINE M == MovesAt(moves, c)
           S == {x \in moves : x.leaf = c[2] /\ x.period = c[3]}
           h == [x \in S |-> Delta(x)]
<1>1. c = <<c[1], c[2], c[3]>>
  OBVIOUS
<1>2. IsFiniteSet(S) /\ IsFiniteSet(M) /\ \A x \in S : x.amount \in Int
  BY FS_Subset DEF Item, MovesAt, Moving
<1>3. CASE c[1] = "actual"
  <2>1. M \subseteq S /\ \A x \in S : x \in M \/ h[x] = 0
    <3>1. ASSUME NEW x \in M PROVE x \in S
      <4>1. x \in moves /\ <<"actual", x.leaf, x.period>> = <<c[1], c[2], c[3]>>
        BY <1>1 DEF MovesAt, Moving
      <4> QED BY <4>1
    <3>2. ASSUME NEW x \in S, h[x] # 0 PROVE x \in M
      <4>1. x \in moves /\ Delta(x) # 0 /\ <<"actual", x.leaf, x.period>> = c
        BY <1>1, <1>3, <3>2
      <4> QED BY <4>1 DEF MovesAt, Moving
    <3> QED BY <3>1, <3>2
  <2>2. \A x \in S : h[x] \in Int /\ h[x] = Delta(x)
    BY <1>2 DEF Delta
  <2>3. Deltas(moves, c[2], c[3]) = DeltaSum(S)
    BY DEF Deltas, DeltaSum
  <2>4. DeltaSum(S) = Total(h, S)
    <3> HIDE DEF S
    <3> QED BY <1>2, DeltaSumIs
  <2>5. \A x \in M : Changed(M)[x] = h[x] /\ h[x] \in Int
    <3>1. \A x \in M : Changed(M)[x] = Delta(x)
      BY DEF Changed
    <3> HIDE DEF S, M, h
    <3> QED BY <2>1, <2>2, <3>1
  <2> HIDE DEF S, M, h
  <2>6. Within(h, S, M)
    BY <2>1, <2>2 DEF Within
  <2>7. Total(h, S) = Total(h, M) /\ Total(Changed(M), M) = Total(h, M)
    BY <1>2, <2>5, <2>6, TotalInside, TotalSame
  <2> QED BY <1>2, <1>3, <2>3, <2>4, <2>7 DEF M
<1>4. CASE c[1] # "actual"
  <2>1. M = {}
    BY <1>1, <1>4 DEF MovesAt
  <2>2. Total(Changed(M), {}) = 0
    BY TotalEmpty
  <2> QED BY <1>2, <1>4, <2>1, <2>2
<1> QED BY <1>3, <1>4

\* The pieces of those movements.
LEMMA BroughtAt ==
  ASSUME NEW moves \in SUBSET Item, IsFiniteSet(moves), Numbered(moves), NEW c \in Rows \X Leaves \X Nat
  PROVE  LET M == MovesAt(moves, c)
             B == {Brought(x) : x \in M}
         IN  IsFiniteSet(B) /\ Total(Amounts(B), B) = Total(Changed(M), M)
<1> DEFINE some == {x \in moves : <<"actual", x.leaf, x.period>> = c}
           M == {x \in Moving(some) : x.leaf = c[2]}
           B == {Brought(x) : x \in M}
<1>1. some \in SUBSET Item /\ IsFiniteSet(some) /\ Numbered(some)
  BY FS_Subset DEF Numbered
<1>2. IsFiniteSet(B) /\ Total(Amounts(B), B) = Total([x \in M |-> Delta(x)], M)
  <2> HIDE DEF some
  <2> QED BY <1>1, BroughtTotal
<1>3. M = MovesAt(moves, c)
  BY DEF MovesAt, Moving
<1> QED BY <1>2, <1>3 DEF Changed

\* What goes to a cell that stays is what was in it.
LEMMA StaysSum ==
  ASSUME NEW l, Shaped(l), NEW from, NEW to, NEW moves \in SUBSET Item, IsFiniteSet(moves), Numbered(moves),
         NEW c \in Rows \X Leaves \X Nat, Stays(l, from, to, moves, c)
  PROVE  LET A == At(Pieces(l, from, to, moves), c) IN
         /\ Weight(A) = Cell(l, c[1], c[2], c[3])
         /\ (\E p \in A : p.keep) => c \in DOMAIN l.cells
         /\ c \in DOMAIN l.cells => A # {} /\ (l.cells[c] = 0 => \E p \in A : p.keep)
<1> DEFINE P == Pieces(l, from, to, moves)
           A == At(P, c)
           M == MovesAt(moves, c)
           B == {Brought(x) : x \in M}
           new == Piece(c[1], c[2], Place(l, from, to, c[2], c[3]), c, Own(l, c),
                        c \in DOMAIN l.cells /\ l.cells[c] = 0)
           S == IF c \in Sources(l) THEN {new} ELSE {}
           value == Cell(l, c[1], c[2], c[3])
           due == IF c[1] = "actual" THEN Deltas(moves, c[2], c[3]) ELSE 0
<1>0. c = <<c[1], c[2], c[3]>> /\ c[1] \in Rows /\ c[2] \in Leaves /\ c[3] \in Nat
  OBVIOUS
<1>1. P = (UNION {Sent(l, from, to, moves, d) : d \in Sources(l)}) \cup {Brought(x) : x \in Moving(moves)}
  BY PiecesAre
<1>2. ASSUME NEW d \in Sources(l)
      PROVE  /\ Sent(l, from, to, moves, d)
                  = {Piece(d[1], d[2], Place(l, from, to, d[2], d[3]), d, Own(l, d),
                           d \in DOMAIN l.cells /\ l.cells[d] = 0)}
             /\ <<d[1], d[2], Place(l, from, to, d[2], d[3])>> = c <=> d = c
  BY DEF Stays, Sent
<1>3. ASSUME NEW x \in Moving(moves)
      PROVE  /\ Brought(x).cell = <<"actual", x.leaf, x.period>> /\ Brought(x).src[1] = "item"
             /\ Brought(x).amount \in Int /\ Brought(x).keep = FALSE
  <2>1. x.amount \in Int
    BY DEF Moving, Item
  <2>2. Brought(x).keep = FALSE
    BY DEF Brought, Piece
  <2> QED BY <2>1, <2>2, BroughtHas
<1>4. /\ new.src = c /\ new.amount = Own(l, c) /\ Own(l, c) \in Int
      /\ new.keep = (c \in DOMAIN l.cells /\ l.cells[c] = 0)
      /\ c \in Sources(l) => new.cell = c
  <2>1. new.cell = <<c[1], c[2], Place(l, from, to, c[2], c[3])>>
    BY PieceHas
  <2> QED BY <1>2, <2>1, PieceHas, OwnInt
<1>5. \A p \in A : p \in S \/ p \in B
  <2> TAKE p \in A
  <2>1. p \in P /\ p.cell = c
    BY DEF At
  <2>2. CASE \E d \in Sources(l) : p \in Sent(l, from, to, moves, d)
    <3>1. PICK d \in Sources(l) : p \in Sent(l, from, to, moves, d)
      BY <2>2
    <3>2. p = Piece(d[1], d[2], Place(l, from, to, d[2], d[3]), d, Own(l, d),
                    d \in DOMAIN l.cells /\ l.cells[d] = 0)
      BY <1>2, <3>1
    <3>3. <<d[1], d[2], Place(l, from, to, d[2], d[3])>> = c
      BY <2>1, <3>2, PieceHas
    <3>4. d = c
      BY <1>2, <3>3
    <3> QED BY <3>2, <3>4
  <2>3. CASE \E x \in Moving(moves) : p = Brought(x)
    <3>1. PICK x \in Moving(moves) : p = Brought(x)
      BY <2>3
    <3>2. x \in M
      BY <1>3, <2>1, <3>1 DEF MovesAt
    <3> QED BY <3>1, <3>2
  <2> QED BY <1>1, <2>1, <2>2, <2>3
<1>6. \A p \in S : p \in A
  <2> TAKE p \in S
  <2>1. c \in Sources(l) /\ p = new
    OBVIOUS
  <2>2. new \in Sent(l, from, to, moves, c)
    BY <1>2, <2>1
  <2>3. new \in P
    BY <1>1, <2>1, <2>2
  <2> HIDE DEF new, P
  <2> QED BY <1>4, <2>1, <2>3 DEF At
<1>7. \A p \in B : p \in A /\ p.src[1] = "item" /\ p.amount \in Int /\ p.keep = FALSE
  <2> TAKE p \in B
  <2>1. PICK x \in M : p = Brought(x)
    OBVIOUS
  <2>2. x \in Moving(moves) /\ <<"actual", x.leaf, x.period>> = c
    BY DEF MovesAt
  <2>3. p \in P
    BY <1>1, <2>1, <2>2
  <2> HIDE DEF P
  <2> QED BY <1>3, <2>1, <2>2, <2>3 DEF At
<1>8. IsFiniteSet(B) /\ Total(Amounts(B), B) = due /\ M = MovesAt(l.moves, c)
  <2>1. IsFiniteSet(B) /\ Total(Amounts(B), B) = Total(Changed(M), M)
    BY BroughtAt
  <2>2. Total(Changed(M), M) = due
    BY AtMoves
  <2> QED BY <2>1, <2>2 DEF Stays
<1>9. due = (IF c[1] = "actual" THEN Deltas(l.moves, c[2], c[3]) ELSE 0) /\ due \in Int
  <2>1. l.moves \in SUBSET Item /\ IsFiniteSet(l.moves)
    BY DEF Shaped
  <2>2. Total(Changed(MovesAt(l.moves, c)), MovesAt(l.moves, c))
          = IF c[1] = "actual" THEN Deltas(l.moves, c[2], c[3]) ELSE 0
    BY <2>1, AtMoves
  <2>3. Total(Changed(M), M) = due
    BY AtMoves
  <2>4. due \in Int
    BY DeltasInt
  <2> QED BY <1>8, <2>2, <2>3, <2>4
<1>10. Own(l, c) = value - due /\ value \in Int
  <2>1. value \in Int
    BY OwnInt
  <2>2. Own(l, c) = value - (IF c[1] = "actual" THEN Deltas(l.moves, c[2], c[3]) ELSE 0)
    BY DEF Own
  <2> QED BY <1>9, <2>1, <2>2
<1>11. c \notin Sources(l) => value = 0 /\ M = {} /\ c \notin DOMAIN l.cells
  <2> SUFFICES ASSUME c \notin Sources(l) PROVE value = 0 /\ M = {} /\ c \notin DOMAIN l.cells
    OBVIOUS
  <2>1. c \notin DOMAIN l.cells /\ c \notin Explained(l)
    BY DEF Sources
  <2>2. value = 0
    BY <1>0, <2>1 DEF Cell
  <2>3. ASSUME NEW x \in MovesAt(l.moves, c) PROVE FALSE
    BY <2>1, <2>3 DEF MovesAt, Moving, Explained
  <2> QED BY <1>8, <2>1, <2>2, <2>3
<1>12. IsFiniteSet(S) /\ Total(Amounts(S), S) = (IF c \in Sources(l) THEN Own(l, c) ELSE 0)
  <2>1. CASE c \in Sources(l)
    <3>1. S = {new}
      BY <2>1
    <3> HIDE DEF new
    <3>2. Amounts({new})[new] = new.amount /\ Amounts({new})[new] \in Int
      BY <1>4 DEF Amounts
    <3>3. Total(Amounts({new}), {new}) = new.amount /\ IsFiniteSet({new})
      BY <3>2, TotalSingle, FS_Singleton
    <3> QED BY <1>4, <2>1, <3>1, <3>3
  <2>2. CASE c \notin Sources(l)
    <3>1. S = {}
      BY <2>2
    <3>2. Total(Amounts(S), {}) = 0 /\ IsFiniteSet({})
      BY TotalEmpty, FS_EmptySet
    <3> QED BY <2>2, <3>1, <3>2
  <2> QED BY <2>1, <2>2
<1>13. \A p \in S : p.src[1] # "item" /\ p.amount \in Int
  <2>1. new.src[1] # "item" /\ new.amount \in Int
    BY <1>0, <1>4 DEF Rows
  <2> HIDE DEF new
  <2> QED BY <2>1
<1>14. (\E p \in A : p.keep) => c \in DOMAIN l.cells
  <2> SUFFICES ASSUME NEW p \in A, p.keep PROVE c \in DOMAIN l.cells
    OBVIOUS
  <2>1. p \in S
    BY <1>5, <1>7
  <2>2. p = new
    BY <2>1
  <2> HIDE DEF new
  <2> QED BY <1>4, <2>2
<1>15. c \in DOMAIN l.cells => A # {} /\ (l.cells[c] = 0 => \E p \in A : p.keep)
  <2> SUFFICES ASSUME c \in DOMAIN l.cells PROVE A # {} /\ (l.cells[c] = 0 => \E p \in A : p.keep)
    OBVIOUS
  <2>1. new \in S
    BY DEF Sources
  <2>2. new \in A
    BY <1>6, <2>1
  <2> HIDE DEF new, A
  <2> QED BY <1>4, <2>2
<1>16. Weight(A) = value
  <2> HIDE DEF P, A, B, S, M, new, value, due
  <2>1. A = S \cup B /\ S \cap B = {}
    BY <1>5, <1>6, <1>7, <1>13
  <2>2. \A p \in A : p.amount \in Int
    BY <1>7, <1>13, <2>1
  <2>3. IsFiniteSet(A)
    BY <1>8, <1>12, <2>1, FS_Union
  <2>4. Weight(A) = Total(Amounts(A), A)
    BY <2>2, <2>3, WeightIs DEF Amounts
  <2>5. \A p \in S \cup B : Amounts(A)[p] \in Int
    BY <2>1, <2>2 DEF Amounts
  <2>6. Total(Amounts(A), S \cup B) = Total(Amounts(A), S) + Total(Amounts(A), B)
    BY <1>8, <1>12, <2>1, <2>5, TotalUnion
  <2>7. Total(Amounts(A), S) = Total(Amounts(S), S)
    <3>1. \A p \in S : Amounts(S)[p] \in Int /\ Amounts(A)[p] = Amounts(S)[p]
      BY <1>13, <2>1 DEF Amounts
    <3> QED BY <1>12, <3>1, TotalSame
  <2>8. Total(Amounts(A), B) = Total(Amounts(B), B)
    <3>1. \A p \in B : Amounts(B)[p] \in Int /\ Amounts(A)[p] = Amounts(B)[p]
      BY <1>7, <2>1 DEF Amounts
    <3> QED BY <1>8, <3>1, TotalSame
  <2>9. Weight(A) = (IF c \in Sources(l) THEN Own(l, c) ELSE 0) + due
    BY <1>8, <1>12, <2>1, <2>4, <2>6, <2>7, <2>8
  <2>10. CASE c \in Sources(l)
    BY <1>9, <1>10, <2>9, <2>10
  <2>11. CASE c \notin Sources(l)
    <3>1. B = {}
      BY <1>11, <2>11 DEF B
    <3>2. Total(Amounts(B), {}) = 0
      BY TotalEmpty
    <3> QED BY <1>8, <1>11, <2>9, <2>11, <3>1, <3>2
  <2> QED BY <2>10, <2>11
<1> QED BY <1>14, <1>15, <1>16

\* A cell that stays is in the map if it was, with what was in it.
SameCell(f, g, c) == (c \in DOMAIN g <=> c \in DOMAIN f) /\ (c \in DOMAIN f => g[c] = f[c])

LEMMA CellStays ==
  ASSUME NEW l, Shaped(l), NEW from, NEW to, NEW moves \in SUBSET Item, IsFiniteSet(moves), Numbered(moves),
         NEW c \in Rows \X Leaves \X Nat, Stays(l, from, to, moves, c)
  PROVE  SameCell(l.cells, CellsAfter(Pieces(l, from, to, moves)), c)
<1> DEFINE P == Pieces(l, from, to, moves)
           at(x) == {p \in P : p.cell = x}
           sum(x) == Weight(at(x))
           D == {x \in {p.cell : p \in P} : sum(x) # 0 \/ \E p \in at(x) : p.keep}
           A == At(P, c)
           value == Cell(l, c[1], c[2], c[3])
<1>1. CellsAfter(P) = [x \in D |-> sum(x)]
  BY DEF CellsAfter
<1>2. /\ Weight(A) = value
      /\ (\E p \in A : p.keep) => c \in DOMAIN l.cells
      /\ c \in DOMAIN l.cells => A # {} /\ (l.cells[c] = 0 => \E p \in A : p.keep)
  BY StaysSum
<1>3. value = IF c \in DOMAIN l.cells THEN l.cells[c] ELSE 0
  <2>1. c = <<c[1], c[2], c[3]>>
    OBVIOUS
  <2> QED BY <2>1 DEF Cell
<1>4. at(c) = A /\ sum(c) = value
  BY <1>2 DEF At
<1>5. c \in D <=> A # {} /\ (value # 0 \/ \E p \in A : p.keep)
  <2>1. c \in {p.cell : p \in P} <=> A # {}
    BY DEF At
  <2> HIDE DEF P, A, value
  <2> QED BY <1>4, <2>1
<1> HIDE DEF A, value, sum, D, P
<1>6. c \in D <=> c \in DOMAIN l.cells
  <2>1. c \notin DOMAIN l.cells => c \notin D
    BY <1>2, <1>3, <1>5
  <2>2. c \in DOMAIN l.cells => c \in D
    BY <1>2, <1>3, <1>5
  <2> QED BY <2>1, <2>2
<1>7. DOMAIN CellsAfter(P) = D /\ \A x \in D : CellsAfter(P)[x] = sum(x)
  BY <1>1
<1> QED BY <1>3, <1>4, <1>6, <1>7 DEF SameCell, P

\* What is in the closed cycles, and where it is.
LEMMA PastStays ==
  ASSUME NEW from, NEW to, NEW n, Past(from, to, n), NEW l, Shaped(l), InTheMiddle(l), DaysInMiddle(l),
         Placed(l, from), \A y \in MovesAfter(l, from, to) : y.period \in Nat
  PROVE  LET k == from.entries[n].key
             moves == MovesAfter(l, from, to)
         IN  /\ {x \in moves : x.period <= k} = {x \in l.moves : x.period <= k}
             /\ \A c \in Rows \X Leaves \X Nat : c[3] <= k => Stays(l, from, to, moves, c)
<1> DEFINE k == from.entries[n].key
           moves == MovesAfter(l, from, to)
<1>0. n \in DOMAIN from.entries /\ k \in Nat /\ Keys(from) \subseteq Nat /\ from.cycles /\ to.cycles
  <2>1. from.entries \in Seq(Entry) /\ n \in DOMAIN from.entries /\ from.cycles /\ to.cycles
    BY DEF Past, Shared
  <2>2. \A i \in DOMAIN from.entries : from.entries[i].key \in Nat
    <3> TAKE i \in DOMAIN from.entries
    <3>1. from.entries[i] \in Entry
      BY <2>1
    <3> QED BY <3>1 DEF Entry
  <2> QED BY <2>1, <2>2 DEF Keys
<1>1. ASSUME NEW x \in l.moves
      PROVE  /\ x.period \in Nat /\ x \in Item
             /\ x.period <= k => Sending(l, from, to, x) = x
             /\ ~(x.period <= k) => Sending(l, from, to, x).period > k
  <2>1. x \in Item /\ x.period \in Keys(from) /\ (x.date # None => ValidPeriod(from, x))
    BY DEF Shaped, Placed
  <2>2. x.period \div 2 \in Middle
    BY DEF InTheMiddle
  <2>3. x.date # None => x.date \in Days /\ MonthOf(x.date) \in Middle
    BY DEF DaysInMiddle
  <2>4. IF x.period <= k THEN PeriodAfter(l, from, to, x) = x.period ELSE PeriodAfter(l, from, to, x) > k
    BY <2>1, <2>2, <2>3, PastMoves
  <2>5. x.period <= k => Sending(l, from, to, x) = x
    <3> SUFFICES ASSUME x.period <= k PROVE [x EXCEPT !.period = PeriodAfter(l, from, to, x)] = x
      BY DEF Sending
    <3>1. PeriodAfter(l, from, to, x) = x.period
      BY <2>4
    <3>2. [x EXCEPT !.period = x.period] = x
      BY <2>1 DEF Item
    <3> QED BY <3>1, <3>2
  <2>6. Sending(l, from, to, x).period = PeriodAfter(l, from, to, x)
    BY <2>1 DEF Sending, Item
  <2> QED BY <1>0, <2>1, <2>4, <2>5, <2>6
<1>2. moves = {Sending(l, from, to, x) : x \in l.moves}
  BY DEF MovesAfter, Sending
<1> HIDE DEF moves
<1>3. {x \in moves : x.period <= k} = {x \in l.moves : x.period <= k}
  <2>1. ASSUME NEW y \in moves, y.period <= k PROVE y \in l.moves
    <3>1. PICK x \in l.moves : y = Sending(l, from, to, x)
      BY <1>2
    <3>2. x.period <= k
      <4>1. CASE ~(x.period <= k)
        <5>1. y.period > k
          BY <1>1, <3>1, <4>1
        <5>2. y.period \in Nat
          BY DEF moves
        <5> QED BY <1>0, <2>1, <5>1, <5>2
      <4> QED BY <4>1
    <3> QED BY <1>1, <3>1, <3>2
  <2>2. ASSUME NEW x \in l.moves, x.period <= k PROVE x \in moves
    BY <1>1, <1>2, <2>2
  <2> QED BY <2>1, <2>2
<1>4. ASSUME NEW c \in Rows \X Leaves \X Nat, c[3] <= k PROVE Stays(l, from, to, moves, c)
  <2>0. c = <<c[1], c[2], c[3]>> /\ c[3] \in Nat
    OBVIOUS
  <2>1. MovesAt(moves, c) = MovesAt(l.moves, c)
    <3>1. ASSUME NEW x, <<"actual", x.leaf, x.period>> = c PROVE x.period <= k
      <4>1. x.period = c[3]
        BY <3>1
      <4> QED BY <1>4, <4>1
    <3>2. ASSUME NEW x \in MovesAt(moves, c) PROVE x \in MovesAt(l.moves, c)
      <4>1. x \in moves /\ Delta(x) # 0 /\ <<"actual", x.leaf, x.period>> = c
        BY DEF MovesAt, Moving
      <4>2. x \in l.moves
        BY <1>3, <3>1, <4>1
      <4> QED BY <4>1, <4>2 DEF MovesAt, Moving
    <3>3. ASSUME NEW x \in MovesAt(l.moves, c) PROVE x \in MovesAt(moves, c)
      <4>1. x \in l.moves /\ Delta(x) # 0 /\ <<"actual", x.leaf, x.period>> = c
        BY DEF MovesAt, Moving
      <4>2. x \in moves
        BY <1>3, <3>1, <4>1
      <4> QED BY <4>1, <4>2 DEF MovesAt, Moving
    <3> QED BY <3>2, <3>3
  <2>2. ASSUME NEW d \in Sources(l)
        PROVE  ~HasMemory(l, from, to, d) /\ (<<d[1], d[2], Place(l, from, to, d[2], d[3])>> = c <=> d = c)
    <3>1. ~HasMemory(l, from, to, d)
      BY <1>0 DEF HasMemory, Returning
    <3>2. d = <<d[1], d[2], d[3]>> /\ d[3] \in Nat
      BY SourcesHave
    <3>3. d[3] \in Keys(from) /\ d[3] \div 2 \in Middle
      <4>1. CASE d \in DOMAIN l.cells
        BY <4>1 DEF Placed, InTheMiddle
      <4>2. CASE d \in Explained(l)
        <5>1. PICK x \in l.moves : d = <<"actual", x.leaf, x.period>>
          BY <4>2 DEF Explained
        <5>2. x.period \in Keys(from) /\ x.period \div 2 \in Middle /\ d[3] = x.period
          BY <5>1 DEF Placed, InTheMiddle
        <5> QED BY <5>2
      <4> QED BY <4>1, <4>2 DEF Sources
    <3>4. Place(l, from, to, d[2], d[3]) = MapKey(from, to, d[3])
      BY <1>0 DEF Place
    <3>5. d[3] <= k => MapKey(from, to, d[3]) = d[3]
      BY <3>3, PastMapped
    <3>6. d[3] > k => MapKey(from, to, d[3]) > k
      BY <3>3, PastMapped
    <3>7. CASE d[3] <= k
      <4>1. <<d[1], d[2], Place(l, from, to, d[2], d[3])>> = d
        BY <3>2, <3>4, <3>5, <3>7
      <4> QED BY <3>1, <4>1
    <3>8. CASE d[3] > k
      <4>1. d[3] # c[3] /\ Place(l, from, to, d[2], d[3]) # c[3]
        BY <1>0, <1>4, <2>0, <3>2, <3>4, <3>6, <3>8
      <4>2. d # c /\ <<d[1], d[2], Place(l, from, to, d[2], d[3])>> # c
        BY <2>0, <3>2, <4>1
      <4> QED BY <3>1, <4>2
    <3> QED BY <1>0, <3>1, <3>2, <3>7, <3>8
  <2> QED BY <2>1, <2>2 DEF Stays
<1> QED BY <1>3, <1>4 DEF moves

\* A new payday after what is closed keeps the closed cycles as they were.
ClosedStays(l, next, from, to) ==
  /\ next.closed = l.closed
  /\ \A k \in Keys(from) : k <= l.closed => k \in Keys(to) /\ RangeOf(to, k) = RangeOf(from, k)
  /\ ClosedFigures(next) = ClosedFigures(l)
  /\ {x \in next.moves : x.period <= l.closed} = {x \in l.moves : x.period <= l.closed}

LEMMA PastKept ==
  ASSUME NEW from, NEW to, NEW n, Past(from, to, n), NEW l, Shaped(l), InTheMiddle(l), DaysInMiddle(l),
         Placed(l, from), NEW next, next = Relocate(l, from, to), Shaped(next), l.closed # None,
         l.closed = from.entries[n].key
  PROVE  ClosedStays(l, next, from, to)
<1> DEFINE k == l.closed
           moves == MovesAfter(l, from, to)
           P == Pieces(l, from, to, moves)
<1>1. next.moves = moves /\ next.cells = CellsAfter(P) /\ next.closed = MapKey(from, to, k)
  BY RelocateHas
<1>2. moves \in SUBSET Item /\ IsFiniteSet(moves) /\ Numbered(moves) /\ \A y \in moves : y.period \in Nat
  BY <1>1 DEF Shaped, Item, Numbered
<1>3. /\ {x \in moves : x.period <= k} = {x \in l.moves : x.period <= k}
      /\ \A c \in Rows \X Leaves \X Nat : c[3] <= k => Stays(l, from, to, moves, c)
  BY <1>2, PastStays
<1>4. n \in DOMAIN from.entries
  BY DEF Past, Shared
<1>5. k \in Keys(from) /\ k <= from.entries[n].key
  <2>1. from.entries[n] \in Entry
    BY <1>4 DEF Past
  <2>2. from.entries[n].key \in Nat
    BY <2>1 DEF Entry
  <2>3. from.entries[n].key \in Keys(from)
    BY <1>4 DEF Keys
  <2> QED BY <2>2, <2>3
<1>6. next.closed = k
  BY <1>1, <1>5, PastMapped
<1>7. \A j \in Keys(from) : j <= k => j \in Keys(to) /\ RangeOf(to, j) = RangeOf(from, j)
  BY PastKeys
<1>8. ClosedFigures(next) = ClosedFigures(l)
  <2> DEFINE A == {d \in DOMAIN l.cells : d[3] <= k}
             B == {d \in DOMAIN next.cells : d[3] <= k}
  <2>1. ASSUME NEW c \in Rows \X Leaves \X Nat, c[3] <= k PROVE SameCell(l.cells, next.cells, c)
    BY <1>1, <1>2, <1>3, <2>1, CellStays
  <2>2. DOMAIN l.cells \subseteq Rows \X Leaves \X Nat /\ DOMAIN next.cells \subseteq Rows \X Leaves \X Nat
    BY DEF Shaped
  <2>3. A = B /\ \A c \in A : next.cells[c] = l.cells[c]
    BY <2>1, <2>2 DEF SameCell
  <2>4. ClosedFigures(l) = [c \in A |-> l.cells[c]] /\ ClosedFigures(next) = [c \in B |-> next.cells[c]]
    BY <1>6 DEF ClosedFigures
  <2> HIDE DEF A, B
  <2> QED BY <2>3, <2>4
<1> QED BY <1>1, <1>3, <1>6, <1>7, <1>8 DEF ClosedStays

LEMMA ChangeDayKept ==
  ASSUME PlacedInv, ledger.closed \in Keys(calendar), NEW vs \in Asked, ChangeDay(vs), Apply(vs), LedgerInv',
         ledger.closed # None
  PROVE  ClosedStays(ledger, ledger', calendar, calendar')
<1> DEFINE from == calendar
           to == Calendar(vs)
           k == ledger.closed
           end == RangeOf(from, k).end
<1>1. versions # <<>> /\ from = Calendar(versions) /\ Chain(versions) /\ CalendarInv
  BY DEF ChangeDay, PlacedInv, VersionsInv
<1>2. Leads(versions, vs)
  BY <1>1, ChangeLeads
<1>3. Chain(vs) /\ versions \in Seq(Version)
  BY <1>2 DEF Leads, Chain
<1>4. vs # <<>>
  <2>1. Front(vs) = versions
    BY DEF ChangeDay
  <2>2. Front(<<>>) = <<>>
    BY DEF Front
  <2> QED BY <1>1, <2>1, <2>2
<1>5. PICK r \in Version : vs = Append(versions, r)
  BY <1>1, <1>4, AskedHas
<1>6. Last(vs) = r
  <2>1. Len(vs) = Len(versions) + 1 /\ vs[Len(versions) + 1] = r /\ Len(versions) \in Nat
    BY <1>3, <1>5
  <2> QED BY <2>1 DEF Last
<1>7. k \div 2 \in Middle /\ InTheMiddle(ledger) /\ DaysInMiddle(ledger) /\ Shaped(ledger) /\ Placed(ledger, from)
  <2>1. InTheMiddle(ledger) /\ DaysInMiddle(ledger) /\ Shaped(ledger) /\ Placed(ledger, from)
    BY PlacedIs DEF PlacedInv, MiddleOf, LedgerInv
  <2> QED BY <2>1 DEF InTheMiddle
<1>8. r.firstPay > end /\ ClosedAsItWas(to, end)
  <2>1. LET closedEnd == IF k = None THEN None ELSE end IN
        Last(vs).firstPay > closedEnd /\ ClosedAsItWas(to, closedEnd)
    BY DEF ChangeDay
  <2> QED BY <1>6, <2>1
<1>9. PICK n : Shared(from.entries, to.entries, n) /\ from.entries[n].key = k
  <2>1. k \in Keys(Calendar(versions)) /\ end = RangeOf(Calendar(versions), k).end
    BY <1>1
  <2>2. r.firstPay > end /\ ClosedAsItWas(Calendar(vs), end) /\ k \div 2 \in Middle
    BY <1>7, <1>8
  <2> HIDE DEF end, k, from, to
  <2>3. SharedAt(Calendar(versions), Calendar(vs), k)
    BY <1>1, <1>3, <1>5, <2>1, <2>2, PastShared
  <2>4. SharedAt(from, to, k)
    BY <1>1, <2>3 DEF to
  <2> QED BY <2>4 DEF SharedAt
<1>10. Opening(vs) = Opening(versions)
  BY <1>1, <1>2, <1>4, LeadsHas DEF Leads, Opening
<1>11. Past(from, to, n)
  <2>1. /\ from.cycles /\ from.entries \in Seq(Entry) /\ Tiles(from.entries)
        /\ to.cycles /\ to.entries \in Seq(Entry) /\ Tiles(to.entries)
    BY <1>1, <1>3, <1>4, CyclesCalendar
  <2>2. \A j \in Keys(from) : j \div 2 \in Middle => Covered(to, RangeOf(from, j).start)
    BY <1>1, <1>3, <1>4, <1>10, StartCovered
  <2>3. \A d \in Days : MonthOf(d) \in Middle => Covered(from, d) /\ Covered(to, d)
    BY <1>1, <1>3, <1>4, DayCovered
  <2> QED BY <1>9, <2>1, <2>2, <2>3 DEF Past
<1>12. ledger' = Relocate(ledger, from, to) /\ calendar' = to
  BY DEF Apply
<1>13. Shaped(ledger')
  BY DEF LedgerInv
<1> HIDE DEF from, to, k
<1>14. ClosedStays(ledger, ledger', from, to)
  BY <1>7, <1>9, <1>11, <1>12, <1>13, PastKept DEF k
<1> QED BY <1>12, <1>14 DEF from

-----------------------------------------------------------------------------
(* What the first payday leaves in what is closed.                         *)

\* The cycle that the payday of a month opens, on the first payday: what is of a day of
\* the months up to it, or of their paydays, comes no later.
Opened(ws, m) == PeriodOf(Calendar(ws), AnchorDate(m, ws[1]))

LEMMA OpenedHas ==
  ASSUME NEW ws, Chain(ws), Len(ws) = 1, NEW m \in Middle
  PROVE  LET cal == Calendar(ws) IN
         \E n \in DOMAIN cal.entries :
           /\ cal.entries[n].key = Opened(ws, m) /\ Opened(ws, m) \in Nat
           /\ FirstDay[m + 1] <= cal.entries[n].end + 1
           /\ AnchorDate(m, ws[1]) <= cal.entries[n].end
           /\ Opened(ws, m) >= 2 * m
           /\ Covered(cal, AnchorDate(m, ws[1])) /\ AnchorDate(m, ws[1]) \in Nat
<1> DEFINE v == ws[1]
           cal == Calendar(ws)
           a == AnchorDate(m, v)
           last == Len(Lengths) - 1
<1>1. ws # <<>> /\ 1 \in 1 .. Len(ws)
  OBVIOUS
<1>2. v.day \in Nat \ {0} /\ v.policy \in Policies
  BY <1>1, ChainHas
<1>3. /\ 1 \in Months /\ last \in Months /\ m \in Months /\ 1 < m /\ m < last /\ m \in Nat
      /\ \A b \in Months : b \in Nat
  BY EndMonths, MiddleHas, LengthsHave DEF Months
<1>4. Opening(ws) = AnchorDate(1, v) /\ Ending(ws) = AnchorDate(last, v)
  BY <1>1 DEF Opening, Ending
<1>5. cal.entries \in Seq(Entry) /\ Tiles(cal.entries) /\ cal.entries = Entries(ws)
  BY <1>1, CyclesCalendar DEF Calendar
<1>6. Opened(ws, m) = PeriodOf(cal, a)
  BY DEF Opened
<1> HIDE DEF v
<1>7. AnchorDate(1, v) < a /\ a < AnchorDate(last, v)
  BY <1>2, <1>3, AnchorsGrow
<1>8. a \in Nat /\ a \in Days /\ FirstDay[m] <= a /\ AnchorDate(1, v) \in Nat
  BY <1>2, <1>3, AnchorBetween, AnchorDateHas
<1>9. Covered(cal, a)
  <2>1. Opening(ws) <= a /\ a < Ending(ws)
    BY <1>4, <1>7, <1>8
  <2> HIDE DEF a
  <2> QED BY <1>1, <1>8, <2>1, CyclesCalendar DEF Covered
<1>10. PICK n \in DOMAIN cal.entries : cal.entries[n].start <= a /\ a <= cal.entries[n].end
  BY <1>9 DEF Covered
<1> DEFINE e == cal.entries[n]
<1>11. e \in Entry /\ e.key = PeriodOf(cal, a)
  BY <1>5, <1>8, <1>10, EntryIs
<1>12. e.key \in Nat /\ e.start \in Nat /\ e.end \in Nat
  BY <1>11 DEF Entry
<1>13. FirstDay[m + 1] <= e.end + 1
  <2>1. e.end + 1 \in Anchors(ws)
    BY <1>1, <1>5, <1>10, OnAnchors
  <2>2. PICK i \in 1 .. Len(ws), b \in Months : AnchorOf(e.end + 1, ws, i, b)
    BY <2>1, AnchorsAre
  <2>3. e.end + 1 = AnchorDate(b, v)
    <3>1. i = 1
      OBVIOUS
    <3> QED BY <2>2, <3>1 DEF AnchorOf, v
  <2>4. ~(b < m) /\ b # m
    <3>1. b < m => AnchorDate(b, v) < a
      BY <1>2, <1>3, AnchorsGrow
    <3> HIDE DEF e
    <3> QED BY <1>8, <1>10, <1>12, <2>3, <3>1 DEF e
  <2>5. FirstDay[b] <= AnchorDate(b, v)
    BY <1>2, AnchorBetween
  <2>6. FirstDay[m + 1] <= FirstDay[b]
    <3>1. m + 1 \in 1 .. (Len(Lengths) + 1) /\ b \in (m + 1) .. (Len(Lengths) + 1)
      BY <1>3, <2>4, LengthsHave DEF Months
    <3> QED BY <3>1, FirstDaysGrow
  <2>7. FirstDay[m + 1] \in Nat /\ FirstDay[b] \in Nat /\ AnchorDate(b, v) \in Nat
    BY <1>2, MiddleHas, MonthHas, AnchorBetween
  <2> HIDE DEF e
  <2> QED BY <2>3, <2>5, <2>6, <2>7
<1>14. e.key >= 2 * m
  <2>1. e.key \div 2 = MonthOf(e.end)
    BY <1>5, <1>10 DEF Tiles
  <2>2. e.end \in Days
    BY <1>1, <1>10, CyclesCalendar
  <2>3. FirstDay[m] \in Days /\ MonthOf(FirstDay[m]) = m /\ FirstDay[m] \in Nat
    BY <1>3, MonthHas
  <2> HIDE DEF e
  <2>4. FirstDay[m] <= e.end
    BY <1>8, <1>10, <1>12, <2>3 DEF e
  <2>5. m <= MonthOf(e.end)
    <3>1. MonthOf(FirstDay[m]) <= MonthOf(e.end)
      BY <2>2, <2>3, <2>4, MonthsGrow
    <3> QED BY <2>3, <3>1
  <2>6. e.key \div 2 >= m
    BY <2>1, <2>5
  <2> QED BY <1>3, <1>12, <2>6
<1> HIDE DEF a, e
<1>15. /\ cal.entries[n].key = Opened(ws, m) /\ Opened(ws, m) \in Nat
       /\ FirstDay[m + 1] <= cal.entries[n].end + 1 /\ a <= cal.entries[n].end /\ Opened(ws, m) >= 2 * m
  BY <1>6, <1>10, <1>11, <1>12, <1>13, <1>14 DEF e
<1> QED BY <1>8, <1>9, <1>10, <1>15 DEF a, v

LEMMA DayOpened ==
  ASSUME NEW ws, Chain(ws), Len(ws) = 1, NEW m \in Middle, NEW d \in Days, MonthOf(d) \in Middle, MonthOf(d) <= m
  PROVE  PeriodOf(Calendar(ws), d) <= Opened(ws, m)
<1> DEFINE cal == Calendar(ws)
<1>1. PICK n \in DOMAIN cal.entries :
        /\ cal.entries[n].key = Opened(ws, m) /\ Opened(ws, m) \in Nat
        /\ FirstDay[m + 1] <= cal.entries[n].end + 1
  BY OpenedHas
<1>2. ws # <<>> /\ d \in Nat
  BY LastDayHas DEF Days
<1>3. cal.entries \in Seq(Entry) /\ Tiles(cal.entries) /\ Covered(cal, d)
  BY <1>2, CyclesCalendar, DayCovered
<1>4. d < FirstDay[m + 1]
  <2>1. d < FirstDay[MonthOf(d) + 1] /\ MonthOf(d) \in Nat /\ m \in Nat /\ m + 1 <= Len(Lengths)
    BY MonthOfHas, MiddleHas, LengthsHave DEF Months
  <2>2. MonthOf(d) + 1 \in 1 .. (Len(Lengths) + 1) /\ m + 1 \in (MonthOf(d) + 1) .. (Len(Lengths) + 1)
    BY <2>1, LengthsHave
  <2>3. FirstDay[MonthOf(d) + 1] <= FirstDay[m + 1]
    BY <2>2, FirstDaysGrow
  <2>4. FirstDay[MonthOf(d) + 1] \in Nat /\ FirstDay[m + 1] \in Nat
    BY MiddleHas
  <2> QED BY <1>2, <2>1, <2>3, <2>4
<1>5. cal.entries[n].end \in Nat
  <2>1. cal.entries[n] \in Entry
    BY <1>1, <1>3
  <2> QED BY <2>1 DEF Entry
<1>6. d <= cal.entries[n].end
  <2>1. FirstDay[m + 1] \in Nat
    BY MiddleHas
  <2> HIDE DEF cal
  <2> QED BY <1>1, <1>2, <1>4, <1>5, <2>1
<1>7. PeriodOf(cal, d) <= cal.entries[n].key
  BY <1>1, <1>2, <1>3, <1>6, KeyOrder
<1> QED BY <1>1, <1>7

LEMMA PaydayOpened ==
  ASSUME NEW ws, Chain(ws), Len(ws) = 1, NEW m \in Middle, NEW j \in Middle, j <= m
  PROVE  Opened(ws, j) <= Opened(ws, m)
<1> DEFINE cal == Calendar(ws)
           v == ws[1]
           d == AnchorDate(j, v)
<1>1. ws # <<>> /\ 1 \in 1 .. Len(ws)
  OBVIOUS
<1>2. PICK n \in DOMAIN cal.entries :
        /\ cal.entries[n].key = Opened(ws, m) /\ Opened(ws, m) \in Nat
        /\ AnchorDate(m, v) <= cal.entries[n].end /\ AnchorDate(m, v) \in Nat
  BY OpenedHas
<1>3. cal.entries \in Seq(Entry) /\ Tiles(cal.entries)
  BY <1>1, CyclesCalendar
<1>4. Covered(cal, d) /\ d \in Nat
  BY OpenedHas
<1>5. cal.entries[n].end \in Nat
  <2>1. cal.entries[n] \in Entry
    BY <1>2, <1>3
  <2> QED BY <2>1 DEF Entry
<1>6. d <= cal.entries[n].end
  <2>1. v.day \in Nat \ {0} /\ v.policy \in Policies
    BY <1>1, ChainHas
  <2>2. j \in Months /\ m \in Months /\ j \in Nat /\ m \in Nat
    BY MiddleHas
  <2> HIDE DEF v, cal
  <2>3. j < m => d < AnchorDate(m, v)
    BY <2>1, <2>2, AnchorsGrow
  <2>4. j = m => d = AnchorDate(m, v)
    OBVIOUS
  <2> HIDE DEF d
  <2> QED BY <1>2, <1>4, <1>5, <2>2, <2>3, <2>4
<1>7. PeriodOf(cal, d) <= cal.entries[n].key
  BY <1>2, <1>3, <1>4, <1>6, KeyOrder
<1> QED BY <1>2, <1>7 DEF Opened

\* A thing without a day, of a closed month, goes to a closed cycle.
LEMMA DatelessOpened ==
  ASSUME NEW l, Shaped(l), DaysInMiddle(l), NEW ws, Chain(ws), Len(ws) = 1, NEW leaf,
         NEW m \in Middle, NEW j \in Middle, j <= m
  PROVE  PlaceDateless(l, Calendar(ws), leaf, 2 * j) <= Opened(ws, m)
<1> DEFINE to == Calendar(ws)
           k == 2 * j
           T == Tracked(l, leaf)
           at == [x \in T |-> PeriodOf(to, x.date)]
           here == {x \in DOMAIN at : MonthKey(x.date) = k}
           near == [x \in here |-> at[x]]
<1>1. PlaceDateless(l, to, leaf, k)
        = CASE here # {}                  -> Heaviest(near)
            [] here = {} /\ Habitual(at)  -> PeriodOf(to, AnchorDate(k \div 2, to.first))
            [] here = {} /\ ~Habitual(at) -> IF k \in Keys(to) THEN k ELSE PeriodOf(to, FirstDay[k \div 2])
  BY DEF PlaceDateless
<1>2. IsFiniteSet(T) /\ \A x \in T : x.date \in Days /\ MonthOf(x.date) \in Middle /\ x.amount \in Int
  BY TrackedHas
<1>3. Keys(to) \subseteq Nat
  BY RangeHas
<1>4. \A x \in T : at[x] = PeriodOf(to, x.date) /\ at[x] \in Keys(to)
  BY <1>2, DayHasKey
<1>5. DOMAIN at = T /\ here \subseteq T /\ DOMAIN near = here /\ \A x \in here : near[x] = at[x]
  OBVIOUS
<1>6. j \in Nat /\ m \in Nat /\ k \div 2 = j
  BY MiddleHas
<1>7. \A x \in here : 2 * MonthOf(x.date) = 2 * j
  BY DEF MonthKey
<1> HIDE DEF T, at, here, near, to
<1>8. CASE here # {}
  <2>1. IsFiniteSet(DOMAIN near) /\ DOMAIN near # {}
    BY <1>2, <1>5, <1>8, FS_Subset
  <2>2. \A x \in DOMAIN near : near[x] \in Nat /\ x.amount \in Int
    BY <1>2, <1>3, <1>4, <1>5
  <2>3. PICK x \in DOMAIN near : Heaviest(near) = near[x]
    BY <2>1, <2>2, HeaviestIs
  <2>4. near[x] = PeriodOf(to, x.date) /\ x.date \in Days /\ MonthOf(x.date) \in Middle /\ x \in here
    BY <1>2, <1>4, <1>5, <2>3
  <2>5. MonthOf(x.date) <= m
    <3>1. MonthOf(x.date) \in Nat
      BY <2>4, MiddleHas
    <3>2. 2 * MonthOf(x.date) = 2 * j
      BY <1>7, <2>4
    <3> QED BY <1>6, <3>1, <3>2
  <2>6. near[x] <= Opened(ws, m)
    BY <2>4, <2>5, DayOpened DEF to
  <2>7. PlaceDateless(l, to, leaf, k) = Heaviest(near)
    BY <1>1, <1>8
  <2> QED BY <2>3, <2>6, <2>7 DEF to
<1>9. CASE here = {} /\ Habitual(at)
  <2>1. PlaceDateless(l, to, leaf, k) = PeriodOf(to, AnchorDate(j, to.first))
    BY <1>1, <1>6, <1>9
  <2>2. to.first = ws[1]
    <3>1. ws # <<>>
      OBVIOUS
    <3> QED BY <3>1, CyclesCalendar DEF to
  <2>3. PlaceDateless(l, to, leaf, k) = Opened(ws, j)
    BY <2>1, <2>2 DEF Opened, to
  <2> QED BY <2>3, PaydayOpened DEF to
<1>10. CASE here = {} /\ ~Habitual(at)
  <2>1. PlaceDateless(l, to, leaf, k) = IF k \in Keys(to) THEN k ELSE PeriodOf(to, FirstDay[j])
    BY <1>1, <1>6, <1>10
  <2>2. PeriodOf(to, FirstDay[j]) <= Opened(ws, m)
    <3>1. FirstDay[j] \in Days /\ MonthOf(FirstDay[j]) = j
      BY MiddleHas, MonthHas
    <3> QED BY <3>1, DayOpened DEF to
  <2>3. k <= Opened(ws, m)
    <3>1. Opened(ws, m) \in Nat /\ Opened(ws, m) >= 2 * m
      BY OpenedHas
    <3> QED BY <1>6, <3>1
  <2> QED BY <2>1, <2>2, <2>3 DEF to
<1> QED BY <1>8, <1>9, <1>10

\* What is in a closed month, when the first payday comes.
Opens(ws, m, l) ==
  /\ Chain(ws) /\ Len(ws) = 1 /\ m \in Middle
  /\ Shaped(l) /\ InTheMiddle(l) /\ DaysInMiddle(l) /\ Placed(l, Calendar(<<>>)) /\ l.closed = 2 * m

LEMMA OpensHas ==
  ASSUME NEW ws, NEW m, NEW l, Opens(ws, m, l)
  PROVE  LET from == Calendar(<<>>)
             to == Calendar(ws)
             next == Relocate(l, from, to)
         IN  /\ ~from.cycles /\ to.cycles /\ ~Returning(from, to) /\ m \in Nat
             /\ next.closed = Opened(ws, m)
             /\ \A k \in Keys(from) : k \div 2 \in Middle /\ k <= 2 * m => \E j \in Middle : k = 2 * j /\ j <= m
<1> DEFINE from == Calendar(<<>>)
           to == Calendar(ws)
           next == Relocate(l, from, to)
<1>1. Chain(ws) /\ Len(ws) = 1 /\ m \in Middle /\ Shaped(l) /\ l.closed = 2 * m /\ ws # <<>>
  BY DEF Opens
<1>2. ~from.cycles /\ to.cycles /\ to.first = ws[1]
  BY <1>1, CyclesCalendar, MonthsCalendar
<1>3. m \in Nat /\ m # 0 /\ (2 * m) \div 2 = m /\ 2 * m # None
  BY <1>1, MiddleHas DEF None
<1>4. next.closed = MapKey(from, to, 2 * m)
  BY <1>1, <1>3, RelocateHas
<1>5. MapKey(from, to, 2 * m) = Opened(ws, m)
  <2>1. MapKey(from, to, 2 * m) = PeriodOf(to, AnchorDate((2 * m) \div 2, to.first))
    BY <1>2 DEF MapKey
  <2> QED BY <1>2, <1>3, <2>1 DEF Opened
<1>6. ASSUME NEW k \in Keys(from), k \div 2 \in Middle, k <= 2 * m
      PROVE  \E j \in Middle : k = 2 * j /\ j <= m
  <2>1. PICK j \in Months : k = 2 * j
    BY MonthsCalendar
  <2>2. j \in Nat /\ k \div 2 = j
    BY <2>1, MonthHas
  <2> QED BY <1>3, <1>6, <2>1, <2>2
<1> QED BY <1>2, <1>3, <1>4, <1>5, <1>6 DEF Returning

LEMMA OpensMoves ==
  ASSUME NEW ws, NEW m, NEW l, Opens(ws, m, l), NEW x \in l.moves, x.period <= 2 * m
  PROVE  Sending(l, Calendar(<<>>), Calendar(ws), x).period <= Opened(ws, m)
<1> DEFINE from == Calendar(<<>>)
           to == Calendar(ws)
           y == PeriodAfter(l, from, to, x)
<1>1. /\ Chain(ws) /\ Len(ws) = 1 /\ m \in Middle /\ Shaped(l) /\ DaysInMiddle(l)
      /\ x \in Item /\ x.period \in Keys(from) /\ x.period \div 2 \in Middle
      /\ x.date # None => ValidPeriod(from, x) /\ x.date \in Days /\ MonthOf(x.date) \in Middle
  BY DEF Opens, Shaped, InTheMiddle, DaysInMiddle, Placed
<1>2. ~from.cycles /\ to.cycles /\ ~Returning(from, to)
  BY OpensHas
<1>3. PICK j \in Middle : x.period = 2 * j /\ j <= m
  BY <1>1, OpensHas
<1>4. Sending(l, from, to, x).period = y
  BY <1>1 DEF Sending, Item
<1>5. CASE x.date # None
  <2>1. y = PeriodOf(to, x.date)
    BY <1>2, <1>5 DEF PeriodAfter, None
  <2>2. x.period = 2 * MonthOf(x.date)
    <3>1. ProposeOpening(from, x.date) = None
      BY <1>2 DEF ProposeOpening
    <3>2. x.period # None
      BY <1>3, MiddleHas DEF None
    <3>3. x.period = PeriodOf(from, x.date)
      BY <1>1, <1>5, <3>1, <3>2 DEF ValidPeriod
    <3>4. PeriodOf(from, x.date) = MonthKey(x.date)
      BY <1>1, <1>5, MiddleHas, MonthsCalendar
    <3> QED BY <3>3, <3>4 DEF MonthKey
  <2>3. MonthOf(x.date) <= m
    <3>1. MonthOf(x.date) \in Nat /\ j \in Nat /\ m \in Nat
      BY <1>1, <1>5, MiddleHas
    <3> QED BY <1>3, <2>2, <3>1
  <2> QED BY <1>1, <1>4, <1>5, <2>1, <2>3, DayOpened
<1>6. CASE x.date = None
  <2>1. y = PlaceDateless(l, to, x.leaf, x.period)
    BY <1>2, <1>6 DEF PeriodAfter, Place
  <2> QED BY <1>1, <1>3, <1>4, <2>1, DatelessOpened
<1> QED BY <1>5, <1>6

\* A part of what is placed.
LEMMA CellsUpTo ==
  ASSUME NEW P, NEW k
  PROVE  CellsAfter({p \in P : p.cell[3] <= k})
           = [c \in {d \in DOMAIN CellsAfter(P) : d[3] <= k} |-> CellsAfter(P)[c]]
<1> DEFINE Q == {p \in P : p.cell[3] <= k}
           atP(c) == {p \in P : p.cell = c}
           atQ(c) == {p \in Q : p.cell = c}
           D == {c \in {p.cell : p \in P} : Weight(atP(c)) # 0 \/ \E p \in atP(c) : p.keep}
           E == {c \in {p.cell : p \in Q} : Weight(atQ(c)) # 0 \/ \E p \in atQ(c) : p.keep}
           F == {c \in D : c[3] <= k}
<1>1. CellsAfter(P) = [c \in D |-> Weight(atP(c))] /\ CellsAfter(Q) = [c \in E |-> Weight(atQ(c))]
  BY DEF CellsAfter
<1>2. \A c : c[3] <= k => atQ(c) = atP(c)
  OBVIOUS
<1>3. \A c \in E : c[3] <= k
  OBVIOUS
<1>4. \A c : c[3] <= k => (c \in {p.cell : p \in Q} <=> c \in {p.cell : p \in P})
  OBVIOUS
<1>5. E = F
  <2>1. ASSUME NEW c, c[3] <= k PROVE c \in E <=> c \in D
    BY <1>2, <1>4, <2>1
  <2> HIDE DEF E, D
  <2> QED BY <1>3, <2>1
<1>6. [c \in E |-> Weight(atQ(c))] = [c \in F |-> Weight(atP(c))]
  <2>1. \A c \in F : Weight(atQ(c)) = Weight(atP(c))
    BY <1>2
  <2> HIDE DEF E, F, atP, atQ
  <2> QED BY <1>5, <2>1
<1>7. [c \in {d \in DOMAIN CellsAfter(P) : d[3] <= k} |-> CellsAfter(P)[c]] = [c \in F |-> Weight(atP(c))]
  <2> HIDE DEF D, atP
  <2>1. DOMAIN CellsAfter(P) = D /\ \A c \in D : CellsAfter(P)[c] = Weight(atP(c))
    BY <1>1
  <2> QED BY <2>1
<1> QED BY <1>1, <1>6, <1>7

\* Part of some amounts, none below zero, is not more than all of them.
LEMMA TotalOfPart ==
  ASSUME NEW S, IsFiniteSet(S), NEW f, \A x \in S : f[x] \in Nat, NEW T \in SUBSET S
  PROVE  Total(f, T) <= Total(f, S)
<1> DEFINE g == [x \in S |-> IF x \in T THEN f[x] ELSE 0]
<1>1. /\ \A x \in S : f[x] \in Int /\ g[x] \in Int /\ g[x] <= f[x]
      /\ \A x \in S : g[x] = IF x \in T THEN f[x] ELSE 0
  OBVIOUS
<1> HIDE DEF g
<1>2. Total(g, S) = Total(f, T)
  BY <1>1, TotalWithin
<1>3. Total(g, S) <= Total(f, S)
  BY <1>1, TotalMonotone
<1> QED BY <1>2, <1>3

\* What is planned in the closed months is planned in the closed cycles.
RowOf(f, row, leaf) == RowTotal([cells |-> f], row, leaf)

LEMMA OpensRows ==
  ASSUME NEW ws, NEW m, NEW l, Opens(ws, m, l), NEW next, next = Relocate(l, Calendar(<<>>), Calendar(ws)),
         Shaped(next), NEW row \in {"budget", "plan"}, NEW leaf
  PROVE  RowOf(ClosedFigures(next), row, leaf) >= RowOf(ClosedFigures(l), row, leaf)
<1> DEFINE from == Calendar(<<>>)
           to == Calendar(ws)
           k == Opened(ws, m)
           moves == MovesAfter(l, from, to)
           P == Pieces(l, from, to, moves)
           Q == {p \in P : p.cell[3] <= k}
           R == PiecesOf(Q, row, leaf)
           f == ClosedFigures(l)
           C == CellsOf(f, row, leaf)
           A == SentBy(l, from, to, moves, C)
           own == [c \in C |-> Own(l, c)]
<1>1. /\ Chain(ws) /\ Len(ws) = 1 /\ m \in Middle /\ Shaped(l) /\ DaysInMiddle(l)
      /\ l.closed = 2 * m
  BY DEF Opens
<1>2. ~from.cycles /\ to.cycles /\ ~Returning(from, to) /\ next.closed = k
  BY OpensHas
<1>3. next.moves = moves /\ next.cells = CellsAfter(P)
  BY <1>1, RelocateHas
<1>4. moves \in SUBSET Item /\ IsFiniteSet(moves)
  BY <1>3 DEF Shaped
<1>5. IsFiniteSet(P) /\ \A p \in P : p.amount \in Int
  BY <1>1, <1>4, PiecesHave
<1>6. P = (UNION {Sent(l, from, to, moves, c) : c \in Sources(l)}) \cup {Brought(x) : x \in Moving(moves)}
  BY PiecesAre
<1>7. ASSUME NEW c \in Sources(l)
      PROVE  /\ ~HasMemory(l, from, to, c)
             /\ \A p \in Sent(l, from, to, moves, c) :
                  /\ p.cell = <<c[1], c[2], PlaceDateless(l, to, c[2], c[3])>> /\ p.amount = Own(l, c)
  <2>1. ~HasMemory(l, from, to, c)
    BY <1>2 DEF HasMemory
  <2>2. Place(l, from, to, c[2], c[3]) = PlaceDateless(l, to, c[2], c[3])
    BY <1>2 DEF Place
  <2>3. ASSUME NEW p \in Sent(l, from, to, moves, c)
        PROVE  p.cell = <<c[1], c[2], PlaceDateless(l, to, c[2], c[3])>> /\ p.amount = Own(l, c)
    <3>1. p = Piece(c[1], c[2], Place(l, from, to, c[2], c[3]), c, Own(l, c),
                    c \in DOMAIN l.cells /\ l.cells[c] = 0)
      BY <2>1 DEF Sent
    <3> QED BY <2>2, <3>1, PieceHas
  <2> QED BY <2>1, <2>3
<1>8. /\ C \subseteq DOMAIN l.cells
      /\ \A c \in C : c[1] = row /\ c[2] = leaf /\ c[3] <= 2 * m /\ f[c] = l.cells[c]
  BY <1>1 DEF ClosedFigures, CellsOf
<1>9. ASSUME NEW c \in Rows \X Leaves \X Nat, c[1] = row
      PROVE  /\ Own(l, c) \in Nat
             /\ c \in DOMAIN l.cells => Own(l, c) = l.cells[c]
  <2>1. c = <<c[1], c[2], c[3]>>
    OBVIOUS
  <2>2. Own(l, c) = Cell(l, c[1], c[2], c[3])
    <3>1. Cell(l, c[1], c[2], c[3]) \in Int
      BY <1>1, OwnInt
    <3> QED BY <1>9, <3>1 DEF Own
  <2>3. Cell(l, c[1], c[2], c[3]) = IF c \in DOMAIN l.cells THEN l.cells[c] ELSE 0
    BY <2>1 DEF Cell
  <2>4. c \in DOMAIN l.cells => l.cells[c] \in Nat
    BY <1>1 DEF Shaped
  <2> QED BY <2>2, <2>3, <2>4
<1>10. C \in SUBSET Sources(l) /\ C \subseteq Rows \X Leaves \X Nat /\ IsFiniteSet(C)
  <2>1. C \subseteq Sources(l)
    BY <1>8 DEF Sources
  <2> HIDE DEF C
  <2> QED BY <1>1, <2>1, SourcesHave, FS_Subset
<1>11. \A p \in A : p \in R
  <2> TAKE p \in A
  <2>1. PICK c \in C : p \in Sent(l, from, to, moves, c)
    BY DEF SentBy
  <2>2. c \in Sources(l) /\ c \in DOMAIN l.cells /\ c[1] = row /\ c[2] = leaf /\ c[3] <= 2 * m
    BY <1>8, <1>10, <2>1
  <2>3. p.cell = <<row, leaf, PlaceDateless(l, to, leaf, c[3])>>
    BY <1>7, <2>1, <2>2
  <2>4. p \in P
    BY <1>6, <2>1, <2>2
  <2>5. c[3] \in Keys(from) /\ c[3] \div 2 \in Middle
    BY <2>2 DEF Opens, Placed, InTheMiddle
  <2>6. PICK j \in Middle : c[3] = 2 * j /\ j <= m
    BY <2>2, <2>5, OpensHas
  <2>7. PlaceDateless(l, to, leaf, c[3]) <= k
    BY <1>1, <2>6, DatelessOpened
  <2> HIDE DEF P, k, to
  <2> QED BY <2>3, <2>4, <2>7 DEF PiecesOf
<1>12. \A p \in R : p \in P /\ p.amount \in Nat
  <2> TAKE p \in R
  <2>1. p \in P /\ p.cell[1] = row
    BY DEF PiecesOf
  <2>2. CASE \E c \in Sources(l) : p \in Sent(l, from, to, moves, c)
    <3>1. PICK c \in Sources(l) : p \in Sent(l, from, to, moves, c)
      BY <2>2
    <3>2. p.amount = Own(l, c) /\ c[1] = row
      BY <1>7, <2>1, <3>1
    <3>3. c \in Rows \X Leaves \X Nat
      BY <1>1, SourcesHave
    <3> QED BY <1>9, <2>1, <3>2, <3>3
  <2>3. CASE \E x \in Moving(moves) : p = Brought(x)
    <3>1. PICK x \in Moving(moves) : p = Brought(x)
      BY <2>3
    <3>2. p.cell[1] = "actual"
      BY <3>1 DEF Brought, Piece
    <3> QED BY <2>1, <3>2
  <2> QED BY <1>6, <2>1, <2>2, <2>3
<1>13. IsFiniteSet(Q) /\ \A p \in Q : p.amount \in Int
  <2> HIDE DEF P
  <2> QED BY <1>5, FS_Subset
<1>14. RowOf(ClosedFigures(next), row, leaf) = Total(Amounts(R), R)
  <2>1. ClosedFigures(next) = CellsAfter(Q)
    <3>1. ClosedFigures(next) = [c \in {d \in DOMAIN CellsAfter(P) : d[3] <= k} |-> CellsAfter(P)[c]]
      BY <1>2, <1>3 DEF ClosedFigures
    <3> HIDE DEF P, k
    <3> QED BY <3>1, CellsUpTo
  <2>2. RowOf(CellsAfter(Q), row, leaf) = CellSum(CellsAfter(Q), CellsOf(CellsAfter(Q), row, leaf))
    BY DEF RowOf, RowTotal, CellSum, CellsOf
  <2> HIDE DEF Q
  <2>3. CellSum(CellsAfter(Q), CellsOf(CellsAfter(Q), row, leaf)) = Total(Amounts(R), R)
    BY <1>13, RowAfter
  <2> QED BY <2>1, <2>2, <2>3
<1>15. RowOf(f, row, leaf) = Total(Amounts(A), A)
  <2>1. RowOf(f, row, leaf) = CellSum(f, C)
    BY DEF RowOf, RowTotal, CellSum, CellsOf
  <2>2. \A c \in C : f[c] \in Int /\ own[c] \in Int /\ f[c] = own[c]
    <3>1. \A c \in C : own[c] = Own(l, c)
      OBVIOUS
    <3> HIDE DEF C, f, own
    <3>2. \A c \in C : Own(l, c) \in Nat /\ Own(l, c) = l.cells[c]
      BY <1>8, <1>9, <1>10
    <3> QED BY <1>8, <3>1, <3>2
  <2>3. CellSum(f, C) = Total(f, C) /\ Total(f, C) = Total(own, C)
    <3> HIDE DEF C, f, own
    <3> QED BY <1>10, <2>2, CellSumIs, TotalSame
  <2>4. Total(Amounts(A), A) = Total(own, C)
    <3>1. NothingLost(l, from, to, moves, C)
      BY <1>7, <1>10 DEF NothingLost, Nothing
    <3> HIDE DEF C
    <3> QED BY <1>1, <1>4, <1>10, <3>1, SentTotal
  <2> QED BY <2>1, <2>3, <2>4
<1> HIDE DEF A, R, f, C, own
<1>16. Total(Amounts(A), A) <= Total(Amounts(R), R)
  <2>1. A \subseteq R /\ IsFiniteSet(R)
    <3>1. R \subseteq P
      BY <1>12
    <3> HIDE DEF P
    <3> QED BY <1>5, <1>11, <3>1, FS_Subset
  <2>2. \A p \in R : Amounts(R)[p] \in Nat /\ Amounts(R)[p] = p.amount
    BY <1>12 DEF Amounts
  <2>3. Total(Amounts(R), A) <= Total(Amounts(R), R)
    BY <2>1, <2>2, TotalOfPart
  <2>4. IsFiniteSet(A) /\ \A p \in A : Amounts(R)[p] \in Int /\ Amounts(A)[p] = Amounts(R)[p]
    BY <2>1, <2>2, FS_Subset DEF Amounts
  <2>5. Total(Amounts(A), A) = Total(Amounts(R), A)
    BY <2>4, TotalSame
  <2> QED BY <2>3, <2>5
<1>17. Total(Amounts(A), A) \in Int /\ Total(Amounts(R), R) \in Int
  <2>1. A \subseteq R /\ IsFiniteSet(R) /\ \A p \in R : Amounts(R)[p] \in Int
    <3>1. R \subseteq P /\ \A p \in R : Amounts(R)[p] = p.amount
      BY <1>12 DEF Amounts
    <3> HIDE DEF P
    <3> QED BY <1>5, <1>11, <3>1, FS_Subset
  <2>2. IsFiniteSet(A) /\ \A p \in A : Amounts(A)[p] \in Int
    <3>1. \A p \in A : p.amount \in Int
      BY <1>11, <1>12
    <3> QED BY <2>1, <3>1, FS_Subset DEF Amounts
  <2> QED BY <2>1, <2>2, TotalInt
<1> QED BY <1>14, <1>15, <1>16, <1>17 DEF f

\* The first payday leaves what was in the closed months in the closed cycles.
ClosedOpens(l, next) ==
  /\ \A row \in {"budget", "plan"}, leaf \in Leaves :
       RowOf(ClosedFigures(next), row, leaf) >= RowOf(ClosedFigures(l), row, leaf)
  /\ {x.id : x \in {y \in l.moves : y.period <= l.closed}}
       \subseteq {x.id : x \in {y \in next.moves : y.period <= next.closed}}

LEMMA ActivateKept ==
  ASSUME PlacedInv, ledger.closed \in Keys(calendar), NEW vs \in Asked, Activate(vs), Apply(vs), LedgerInv',
         ledger.closed # None
  PROVE  ClosedOpens(ledger, ledger')
<1> DEFINE from == Calendar(<<>>)
           to == Calendar(vs)
           m == ledger.closed \div 2
           next == Relocate(ledger, from, to)
<1>1. versions = <<>> /\ Len(vs) = 1 /\ calendar = from /\ Chain(versions) /\ CalendarInv
  BY DEF Activate, PlacedInv, VersionsInv
<1>2. Chain(vs)
  BY <1>1, ChangeLeads DEF Leads
<1>3. Shaped(ledger) /\ InTheMiddle(ledger) /\ DaysInMiddle(ledger) /\ Placed(ledger, from)
  BY <1>1, PlacedIs DEF PlacedInv, MiddleOf, LedgerInv
<1>4. m \in Middle /\ ledger.closed = 2 * m
  <2>1. m \in Middle
    BY <1>3 DEF InTheMiddle
  <2>2. PICK j \in Months : ledger.closed = 2 * j
    BY <1>1, MonthsCalendar
  <2>3. j \in Nat
    BY MonthHas
  <2> QED BY <2>1, <2>2, <2>3
<1>5. Opens(vs, m, ledger)
  BY <1>1, <1>2, <1>3, <1>4 DEF Opens
<1>6. ledger' = next /\ Shaped(ledger')
  BY <1>1 DEF Apply, LedgerInv
<1> HIDE DEF m
<1>7. \A row \in {"budget", "plan"}, leaf \in Leaves :
        RowOf(ClosedFigures(next), row, leaf) >= RowOf(ClosedFigures(ledger), row, leaf)
  BY <1>5, <1>6, OpensRows
<1>8. {x.id : x \in {y \in ledger.moves : y.period <= ledger.closed}}
        \subseteq {x.id : x \in {y \in next.moves : y.period <= next.closed}}
  <2>1. next.closed = Opened(vs, m)
    BY <1>5, OpensHas
  <2>2. next.moves = {Sending(ledger, from, to, x) : x \in ledger.moves}
    <3>1. next.moves = MovesAfter(ledger, from, to)
      BY <1>3, RelocateHas
    <3> QED BY <3>1 DEF MovesAfter, Sending
  <2>3. ASSUME NEW x \in ledger.moves, x.period <= ledger.closed
        PROVE  \E y \in next.moves : y.period <= next.closed /\ y.id = x.id
    <3> DEFINE y == Sending(ledger, from, to, x)
    <3>1. y.period <= next.closed
      BY <1>4, <1>5, <2>1, <2>3, OpensMoves
    <3>2. y.id = x.id
      <4>1. x \in Item
        BY <1>3 DEF Shaped
      <4>2. SameItem(y, x)
        BY <4>1, SendingHas
      <4> QED BY <4>2 DEF SameItem
    <3>3. y \in next.moves
      BY <2>2
    <3> QED BY <3>1, <3>2, <3>3
  <2> QED BY <2>3
<1>9. ClosedOpens(ledger, next)
  BY <1>7, <1>8 DEF ClosedOpens
<1> QED BY <1>6, <1>9

-----------------------------------------------------------------------------
(* The start and what is closed, through every step.                       *)

\* The start, the last that is closed, and the start to go back to, are of the calendar.
MarkedInv ==
  /\ ledger.start \in Keys(calendar) \cup {None}
  /\ ledger.closed \in Keys(calendar) \cup {None}
  /\ restore \in Keys(Calendar(<<>>)) \cup {None}

LEMMA MarkedInit == Init => MarkedInv
<1> SUFFICES ASSUME Init PROVE MarkedInv
  OBVIOUS
<1>1. calendar = Calendar(<<>>) /\ restore = None
  BY DEF Init
<1>2. PICK u \in Users : ledger \in u.ledgers
  BY DEF Init
<1>3. {ledger.start, ledger.closed} \ {None} \subseteq {2 * m : m \in Middle}
  <2>1. {c[3] : c \in DOMAIN ledger.cells} \cup {x.period : x \in ledger.moves}
          \cup ({ledger.start, ledger.closed} \ {None}) \subseteq {2 * m : m \in Middle}
    BY <1>2, LedgersAssumption
  <2> QED BY <2>1
<1>4. {2 * m : m \in Middle} \subseteq Keys(calendar)
  BY <1>1, MiddleHas, MonthsCalendar
<1> QED BY <1>1, <1>3, <1>4 DEF MarkedInv

\* The keys of a table, and the ones in use, are finitely many.
LEMMA KeysFinite ==
  ASSUME NEW cal, cal.entries \in Seq(Entry)
  PROVE  IsFiniteSet(Keys(cal)) /\ Keys(cal) \subseteq Nat
<1> DEFINE e == cal.entries
           D == DOMAIN e
           f == [i \in D |-> e[i].key]
<1>1. IsFiniteSet(D)
  <2>1. D = 1 .. Len(e) /\ Len(e) \in Nat
    OBVIOUS
  <2> QED BY <2>1, FS_Interval
<1>2. Keys(cal) = {e[i].key : i \in D}
  BY DEF Keys
<1>3. (\A i \in D : f[i] \in Keys(cal)) /\ \A k \in Keys(cal) : \E i \in D : f[i] = k
  BY <1>2
<1>4. \A i \in D : e[i].key \in Nat
  <2> TAKE i \in D
  <2>1. e[i] \in Entry
    OBVIOUS
  <2> QED BY <2>1 DEF Entry
<1> HIDE DEF f, D
<1>5. IsFiniteSet(Keys(cal))
  BY <1>1, <1>3, FiniteImage
<1> QED BY <1>2, <1>4, <1>5

LEMMA UsedFinite ==
  ASSUME NEW l, Shaped(l), NEW cal, Placed(l, cal)
  PROVE  IsFiniteSet(UsedKeys(l)) /\ UsedKeys(l) \subseteq Keys(cal)
<1> DEFINE D == {d \in DOMAIN l.cells : l.cells[d] # 0}
           A == {c[3] : c \in D}
           B == {x.period : x \in l.moves}
           f == [c \in D |-> c[3]]
           g == [x \in l.moves |-> x.period]
<1>1. UsedKeys(l) = A \cup B
  BY DEF UsedKeys
<1>2. A \subseteq Keys(cal) /\ B \subseteq Keys(cal)
  BY DEF Placed
<1>3. (\A c \in D : f[c] \in A) /\ (\A k \in A : \E c \in D : f[c] = k)
      /\ (\A x \in l.moves : g[x] \in B) /\ \A k \in B : \E x \in l.moves : g[x] = k
  OBVIOUS
<1>4. IsFiniteSet(D) /\ IsFiniteSet(l.moves)
  <2>1. D \subseteq DOMAIN l.cells /\ IsFiniteSet(DOMAIN l.cells) /\ IsFiniteSet(l.moves)
    BY DEF Shaped
  <2> HIDE DEF D
  <2> QED BY <2>1, FS_Subset
<1> HIDE DEF A, B, D, f, g
<1>5. IsFiniteSet(A) /\ IsFiniteSet(B)
  BY <1>3, <1>4, FiniteImage
<1> QED BY <1>1, <1>2, <1>5, FS_Union

\* The start goes with what is recorded, or back to where it was.
LEMMA StartMarked ==
  ASSUME PlacedInv, MarkedInv, NEW vs, Leads(versions, vs), NEW next,
         next = Relocate(ledger, calendar, Calendar(vs)), Shaped(next), Placed(next, Calendar(vs))
  PROVE  next.start \in Keys(Calendar(vs)) \cup {None}
<1> DEFINE l == ledger
           from == calendar
           to == Calendar(vs)
           used == UsedKeys(next)
           dates == {x.date : x \in {y \in l.moves : y.date # None}}
           firstDated == IF dates = {} THEN {} ELSE {PeriodOf(to, Min(dates))}
           mapped == IF l.start = None THEN None ELSE MapKey(from, to, l.start)
           hasData == \E k \in UsedKeys(l) \cup {MonthKey(d) : d \in dates} : k = l.start
           candidates == used \cup firstDated
           earlier == IF used # {} /\ mapped # None /\ Min(used) < mapped THEN Min(used) ELSE mapped
           held == candidates \cup (IF ~hasData \/ candidates = {} THEN {mapped} ELSE {})
           K == Keys(to) \cup {None}
<1>1. next.start = StartAfter(l, from, to, used)
  BY RelocateHas DEF PlacedInv, LedgerInv
<1>2. StartAfter(l, from, to, used)
        = CASE ~from.cycles /\ l.start = None -> Oldest(firstDated)
            [] ~from.cycles /\ l.start # None -> Min(held)
            [] Returning(from, to) -> IF restore = None \/ used = {} \/ Min(used) >= restore THEN restore ELSE earlier
            [] from.cycles /\ to.cycles -> earlier
  BY DEF StartAfter
<1>3. /\ from = Calendar(versions) /\ Chain(versions) /\ Chain(vs) /\ Shaped(l)
      /\ InTheMiddle(l) /\ DaysInMiddle(l)
  BY DEF PlacedInv, VersionsInv, Leads, LedgerInv, MiddleOf
<1>4. IsFiniteSet(Keys(to)) /\ Keys(to) \subseteq Nat
  BY <1>3, CalendarHas, KeysFinite
<1>5. IsFiniteSet(used) /\ used \subseteq Keys(to)
  BY UsedFinite
<1>6. firstDated \subseteq Keys(to) /\ IsFiniteSet(firstDated)
  <2>1. CASE dates = {}
    BY <2>1, FS_EmptySet
  <2>2. CASE dates # {}
    <3>1. dates \subseteq Nat /\ \A d \in dates : d \in Days /\ MonthOf(d) \in Middle
      BY <1>3, LastDayHas DEF DaysInMiddle, Days
    <3>2. IsFiniteSet(dates)
      <4> DEFINE D == {y \in l.moves : y.date # None}
                 f == [x \in D |-> x.date]
      <4>1. (\A x \in D : f[x] \in dates) /\ \A d \in dates : \E x \in D : f[x] = d
        OBVIOUS
      <4>2. IsFiniteSet(l.moves)
        BY <1>3 DEF Shaped
      <4>3. IsFiniteSet(D)
        BY <4>2, FS_Subset
      <4> HIDE DEF D, f, dates
      <4> QED BY <4>1, <4>3, FiniteImage
    <3> HIDE DEF dates
    <3>3. Min(dates) \in dates
      BY <2>2, <3>1, <3>2, FiniteMinMax
    <3>4. PeriodOf(to, Min(dates)) \in Keys(to)
      BY <1>3, <3>1, <3>3, DayHasKey
    <3>5. firstDated = {PeriodOf(to, Min(dates))}
      BY <2>2
    <3> HIDE DEF firstDated
    <3> QED BY <3>4, <3>5, FS_Singleton
  <2> QED BY <2>1, <2>2
<1>7. mapped \in K /\ (l.start # None => mapped \in Keys(to))
  <2>1. CASE l.start = None
    BY <2>1
  <2>2. CASE l.start # None
    <3>1. l.start \in Keys(Calendar(versions)) /\ l.start \div 2 \in Middle
      BY <1>3, <2>2 DEF MarkedInv, InTheMiddle
    <3>2. MapKey(Calendar(versions), Calendar(vs), l.start) \in Keys(Calendar(vs))
      BY <3>1, MapKeyPlaced
    <3> QED BY <1>3, <2>2, <3>2
  <2> QED BY <2>1, <2>2
<1>8. used # {} => Min(used) \in Keys(to)
  <2> HIDE DEF used, to
  <2> QED BY <1>4, <1>5, FiniteMinMax
<1>9. earlier \in K
  <2> HIDE DEF used, mapped
  <2> QED BY <1>7, <1>8
<1>10. Oldest(firstDated) \in K
  <2> HIDE DEF firstDated, to
  <2>1. firstDated # {} => Min(firstDated) \in firstDated
    BY <1>4, <1>6, FiniteMinMax
  <2> QED BY <1>6, <2>1 DEF Oldest
<1>11. l.start # None => Min(held) \in K
  <2> SUFFICES ASSUME l.start # None PROVE Min(held) \in K
    OBVIOUS
  <2> HIDE DEF used, firstDated, mapped, hasData, to
  <2>1. held \subseteq Keys(to) /\ held # {}
    BY <1>5, <1>6, <1>7
  <2> HIDE DEF held
  <2>2. IsFiniteSet(held) /\ held \in SUBSET Nat
    BY <1>4, <2>1, FS_Subset
  <2>3. Min(held) \in held
    BY <2>1, <2>2, FiniteMinMax
  <2> QED BY <2>1, <2>3
<1>12. Returning(from, to) => restore \in K
  <2> SUFFICES ASSUME Returning(from, to) PROVE restore \in K
    OBVIOUS
  <2>1. vs = <<>>
    BY <1>3, CalendarHas DEF Returning
  <2> QED BY <2>1 DEF MarkedInv
<1>13. from.cycles \in BOOLEAN /\ to.cycles \in BOOLEAN
  BY <1>3, CalendarHas
<1> HIDE DEF l, from, to, used, firstDated, held, earlier, K
<1>14. CASE ~from.cycles /\ l.start = None
  <2>1. ~(~from.cycles /\ l.start # None) /\ ~Returning(from, to) /\ ~(from.cycles /\ to.cycles)
    BY <1>14 DEF Returning
  <2>2. StartAfter(l, from, to, used) = Oldest(firstDated)
    BY <1>2, <1>14, <2>1
  <2> QED BY <1>1, <1>10, <2>2 DEF K, to
<1>15. CASE ~from.cycles /\ l.start # None
  <2>1. ~(~from.cycles /\ l.start = None) /\ ~Returning(from, to) /\ ~(from.cycles /\ to.cycles)
    BY <1>15 DEF Returning
  <2>2. StartAfter(l, from, to, used) = Min(held)
    BY <1>2, <1>15, <2>1
  <2> QED BY <1>1, <1>11, <1>15, <2>2 DEF K, to
<1>16. CASE Returning(from, to)
  <2>1. ~(~from.cycles /\ l.start = None) /\ ~(~from.cycles /\ l.start # None) /\ ~(from.cycles /\ to.cycles)
    BY <1>16 DEF Returning
  <2>2. StartAfter(l, from, to, used) = IF restore = None \/ used = {} \/ Min(used) >= restore THEN restore ELSE earlier
    BY <1>2, <1>16, <2>1
  <2> QED BY <1>1, <1>9, <1>12, <1>16, <2>2 DEF K, to
<1>17. CASE from.cycles /\ to.cycles
  <2>1. ~Returning(from, to)
    BY <1>17 DEF Returning
  <2> QED BY <1>1, <1>2, <1>9, <1>17, <2>1 DEF K, to
<1> QED BY <1>13, <1>14, <1>15, <1>16, <1>17 DEF Returning

LEMMA ChangeMarked ==
  ASSUME PlacedInv, MarkedInv, Change, PlacedInv'
  PROVE  MarkedInv'
<1>1. PICK vs \in Asked : (Activate(vs) \/ ChangeDay(vs) \/ Return(vs)) /\ Apply(vs)
  BY DEF Change
<1> DEFINE next == Relocate(ledger, calendar, Calendar(vs))
<1>2. ledger' = next /\ calendar' = Calendar(vs)
  BY <1>1 DEF Apply
<1>3. Leads(versions, vs) /\ calendar = Calendar(versions)
  BY <1>1, ChangeLeads DEF PlacedInv, VersionsInv
<1>4. Shaped(next) /\ Placed(next, Calendar(vs))
  <2>1. Shaped(ledger')
    BY DEF PlacedInv, LedgerInv
  <2>2. Placed(ledger', calendar')
    BY DEF PlacedInv, EverythingPlaced, Placed
  <2> QED BY <1>2, <2>1, <2>2
<1>5. ledger'.start \in Keys(calendar') \cup {None}
  BY <1>2, <1>3, <1>4, StartMarked
<1>6. ledger'.closed \in Keys(calendar') \cup {None}
  <2>1. next.closed = IF ledger.closed = None THEN None ELSE MapKey(calendar, Calendar(vs), ledger.closed)
    BY RelocateHas DEF PlacedInv, LedgerInv
  <2>2. CASE ledger.closed = None
    BY <1>2, <2>1, <2>2
  <2>3. CASE ledger.closed # None
    <3>1. ledger.closed \in Keys(Calendar(versions)) /\ ledger.closed \div 2 \in Middle
      BY <1>3, <2>3 DEF MarkedInv, PlacedInv, MiddleOf, InTheMiddle
    <3>2. MapKey(Calendar(versions), Calendar(vs), ledger.closed) \in Keys(Calendar(vs))
      BY <1>3, <3>1, MapKeyPlaced
    <3> QED BY <1>2, <1>3, <2>1, <2>3, <3>2
  <2> QED BY <2>2, <2>3
<1>7. restore' \in Keys(Calendar(<<>>)) \cup {None}
  <2>1. CASE Activate(vs)
    BY <1>3, <2>1 DEF Activate, MarkedInv
  <2>2. CASE ChangeDay(vs)
    BY <2>2 DEF ChangeDay, MarkedInv
  <2>3. CASE Return(vs)
    BY <2>3 DEF Return
  <2> QED BY <1>1, <2>1, <2>2, <2>3
<1> QED BY <1>5, <1>6, <1>7 DEF MarkedInv

\* What is recorded moves neither mark.
LEMMA RecordMarked ==
  ASSUME PlacedInv, Recorded
  PROVE  ledger'.start = ledger.start /\ ledger'.closed = ledger.closed /\ UNCHANGED <<calendar, restore>>
<1>1. PICK e \in user.entries, k \in {k \in Keys(calendar) : k \div 2 \in user.months} :
        \/ e[1] \in Rows /\ \E v \in 0..1 : TypeCell(e[1], e[2], k, v)
        \/ e[1] \notin Rows
             /\ \E d \in {None} \cup {x \in Days : MonthOf(x) \in user.months} : AddItem(e[1], e[2], d, k)
  BY DEF Recorded
<1>2. ASSUME NEW next, Record(next)
      PROVE  ledger' = next /\ UNCHANGED <<calendar, restore>>
  BY <1>2 DEF Record
<1>3. ledger = [cells |-> ledger.cells, moves |-> ledger.moves, origins |-> ledger.origins,
                start |-> ledger.start, closed |-> ledger.closed]
  BY DEF PlacedInv, LedgerInv, Shaped
<1>4. ASSUME NEW cells, NEW moves
      PROVE  LET r == [ledger EXCEPT !.cells = cells, !.moves = moves] IN
             r.start = ledger.start /\ r.closed = ledger.closed
  BY <1>3
<1>5. ASSUME NEW cells
      PROVE  LET r == [ledger EXCEPT !.cells = cells] IN
             r.start = ledger.start /\ r.closed = ledger.closed
  BY <1>3
<1>6. CASE e[1] \in Rows
  <2>1. PICK v \in 0 .. 1 : TypeCell(e[1], e[2], k, v)
    BY <1>1, <1>6
  <2> DEFINE c == <<e[1], e[2], k>>
             cells == [x \in DOMAIN ledger.cells \cup {c} |-> IF x = c THEN v ELSE ledger.cells[x]]
             next == [ledger EXCEPT !.cells = cells]
  <2>2. Record(next)
    BY <2>1 DEF TypeCell
  <2> HIDE DEF cells
  <2>3. next.start = ledger.start /\ next.closed = ledger.closed
    BY <1>5
  <2> QED BY <1>2, <2>2, <2>3
<1>7. CASE e[1] \notin Rows
  <2>1. PICK d \in {None} \cup {x \in Days : MonthOf(x) \in user.months} : AddItem(e[1], e[2], d, k)
    BY <1>1, <1>7
  <2> DEFINE kind == e[1]
             leaf == e[2]
             id == Min((1..user.size + 1) \ {x.id : x \in ledger.moves})
             amount == CASE kind = "note" -> 0 [] kind = "adjustment" -> -1 [] OTHER -> 1
             x == [id |-> id, kind |-> kind, leaf |-> leaf, date |-> d, period |-> k, amount |-> amount]
             c == <<"actual", leaf, k>>
             v == Cell(ledger, "actual", leaf, k) + Delta(x)
             more == [y \in DOMAIN ledger.cells \cup {c} |-> IF y = c THEN v ELSE ledger.cells[y]]
             cells == IF Delta(x) = 0 THEN ledger.cells ELSE more
             moves == ledger.moves \cup {x}
             next == [ledger EXCEPT !.cells = cells, !.moves = moves]
  <2>2. Record(next)
    BY <2>1 DEF AddItem
  <2> HIDE DEF cells, moves
  <2>3. next.start = ledger.start /\ next.closed = ledger.closed
    BY <1>4
  <2> QED BY <1>2, <2>2, <2>3
<1> QED BY <1>1, <1>6, <1>7

\* What is closed next is a key of the calendar.
LEMMA CloseMarked ==
  ASSUME PlacedInv, MarkedInv, Close
  PROVE  MarkedInv'
<1> DEFINE next == IF ledger.closed # None THEN {k \in Keys(calendar) : k > ledger.closed}
                   ELSE IF ledger.start # None THEN {ledger.start} ELSE UsedKeys(ledger)
<1>1. /\ next # {} /\ ledger' = [ledger EXCEPT !.closed = Min(next)]
      /\ UNCHANGED <<calendar, restore>>
  BY DEF Close
<1>2. Shaped(ledger) /\ Placed(ledger, calendar) /\ calendar.entries \in Seq(Entry)
  BY PlacedIs DEF PlacedInv, LedgerInv, CalendarInv
<1>3. IsFiniteSet(Keys(calendar)) /\ Keys(calendar) \subseteq Nat
  BY <1>2, KeysFinite
<1>4. UsedKeys(ledger) \subseteq Keys(calendar)
  BY <1>2, UsedFinite
<1>5. next \subseteq Keys(calendar)
  BY <1>4 DEF MarkedInv
<1> HIDE DEF next
<1>6. IsFiniteSet(next) /\ next \in SUBSET Nat
  BY <1>3, <1>5, FS_Subset
<1>7. Min(next) \in next
  BY <1>1, <1>6, FiniteMinMax
<1>8. ledger'.start = ledger.start /\ ledger'.closed = Min(next)
  BY <1>1, <1>2 DEF Shaped
<1> QED BY <1>1, <1>5, <1>7, <1>8 DEF MarkedInv

LEMMA MarkedNext == PlacedInv /\ MarkedInv /\ [Next]_vars => MarkedInv'
<1> SUFFICES ASSUME PlacedInv, MarkedInv, [Next]_vars PROVE MarkedInv'
  OBVIOUS
<1>1. PlacedInv'
  BY PlacedNext
<1>2. CASE UNCHANGED vars
  BY <1>2 DEF MarkedInv, vars
<1>3. CASE Change
  BY <1>1, <1>3, ChangeMarked
<1>4. CASE Recorded
  BY <1>4, RecordMarked DEF MarkedInv
<1>5. CASE Close
  BY <1>5, CloseMarked
<1> QED BY <1>2, <1>3, <1>4, <1>5 DEF Next, Recorded

\* What a change of calendar must leave of what is closed.
ClosedStep ==
  versions' # versions /\ ledger.closed # None =>
    IF versions # <<>> THEN ClosedStays(ledger, ledger', calendar, calendar') ELSE ClosedOpens(ledger, ledger')

\* What is closed stays closed as it was: a new payday leaves every closed cycle its
\* days, its figures and its movements, which is what planVersionChange refuses a
\* payday for (BG-078, cycles.ts:1127), and once cycles are activated what was planned
\* or moved in a closed month is in a closed cycle.
THEOREM ClosedCyclesStay == Spec => ClosedKept
<1>1. Init => PlacedInv /\ MarkedInv
  BY PlacedInit, MarkedInit
<1>2. PlacedInv /\ MarkedInv /\ [Next]_vars => PlacedInv' /\ MarkedInv'
  BY PlacedNext, MarkedNext
<1>3. PlacedInv /\ MarkedInv /\ [Next]_vars => [ClosedStep]_vars
  <2> SUFFICES ASSUME PlacedInv, MarkedInv, [Next]_vars, versions' # versions, ledger.closed # None
               PROVE  IF versions # <<>> THEN ClosedStays(ledger, ledger', calendar, calendar')
                      ELSE ClosedOpens(ledger, ledger')
    BY DEF ClosedStep
  <2>1. ~UNCHANGED vars
    BY DEF vars
  <2>2. ~Recorded /\ ~Close
    BY RecordedKeeps, CloseKeeps DEF PlacedInv
  <2>3. Change
    BY <2>1, <2>2 DEF Next, Recorded
  <2>4. PICK vs \in Asked : (Activate(vs) \/ ChangeDay(vs) \/ Return(vs)) /\ Apply(vs)
    BY <2>3 DEF Change
  <2>5. LedgerInv'
    BY PlacedNext DEF PlacedInv
  <2>6. ledger.closed \in Keys(calendar)
    BY DEF MarkedInv
  <2>7. CASE Activate(vs)
    <3>1. ClosedOpens(ledger, ledger')
      BY <2>4, <2>5, <2>6, <2>7, ActivateKept
    <3>2. versions = <<>>
      BY <2>7 DEF Activate
    <3> QED BY <3>1, <3>2
  <2>8. CASE ChangeDay(vs)
    <3>1. ClosedStays(ledger, ledger', calendar, calendar')
      BY <2>4, <2>5, <2>6, <2>8, ChangeDayKept
    <3>2. versions # <<>>
      BY <2>8 DEF ChangeDay
    <3> QED BY <3>1, <3>2
  <2>9. ~Return(vs)
    BY DEF Return
  <2> QED BY <2>4, <2>7, <2>8, <2>9
<1>4. [][ClosedStep]_vars => ClosedKept
  BY PTL DEF ClosedStep, ClosedStays, ClosedOpens, RowOf, ClosedKept
<1> QED BY <1>1, <1>2, <1>3, <1>4, PTL DEF Spec

=============================================================================

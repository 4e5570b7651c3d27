--------------------------- MODULE FiniteInduction ---------------------------
(***************************************************************************)
(* Induction over data, with the induction hypothesis stated as a set: over *)
(* the naturals, an interval and the subsets of a finite set. From it, what *)
(* a function defined by recursion satisfies: such a definition is a CHOOSE *)
(* and means something only when a function with that equation exists.      *)
(***************************************************************************)
EXTENDS Integers, Sequences, FiniteSets, TLAPS, WellFoundedInduction, FiniteSetTheorems, FiniteSetsExt,
        Functions

LEMMA NatInd ==
  ASSUME NEW S, 0 \in S, \A n \in Nat : n \in S => n + 1 \in S
  PROVE  \A n \in Nat : n \in S
<1> DEFINE T == Nat \ S
           R == OpToRel(<, Nat)
<1>1. SUFFICES ASSUME T # {} PROVE FALSE
  OBVIOUS
<1>2. IsWellFoundedOn(R, Nat)
  BY NatLessThanWellFounded DEF OpToRel
<1>3. PICK x \in T : \A y \in T : <<y, x>> \notin R
  <2> HIDE DEF R
  <2> QED BY <1>1, <1>2, WFMin
<1>4. \A y \in T : ~(y < x)
  BY <1>3 DEF OpToRel
<1>5. x # 0 /\ x - 1 \in Nat /\ x - 1 < x
  OBVIOUS
<1>6. x - 1 \in S
  BY <1>4, <1>5
<1>7. (x - 1) + 1 \in S
  BY <1>5, <1>6
<1> QED BY <1>7

\* Upwards from a to b.
LEMMA UpTo ==
  ASSUME NEW a \in Int, NEW b \in Int, NEW S,
         a <= b => a \in S,
         \A n \in a .. b : (n \in S /\ n + 1 <= b) => n + 1 \in S
  PROVE  \A n \in a .. b : n \in S
<1> DEFINE T == {k \in Nat : a + k <= b => a + k \in S}
<1>1. 0 \in T
  OBVIOUS
<1>2. ASSUME NEW k \in Nat, k \in T PROVE k + 1 \in T
  <2> SUFFICES ASSUME a + (k + 1) <= b PROVE a + (k + 1) \in S
    OBVIOUS
  <2>1. a + k \in S /\ a + k \in a .. b /\ (a + k) + 1 <= b
    BY <1>2
  <2>2. (a + k) + 1 \in S
    BY <2>1
  <2>3. (a + k) + 1 = a + (k + 1)
    OBVIOUS
  <2> QED BY <2>2, <2>3
<1>3. \A k \in Nat : k \in T
  <2> HIDE DEF T
  <2> QED BY <1>1, <1>2, NatInd
<1> TAKE n \in a .. b
<1>4. n - a \in Nat /\ a + (n - a) = n
  OBVIOUS
<1>5. n - a \in T
  BY <1>3, <1>4
<1> QED BY <1>4, <1>5

LEMMA Least ==
  ASSUME NEW T \in SUBSET Nat, T # {}
  PROVE  \E x \in T : \A y \in T : x <= y
<1> DEFINE S == {n \in Nat : \A k \in 0 .. n : k \notin T}
<1>1. SUFFICES ASSUME \A x \in T : \E y \in T : ~(x <= y) PROVE FALSE
  OBVIOUS
<1>2. 0 \in S
  BY <1>1
<1>3. ASSUME NEW n \in Nat, n \in S PROVE n + 1 \in S
  <2>1. n + 1 \notin T
    BY <1>1, <1>3
  <2> QED BY <1>3, <2>1
<1>4. \A n \in Nat : n \in S
  <2> HIDE DEF S
  <2> QED BY <1>2, <1>3, NatInd
<1>5. PICK x \in T : TRUE
  OBVIOUS
<1>6. x \in S /\ x \in 0 .. x
  BY <1>4
<1> QED BY <1>5, <1>6

\* The greatest and the least element of a set of naturals with a bound.
LEMMA Greatest ==
  ASSUME NEW T \in SUBSET Nat, T # {}, NEW b \in Nat, \A x \in T : x <= b
  PROVE  \E x \in T : \A y \in T : y <= x
<1> DEFINE U == {n \in Nat : \A x \in T : x <= n}
<1>1. b \in U
  OBVIOUS
<1>2. PICK u \in U : \A y \in U : u <= y
  BY <1>1, Least
<1>3. u \in T
  <2> SUFFICES ASSUME u \notin T PROVE FALSE
    OBVIOUS
  <2>1. \A x \in T : x \in Nat /\ x <= u /\ x # u
    OBVIOUS
  <2>2. u - 1 \in Nat
    <3>1. PICK x \in T : TRUE
      OBVIOUS
    <3>2. x \in Nat /\ x < u
      BY <2>1
    <3> QED BY <3>2
  <2>3. u - 1 \in U
    BY <2>1, <2>2
  <2> QED BY <1>2, <2>3
<1> QED BY <1>3

LEMMA MinMax ==
  ASSUME NEW T \in SUBSET Nat, T # {}, NEW b \in Nat, \A x \in T : x <= b
  PROVE  /\ Min(T) \in T /\ \A y \in T : Min(T) <= y
         /\ Max(T) \in T /\ \A y \in T : y <= Max(T)
<1>1. \E x \in T : \A y \in T : x <= y
  BY Least
<1>2. \E x \in T : \A y \in T : x >= y
  BY Greatest
<1> QED BY <1>1, <1>2 DEF Min, Max

-----------------------------------------------------------------------------
(* Functions on an interval defined from the value before.                 *)

\* h starts with v at a, and g gives each value from the one before.
Steps(h, a, b, v, g) == h[a] = v /\ \A n \in (a + 1) .. b : h[n] = g[<<n, h[n - 1]>>]

LEMMA RecursionExists ==
  ASSUME NEW a \in Int, NEW b \in Int, a <= b, NEW V, NEW v \in V,
         NEW g \in [((a + 1) .. b) \X V -> V]
  PROVE  \E h \in [a .. b -> V] : Steps(h, a, b, v, g)
<1> DEFINE Good(n, h) == h[a] = v /\ \A k \in (a + 1) .. n : h[k] = g[<<k, h[k - 1]>>]
           S == {n \in a .. b : \E h \in [a .. n -> V] : Good(n, h)}
<1>1. a \in S
  <2>1. [k \in a .. a |-> v] \in [a .. a -> V] /\ Good(a, [k \in a .. a |-> v])
    OBVIOUS
  <2>2. a \in a .. b
    OBVIOUS
  <2> QED BY <2>1, <2>2
<1>2. ASSUME NEW n \in a .. b, n \in S, n + 1 <= b PROVE n + 1 \in S
  <2>1. PICK h \in [a .. n -> V] : Good(n, h)
    BY <1>2
  <2> DEFINE k == [j \in a .. n + 1 |-> IF j = n + 1 THEN g[<<n + 1, h[n]>>] ELSE h[j]]
  <2>2. n + 1 \in (a + 1) .. b /\ h[n] \in V
    BY <1>2
  <2>3. g[<<n + 1, h[n]>>] \in V
    BY <2>2
  <2>4. k \in [a .. n + 1 -> V]
    BY <2>3
  <2>5. k[a] = v
    BY <2>1
  <2>6. ASSUME NEW j \in (a + 1) .. (n + 1) PROVE k[j] = g[<<j, k[j - 1]>>]
    <3>1. k[j - 1] = h[j - 1]
      OBVIOUS
    <3>2. CASE j = n + 1
      <4>1. j - 1 = n /\ k[j] = g[<<n + 1, h[n]>>]
        BY <3>2
      <4> QED BY <3>1, <3>2, <4>1
    <3>3. CASE j # n + 1
      <4>1. j \in (a + 1) .. n /\ k[j] = h[j]
        BY <3>3
      <4> QED BY <2>1, <3>1, <4>1
    <3> QED BY <3>2, <3>3
  <2> HIDE DEF k
  <2>7. n + 1 \in a .. b /\ Good(n + 1, k)
    BY <1>2, <2>5, <2>6
  <2> QED BY <2>4, <2>7
<1>3. \A n \in a .. b : n \in S
  <2> HIDE DEF S
  <2> QED BY <1>1, <1>2, UpTo
<1>4. b \in S
  BY <1>3
<1> QED BY <1>4 DEF Steps

\* h gives longer and longer sequences, the element added by g from the last one.
Appended(h, b, V, v, g) ==
  /\ h[0] = <<>>
  /\ \A m \in 1 .. b : h[m - 1] \in Seq(V) /\ Len(h[m - 1]) = m - 1 =>
       h[m] = Append(h[m - 1], g[<<m, IF m = 1 THEN v ELSE h[m - 1][m - 1]>>])

\* Each of them has its length.
Lengthening(h, b, V) ==
  h = [m \in 0 .. b |-> h[m]] /\ \A m \in 0 .. b : h[m] \in Seq(V) /\ Len(h[m]) = m

\* The last one: each element comes from the one before.
Chained(s, b, V, v, g) ==
  s \in [1 .. b -> V] /\ \A m \in 1 .. b : s[m] = g[<<m, IF m = 1 THEN v ELSE s[m - 1]>>]

\* Such a function exists.
LEMMA AppendedExists ==
  ASSUME NEW b \in Nat, NEW V, NEW v \in V, NEW g \in [(1 .. b) \X V -> V]
  PROVE  \E h : Lengthening(h, b, V) /\ Appended(h, b, V, v, g)
<1>1. g \in [((0 + 1) .. b) \X V -> V] /\ 0 \in Int /\ b \in Int /\ 0 <= b
  OBVIOUS
<1>2. PICK f \in [0 .. b -> V] : Steps(f, 0, b, v, g)
  BY <1>1, RecursionExists
<1>3. f[0] = v /\ \A m \in 1 .. b : f[m] = g[<<m, f[m - 1]>>]
  BY <1>2 DEF Steps
<1> DEFINE h == [m \in 0 .. b |-> [k \in 1 .. m |-> f[k]]]
<1>4. h[0] = <<>>
  OBVIOUS
<1>5. ASSUME NEW m \in 1 .. b
      PROVE  h[m] = Append(h[m - 1], g[<<m, IF m = 1 THEN v ELSE h[m - 1][m - 1]>>])
  <2> DEFINE s == [k \in 1 .. m - 1 |-> f[k]]
             e == g[<<m, IF m = 1 THEN v ELSE s[m - 1]>>]
  <2>1. h[m - 1] = s /\ h[m] = [k \in 1 .. m |-> f[k]]
    OBVIOUS
  <2>2. \A k \in 1 .. m : f[k] \in V
    OBVIOUS
  <2>3. s \in Seq(V) /\ Len(s) = m - 1
    BY <2>2
  <2>4. e = f[m]
    <3>1. CASE m = 1
      BY <1>3, <3>1
    <3>2. CASE m # 1
      <4>1. s[m - 1] = f[m - 1]
        BY <3>2
      <4> HIDE DEF s
      <4> QED BY <1>3, <3>2, <4>1
    <3> QED BY <3>1, <3>2
  <2>5. \A k \in 1 .. m - 1 : s[k] = f[k]
    OBVIOUS
  <2> HIDE DEF s, e
  <2>6. Append(s, e) = [k \in 1 .. m |-> f[k]]
    <3>1. e \in V
      BY <2>2, <2>4
    <3> DEFINE t == Append(s, e)
    <3>2. t \in Seq(V) /\ Len(t) = m
      BY <2>3, <3>1
    <3>3. \A k \in 1 .. m - 1 : t[k] = s[k]
      BY <2>3, <3>1
    <3>4. t[m] = e
      BY <2>3, <3>1
    <3> HIDE DEF t
    <3>5. \A k \in 1 .. m : t[k] = f[k]
      BY <2>4, <2>5, <3>3, <3>4
    <3>6. t = [k \in 1 .. Len(t) |-> t[k]]
      BY <3>2
    <3> QED BY <3>2, <3>5, <3>6 DEF t
  <2> HIDE DEF h
  <2> QED BY <2>1, <2>6 DEF s, e
<1>6. h = [m \in 0 .. b |-> h[m]]
  OBVIOUS
<1>7. ASSUME NEW m \in 0 .. b PROVE h[m] \in Seq(V) /\ Len(h[m]) = m
  <2>1. h[m] = [k \in 1 .. m |-> f[k]] /\ \A k \in 1 .. m : f[k] \in V
    OBVIOUS
  <2> HIDE DEF h
  <2> QED BY <2>1
<1> HIDE DEF h
<1> QED BY <1>4, <1>5, <1>6, <1>7 DEF Appended, Lengthening

LEMMA AppendedGives ==
  ASSUME NEW b \in Nat, NEW V, NEW v \in V, NEW g \in [(1 .. b) \X V -> V],
         NEW h, Appended(h, b, V, v, g)
  PROVE  Chained(h[b], b, V, v, g)
<1> DEFINE Good(s, m) == /\ s \in Seq(V) /\ Len(s) = m
                         /\ \A k \in 1 .. m : s[k] = g[<<k, IF k = 1 THEN v ELSE s[k - 1]>>]
           S == {m \in 0 .. b : Good(h[m], m)}
<1>1. 0 \in S
  <2>1. h[0] = <<>>
    BY DEF Appended
  <2>2. h[0] \in Seq(V) /\ Len(h[0]) = 0
    BY <2>1
  <2>3. Good(h[0], 0)
    BY <2>2
  <2> HIDE DEF Good
  <2> QED BY <2>3
<1>2. ASSUME NEW n \in 0 .. b, n \in S, n + 1 <= b PROVE n + 1 \in S
  <2> DEFINE s == h[n]
             e == g[<<n + 1, IF n + 1 = 1 THEN v ELSE s[n]>>]
  <2>1. Good(s, n)
    BY <1>2
  <2>2. e \in V
    <3>1. n # 0 => s[n] \in V
      BY <2>1
    <3> HIDE DEF s
    <3> QED BY <1>2, <3>1
  <2>3. h[n + 1] = Append(s, e)
    <3>1. n + 1 \in 1 .. b /\ (n + 1) - 1 = n
      BY <1>2
    <3> QED BY <2>1, <3>1 DEF Appended
  <2> HIDE DEF s, e
  <2> DEFINE t == Append(s, e)
  <2>4. t \in Seq(V) /\ Len(t) = n + 1
    BY <2>1, <2>2
  <2>5. \A k \in 1 .. n : t[k] = s[k]
    BY <2>1, <2>2
  <2>6. t[n + 1] = e
    BY <2>1, <2>2
  <2>8. h[n + 1] = t
    BY <2>3
  <2> HIDE DEF t
  <2>7. ASSUME NEW k \in 1 .. n + 1 PROVE t[k] = g[<<k, IF k = 1 THEN v ELSE t[k - 1]>>]
    <3>1. CASE k = n + 1
      <4>1. n # 0 => t[n] = s[n]
        BY <2>5
      <4>2. t[k] = e
        BY <2>6, <3>1
      <4> QED BY <3>1, <4>1, <4>2 DEF e
    <3>2. CASE k # n + 1
      <4>1. t[k] = s[k] /\ (k # 1 => t[k - 1] = s[k - 1])
        BY <2>5, <3>2
      <4>2. s[k] = g[<<k, IF k = 1 THEN v ELSE s[k - 1]>>]
        BY <2>1, <3>2
      <4> QED BY <4>1, <4>2
    <3> QED BY <3>1, <3>2
  <2> QED BY <1>2, <2>4, <2>7, <2>8
<1>3. \A m \in 0 .. b : m \in S
  <2> HIDE DEF S
  <2> QED BY <1>1, <1>2, UpTo
<1>4. Good(h[b], b)
  BY <1>3
<1> QED BY <1>4 DEF Chained

-----------------------------------------------------------------------------
(* Subsets of a finite set, and sums over them.                            *)

LEMMA SubsetInd ==
  ASSUME NEW S, IsFiniteSet(S), NEW F, {} \in F,
         \A T \in SUBSET S : (T # {} /\ \A x \in T : T \ {x} \in F) => T \in F
  PROVE  \A T \in SUBSET S : T \in F
<1> DEFINE N == {n \in Nat : \A T \in SUBSET S : Cardinality(T) = n => T \in F}
<1>1. \A T \in SUBSET S : IsFiniteSet(T) /\ Cardinality(T) \in Nat /\ (Cardinality(T) = 0 <=> T = {})
  BY FS_Subset, FS_CardinalityType, FS_EmptySet
<1>2. 0 \in N
  BY <1>1, FS_EmptySet
<1>3. ASSUME NEW n \in Nat, n \in N PROVE n + 1 \in N
  <2> SUFFICES ASSUME NEW T \in SUBSET S, Cardinality(T) = n + 1 PROVE T \in F
    OBVIOUS
  <2>1. T # {}
    BY <1>1
  <2>2. ASSUME NEW x \in T PROVE T \ {x} \in F
    <3>1. Cardinality(T \ {x}) = n
      BY <1>1, FS_RemoveElement
    <3> QED BY <1>3, <3>1
  <2> QED BY <2>1, <2>2
<1>4. \A n \in Nat : n \in N
  <2> HIDE DEF N
  <2> QED BY <1>2, <1>3, NatInd
<1> QED BY <1>1, <1>4

Picked(T) == CHOOSE x \in T : TRUE

\* t gives the sum of f over each subset of S, an element at a time.
SumsOf(t, f, S) ==
  t = [T \in SUBSET S |-> IF T = {} THEN 0 ELSE f[Picked(T)] + t[T \ {Picked(T)}]]

Total(f, S) == (CHOOSE t : SumsOf(t, f, S))[S]

LEMMA SumsUnique ==
  ASSUME NEW S, IsFiniteSet(S), NEW f, NEW t, NEW u, SumsOf(t, f, S), SumsOf(u, f, S)
  PROVE  t = u
<1> DEFINE F == {T \in SUBSET S : t[T] = u[T]}
<1>1. {} \in F
  BY DEF SumsOf
<1>2. ASSUME NEW T \in SUBSET S, T # {}, \A x \in T : T \ {x} \in F PROVE T \in F
  <2>1. Picked(T) \in T /\ T \ {Picked(T)} \in SUBSET S
    BY <1>2 DEF Picked
  <2>2. t[T \ {Picked(T)}] = u[T \ {Picked(T)}]
    BY <1>2, <2>1
  <2>3. t[T] = f[Picked(T)] + t[T \ {Picked(T)}] /\ u[T] = f[Picked(T)] + u[T \ {Picked(T)}]
    BY <1>2 DEF SumsOf
  <2> QED BY <2>2, <2>3
<1>3. \A T \in SUBSET S : T \in F
  <2> HIDE DEF F
  <2> QED BY <1>1, <1>2, SubsetInd
<1>4. t = [T \in SUBSET S |-> t[T]] /\ u = [T \in SUBSET S |-> u[T]]
  BY DEF SumsOf
<1> QED BY <1>3, <1>4

LEMMA SumsExist ==
  ASSUME NEW S, IsFiniteSet(S), NEW f, \A x \in S : f[x] \in Int
  PROVE  \E t \in [SUBSET S -> Int] : SumsOf(t, f, S)
<1> DEFINE Level(n) == {T \in SUBSET S : Cardinality(T) <= n}
           Good(t, n) == \A T \in Level(n) :
             t[T] = IF T = {} THEN 0 ELSE f[Picked(T)] + t[T \ {Picked(T)}]
           N == {n \in Nat : \E t \in [Level(n) -> Int] : Good(t, n)}
<1>1. \A T \in SUBSET S : IsFiniteSet(T) /\ Cardinality(T) \in Nat /\ (Cardinality(T) = 0 <=> T = {})
  BY FS_Subset, FS_CardinalityType, FS_EmptySet
<1>2. \A T \in SUBSET S : T # {} =>
        Picked(T) \in T /\ T \ {Picked(T)} \in SUBSET S /\ Cardinality(T \ {Picked(T)}) = Cardinality(T) - 1
  BY <1>1, FS_RemoveElement DEF Picked
<1>3. 0 \in N
  <2>1. \A T \in Level(0) : T = {}
    BY <1>1
  <2>2. [T \in Level(0) |-> 0] \in [Level(0) -> Int] /\ Good([T \in Level(0) |-> 0], 0)
    BY <2>1
  <2> QED BY <2>2
<1>4. ASSUME NEW n \in Nat, n \in N PROVE n + 1 \in N
  <2>1. PICK t \in [Level(n) -> Int] : Good(t, n)
    BY <1>4
  <2> DEFINE u == [T \in Level(n + 1) |-> IF T = {} THEN 0 ELSE f[Picked(T)] + t[T \ {Picked(T)}]]
  <2>2. ASSUME NEW T \in Level(n + 1), T # {}
        PROVE  T \ {Picked(T)} \in Level(n) /\ T \ {Picked(T)} \in Level(n + 1) /\ Picked(T) \in S
    BY <1>1, <1>2, <2>2
  <2>3. u \in [Level(n + 1) -> Int]
    <3>1. ASSUME NEW T \in Level(n + 1), T # {} PROVE f[Picked(T)] + t[T \ {Picked(T)}] \in Int
      <4>1. f[Picked(T)] \in Int /\ t[T \ {Picked(T)}] \in Int
        BY <2>2, <3>1
      <4> QED BY <4>1
    <3> HIDE DEF Level
    <3> QED BY <3>1
  <2>4. ASSUME NEW T \in Level(n) PROVE T \in Level(n + 1) /\ u[T] = t[T]
    <3>1. T \in Level(n + 1)
      BY <1>1
    <3>2. t[T] = IF T = {} THEN 0 ELSE f[Picked(T)] + t[T \ {Picked(T)}]
      BY <2>1
    <3> HIDE DEF Level
    <3> QED BY <3>1, <3>2
  <2>5. Good(u, n + 1)
    <3> SUFFICES ASSUME NEW T \in Level(n + 1)
                 PROVE  u[T] = IF T = {} THEN 0 ELSE f[Picked(T)] + u[T \ {Picked(T)}]
      OBVIOUS
    <3>1. T # {} => u[T \ {Picked(T)}] = t[T \ {Picked(T)}]
      BY <2>2, <2>4
    <3>2. u[T] = IF T = {} THEN 0 ELSE f[Picked(T)] + t[T \ {Picked(T)}]
      OBVIOUS
    <3> HIDE DEF u
    <3> QED BY <3>1, <3>2
  <2> HIDE DEF u, Level, Good
  <2>6. n + 1 \in Nat
    OBVIOUS
  <2> QED BY <2>3, <2>5, <2>6
<1>5. \A n \in Nat : n \in N
  <2> HIDE DEF N
  <2> QED BY <1>3, <1>4, NatInd
<1>6. Cardinality(S) \in Nat /\ Level(Cardinality(S)) = SUBSET S
  <2>1. Cardinality(S) \in Nat
    BY FS_CardinalityType
  <2>2. \A T \in SUBSET S : Cardinality(T) <= Cardinality(S)
    BY FS_Subset
  <2> QED BY <2>1, <2>2
<1>7. PICK t \in [SUBSET S -> Int] : Good(t, Cardinality(S))
  <2> HIDE DEF Level, Good
  <2>1. Cardinality(S) \in N
    BY <1>5, <1>6
  <2> QED BY <1>6, <2>1
<1>8. \A T \in SUBSET S : t[T] = IF T = {} THEN 0 ELSE f[Picked(T)] + t[T \ {Picked(T)}]
  <2> HIDE DEF Level
  <2> QED BY <1>6, <1>7
<1>9. SumsOf(t, f, S)
  BY <1>8 DEF SumsOf
<1> QED BY <1>9

\* Whatever function has the equation of the sums gives the totals, and they are integers.
LEMMA SumsTotal ==
  ASSUME NEW S, IsFiniteSet(S), NEW f, \A x \in S : f[x] \in Int, NEW t, SumsOf(t, f, S)
  PROVE  t \in [SUBSET S -> Int] /\ t[S] = Total(f, S)
<1>1. \E u \in [SUBSET S -> Int] : SumsOf(u, f, S)
  BY SumsExist
<1>2. SumsOf(CHOOSE u : SumsOf(u, f, S), f, S)
  BY <1>1
<1>3. t = CHOOSE u : SumsOf(u, f, S)
  <2> HIDE <1>1
  <2> QED BY <1>2, SumsUnique
<1>4. t \in [SUBSET S -> Int]
  BY <1>1, SumsUnique
<1> QED BY <1>3, <1>4 DEF Total

LEMMA TotalInt ==
  ASSUME NEW S, IsFiniteSet(S), NEW f, \A x \in S : f[x] \in Int
  PROVE  Total(f, S) \in Int
<1>1. PICK t \in [SUBSET S -> Int] : SumsOf(t, f, S)
  BY SumsExist
<1>2. t[S] = Total(f, S) /\ t[S] \in Int
  BY <1>1, SumsTotal
<1> QED BY <1>2

\* The sums over a set hold those over its subsets.
LEMMA TotalPart ==
  ASSUME NEW S, IsFiniteSet(S), NEW f, \A x \in S : f[x] \in Int, NEW t, SumsOf(t, f, S),
         NEW T \in SUBSET S
  PROVE  t[T] = Total(f, T)
<1> DEFINE u == [R \in SUBSET T |-> t[R]]
<1>1. ASSUME NEW R \in SUBSET T
      PROVE  u[R] = IF R = {} THEN 0 ELSE f[Picked(R)] + u[R \ {Picked(R)}]
  <2>1. R \ {Picked(R)} \in SUBSET T /\ R \in SUBSET S
    OBVIOUS
  <2>2. t[R] = IF R = {} THEN 0 ELSE f[Picked(R)] + t[R \ {Picked(R)}]
    BY <2>1 DEF SumsOf
  <2> QED BY <2>1, <2>2
<1>2. SumsOf(u, f, T)
  BY <1>1 DEF SumsOf
<1>3. IsFiniteSet(T) /\ \A x \in T : f[x] \in Int
  BY FS_Subset
<1>4. u[T] = Total(f, T)
  <2> HIDE DEF u
  <2> QED BY <1>2, <1>3, SumsTotal
<1> QED BY <1>4

LEMMA TotalEmpty == ASSUME NEW f PROVE Total(f, {}) = 0
<1>1. IsFiniteSet({}) /\ \A x \in {} : f[x] \in Int
  BY FS_EmptySet
<1>2. PICK t \in [SUBSET {} -> Int] : SumsOf(t, f, {})
  BY <1>1, SumsExist
<1>3. t[{}] = Total(f, {})
  BY <1>1, <1>2, SumsTotal
<1>4. t[{}] = 0
  BY <1>2 DEF SumsOf
<1> QED BY <1>3, <1>4

\* The order in which the elements are taken does not matter.
LEMMA TotalRemove ==
  ASSUME NEW S, IsFiniteSet(S), NEW f, \A x \in S : f[x] \in Int, NEW x \in S
  PROVE  Total(f, S) = f[x] + Total(f, S \ {x})
<1>1. PICK t \in [SUBSET S -> Int] : SumsOf(t, f, S)
  BY SumsExist
<1> DEFINE F == {T \in SUBSET S : \A y \in T : t[T] = f[y] + t[T \ {y}]}
<1>2. {} \in F
  OBVIOUS
<1>3. ASSUME NEW T \in SUBSET S, T # {}, \A y \in T : T \ {y} \in F PROVE T \in F
  <2> DEFINE c == Picked(T)
  <2> SUFFICES ASSUME NEW y \in T PROVE t[T] = f[y] + t[T \ {y}]
    OBVIOUS
  <2>1. c \in T
    BY DEF Picked
  <2>2. t[T] = f[c] + t[T \ {c}]
    BY <1>1, <1>3 DEF SumsOf
  <2> HIDE DEF c
  <2>3. CASE y = c
    BY <2>2, <2>3
  <2>4. CASE y # c
    <3>1. y \in T \ {c} /\ c \in T \ {y} /\ (T \ {c}) \ {y} = (T \ {y}) \ {c}
      BY <2>1, <2>4
    <3>2. t[T \ {c}] = f[y] + t[(T \ {c}) \ {y}]
      BY <1>3, <2>1, <3>1
    <3>3. t[T \ {y}] = f[c] + t[(T \ {y}) \ {c}]
      BY <1>3, <3>1
    <3>4. f[y] \in Int /\ f[c] \in Int /\ t[(T \ {y}) \ {c}] \in Int
      BY <1>1, <2>1
    <3>5. t[T] = f[c] + (f[y] + t[(T \ {y}) \ {c}])
      BY <2>2, <3>1, <3>2
    <3> HIDE <1>1
    <3> QED BY <3>3, <3>4, <3>5
  <2> QED BY <2>3, <2>4
<1>4. \A T \in SUBSET S : T \in F
  <2> HIDE DEF F
  <2> QED BY <1>2, <1>3, SubsetInd
<1>5. t[S] = f[x] + t[S \ {x}]
  BY <1>4
<1>6. t[S] = Total(f, S) /\ t[S \ {x}] = Total(f, S \ {x})
  BY <1>1, TotalPart
<1> QED BY <1>5, <1>6

\* The sum depends on the values on the set only.
LEMMA TotalSame ==
  ASSUME NEW S, IsFiniteSet(S), NEW f, \A x \in S : f[x] \in Int,
         NEW g, \A x \in S : g[x] = f[x]
  PROVE  Total(g, S) = Total(f, S)
<1>1. PICK t \in [SUBSET S -> Int] : SumsOf(t, f, S)
  BY SumsExist
<1>2. ASSUME NEW T \in SUBSET S, T # {} PROVE g[Picked(T)] = f[Picked(T)]
  BY <1>2 DEF Picked
<1>3. ASSUME NEW T \in SUBSET S
      PROVE  t[T] = IF T = {} THEN 0 ELSE g[Picked(T)] + t[T \ {Picked(T)}]
  BY <1>1, <1>2 DEF SumsOf
<1>4. t = [T \in SUBSET S |-> t[T]]
  BY <1>1
<1>5. SumsOf(t, g, S)
  <2> HIDE <1>1
  <2> QED BY <1>3, <1>4 DEF SumsOf
<1>6. Total(g, S) = t[S]
  BY <1>5, SumsTotal
<1>7. Total(f, S) = t[S]
  BY <1>1, SumsTotal
<1> QED BY <1>6, <1>7

LEMMA TotalZero ==
  ASSUME NEW S, IsFiniteSet(S), NEW f, \A x \in S : f[x] = 0
  PROVE  Total(f, S) = 0
<1> DEFINE t == [T \in SUBSET S |-> 0]
<1>1. ASSUME NEW T \in SUBSET S, T # {} PROVE f[Picked(T)] = 0
  BY <1>1 DEF Picked
<1>2. ASSUME NEW T \in SUBSET S
      PROVE  t[T] = IF T = {} THEN 0 ELSE f[Picked(T)] + t[T \ {Picked(T)}]
  <2>1. t[T] = 0 /\ t[T \ {Picked(T)}] = 0
    OBVIOUS
  <2> HIDE DEF t
  <2> QED BY <1>1, <2>1
<1>3. SumsOf(t, f, S)
  BY <1>2 DEF SumsOf
<1>4. t[S] = Total(f, S)
  <2>1. \A x \in S : f[x] \in Int
    OBVIOUS
  <2> HIDE DEF t
  <2> QED BY <1>3, <2>1, SumsTotal
<1> QED BY <1>4

\* Monotone in the values.
LEMMA TotalMonotone ==
  ASSUME NEW S, IsFiniteSet(S), NEW f, \A x \in S : f[x] \in Int,
         NEW g, \A x \in S : g[x] \in Int /\ f[x] <= g[x]
  PROVE  Total(f, S) <= Total(g, S)
<1> DEFINE F == {T \in SUBSET S : Total(f, T) <= Total(g, T)}
<1>1. {} \in F
  BY TotalEmpty
<1>2. ASSUME NEW T \in SUBSET S, T # {}, \A x \in T : T \ {x} \in F PROVE T \in F
  <2>1. PICK x \in T : TRUE
    BY <1>2
  <2>2. IsFiniteSet(T) /\ IsFiniteSet(T \ {x})
    BY FS_Subset
  <2>3. Total(f, T) = f[x] + Total(f, T \ {x}) /\ Total(g, T) = g[x] + Total(g, T \ {x})
    BY <2>2, TotalRemove
  <2>4. Total(f, T \ {x}) \in Int /\ Total(g, T \ {x}) \in Int
    BY <2>2, TotalInt
  <2>5. Total(f, T \ {x}) <= Total(g, T \ {x}) /\ f[x] <= g[x] /\ f[x] \in Int /\ g[x] \in Int
    BY <1>2, <2>1
  <2> HIDE <2>2
  <2> QED BY <2>3, <2>4, <2>5
<1>3. \A T \in SUBSET S : T \in F
  <2> HIDE DEF F
  <2> QED BY <1>1, <1>2, SubsetInd
<1> QED BY <1>3

LEMMA TotalAdd ==
  ASSUME NEW S, IsFiniteSet(S), NEW f, NEW g, NEW h,
         \A x \in S : f[x] \in Int /\ g[x] \in Int /\ h[x] = f[x] + g[x]
  PROVE  Total(h, S) = Total(f, S) + Total(g, S)
<1> DEFINE F == {T \in SUBSET S : Total(h, T) = Total(f, T) + Total(g, T)}
<1>1. {} \in F
  BY TotalEmpty
<1>2. ASSUME NEW T \in SUBSET S, T # {}, \A x \in T : T \ {x} \in F PROVE T \in F
  <2>1. PICK x \in T : TRUE
    BY <1>2
  <2>2. IsFiniteSet(T) /\ IsFiniteSet(T \ {x}) /\ \A y \in T : h[y] \in Int
    BY FS_Subset
  <2>3. Total(f, T) = f[x] + Total(f, T \ {x}) /\ Total(g, T) = g[x] + Total(g, T \ {x})
    BY <2>2, TotalRemove
  <2>4. Total(h, T) = h[x] + Total(h, T \ {x})
    BY <2>2, TotalRemove
  <2>5. Total(f, T \ {x}) \in Int /\ Total(g, T \ {x}) \in Int
    BY <2>2, TotalInt
  <2>6. Total(h, T \ {x}) = Total(f, T \ {x}) + Total(g, T \ {x})
    BY <1>2, <2>1
  <2>7. f[x] \in Int /\ g[x] \in Int /\ h[x] = f[x] + g[x]
    BY <2>1
  <2> HIDE <2>2
  <2> QED BY <2>3, <2>4, <2>5, <2>6, <2>7
<1>3. \A T \in SUBSET S : T \in F
  <2> HIDE DEF F
  <2> QED BY <1>1, <1>2, SubsetInd
<1> QED BY <1>3

\* One value more by d.
LEMMA TotalOne ==
  ASSUME NEW S, IsFiniteSet(S), NEW f, NEW g, NEW x \in S, NEW d \in Int,
         \A y \in S : f[y] \in Int, g[x] = f[x] + d, \A y \in S \ {x} : g[y] = f[y]
  PROVE  Total(g, S) = Total(f, S) + d
<1>1. IsFiniteSet(S \ {x}) /\ \A y \in S : g[y] \in Int
  BY FS_Subset
<1>2. Total(f, S) = f[x] + Total(f, S \ {x}) /\ Total(g, S) = g[x] + Total(g, S \ {x})
  BY <1>1, TotalRemove
<1>3. Total(g, S \ {x}) = Total(f, S \ {x}) /\ Total(f, S \ {x}) \in Int
  BY <1>1, TotalSame, TotalInt
<1> QED BY <1>2, <1>3

\* Each row summed by its columns, or each column by its rows.
LEMMA TotalExchange ==
  ASSUME NEW S, IsFiniteSet(S), NEW R, IsFiniteSet(R), NEW f,
         \A x \in S, y \in R : f[x][y] \in Int
  PROVE  Total([x \in S |-> Total(f[x], R)], S)
           = Total([y \in R |-> Total([x \in S |-> f[x][y]], S)], R)
<1> DEFINE row == [x \in S |-> Total(f[x], R)]
           column(y) == [x \in S |-> f[x][y]]
           columns(T) == [y \in R |-> Total(column(y), T)]
           F == {T \in SUBSET S : Total(row, T) = Total(columns(T), R)}
<1>1. {} \in F
  <2>1. Total(row, {}) = 0
    BY TotalEmpty
  <2>2. \A y \in R : Total(column(y), {}) = 0
    BY TotalEmpty
  <2>3. \A y \in R : columns({})[y] = 0
    BY <2>2
  <2> HIDE DEF columns
  <2>4. Total(columns({}), R) = 0
    BY <2>3, TotalZero
  <2> QED BY <2>1, <2>4
<1>2. ASSUME NEW T \in SUBSET S, T # {}, \A x \in T : T \ {x} \in F PROVE T \in F
  <2>1. PICK x \in T : TRUE
    BY <1>2
  <2>2. IsFiniteSet(T) /\ IsFiniteSet(T \ {x})
    BY FS_Subset
  <2>3. \A z \in S : row[z] \in Int
    <3>1. ASSUME NEW z \in S PROVE Total(f[z], R) \in Int
      BY TotalInt
    <3> QED BY <3>1
  <2>4. Total(row, T) = row[x] + Total(row, T \ {x}) /\ row[x] = Total(f[x], R)
    <3> HIDE DEF row
    <3>1. Total(row, T) = row[x] + Total(row, T \ {x})
      BY <2>2, <2>3, TotalRemove
    <3> QED BY <3>1 DEF row
  <2>5. ASSUME NEW y \in R
        PROVE  /\ f[x][y] \in Int
               /\ columns(T \ {x})[y] \in Int
               /\ columns(T)[y] = f[x][y] + columns(T \ {x})[y]
    <3>1. (\A z \in T : column(y)[z] \in Int) /\ column(y)[x] = f[x][y]
      OBVIOUS
    <3>2. columns(T)[y] = Total(column(y), T) /\ columns(T \ {x})[y] = Total(column(y), T \ {x})
      OBVIOUS
    <3> HIDE DEF column, columns
    <3>3. Total(column(y), T) = column(y)[x] + Total(column(y), T \ {x})
      BY <2>2, <3>1, TotalRemove
    <3>4. Total(column(y), T \ {x}) \in Int
      BY <2>2, <3>1, TotalInt
    <3>5. f[x][y] \in Int
      BY <2>1
    <3> QED BY <3>1, <3>2, <3>3, <3>4, <3>5
  <2> HIDE DEF columns
  <2>6. Total(columns(T), R) = Total(f[x], R) + Total(columns(T \ {x}), R)
    BY <2>5, TotalAdd
  <2>7. Total(row, T \ {x}) = Total(columns(T \ {x}), R)
    BY <1>2, <2>1
  <2> QED BY <2>4, <2>6, <2>7
<1>3. \A T \in SUBSET S : T \in F
  <2> HIDE DEF F
  <2> QED BY <1>1, <1>2, SubsetInd
<1>4. Total(row, S) = Total(columns(S), R)
  BY <1>3
<1> QED BY <1>4

\* What is zero outside a part adds nothing.
LEMMA TotalWithin ==
  ASSUME NEW S, IsFiniteSet(S), NEW f, \A x \in S : f[x] \in Int, NEW T \in SUBSET S,
         NEW g, \A x \in S : g[x] = IF x \in T THEN f[x] ELSE 0
  PROVE  Total(g, S) = Total(f, T)
<1> DEFINE F == {U \in SUBSET S : Total(g, U) = Total(f, U \cap T)}
<1>1. {} \in F
  <2>1. {} \cap T = {}
    OBVIOUS
  <2> QED BY <2>1, TotalEmpty
<1>2. ASSUME NEW U \in SUBSET S, U # {}, \A x \in U : U \ {x} \in F PROVE U \in F
  <2>1. PICK x \in U : TRUE
    BY <1>2
  <2>2. IsFiniteSet(U) /\ IsFiniteSet(U \ {x}) /\ IsFiniteSet(U \cap T) /\ IsFiniteSet((U \ {x}) \cap T)
    BY FS_Subset
  <2>3. Total(g, U) = g[x] + Total(g, U \ {x})
    <3>1. \A y \in U : g[y] \in Int
      OBVIOUS
    <3> QED BY <2>2, <3>1, TotalRemove
  <2>4. Total(g, U \ {x}) = Total(f, (U \ {x}) \cap T)
    BY <1>2, <2>1
  <2>5. Total(f, (U \ {x}) \cap T) \in Int
    BY <2>2, TotalInt
  <2>6. CASE x \in T
    <3>1. x \in U \cap T /\ (U \cap T) \ {x} = (U \ {x}) \cap T
      BY <2>6
    <3>2. Total(f, U \cap T) = f[x] + Total(f, (U \ {x}) \cap T)
      BY <2>2, <3>1, TotalRemove
    <3>3. g[x] = f[x]
      BY <2>6
    <3> QED BY <2>3, <2>4, <3>2, <3>3
  <2>7. CASE x \notin T
    <3>1. U \cap T = (U \ {x}) \cap T
      BY <2>7
    <3>2. g[x] = 0
      BY <2>7
    <3>3. Total(g, U) = Total(f, (U \ {x}) \cap T)
      BY <2>3, <2>4, <2>5, <3>2
    <3> QED BY <3>1, <3>3
  <2> QED BY <2>6, <2>7
<1>3. \A U \in SUBSET S : U \in F
  <2> HIDE DEF F
  <2> QED BY <1>1, <1>2, SubsetInd
<1>4. S \cap T = T
  OBVIOUS
<1> QED BY <1>3, <1>4

\* A set in an order has a last element.
LEMMA LastOne ==
  ASSUME NEW S, IsFiniteSet(S), NEW R,
         \A x, y \in S : x # y => <<x, y>> \in R \/ <<y, x>> \in R,
         \A x, y, z \in S : <<x, y>> \in R /\ <<y, z>> \in R => <<x, z>> \in R,
         NEW T \in SUBSET S, T # {}
  PROVE  \E x \in T : \A y \in T \ {x} : <<y, x>> \in R
<1> DEFINE F == {U \in SUBSET S : U # {} => \E x \in U : \A y \in U \ {x} : <<y, x>> \in R}
<1>1. {} \in F
  OBVIOUS
<1>2. ASSUME NEW U \in SUBSET S, U # {}, \A x \in U : U \ {x} \in F PROVE U \in F
  <2>1. PICK x \in U : TRUE
    BY <1>2
  <2>2. CASE U \ {x} = {}
    BY <2>2
  <2>3. CASE U \ {x} # {}
    <3>1. PICK z \in U \ {x} : \A y \in (U \ {x}) \ {z} : <<y, z>> \in R
      BY <1>2, <2>1, <2>3
    <3>2. CASE <<x, z>> \in R
      <4>1. \A y \in U \ {z} : <<y, z>> \in R
        BY <3>1, <3>2
      <4> QED BY <4>1
    <3>3. CASE <<z, x>> \in R
      <4>1. ASSUME NEW y \in U \ {x} PROVE <<y, x>> \in R
        BY <3>1, <3>3, <2>1
      <4> QED BY <4>1
    <3> QED BY <2>1, <3>1, <3>2, <3>3
  <2> QED BY <2>2, <2>3
<1>3. \A U \in SUBSET S : U \in F
  <2> HIDE DEF F
  <2> QED BY <1>1, <1>2, SubsetInd
<1> QED BY <1>3

\* Where one number alone is not zero, the sum is that number.
LEMMA TotalAlone ==
  ASSUME NEW S, IsFiniteSet(S), NEW x \in S, NEW f, f[x] \in Int, \A y \in S \ {x} : f[y] = 0
  PROVE  Total(f, S) = f[x]
<1>1. \A y \in S : f[y] \in Int
  OBVIOUS
<1>2. Total(f, S) = f[x] + Total(f, S \ {x})
  BY <1>1, TotalRemove
<1>3. IsFiniteSet(S \ {x})
  BY FS_RemoveElement
<1>4. Total(f, S \ {x}) = 0
  BY <1>3, TotalZero
<1> QED BY <1>2, <1>4

\* A sum over one element.
LEMMA TotalSingle ==
  ASSUME NEW x, NEW f, f[x] \in Int
  PROVE  Total(f, {x}) = f[x]
<1>1. IsFiniteSet({x})
  BY FS_Singleton
<1> QED BY <1>1, TotalAlone

\* Grouped by what g says of them, they add up to the same.
LEMMA TotalGrouped ==
  ASSUME NEW S, IsFiniteSet(S), NEW R, IsFiniteSet(R), NEW f, \A x \in S : f[x] \in Int,
         NEW g, \A x \in S : g[x] \in R
  PROVE  Total([y \in R |-> Total(f, {x \in S : g[x] = y})], R) = Total(f, S)
<1> DEFINE M == [x \in S |-> [y \in R |-> IF g[x] = y THEN f[x] ELSE 0]]
           byX == [x \in S |-> Total(M[x], R)]
           ofX(y) == [x \in S |-> M[x][y]]
           byY == [y \in R |-> Total(ofX(y), S)]
           want == [y \in R |-> Total(f, {x \in S : g[x] = y})]
<1>1. \A x \in S, y \in R : M[x][y] \in Int
  OBVIOUS
<1>2. Total(byX, S) = Total(byY, R)
  <2> HIDE DEF M
  <2> QED BY <1>1, TotalExchange
<1>3. \A x \in S : byX[x] = f[x]
  <2> TAKE x \in S
  <2>1. g[x] \in R /\ M[x][g[x]] = f[x] /\ f[x] \in Int /\ \A y \in R \ {g[x]} : M[x][y] = 0
    OBVIOUS
  <2>2. Total(M[x], R) = f[x]
    <3> HIDE DEF M
    <3> QED BY <2>1, TotalAlone
  <2> QED BY <2>2
<1>4. Total(byX, S) = Total(f, S)
  <2> HIDE DEF byX
  <2> QED BY <1>3, TotalSame
<1>5. \A y \in R : byY[y] = want[y]
  <2> TAKE y \in R
  <2> DEFINE T == {x \in S : g[x] = y}
  <2>1. T \in SUBSET S /\ \A x \in S : ofX(y)[x] = IF x \in T THEN f[x] ELSE 0
    OBVIOUS
  <2>2. Total(ofX(y), S) = Total(f, T)
    <3> HIDE DEF T, ofX
    <3> QED BY <2>1, TotalWithin
  <2> QED BY <2>2
<1>6. \A y \in R : want[y] \in Int
  <2> TAKE y \in R
  <2> DEFINE T == {x \in S : g[x] = y}
  <2>1. T \in SUBSET S /\ IsFiniteSet(T) /\ \A x \in T : f[x] \in Int
    BY FS_Subset
  <2>2. Total(f, T) \in Int
    <3> HIDE DEF T
    <3> QED BY <2>1, TotalInt
  <2> QED BY <2>2
<1>7. Total(byY, R) = Total(want, R)
  <2> HIDE DEF byY, want
  <2> QED BY <1>5, <1>6, TotalSame
<1> QED BY <1>2, <1>4, <1>7

\* What goes from one place to another leaves the sum as it was.
LEMMA TotalMoved ==
  ASSUME NEW S, IsFiniteSet(S), NEW f, \A x \in S : f[x] \in Int, NEW a \in S, NEW b \in S, a # b,
         NEW g, g[b] = f[a] + f[b], g[a] = 0, \A x \in S \ {a, b} : g[x] = f[x]
  PROVE  Total(g, S) = Total(f, S)
<1> DEFINE h == [x \in S |-> IF x = b THEN f[a] + f[b] ELSE f[x]]
<1>1. /\ \A x \in S : h[x] \in Int
      /\ h[b] = f[b] + f[a] /\ \A x \in S \ {b} : h[x] = f[x]
      /\ f[a] \in Int /\ -f[a] \in Int
      /\ g[a] = h[a] + (-f[a]) /\ \A x \in S \ {a} : g[x] = h[x]
  OBVIOUS
<1> HIDE DEF h
<1>2. Total(h, S) = Total(f, S) + f[a]
  BY <1>1, TotalOne
<1>3. Total(g, S) = Total(h, S) + (-f[a])
  BY <1>1, TotalOne
<1>4. Total(f, S) \in Int
  BY TotalInt
<1> QED BY <1>1, <1>2, <1>3, <1>4

\* Two finite sets of records, each with its own id: what is in both has the same
\* number in both, and what is only in the first has none.
LEMMA TotalMatched ==
  ASSUME NEW S, IsFiniteSet(S), NEW R, IsFiniteSet(R),
         \A x, y \in S : x.id = y.id => x = y, \A x, y \in R : x.id = y.id => x = y,
         NEW f, \A x \in S : f[x] \in Int,
         NEW g, \A y \in R : \E x \in S : x.id = y.id /\ g[y] = f[x],
         \A x \in S : f[x] = 0 \/ \E y \in R : x.id = y.id
  PROVE  Total(g, R) = Total(f, S)
<1> DEFINE M == [x \in S |-> [y \in R |-> IF x.id = y.id THEN f[x] ELSE 0]]
           byX == [x \in S |-> Total(M[x], R)]
           ofX(y) == [x \in S |-> M[x][y]]
           byY == [y \in R |-> Total(ofX(y), S)]
<1>1. \A x \in S, y \in R : M[x][y] = (IF x.id = y.id THEN f[x] ELSE 0) /\ M[x][y] \in Int
  OBVIOUS
<1>2. Total(byX, S) = Total(byY, R)
  <2>1. \A x \in S, y \in R : M[x][y] \in Int
    BY <1>1
  <2> HIDE DEF M
  <2> QED BY <2>1, TotalExchange
<1>3. \A x \in S : byX[x] = f[x]
  <2> TAKE x \in S
  <2>1. CASE \E y \in R : x.id = y.id
    <3>1. PICK y \in R : x.id = y.id
      BY <2>1
    <3>2. M[x][y] = f[x] /\ M[x][y] \in Int /\ \A z \in R \ {y} : M[x][z] = 0
      <4> HIDE DEF M
      <4> QED BY <3>1, <1>1
    <3>3. Total(M[x], R) = M[x][y]
      <4> HIDE DEF M
      <4> QED BY <3>2, TotalAlone
    <3> QED BY <3>2, <3>3
  <2>2. CASE f[x] = 0
    <3>1. \A z \in R : M[x][z] = 0
      BY <2>2, <1>1
    <3>2. Total(M[x], R) = 0
      <4> HIDE DEF M
      <4> QED BY <3>1, TotalZero
    <3> QED BY <2>2, <3>2
  <2> QED BY <2>1, <2>2
<1>4. Total(byX, S) = Total(f, S)
  <2> HIDE DEF byX
  <2> QED BY <1>3, TotalSame
<1>5. \A y \in R : byY[y] = g[y] /\ g[y] \in Int
  <2> TAKE y \in R
  <2>1. PICK x \in S : x.id = y.id /\ g[y] = f[x]
    OBVIOUS
  <2>2. ofX(y)[x] = f[x] /\ ofX(y)[x] \in Int /\ \A z \in S \ {x} : ofX(y)[z] = 0
    <3>1. \A z \in S : ofX(y)[z] = M[z][y]
      OBVIOUS
    <3> HIDE DEF M, ofX
    <3> QED BY <3>1, <2>1, <1>1
  <2>3. Total(ofX(y), S) = ofX(y)[x]
    <3> HIDE DEF ofX
    <3> QED BY <2>2, TotalAlone
  <2> QED BY <2>1, <2>2, <2>3
<1>6. Total(g, R) = Total(byY, R)
  <2> HIDE DEF byY
  <2> QED BY <1>5, TotalSame
<1> QED BY <1>2, <1>4, <1>6

\* The folds of the library add up the same.
LEMMA SumIsTotal ==
  ASSUME NEW S, IsFiniteSet(S), NEW f, \A x \in S : f[x] \in Int
  PROVE  SumFunctionOnSet(f, S) = Total(f, S) /\ Total(f, S) \in Int
<1> DEFINE body(t) == [T \in SUBSET S |->
             IF T = {} THEN 0
             ELSE LET x == CHOOSE x \in T : TRUE IN f[x] + t[T \ {x}]]
           sum == CHOOSE t : t = body(t)
<1>2. ASSUME NEW t
      PROVE  body(t) = [T \in SUBSET S |-> IF T = {} THEN 0 ELSE f[Picked(T)] + t[T \ {Picked(T)}]]
  BY DEF Picked
<1>3. \E t : t = body(t)
  <2>1. PICK t \in [SUBSET S -> Int] : SumsOf(t, f, S)
    BY SumsExist
  <2> HIDE DEF body
  <2> QED BY <1>2, <2>1 DEF SumsOf
<1>4. sum = body(sum)
  <2> HIDE DEF body
  <2> QED BY <1>3
<1>5. SumsOf(sum, f, S)
  <2> HIDE DEF body, sum
  <2> QED BY <1>2, <1>4 DEF SumsOf
<1>6. sum[S] = Total(f, S) /\ Total(f, S) \in Int
  <2> HIDE DEF body, sum
  <2> QED BY <1>5, SumsTotal, TotalInt
<1>7. SumFunctionOnSet(f, S) = sum[S]
  BY DEF SumFunctionOnSet, FoldFunctionOnSet, MapThenFoldSet
<1> QED BY <1>6, <1>7

\* What a finite set is taken to is finite.
LEMMA FiniteImage ==
  ASSUME NEW S, IsFiniteSet(S), NEW T, NEW f, \A x \in S : f[x] \in T, \A y \in T : \E x \in S : f[x] = y
  PROVE  IsFiniteSet(T)
<1> DEFINE g == [x \in S |-> f[x]]
<1>1. g \in Surjection(S, T)
  BY DEF Surjection
<1> HIDE DEF g
<1> QED BY <1>1, FS_Surjection

=============================================================================

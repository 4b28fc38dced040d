-------------------------- MODULE BillingRulesProofs --------------------------
(***************************************************************************)
(* What the pure functions of @restovyn/business-rules compute, for every  *)
(* input.  A total is a fold, which adds the amounts in an order that is   *)
(* not said.  Induction is by the strict subset ordering, over a set of    *)
(* good subsets in the place of a predicate.                               *)
(***************************************************************************)
EXTENDS BillingRules, FiniteSetTheorems, WellFoundedInduction, TLAPS

\* If a subset is good when all its strict subsets are, then all are.
LEMMA SubsetInduction ==
  ASSUME NEW S, IsFiniteSet(S), NEW Good,
         \A T \in SUBSET S : (\A U \in SUBSET T : U # T => U \in Good) => T \in Good
  PROVE  \A T \in SUBSET S : T \in Good
  <1> DEFINE Bad == {T \in SUBSET S : T \notin Good}
  <1> SUFFICES Bad = {}
    OBVIOUS
  <1>1. FiniteSubsetsOf(S) = SUBSET S
    BY FS_FiniteSubsetsOfFinite
  <1>2. IsWellFoundedOn(StrictSubsetOrdering(S), SUBSET S)
    BY <1>1, FS_StrictSubsetOrderingWellFounded
  <1> SUFFICES ASSUME Bad # {} PROVE FALSE
    OBVIOUS
  <1>3. PICK T \in Bad : \A U \in Bad : <<U, T>> \notin StrictSubsetOrdering(S)
    <2> HIDE DEF Bad
    <2>1. Bad \subseteq SUBSET S
      BY DEF Bad
    <2> QED
      BY <1>2, <2>1, WFMin
  <1>4. ASSUME NEW U \in SUBSET T, U # T PROVE U \in Good
    BY <1>3, <1>4 DEF StrictSubsetOrdering
  <1> QED
    BY <1>4

-----------------------------------------------------------------------------
\* Sums

Pick(s) == CHOOSE x \in s : TRUE

\* The sum of f over S.
SumOn(f, S) == FoldFunctionOnSet(+, 0, f, S)

\* g adds f up over the subsets of S, one element after the other.
Adds(f, S, g) ==
  g = [s \in SUBSET S |-> IF s = {} THEN 0 ELSE f[Pick(s)] + g[s \ {Pick(s)}]]

LEMMA SumDefinition ==
  ASSUME NEW f, NEW S
  PROVE  SumOn(f, S) = (CHOOSE g : Adds(f, S, g))[S]
  BY DEF SumOn, FoldFunctionOnSet, MapThenFoldSet, Adds, Pick

LEMMA TotalIsSum ==
  ASSUME NEW f
  PROVE  TotalOf(f) = SumOn(f, DOMAIN f)
  BY DEF TotalOf, FoldFunction, SumOn

LEMMA PickIsElement ==
  ASSUME NEW s, s # {}
  PROVE  Pick(s) \in s
  BY DEF Pick

LEMMA AddsAgree ==
  ASSUME NEW f, NEW S, IsFiniteSet(S), NEW T \in SUBSET S, NEW g, Adds(f, S, g),
         NEW h, Adds(f, T, h)
  PROVE  \A s \in SUBSET T : g[s] = h[s]
  <1> DEFINE Good == {s \in SUBSET T : g[s] = h[s]}
  <1>1. IsFiniteSet(T)
    BY FS_Subset
  <1>2. ASSUME NEW s \in SUBSET T, \A u \in SUBSET s : u # s => u \in Good
        PROVE  s \in Good
    <2>1. /\ g[s] = IF s = {} THEN 0 ELSE f[Pick(s)] + g[s \ {Pick(s)}]
          /\ h[s] = IF s = {} THEN 0 ELSE f[Pick(s)] + h[s \ {Pick(s)}]
      BY DEF Adds
    <2>2. CASE s = {}
      BY <2>1, <2>2
    <2>3. CASE s # {}
      <3>1. s \ {Pick(s)} \in SUBSET s /\ s \ {Pick(s)} # s
        BY <2>3, PickIsElement
      <3>2. s \ {Pick(s)} \in Good
        BY <1>2, <3>1
      <3> QED
        BY <2>1, <2>3, <3>2
    <2> QED
      BY <2>2, <2>3
  <1>3. \A s \in SUBSET T : s \in Good
    <2> HIDE DEF Good
    <2> QED
      BY <1>1, <1>2, SubsetInduction
  <1> QED
    BY <1>3

LEMMA AddsExists ==
  ASSUME NEW f, NEW S, IsFiniteSet(S)
  PROVE  \E g : Adds(f, S, g)
  <1> DEFINE Good == {T \in SUBSET S : \E g : Adds(f, T, g)}
  <1>1. ASSUME NEW T \in SUBSET S, \A U \in SUBSET T : U # T => U \in Good
        PROVE  T \in Good
    <2> DEFINE Below(s) == SumOn(f, s \ {Pick(s)})
               h == [s \in SUBSET T |-> IF s = {} THEN 0 ELSE f[Pick(s)] + Below(s)]
    <2>1. ASSUME NEW u \in SUBSET T, u # T PROVE h[u] = SumOn(f, u)
      <3> DEFINE g == CHOOSE g : Adds(f, u, g)
                 v == u \ {Pick(u)}
                 k == CHOOSE k : Adds(f, v, k)
      <3>1. Adds(f, u, g) /\ SumOn(f, u) = g[u]
        BY <1>1, <2>1, SumDefinition
      <3>2. g[u] = IF u = {} THEN 0 ELSE f[Pick(u)] + g[v]
        BY <3>1 DEF Adds
      <3>3. CASE u = {}
        BY <3>1, <3>2, <3>3
      <3>4. CASE u # {}
        <4>1. v \in SUBSET T /\ v \in SUBSET u /\ v # T
          BY <3>4, PickIsElement
        <4>2. Adds(f, v, k) /\ SumOn(f, v) = k[v]
          BY <1>1, <4>1, SumDefinition
        <4>3. IsFiniteSet(u)
          BY FS_Subset
        <4>4. g[v] = k[v]
          <5> HIDE DEF g, v, k
          <5> QED
            BY <3>1, <4>1, <4>2, <4>3, AddsAgree
        <4>5. h[u] = f[Pick(u)] + SumOn(f, v)
          BY <3>4
        <4> QED
          BY <3>1, <3>2, <3>4, <4>2, <4>4, <4>5
      <3> QED
        BY <3>3, <3>4
    <2>2. ASSUME NEW s \in SUBSET T
          PROVE  h[s] = IF s = {} THEN 0 ELSE f[Pick(s)] + h[s \ {Pick(s)}]
      <3>1. CASE s = {}
        BY <3>1
      <3>2. CASE s # {}
        <4>1. s \ {Pick(s)} \in SUBSET T /\ s \ {Pick(s)} # T
          BY <3>2, PickIsElement
        <4>2. h[s \ {Pick(s)}] = Below(s)
          BY <2>1, <4>1
        <4>3. h[s] = f[Pick(s)] + Below(s)
          BY <3>2
        <4> QED
          BY <3>2, <4>2, <4>3
      <3> QED
        BY <3>1, <3>2
    <2>3. Adds(f, T, h)
      <3>1. h = [s \in SUBSET T |-> h[s]]
        OBVIOUS
      <3> HIDE DEF h
      <3> QED
        BY <2>2, <3>1 DEF Adds
    <2> QED
      BY <2>3
  <1>2. \A T \in SUBSET S : T \in Good
    <2> HIDE DEF Good
    <2> QED
      BY <1>1, SubsetInduction
  <1> QED
    BY <1>2

\* A sum over a set is one element and the sum over the rest.
LEMMA SumUnfolds ==
  ASSUME NEW f, NEW S, IsFiniteSet(S)
  PROVE  SumOn(f, S) = IF S = {} THEN 0 ELSE f[Pick(S)] + SumOn(f, S \ {Pick(S)})
  <1> DEFINE T == S \ {Pick(S)}
             g == CHOOSE g : Adds(f, S, g)
             h == CHOOSE h : Adds(f, T, h)
  <1>1. IsFiniteSet(T)
    BY FS_Subset, T \subseteq S
  <1>2. Adds(f, S, g) /\ SumOn(f, S) = g[S]
    BY AddsExists, SumDefinition
  <1>3. Adds(f, T, h) /\ SumOn(f, T) = h[T]
    <2> HIDE DEF T
    <2> QED
      BY <1>1, AddsExists, SumDefinition
  <1>4. g[T] = h[T]
    <2>1. T \in SUBSET S
      OBVIOUS
    <2> HIDE DEF g, h, T
    <2> QED
      BY <1>2, <1>3, <2>1, AddsAgree
  <1>5. g[S] = IF S = {} THEN 0 ELSE f[Pick(S)] + g[T]
    BY <1>2 DEF Adds
  <1> QED
    BY <1>2, <1>3, <1>4, <1>5

LEMMA SumType ==
  ASSUME NEW S, IsFiniteSet(S), NEW f, \A x \in S : f[x] \in Nat
  PROVE  SumOn(f, S) \in Nat
  <1> DEFINE Good == {T \in SUBSET S : SumOn(f, T) \in Nat}
  <1>1. ASSUME NEW T \in SUBSET S, \A U \in SUBSET T : U # T => U \in Good
        PROVE  T \in Good
    <2>1. IsFiniteSet(T)
      BY FS_Subset
    <2>2. CASE T = {}
      <3>1. SumOn(f, T) = 0
        BY <2>1, <2>2, SumUnfolds
      <3> QED
        BY <3>1
    <2>3. CASE T # {}
      <3>1. Pick(T) \in S /\ T \ {Pick(T)} \in Good
        BY <1>1, <2>3, PickIsElement
      <3> QED
        BY <2>1, <2>3, <3>1, SumUnfolds
    <2> QED
      BY <2>2, <2>3
  <1>2. \A T \in SUBSET S : T \in Good
    <2> HIDE DEF Good
    <2> QED
      BY <1>1, SubsetInduction
  <1> QED
    BY <1>2

\* It does not matter with which element one starts.
LEMMA SumRemove ==
  ASSUME NEW S, IsFiniteSet(S), NEW f, \A x \in S : f[x] \in Nat, NEW x \in S
  PROVE  SumOn(f, S) = f[x] + SumOn(f, S \ {x})
  <1> DEFINE Good == {T \in SUBSET S : \A y \in T : SumOn(f, T) = f[y] + SumOn(f, T \ {y})}
  <1>1. ASSUME NEW T \in SUBSET S, \A U \in SUBSET T : U # T => U \in Good
        PROVE  T \in Good
    <2> SUFFICES ASSUME NEW y \in T PROVE SumOn(f, T) = f[y] + SumOn(f, T \ {y})
      OBVIOUS
    <2> DEFINE p == Pick(T)
    <2>1. /\ IsFiniteSet(T) /\ IsFiniteSet(T \ {y}) /\ IsFiniteSet(T \ {y, p})
          /\ p \in T
      BY FS_Subset, T \ {y} \subseteq S, T \ {y, p} \subseteq S, PickIsElement
    <2>2. SumOn(f, T) = f[p] + SumOn(f, T \ {p})
      BY <2>1, SumUnfolds
    <2>3. CASE p = y
      BY <2>2, <2>3
    <2>4. CASE p # y
      <3>1. /\ T \ {p} \in Good /\ y \in T \ {p}
            /\ T \ {y} \in Good /\ p \in T \ {y}
        BY <1>1, <2>1, <2>4
      <3>2. (T \ {p}) \ {y} = T \ {y, p} /\ (T \ {y}) \ {p} = T \ {y, p}
        OBVIOUS
      <3>3. /\ SumOn(f, T \ {p}) = f[y] + SumOn(f, T \ {y, p})
            /\ SumOn(f, T \ {y}) = f[p] + SumOn(f, T \ {y, p})
        BY <3>1, <3>2
      <3>4. SumOn(f, T \ {y, p}) \in Nat
        BY <2>1, SumType
      <3>5. f[y] \in Nat /\ f[p] \in Nat
        BY <2>1
      <3> HIDE DEF p
      <3> QED
        BY <2>2, <3>3, <3>4, <3>5
    <2> QED
      BY <2>3, <2>4
  <1>2. \A T \in SUBSET S : T \in Good
    <2> HIDE DEF Good
    <2> QED
      BY <1>1, SubsetInduction
  <1> QED
    BY <1>2

LEMMA SumMonotone ==
  ASSUME NEW S, IsFiniteSet(S), NEW f, NEW g,
         \A x \in S : f[x] \in Nat /\ g[x] \in Nat /\ f[x] <= g[x]
  PROVE  SumOn(f, S) <= SumOn(g, S)
  <1> DEFINE Good == {T \in SUBSET S : SumOn(f, T) <= SumOn(g, T)}
  <1>1. ASSUME NEW T \in SUBSET S, \A U \in SUBSET T : U # T => U \in Good
        PROVE  T \in Good
    <2>1. IsFiniteSet(T)
      BY FS_Subset
    <2>2. CASE T = {}
      <3>1. SumOn(f, T) = 0 /\ SumOn(g, T) = 0
        BY <2>1, <2>2, SumUnfolds
      <3> QED
        BY <3>1
    <2>3. CASE T # {}
      <3> DEFINE p == Pick(T)
                 U == T \ {p}
      <3>1. p \in T /\ U \in Good /\ IsFiniteSet(U)
        BY <1>1, <2>3, PickIsElement, FS_Subset, T \ {p} \subseteq S
      <3>2. SumOn(f, U) \in Nat /\ SumOn(g, U) \in Nat
        BY <3>1, SumType
      <3>3. /\ SumOn(f, T) = f[p] + SumOn(f, U)
            /\ SumOn(g, T) = g[p] + SumOn(g, U)
        BY <2>1, <2>3, SumUnfolds
      <3>4. f[p] \in Nat /\ g[p] \in Nat /\ f[p] <= g[p] /\ SumOn(f, U) <= SumOn(g, U)
        BY <3>1
      <3> HIDE DEF p, U
      <3> QED
        BY <3>2, <3>3, <3>4
    <2> QED
      BY <2>2, <2>3
  <1>2. \A T \in SUBSET S : T \in Good
    <2> HIDE DEF Good
    <2> QED
      BY <1>1, SubsetInduction
  <1> QED
    BY <1>2

\* Elements that count nothing can be left out, and only the amounts matter.
LEMMA SumSame ==
  ASSUME NEW S, IsFiniteSet(S), NEW R \in SUBSET S, NEW f, NEW g,
         \A x \in S : f[x] \in Nat,
         \A x \in R : g[x] = f[x], \A x \in S \ R : f[x] = 0
  PROVE  SumOn(g, R) = SumOn(f, S)
  <1> DEFINE Good == {T \in SUBSET S : SumOn(g, T \cap R) = SumOn(f, T)}
  <1>1. ASSUME NEW T \in SUBSET S, \A U \in SUBSET T : U # T => U \in Good
        PROVE  T \in Good
    <2>1. IsFiniteSet(T) /\ IsFiniteSet(T \cap R)
      BY FS_Subset, T \cap R \subseteq S
    <2>2. CASE T = {}
      BY <2>1, <2>2, SumUnfolds, T \cap R = {}
    <2>3. CASE T # {}
      <3> DEFINE p == Pick(T)
                 U == T \ {p}
      <3>1. p \in T /\ U \in Good /\ IsFiniteSet(U)
        BY <1>1, <2>3, PickIsElement, FS_Subset, T \ {p} \subseteq S
      <3>2. SumOn(f, T) = f[p] + SumOn(f, U) /\ SumOn(f, U) \in Nat
        BY <2>1, <2>3, <3>1, SumUnfolds, SumType
      <3>3. SumOn(f, U) = SumOn(g, U \cap R)
        BY <3>1
      <3>4. CASE p \in R
        <4>1. (T \cap R) \ {p} = U \cap R /\ p \in T \cap R
          BY <3>1, <3>4
        <4>2. \A x \in T \cap R : g[x] \in Nat
          OBVIOUS
        <4>3. SumOn(g, T \cap R) = g[p] + SumOn(g, U \cap R)
          <5> HIDE DEF p, U
          <5> QED
            BY <2>1, <4>1, <4>2, SumRemove
        <4> QED
          BY <3>2, <3>3, <3>4, <4>3
      <3>5. CASE p \notin R
        <4>1. T \cap R = U \cap R /\ f[p] = 0
          BY <3>1, <3>5
        <4>2. SumOn(f, T) = SumOn(f, U)
          BY <3>2, <4>1
        <4>3. SumOn(g, T \cap R) = SumOn(f, T)
          BY <3>3, <4>1, <4>2
        <4> QED
          BY <4>3
      <3> QED
        BY <3>4, <3>5
    <2> QED
      BY <2>2, <2>3
  <1>2. \A T \in SUBSET S : T \in Good
    <2> HIDE DEF Good
    <2> QED
      BY <1>1, SubsetInduction
  <1>3. S \in Good /\ S \cap R = R
    BY <1>2
  <1> QED
    BY <1>3

-----------------------------------------------------------------------------
\* calculateEqualSplit

LEMMA Quotient ==
  ASSUME NEW a \in Nat, NEW n \in Nat \ {0}
  PROVE  /\ a \div n \in Nat /\ a % n \in 0 .. n - 1
         /\ a = n * (a \div n) + (a % n)
  OBVIOUS

LEMMA Multiple ==
  ASSUME NEW m \in Nat, NEW q \in Nat
  PROVE  (m + 1) * q = m * q + q /\ m * q \in Nat
  <1>1. (m + 1) * q = m * q + q
    OBVIOUS
  <1>2. m * q \in Nat
    BY Z3
  <1> QED
    BY <1>1, <1>2

\* The first m shares.
LEMMA FirstShares ==
  ASSUME NEW total \in Nat, NEW persons \in Nat \ {0}
  PROVE  \A m \in 0 .. persons :
           SumOn(EqualSplit(total, persons), 1 .. m)
             = m * (total \div persons) + Least(m, total % persons)
  <1> DEFINE q == total \div persons
             r == total % persons
             e == EqualSplit(total, persons)
             Good == {T \in SUBSET (1 .. persons) :
                        \A m \in 0 .. persons : T = 1 .. m => SumOn(e, T) = m * q + Least(m, r)}
  <1>0. q \in Nat /\ r \in 0 .. persons - 1
    BY Quotient
  <1>1. /\ IsFiniteSet(1 .. persons)
        /\ q \in Nat /\ r \in 0 .. persons - 1
        /\ \A k \in 1 .. persons : e[k] = q + (IF k <= r THEN 1 ELSE 0) /\ e[k] \in Nat
    <2>1. e = [k \in 1 .. persons |-> q + (IF k <= r THEN 1 ELSE 0)]
      BY DEF EqualSplit
    <2> HIDE DEF q, r, e
    <2> QED
      BY <1>0, <2>1, FS_Interval
  <1> HIDE DEF q, r, e
  <1>2. ASSUME NEW T \in SUBSET (1 .. persons), \A U \in SUBSET T : U # T => U \in Good
        PROVE  T \in Good
    <2> SUFFICES ASSUME NEW m \in 0 .. persons, T = 1 .. m
                 PROVE  SumOn(e, T) = m * q + Least(m, r)
      OBVIOUS
    <2>1. IsFiniteSet(T)
      BY <1>1, FS_Subset
    <2>2. CASE m = 0
      <3>1. T = {}
        BY <2>2
      <3>2. SumOn(e, T) = 0
        BY <2>1, <3>1, SumUnfolds
      <3> QED
        BY <1>1, <2>2, <3>2 DEF Least
    <2>3. CASE m # 0
      <3>1. m \in T /\ T \ {m} = 1 .. (m - 1) /\ m - 1 \in 0 .. persons
        BY <2>3
      <3>2. SumOn(e, T \ {m}) = (m - 1) * q + Least(m - 1, r)
        BY <1>2, <3>1
      <3>3. SumOn(e, T) = e[m] + SumOn(e, T \ {m})
        BY <1>1, <2>1, <3>1, SumRemove
      <3>4. m * q = (m - 1) * q + q /\ (m - 1) * q \in Nat
        BY <1>1, <2>3, Multiple, m - 1 \in Nat, m = (m - 1) + 1
      <3>5. Least(m, r) = Least(m - 1, r) + (IF m <= r THEN 1 ELSE 0) /\ Least(m - 1, r) \in Nat
        BY <1>1, <2>3 DEF Least
      <3>6. e[m] = q + (IF m <= r THEN 1 ELSE 0)
        BY <1>1, <2>3
      <3> QED
        BY <1>1, <3>2, <3>3, <3>4, <3>5, <3>6
    <2> QED
      BY <2>2, <2>3
  <1>3. \A T \in SUBSET (1 .. persons) : T \in Good
    <2> HIDE DEF Good
    <2> QED
      BY <1>1, <1>2, SubsetInduction
  <1> QED
    <2> SUFFICES ASSUME NEW m \in 0 .. persons
                 PROVE  SumOn(e, 1 .. m) = m * q + Least(m, r)
      BY DEF e, q, r
    <2>1. 1 .. m \in SUBSET (1 .. persons)
      OBVIOUS
    <2> QED
      BY <1>3, <2>1

\* A total is split without a remainder among any number of persons, and no two shares
\* differ by more than one minor unit.
THEOREM SplitIsFair ==
  ASSUME NEW total \in Nat, NEW persons \in Nat \ {0}
  PROVE  LET shares == EqualSplit(total, persons)
         IN  /\ IsBalanced(total, shares)
             /\ \A k \in 1 .. persons - 1 : shares[k] >= shares[k + 1]
             /\ shares[1] - shares[persons] <= 1
  <1> DEFINE shares == EqualSplit(total, persons)
  <1>1. TotalOf(shares) = total
    <2>1. TotalOf(shares) = SumOn(shares, 1 .. persons)
      BY TotalIsSum DEF EqualSplit
    <2>2. Least(persons, total % persons) = total % persons
      BY Quotient DEF Least
    <2>3. SumOn(shares, 1 .. persons)
            = persons * (total \div persons) + Least(persons, total % persons)
      BY FirstShares, persons \in 0 .. persons
    <2> QED
      BY <2>1, <2>2, <2>3, Quotient
  <1>2. IsBalanced(total, shares)
    BY <1>1 DEF IsBalanced, Difference
  <1>3. total \div persons \in Nat /\ total % persons \in Nat
    BY Quotient
  <1>4. \A k \in 1 .. persons - 1 : shares[k] >= shares[k + 1]
    BY <1>3 DEF EqualSplit
  <1>5. shares[1] - shares[persons] <= 1
    BY <1>3 DEF EqualSplit
  <1> QED
    BY <1>2, <1>4, <1>5

-----------------------------------------------------------------------------
\* Rounded percentages

LEMMA QuotientBounds ==
  ASSUME NEW a \in Nat, NEW n \in Nat \ {0}
  PROVE  n * (a \div n) <= a /\ a < n * (a \div n) + n
  <1> DEFINE q == a \div n
             r == a % n
  <1>1. r \in 0 .. n - 1 /\ a = n * q + r /\ q \in Nat
    BY Quotient
  <1>2. n * q \in Nat
    BY <1>1, Multiple
  <1> HIDE DEF q, r
  <1>3. n * q <= a /\ a < n * q + n
    BY <1>1, <1>2
  <1> QED
    BY <1>3 DEF q

\* Math.round of a percentage is off by half a minor unit at most (billing.ts:133).
THEOREM PercentRounds ==
  ASSUME NEW a \in Nat, NEW rate \in Nat
  PROVE  /\ Percent(a, rate) \in Nat
         /\ 200 * Percent(a, rate) <= 2 * (a * rate) + 100
         /\ 2 * (a * rate) + 100 < 200 * Percent(a, rate) + 200
  <1> DEFINE n == 2 * (a * rate) + 100
  <1>1. a * rate \in Nat
    BY Multiple
  <1>2. n \in Nat
    BY <1>1
  <1>3. Percent(a, rate) = n \div 200
    BY DEF Percent, RoundedQuotient
  <1> HIDE DEF n
  <1>4. n \div 200 \in Nat /\ 200 * (n \div 200) <= n /\ n < 200 * (n \div 200) + 200
    BY <1>2, Quotient, QuotientBounds
  <1> QED
    BY <1>3, <1>4 DEF n

LEMMA PercentMonotone ==
  ASSUME NEW a \in Nat, NEW b \in Nat, a <= b
  PROVE  Percent(a, 5) <= Percent(b, 5)
  <1>1. /\ Percent(a, 5) \in Nat /\ 200 * Percent(a, 5) <= 2 * (a * 5) + 100
        /\ Percent(b, 5) \in Nat /\ 2 * (b * 5) + 100 < 200 * Percent(b, 5) + 200
    BY PercentRounds
  <1> QED
    BY <1>1
=============================================================================

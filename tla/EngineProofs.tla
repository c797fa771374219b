---------------------------- MODULE EngineProofs ----------------------------
(***************************************************************************)
(* What an evaluation of the integrity engine promises, for any number of  *)
(* wrappers at any prices, every reference, every set of thresholds and    *)
(* every rounding; when the market is open, on every day of every year;    *)
(* what an audit says of a receipt, as it was issued and altered; and what *)
(* an analyst's review names first.                                        *)
(***************************************************************************)
EXTENDS Evidence, Calendar, TLAPS, FiniteSetTheorems, SequenceTheorems

-----------------------------------------------------------------------------
(***************************************************************************)
(* Induction over the size of finite sets.                                 *)
(***************************************************************************)
Less == {pair \in Nat \X Nat : pair[1] < pair[2]}

LEMMA LeastNumber ==
  ASSUME NEW S \in SUBSET Nat, S # {}
  PROVE  \E n \in S : \A m \in S : n <= m
  <1>1. IsWellFoundedOn(Less, Nat)
    BY NatLessThanWellFounded DEF OpToRel, Less
  <1>2. PICK n \in S : \A m \in S : <<m, n>> \notin Less
    BY <1>1, WFMin
  <1>3. ASSUME NEW m \in S, m < n PROVE <<m, n>> \in Less
    BY <1>3 DEF Less
  <1>4. \A m \in S : ~(m < n)
    BY <1>2, <1>3
  <1>. QED
    BY <1>4

Ascends(f, value) == \A j, k \in DOMAIN f : j <= k => value[f[j]] <= value[f[k]]

\* A finite set has a member of the greatest value: take one with the fewest
\* members above it.
LEMMA GreatestExists ==
  ASSUME NEW S, IsFiniteSet(S), S # {}, NEW value, \A x \in S : value[x] \in Int
  PROVE  \E x \in S : \A y \in S : value[y] <= value[x]
  <1>. DEFINE Above(x) == {y \in S : value[y] > value[x]}
              sizes == {Cardinality(Above(x)) : x \in S}
  <1>1. \A x \in S : IsFiniteSet(Above(x)) /\ Cardinality(Above(x)) \in Nat
    BY FS_Subset, FS_CardinalityType
  <1>2. sizes \in SUBSET Nat /\ sizes # {}
    BY <1>1
  <1>3. PICK n \in sizes : \A m \in sizes : n <= m
    BY <1>2, LeastNumber
  <1>4. PICK x \in S : n = Cardinality(Above(x))
    BY <1>3
  <1>5. ASSUME NEW y \in S, value[y] > value[x] PROVE FALSE
    <2>1. Above(y) \subseteq Above(x) /\ y \in Above(x) \ Above(y)
      BY <1>5
    <2>2. Cardinality(Above(y)) < Cardinality(Above(x))
      BY <1>1, <2>1, FS_Subset
    <2>3. Cardinality(Above(x)) <= Cardinality(Above(y))
      BY <1>3, <1>4
    <2>. QED
      BY <1>1, <2>2, <2>3
  <1>. QED
    BY <1>5

\* A finite set can be put in ascending order: a smallest one that could not
\* would lose its greatest member.
LEMMA OrderExists ==
  ASSUME NEW S, IsFiniteSet(S), NEW value, \A x \in S : value[x] \in Int
  PROVE  \E f \in Orders(S) : Ascends(f, value)
  <1>. DEFINE Sortable(T) == \E f \in Orders(T) : Ascends(f, value)
              failing == {n \in Nat : \E T \in SUBSET S :
                            IsFiniteSet(T) /\ Cardinality(T) = n /\ ~Sortable(T)}
  <1>1. SUFFICES ASSUME ~Sortable(S) PROVE FALSE
    OBVIOUS
  <1>. HIDE DEF Sortable
  <1>2. Cardinality(S) \in failing
    BY <1>1, FS_CardinalityType
  <1>3. PICK n \in failing : \A m \in failing : n <= m
    BY <1>2, LeastNumber
  <1>4. PICK T \in SUBSET S : IsFiniteSet(T) /\ Cardinality(T) = n /\ ~Sortable(T)
    BY <1>3
  <1>5. T # {}
    <2>1. SUFFICES ASSUME T = {} PROVE Sortable(T)
      BY <1>4
    <2>2. Cardinality(T) = 0
      BY <2>1, FS_EmptySet
    <2>. DEFINE f == [k \in 1 .. 0 |-> k]
    <2>3. f \in Orders(T) /\ Ascends(f, value)
      BY <2>1, <2>2 DEF Orders, Ascends
    <2>. QED
      BY <2>3 DEF Sortable
  <1>6. PICK x \in T : \A y \in T : value[y] <= value[x]
    BY <1>4, <1>5, GreatestExists
  <1>. DEFINE rest == T \ {x}
  <1>7. IsFiniteSet(rest) /\ Cardinality(rest) = n - 1 /\ n \in Nat \ {0}
    BY <1>3, <1>4, <1>5, FS_RemoveElement, FS_EmptySet, FS_CardinalityType
  <1>8. Sortable(rest)
    BY <1>3, <1>7
  <1>9. PICK g \in Orders(rest) : Ascends(g, value)
    BY <1>8 DEF Sortable
  <1>. DEFINE f == [k \in 1 .. n |-> IF k = n THEN x ELSE g[k]]
  <1>10. /\ g \in [1 .. n - 1 -> rest] /\ DOMAIN g = 1 .. n - 1
         /\ \A y \in rest : \E k \in 1 .. n - 1 : g[k] = y
    BY <1>7, <1>9 DEF Orders
  <1>11. f \in [1 .. n -> T]
    BY <1>7, <1>10
  <1>12. \A y \in T : \E k \in 1 .. n : f[k] = y
    <2>1. f[n] = x
      BY <1>7
    <2>2. ASSUME NEW y \in rest PROVE \E k \in 1 .. n : f[k] = y
      <3>1. PICK k \in 1 .. n - 1 : g[k] = y
        BY <1>10
      <3>2. k \in 1 .. n /\ f[k] = y
        BY <1>7, <3>1
      <3>. QED
        BY <3>2
    <2>. QED
      BY <1>7, <2>1, <2>2
  <1>13. f \in Orders(T)
    BY <1>4, <1>11, <1>12 DEF Orders
  <1>14. Ascends(f, value)
    <2>1. SUFFICES ASSUME NEW j \in 1 .. n, NEW k \in 1 .. n, j <= k
                   PROVE  value[f[j]] <= value[f[k]]
      BY DEF Ascends
    <2>2. CASE k = n
      BY <1>6, <1>11, <2>2
    <2>3. CASE k # n
      <3>1. j \in 1 .. n - 1 /\ k \in 1 .. n - 1
        BY <1>7, <2>1, <2>3
      <3>2. f[j] = g[j] /\ f[k] = g[k]
        BY <1>7, <3>1
      <3>. QED
        BY <1>9, <1>10, <2>1, <3>1, <3>2 DEF Ascends
    <2>. QED
      BY <2>2, <2>3
  <1>. QED
    BY <1>4, <1>13, <1>14 DEF Sortable

\* Sorting keeps the values, one in each place, and leaves them ascending.
LEMMA SortedValues ==
  ASSUME NEW S, IsFiniteSet(S), NEW value, \A x \in S : value[x] \in Int
  PROVE  /\ Sorted(S, value) \in Seq(Int) /\ Len(Sorted(S, value)) = Cardinality(S)
         /\ \A k \in 1 .. Cardinality(S) : \E x \in S : Sorted(S, value)[k] = value[x]
         /\ \A j, k \in 1 .. Cardinality(S) :
              j <= k => Sorted(S, value)[j] <= Sorted(S, value)[k]
  <1>. DEFINE f == CHOOSE f \in Orders(S) : Ascends(f, value)
              n == Cardinality(S)
  <1>1. f \in Orders(S) /\ Ascends(f, value)
    BY OrderExists
  <1>2. Sorted(S, value) = [k \in DOMAIN f |-> value[f[k]]]
    BY DEF Sorted, Ascends
  <1>3. n \in Nat
    BY FS_CardinalityType
  <1>. HIDE DEF f
  <1>4. f \in [1 .. n -> S] /\ DOMAIN f = 1 .. n
    BY <1>1 DEF Orders
  <1>. HIDE DEF n
  <1>5. \A k \in 1 .. n : f[k] \in S /\ value[f[k]] \in Int
    BY <1>4
  <1>6. Sorted(S, value) = [k \in 1 .. n |-> value[f[k]]]
    BY <1>2, <1>4
  <1>7. Sorted(S, value) \in Seq(Int) /\ Len(Sorted(S, value)) = n
    BY <1>3, <1>5, <1>6
  <1>8. \A k \in 1 .. n : \E x \in S : Sorted(S, value)[k] = value[x]
    BY <1>5, <1>6
  <1>9. \A j, k \in 1 .. n : j <= k => Sorted(S, value)[j] <= Sorted(S, value)[k]
    BY <1>1, <1>4, <1>6 DEF Ascends
  <1>. QED
    BY <1>7, <1>8, <1>9 DEF n

-----------------------------------------------------------------------------
(***************************************************************************)
(* The measurements.                                                       *)
(***************************************************************************)
LEMMA PercentIsNumber ==
  ASSUME NEW n \in Int, NEW d \in Nat \ {0}
  PROVE  Percent(n, d) \in Int /\ (n >= 0 => Percent(n, d) >= 0)
  <1>. DEFINE top == 200 * Unit * n + d
              below == 2 * d
  <1>1. Unit \in Nat \ {0}
    BY EngineAssumption
  <1>2. below \in Nat \ {0}
    OBVIOUS
  <1>3. 200 * Unit \in Nat
    BY <1>1
  <1>4. top \in Int /\ (n >= 0 => top >= 0)
    BY <1>3
  <1>5. Percent(n, d) = top \div below
    BY DEF Percent
  <1>. HIDE DEF top, below
  <1>. QED
    BY <1>2, <1>4, <1>5

LEMMA MedianIsPositive ==
  ASSUME NEW s \in Seq(Int), Len(s) >= 2, \A k \in 1 .. Len(s) : s[k] > 0
  PROVE  TwiceMedian(s) \in Nat \ {0}
  <1>. DEFINE n == Len(s)
              mid == n \div 2
  <1>1. n \in Nat /\ n >= 2
    BY LenProperties
  <1>2. mid \in 1 .. n /\ mid + 1 \in 1 .. n
    BY <1>1
  <1>3. s[mid] \in Int /\ s[mid] > 0 /\ s[mid + 1] \in Int /\ s[mid + 1] > 0
    BY <1>2, ElementOfSeq
  <1>4. TwiceMedian(s) = 2 * s[mid + 1] \/ TwiceMedian(s) = s[mid] + s[mid + 1]
    BY DEF TwiceMedian
  <1>. HIDE DEF mid
  <1>. QED
    BY <1>3, <1>4

Reading == [reference : References, tokens : Listings, market : Markets,
            pairs : Pairs, confirmations : Priors]

LEMMA Inputs ==
  ASSUME NEW r \in Reading
  PROVE  /\ r.reference \in References
         /\ r.reference.price \in Int /\ r.reference.age \in Int
         /\ Len(r.tokens) \in Nat /\ DOMAIN r.tokens = 1 .. Len(r.tokens)
         /\ \A k \in DOMAIN r.tokens : r.tokens[k] \in Tokens /\ r.tokens[k].price \in Int
  <1>1. r.reference \in References /\ r.tokens \in Listings
    BY DEF Reading
  <1>2. PICK n \in Nat : r.tokens \in [1 .. n -> Tokens]
    BY <1>1 DEF Listings
  <1>3. r.tokens \in Seq(Tokens) /\ Len(r.tokens) = n /\ DOMAIN r.tokens = 1 .. n
    BY <1>2
  <1>4. \A k \in 1 .. n : r.tokens[k] \in Tokens
    BY <1>2
  <1>. QED
    BY <1>1, <1>3, <1>4, InputsAssumption

\* A spread is a number that is not negative, or there is none.
LEMMA DispersionIsSpread ==
  ASSUME NEW r \in Reading
  PROVE  Dispersion(r) = -1 \/ Dispersion(r) \in Nat
  <1>. DEFINE valid == {k \in DOMAIN r.tokens : Priced(r.tokens[k], Currency(r))}
              s == Wrappers(r)
  <1>1. IsFiniteSet(valid)
    <2>1. IsFiniteSet(DOMAIN r.tokens)
      BY Inputs, FS_Interval
    <2>. QED
      BY <2>1, FS_Subset
  <1>2. \A k \in valid : Prices(r)[k] \in Int /\ Prices(r)[k] > 0
    BY Inputs DEF Prices, Priced
  <1>3. s = Sorted(valid, Prices(r))
    BY DEF Wrappers
  <1>. HIDE DEF valid, s
  <1>4. /\ s \in Seq(Int)
        /\ \A k \in 1 .. Len(s) : \E x \in valid : s[k] = Prices(r)[x]
        /\ \A j, k \in 1 .. Len(s) : j <= k => s[j] <= s[k]
    BY <1>1, <1>2, <1>3, SortedValues
  <1>5. \A k \in 1 .. Len(s) : s[k] > 0
    BY <1>2, <1>4
  <1>6. CASE Len(s) < 2
    BY <1>6 DEF Dispersion, s
  <1>7. CASE ~(Len(s) < 2)
    <2>1. Len(s) \in Nat /\ Len(s) >= 2
      BY <1>4, <1>7, LenProperties
    <2>2. TwiceMedian(s) \in Nat \ {0}
      BY <1>4, <1>5, <2>1, MedianIsPositive
    <2>3. s[Len(s)] \in Int /\ s[1] \in Int /\ s[1] <= s[Len(s)]
      BY <1>4, <2>1, ElementOfSeq
    <2>4. 2 * (s[Len(s)] - s[1]) \in Int /\ 2 * (s[Len(s)] - s[1]) >= 0
      BY <2>3
    <2>5. Dispersion(r) = Percent(2 * (s[Len(s)] - s[1]), TwiceMedian(s))
      BY <1>7 DEF Dispersion, s
    <2>6. Dispersion(r) \in Int /\ Dispersion(r) >= 0
      BY <2>2, <2>4, <2>5, PercentIsNumber
    <2>. QED
      BY <2>6
  <1>. QED
    BY <1>6, <1>7

LEMMA GapIsNumber ==
  ASSUME NEW r \in Reading, NEW k \in Measured(r)
  PROVE  Gap(r, k) \in Int /\ Abs(Gap(r, k)) \in Nat
  <1>1. /\ r.tokens[k].price - r.reference.price \in Int
        /\ r.reference.price \in Nat \ {0}
    BY Inputs DEF Measured
  <1>2. Gap(r, k) \in Int
    BY <1>1, PercentIsNumber DEF Gap
  <1>. QED
    BY <1>2 DEF Abs

WidestGap(r, k) == k \in Measured(r) /\ \A j \in Measured(r) : Dominates(r, k, j)

LEMMA WidestExists ==
  ASSUME NEW r \in Reading, Measured(r) # {}
  PROVE  \E k \in Measured(r) :
           WidestGap(r, k) /\ \A j \in Measured(r) : Abs(Gap(r, j)) <= Abs(Gap(r, k))
  <1>. DEFINE value == [k \in Measured(r) |-> Abs(Gap(r, k))]
  <1>1. Measured(r) \subseteq 1 .. Len(r.tokens) /\ Measured(r) \in SUBSET Nat
    BY Inputs DEF Measured
  <1>2. IsFiniteSet(Measured(r))
    <2>1. IsFiniteSet(1 .. Len(r.tokens))
      BY Inputs, FS_Interval
    <2>. QED
      BY <1>1, <2>1, FS_Subset
  <1>3. \A k \in Measured(r) : value[k] = Abs(Gap(r, k)) /\ value[k] \in Nat
    BY GapIsNumber
  <1>. HIDE DEF value
  <1>4. PICK x \in Measured(r) : \A y \in Measured(r) : value[y] <= value[x]
    BY <1>2, <1>3, GreatestExists
  <1>. DEFINE ties == {y \in Measured(r) : value[y] = value[x]}
  <1>5. ties \in SUBSET Nat /\ ties # {}
    BY <1>1
  <1>6. PICK k \in ties : \A j \in ties : k <= j
    BY <1>5, LeastNumber
  <1>7. k \in Measured(r) /\ value[k] = value[x]
    BY <1>6
  <1>8. \A j \in Measured(r) : value[j] <= value[k]
    BY <1>4, <1>7
  <1>9. ASSUME NEW j \in Measured(r) PROVE Dominates(r, k, j)
    <2>1. value[j] = value[k] => k <= j
      BY <1>6, <1>7
    <2>. QED
      BY <1>3, <1>7, <1>8, <2>1 DEF Dominates
  <1>. QED
    BY <1>3, <1>7, <1>8, <1>9 DEF WidestGap

LEMMA WidestIsOne ==
  ASSUME NEW r \in Reading, NEW j, NEW k, WidestGap(r, j), WidestGap(r, k)
  PROVE  j = k
  <1>1. j \in Measured(r) /\ k \in Measured(r) /\ Dominates(r, j, k) /\ Dominates(r, k, j)
    BY DEF WidestGap
  <1>2. j \in Nat /\ k \in Nat
    BY <1>1, Inputs DEF Measured
  <1>3. Abs(Gap(r, j)) \in Nat /\ Abs(Gap(r, k)) \in Nat
    BY <1>1, GapIsNumber
  <1>. QED
    BY <1>1, <1>2, <1>3 DEF Dominates

-----------------------------------------------------------------------------
(***************************************************************************)
(* The bands.                                                              *)
(***************************************************************************)
LEMMA Bands ==
  ASSUME NEW d \in Int, NEW e \in Int, d <= e
  PROVE  /\ SeverityFor(d) \in Severities /\ SeverityFor(e) \in Severities
         /\ SevRank[SeverityFor(d)] <= SevRank[SeverityFor(e)]
  <1>1. /\ Thresholds.info \in Int /\ Thresholds.watch \in Int
        /\ Thresholds.high \in Int /\ Thresholds.critical \in Int
        /\ Thresholds.info < Thresholds.watch /\ Thresholds.watch < Thresholds.high
        /\ Thresholds.high < Thresholds.critical
    BY InputsAssumption, EngineAssumption
  <1>2. /\ SevRank["none"] = 0 /\ SevRank["info"] = 1 /\ SevRank["watch"] = 2
        /\ SevRank["high"] = 3 /\ SevRank["critical"] = 4
    BY DEF SevRank, Severities
  <1>3. \A x \in Int :
          \/ x >= Thresholds.critical /\ SeverityFor(x) = "critical"
          \/ x >= Thresholds.high /\ x < Thresholds.critical /\ SeverityFor(x) = "high"
          \/ x >= Thresholds.watch /\ x < Thresholds.high /\ SeverityFor(x) = "watch"
          \/ x >= Thresholds.info /\ x < Thresholds.watch /\ SeverityFor(x) = "info"
          \/ x < Thresholds.info /\ SeverityFor(x) = "none"
    BY <1>1 DEF SeverityFor
  <1>4. \A x \in Int : SeverityFor(x) \in Severities
    BY <1>3 DEF Severities
  <1>. QED
    BY <1>1, <1>2, <1>3, <1>4

LEMMA Ranks ==
  /\ \A s \in Severities : SevRank[s] \in 0 .. 4
  /\ \A s, t \in Severities : SevRank[s] = SevRank[t] => s = t
  /\ \A s \in Severities : SevRank[s] = 0 <=> s = "none"
  BY DEF SevRank, Severities

-----------------------------------------------------------------------------
(***************************************************************************)
(* The findings and the best of them.                                      *)
(***************************************************************************)
LEMMA CandidatesAre ==
  ASSUME NEW r \in Reading, NEW c \in Candidates(r)
  PROVE  /\ c = Candidate(c.kind, c.deviation)
         /\ c.severity = SeverityFor(Abs(c.deviation)) /\ c.severity # "none"
         /\ c.deviation \in Int
         /\ \/ c.kind = "parity_gap" /\ \E k : WidestGap(r, k) /\ c.deviation = Gap(r, k)
            \/ /\ c.kind = "cross_wrapper_dispersion"
               /\ c.deviation = Dispersion(r) /\ c.deviation \in Nat
  <1>1. c.severity # "none"
    BY DEF Candidates
  <1>2. \/ \E k : WidestGap(r, k) /\ c = Candidate("parity_gap", Gap(r, k))
        \/ Dispersion(r) # -1 /\ c = Candidate("cross_wrapper_dispersion", Dispersion(r))
    BY DEF Candidates, WidestGap
  <1>3. ASSUME NEW k, WidestGap(r, k), c = Candidate("parity_gap", Gap(r, k))
        PROVE  /\ c.kind = "parity_gap" /\ c.deviation = Gap(r, k) /\ c.deviation \in Int
               /\ c = Candidate(c.kind, c.deviation)
    BY <1>3, GapIsNumber DEF Candidate, WidestGap
  <1>4. ASSUME Dispersion(r) # -1, c = Candidate("cross_wrapper_dispersion", Dispersion(r))
        PROVE  /\ c.kind = "cross_wrapper_dispersion" /\ c.deviation = Dispersion(r)
               /\ c.deviation \in Nat /\ c = Candidate(c.kind, c.deviation)
    BY <1>4, DispersionIsSpread DEF Candidate
  <1>5. c = Candidate(c.kind, c.deviation) => c.severity = SeverityFor(Abs(c.deviation))
    BY DEF Candidate
  <1>. QED
    BY <1>1, <1>2, <1>3, <1>4, <1>5

\* Two findings of a kind are the same finding.
LEMMA OneOfAKind ==
  ASSUME NEW r \in Reading, NEW c \in Candidates(r), NEW d \in Candidates(r), c.kind = d.kind
  PROVE  c = d
  <1>1. c = Candidate(c.kind, c.deviation) /\ d = Candidate(d.kind, d.deviation)
    BY CandidatesAre
  <1>2. c.deviation = d.deviation
    <2>1. CASE c.kind = "parity_gap"
      BY <2>1, CandidatesAre, WidestIsOne
    <2>2. CASE c.kind = "cross_wrapper_dispersion"
      BY <2>2, CandidatesAre
    <2>. QED
      BY <2>1, <2>2, CandidatesAre
  <1>. QED
    BY <1>1, <1>2

LEMMA PrecedesTotal ==
  ASSUME NEW r \in Reading, NEW c \in Candidates(r), NEW d \in Candidates(r)
  PROVE  Precedes(c, d) \/ Precedes(d, c)
  <1>1. /\ c.deviation \in Int /\ d.deviation \in Int
        /\ Abs(c.deviation) \in Int /\ Abs(d.deviation) \in Int
    BY CandidatesAre DEF Abs
  <1>2. /\ c.severity \in Severities /\ d.severity \in Severities
    BY <1>1, CandidatesAre, Bands
  <1>3. c.kind = "parity_gap" \/ d.kind = "parity_gap" \/ c = d
    BY CandidatesAre, OneOfAKind
  <1>4. CASE c.severity = d.severity
    <2>1. CASE Abs(c.deviation) = Abs(d.deviation)
      BY <1>3, <1>4, <2>1 DEF Precedes
    <2>2. CASE Abs(c.deviation) # Abs(d.deviation)
      BY <1>1, <1>4, <2>2 DEF Precedes
    <2>. QED
      BY <2>1, <2>2
  <1>5. CASE c.severity # d.severity
    <2>1. /\ SevRank[c.severity] \in Int /\ SevRank[d.severity] \in Int
          /\ SevRank[c.severity] # SevRank[d.severity]
      BY <1>2, <1>5, Ranks
    <2>. QED
      BY <2>1 DEF Precedes
  <1>. QED
    BY <1>4, <1>5

LEMMA BestExists ==
  ASSUME NEW r \in Reading, Candidates(r) # {}
  PROVE  \E c \in Candidates(r) : \A d \in Candidates(r) : Precedes(c, d)
  <1>1. PICK c \in Candidates(r) : TRUE
    OBVIOUS
  <1>2. \A d \in Candidates(r) : Precedes(d, d)
    BY PrecedesTotal
  <1>3. CASE \A d \in Candidates(r) : d = c
    BY <1>2, <1>3
  <1>4. ASSUME NEW e \in Candidates(r), e # c
        PROVE  \E b \in Candidates(r) : \A d \in Candidates(r) : Precedes(b, d)
    <2>1. \A d \in Candidates(r) : d = c \/ d = e
      <3>1. SUFFICES ASSUME NEW d \in Candidates(r) PROVE d = c \/ d = e
        OBVIOUS
      <3>2. c.kind # e.kind
        BY <1>4, OneOfAKind
      <3>3. d.kind = c.kind \/ d.kind = e.kind
        BY <3>2, CandidatesAre
      <3>. QED
        BY <3>3, OneOfAKind
    <2>2. Precedes(c, e) \/ Precedes(e, c)
      BY PrecedesTotal
    <2>. QED
      BY <1>2, <2>1, <2>2
  <1>. QED
    BY <1>3, <1>4

\* What detectAnomaly returns.
LEMMA Detected ==
  ASSUME NEW r \in Reading
  PROVE  \/ /\ DetectAnomaly(r) = NoAnomaly
            /\ ReferenceState(r) \in Incomparable \/ Candidates(r) = {}
         \/ /\ ReferenceState(r) \notin Incomparable
            /\ DetectAnomaly(r) \in Candidates(r)
            /\ \A d \in Candidates(r) : Precedes(DetectAnomaly(r), d)
  <1>1. CASE ReferenceState(r) \in Incomparable \/ Candidates(r) = {}
    BY <1>1 DEF DetectAnomaly
  <1>2. CASE ~(ReferenceState(r) \in Incomparable \/ Candidates(r) = {})
    <2>. DEFINE best == CHOOSE c \in Candidates(r) : \A d \in Candidates(r) : Precedes(c, d)
    <2>1. best \in Candidates(r) /\ \A d \in Candidates(r) : Precedes(best, d)
      BY <1>2, BestExists
    <2>2. DetectAnomaly(r) = best
      BY <1>2 DEF DetectAnomaly
    <2>. QED
      BY <1>2, <2>1, <2>2
  <1>. QED
    BY <1>1, <1>2

\* The finding has the shape of a verdict, and its severity is of its kind.
LEMMA Found ==
  ASSUME NEW r \in Reading
  PROVE  LET a == DetectAnomaly(r)
         IN /\ a.severity \in Severities /\ a.kind \in EventKinds /\ a.deviation \in Int
            /\ a.kind = "cross_wrapper_dispersion" => a.deviation >= 0
            /\ ReferenceState(r) \in Incomparable => a.severity = "none"
            /\ a.severity # "none" => a.deviation # 0
  <1>. DEFINE a == DetectAnomaly(r)
  <1>1. CASE a = NoAnomaly
    BY <1>1 DEF NoAnomaly, Severities, EventKinds
  <1>2. CASE a \in Candidates(r) /\ ReferenceState(r) \notin Incomparable
    <2>. HIDE DEF a
    <2>1. /\ a.severity = SeverityFor(Abs(a.deviation)) /\ a.deviation \in Int
          /\ \/ a.kind = "parity_gap"
             \/ a.kind = "cross_wrapper_dispersion" /\ a.deviation \in Nat
      BY <1>2, CandidatesAre
    <2>2. Abs(a.deviation) \in Int
      BY <2>1 DEF Abs
    <2>3. a.severity \in Severities
      BY <2>1, <2>2, Bands
    <2>4. a.deviation = 0 => a.severity = "none"
      <3>1. \A t \in {"info", "watch", "high", "critical"} : Thresholds[t] \in Int
        BY InputsAssumption
      <3>2. /\ Thresholds.info \in Int /\ Thresholds.watch \in Int
            /\ Thresholds.high \in Int /\ Thresholds.critical \in Int
        BY <3>1
      <3>3. SeverityFor(0) = "none"
        BY <3>2, EngineAssumption DEF SeverityFor
      <3>. QED
        BY <2>1, <3>3 DEF Abs
    <2>. QED
      BY <1>2, <2>1, <2>3, <2>4 DEF EventKinds, a
  <1>. QED
    BY <1>1, <1>2, Detected

LEMMA StateIsOne ==
  ASSUME NEW r \in Reading
  PROVE  ReferenceState(r) \in ReferenceStates
  BY DEF ReferenceState, ReferenceStates, AggregateFreshness, Freshness

-----------------------------------------------------------------------------
EngineInv == reading \in Reading /\ evaluation = Evaluate(reading)

LEMMA EngineBegins == Init => EngineInv
  BY DEF Init, EngineInv, Reading

LEMMA EngineStep == EngineInv /\ [Next]_vars => EngineInv'
  <1>1. SUFFICES ASSUME EngineInv, [Next]_vars PROVE EngineInv'
    OBVIOUS
  <1>2. reading \in Reading
    BY <1>1 DEF EngineInv
  <1>3. CASE Repriced
    <2>1. PICK k \in DOMAIN reading.tokens, t \in Tokens :
            Scan([reading EXCEPT !.tokens[k] = t])
      BY <1>3 DEF Repriced
    <2>2. PICK n \in 0 .. MaxTokens : reading.tokens \in [1 .. n -> Tokens]
      BY <1>2 DEF Reading, Listings
    <2>3. [reading.tokens EXCEPT ![k] = t] \in [1 .. n -> Tokens]
      BY <2>1, <2>2
    <2>4. [reading.tokens EXCEPT ![k] = t] \in Listings
      BY <2>2, <2>3 DEF Listings
    <2>5. [reading EXCEPT !.tokens[k] = t] \in Reading
      BY <1>2, <2>4, Zenon DEF Reading
    <2>. QED
      BY <2>1, <2>5 DEF Scan, EngineInv
  <1>4. CASE Referenced
    BY <1>2, <1>4 DEF Referenced, Scan, EngineInv, Reading
  <1>5. CASE TimePasses
    BY <1>2, <1>5 DEF TimePasses, Scan, EngineInv, Reading
  <1>6. CASE UNCHANGED vars
    BY <1>1, <1>6 DEF vars, EngineInv
  <1>. QED
    BY <1>1, <1>3, <1>4, <1>5, <1>6 DEF Next

\* Every evaluation hands the lifecycle a verdict of the shape it counts on,
\* classed by the state of the reference.
THEOREM VerdictsFit == Spec => []VerdictWellFormed
  <1>1. EngineInv => VerdictWellFormed
    <2>1. SUFFICES ASSUME EngineInv PROVE VerdictWellFormed
      OBVIOUS
    <2>. DEFINE r == reading
                a == DetectAnomaly(r)
                v == [refState |-> evaluation.refState, severity |-> evaluation.severity,
                      kind |-> evaluation.kind, deviation |-> evaluation.deviation]
    <2>2. r \in Reading
      BY <2>1 DEF EngineInv
    <2>3. /\ evaluation.refState = ReferenceState(r) /\ evaluation.severity = a.severity
          /\ evaluation.kind = a.kind /\ evaluation.deviation = a.deviation
          /\ evaluation.classification =
               IF a.severity = "none" THEN "none"
               ELSE IF ReferenceState(r) \in {"fresh", "aging"} THEN "parity_gap"
               ELSE "price_difference"
      BY <2>1 DEF EngineInv, Evaluate
    <2>4. /\ a.severity \in Severities /\ a.kind \in EventKinds /\ a.deviation \in Int
          /\ a.kind = "cross_wrapper_dispersion" => a.deviation >= 0
          /\ ReferenceState(r) \in Incomparable => a.severity = "none"
          /\ a.severity # "none" => a.deviation # 0
      BY <2>2, Found
    <2>5. ReferenceState(r) \in ReferenceStates
      BY <2>2, StateIsOne
    <2>. HIDE DEF r, a
    <2>6. v \in Verdict
      BY <2>3, <2>4, <2>5 DEF Verdict
    <2>7. WellFormed(v)
      BY <2>3, <2>4, <2>6 DEF WellFormed, Anomalous
    <2>8. evaluation.classification = IF Anomalous(v) THEN Classification(v) ELSE "none"
      BY <2>3 DEF Anomalous, Classification
    <2>. QED
      BY <2>7, <2>8 DEF VerdictWellFormed
  <1>. QED
    BY EngineBegins, EngineStep, <1>1, PTL DEF Spec

-----------------------------------------------------------------------------
(***************************************************************************)
(* No measurement is in a worse band than the one reported.                *)
(***************************************************************************)
\* What the two detectors look at, before the bands below "info" are dropped.
Measurement(r, d) ==
  \/ \E k \in Measured(r) : WidestGap(r, k) /\ d = Gap(r, k)
  \/ Dispersion(r) # -1 /\ d = Dispersion(r)

LEMMA MeasurementIsCandidate ==
  ASSUME NEW r \in Reading, NEW d, Measurement(r, d), SeverityFor(Abs(d)) # "none"
  PROVE  \E c \in Candidates(r) : c.severity = SeverityFor(Abs(d))
  <1>1. ASSUME NEW kind, Candidate(kind, d) \in Candidates(r)
        PROVE  \E c \in Candidates(r) : c.severity = SeverityFor(Abs(d))
    BY <1>1 DEF Candidate
  <1>2. \A kind : Candidate(kind, d).severity # "none"
    BY DEF Candidate
  <1>3. CASE \E k \in Measured(r) : WidestGap(r, k) /\ d = Gap(r, k)
    <2>1. PICK k \in Measured(r) : WidestGap(r, k) /\ d = Gap(r, k)
      BY <1>3
    <2>2. d \in {Gap(r, i) : i \in {i \in Measured(r) : \A j \in Measured(r) : Dominates(r, i, j)}}
      BY <2>1 DEF WidestGap
    <2>3. Candidate("parity_gap", d) \in Candidates(r)
      BY <1>2, <2>2 DEF Candidates
    <2>. QED
      BY <1>1, <2>3
  <1>4. CASE Dispersion(r) # -1 /\ d = Dispersion(r)
    <2>1. Candidate("cross_wrapper_dispersion", d) \in Candidates(r)
      BY <1>2, <1>4 DEF Candidates
    <2>. QED
      BY <1>1, <2>1
  <1>. QED
    BY <1>3, <1>4 DEF Measurement

LEMMA ReportedIsWorst ==
  ASSUME NEW r \in Reading, ReferenceState(r) \notin Incomparable,
         NEW d \in Int, Measurement(r, d)
  PROVE  SevRank[SeverityFor(Abs(d))] <= SevRank[DetectAnomaly(r).severity]
  <1>. DEFINE a == DetectAnomaly(r)
  <1>1. SeverityFor(Abs(d)) \in Severities /\ a.severity \in Severities
    <2>1. Abs(d) \in Int
      BY DEF Abs
    <2>. QED
      BY <2>1, Bands, Found
  <1>2. CASE SeverityFor(Abs(d)) = "none"
    BY <1>1, <1>2, Ranks
  <1>3. CASE SeverityFor(Abs(d)) # "none"
    <2>1. PICK c \in Candidates(r) : c.severity = SeverityFor(Abs(d))
      BY <1>3, MeasurementIsCandidate
    <2>2. Precedes(a, c)
      BY <2>1, Detected
    <2>3. SevRank[a.severity] > SevRank[c.severity] \/ a.severity = c.severity
      BY <2>2 DEF Precedes
    <2>. HIDE DEF a
    <2>. QED
      BY <1>1, <2>1, <2>3, Ranks DEF a
  <1>. QED
    BY <1>2, <1>3

\* The band reported is the worst of the bands measured, and one of them.
THEOREM WorstIsReported == Spec => []WorstBandReported
  <1>1. EngineInv => WorstBandReported
    <2>. DEFINE r == reading
                a == DetectAnomaly(r)
                deviations == {Abs(Gap(r, k)) : k \in Measured(r)} \cup ({Dispersion(r)} \ {-1})
                bands == {SeverityFor(d) : d \in deviations} \cup {"none"}
    <2>1. SUFFICES ASSUME EngineInv, evaluation.refState \notin Incomparable
                   PROVE  /\ evaluation.severity \in bands
                          /\ \A b \in bands : SevRank[b] <= SevRank[evaluation.severity]
      BY DEF WorstBandReported
    <2>2. r \in Reading
      BY <2>1 DEF EngineInv
    <2>3. evaluation.refState = ReferenceState(r) /\ evaluation.severity = a.severity
      BY <2>1 DEF EngineInv, Evaluate
    <2>4. a.severity \in Severities /\ SevRank["none"] <= SevRank[a.severity]
      <3>1. a.severity \in Severities /\ "none" \in Severities
        BY <2>2, Found DEF Severities
      <3>. QED
        BY <3>1, Ranks
    <2>. HIDE DEF r, a
    <2>5. a.severity \in bands
      <3>1. CASE a = NoAnomaly
        BY <3>1 DEF NoAnomaly
      <3>2. CASE a \in Candidates(r)
        <4>1. /\ a.severity = SeverityFor(Abs(a.deviation))
              /\ \/ \E k : WidestGap(r, k) /\ a.deviation = Gap(r, k)
                 \/ a.deviation = Dispersion(r) /\ a.deviation \in Nat
          BY <2>2, <3>2, CandidatesAre
        <4>2. Abs(a.deviation) \in deviations
          <5>1. ASSUME NEW k, WidestGap(r, k), a.deviation = Gap(r, k)
                PROVE  Abs(a.deviation) \in deviations
            BY <5>1 DEF WidestGap
          <5>2. ASSUME a.deviation = Dispersion(r), a.deviation \in Nat
                PROVE  Abs(a.deviation) \in deviations
            <6>1. Abs(a.deviation) = a.deviation /\ a.deviation # -1
              BY <5>2 DEF Abs
            <6>. QED
              BY <5>2, <6>1
          <5>. QED
            BY <4>1, <5>1, <5>2
        <4>. QED
          BY <4>1, <4>2
      <3>. QED
        BY <2>2, <3>1, <3>2, Detected DEF a
    <2>6. ASSUME NEW k \in Measured(r)
          PROVE  SevRank[SeverityFor(Abs(Gap(r, k)))] <= SevRank[a.severity]
      <3>1. PICK w \in Measured(r) : WidestGap(r, w) /\ Abs(Gap(r, k)) <= Abs(Gap(r, w))
        BY <2>2, WidestExists
      <3>2. Gap(r, w) \in Int /\ Abs(Gap(r, k)) \in Int /\ Abs(Gap(r, w)) \in Int
        BY <2>2, <3>1, GapIsNumber
      <3>3. Measurement(r, Gap(r, w))
        BY <3>1 DEF Measurement
      <3>4. SevRank[SeverityFor(Abs(Gap(r, w)))] <= SevRank[a.severity]
        BY <2>1, <2>2, <2>3, <3>2, <3>3, ReportedIsWorst DEF a
      <3>5. /\ SeverityFor(Abs(Gap(r, k))) \in Severities
            /\ SeverityFor(Abs(Gap(r, w))) \in Severities
            /\ SevRank[SeverityFor(Abs(Gap(r, k)))] <= SevRank[SeverityFor(Abs(Gap(r, w)))]
        BY <3>1, <3>2, Bands
      <3>. QED
        BY <2>4, <3>4, <3>5, Ranks
    <2>7. ASSUME Dispersion(r) # -1
          PROVE  SevRank[SeverityFor(Dispersion(r))] <= SevRank[a.severity]
      <3>1. Dispersion(r) \in Nat
        BY <2>2, <2>7, DispersionIsSpread
      <3>2. Abs(Dispersion(r)) = Dispersion(r) /\ Dispersion(r) \in Int
        BY <3>1 DEF Abs
      <3>3. Measurement(r, Dispersion(r))
        BY <2>7 DEF Measurement
      <3>. QED
        BY <2>1, <2>2, <2>3, <3>2, <3>3, ReportedIsWorst DEF a
    <2>8. \A b \in bands : SevRank[b] <= SevRank[a.severity]
      BY <2>4, <2>6, <2>7
    <2>. QED
      BY <2>3, <2>5, <2>8
  <1>. QED
    BY EngineBegins, EngineStep, <1>1, PTL DEF Spec

-----------------------------------------------------------------------------
(***************************************************************************)
(* The same observations at a later time.                                  *)
(***************************************************************************)
\* The inputs of s are those of r at a later now.
Aged(r, s) == r \in Reading /\ s \in Reading /\ SameLater(r, s)

LEMMA AgedInputs ==
  ASSUME NEW r, NEW s, Aged(r, s)
  PROVE  /\ s.reference.price = r.reference.price
         /\ s.reference.currency = r.reference.currency
         /\ s.tokens = r.tokens /\ s.pairs = r.pairs
         /\ s.confirmations = r.confirmations
         /\ s.reference.age \in Int /\ r.reference.age \in Int
  <1>1. r.reference \in [price : Int, currency : {r.reference.currency}, age : Int]
    BY InputsAssumption DEF Aged, Reading, SameLater
  <1>2. DOMAIN r = {"reference", "tokens", "market", "pairs", "confirmations"}
    BY DEF Aged, Reading
  <1>3. s.reference = [r.reference EXCEPT !.age = s.reference.age]
    BY <1>2 DEF Aged, SameLater
  <1>4. /\ s.reference.price = r.reference.price
        /\ s.reference.currency = r.reference.currency
    BY <1>1, <1>3
  <1>5. /\ s.tokens = r.tokens /\ s.pairs = r.pairs
        /\ s.confirmations = r.confirmations
    BY <1>2 DEF Aged, SameLater
  <1>6. s.reference.age \in Int /\ r.reference.age \in Int
    BY Inputs DEF Aged, SameLater
  <1>. QED
    BY <1>4, <1>5, <1>6

\* Age measures nothing: the findings are the same.
LEMMA AgedFindings ==
  ASSUME NEW r, NEW s, Aged(r, s)
  PROVE  Measured(s) = Measured(r) /\ Candidates(s) = Candidates(r)
  <1>1. Measured(s) = Measured(r)
    BY AgedInputs DEF Aged, SameLater, Measured, Priced
  <1>2. \A k : Gap(s, k) = Gap(r, k)
    BY AgedInputs DEF Gap
  <1>3. Currency(s) = Currency(r) /\ Prices(s) = Prices(r)
    BY AgedInputs DEF Aged, SameLater, Currency, Prices
  <1>4. Wrappers(s) = Wrappers(r)
    BY AgedInputs, <1>3 DEF Wrappers
  <1>5. Dispersion(s) = Dispersion(r)
    BY <1>4 DEF Dispersion
  <1>6. \A j, k : Dominates(s, j, k) <=> Dominates(r, j, k)
    BY <1>2 DEF Dominates
  <1>. DEFINE widest(q) == {i \in Measured(q) : \A j \in Measured(q) : Dominates(q, i, j)}
              gaps(q) == {Gap(q, k) : k \in widest(q)}
  <1>7. widest(s) = widest(r)
    BY <1>1, <1>6
  <1>8. gaps(s) = gaps(r)
    BY <1>2, <1>7
  <1>9. \A q : Candidates(q) =
          {c \in {Candidate("parity_gap", g) : g \in gaps(q)}
             \cup {Candidate("cross_wrapper_dispersion", d) : d \in {Dispersion(q)} \ {-1}} :
             c.severity # "none"}
    BY DEF Candidates
  <1>. HIDE DEF gaps
  <1>10. Candidates(s) = Candidates(r)
    BY <1>5, <1>8, <1>9
  <1>. QED
    BY <1>1, <1>10

LEMMA AgedState ==
  ASSUME NEW r, NEW s, Aged(r, s)
  PROVE  \/ ReferenceState(r) = "incomparable" /\ ReferenceState(s) = "incomparable"
         \/ /\ ReferenceState(r) =
                 IF r.market = "closed" THEN "market_closed" ELSE Freshness(r.reference.age)
            /\ ReferenceState(s) =
                 IF s.market = "closed" THEN "market_closed" ELSE Freshness(s.reference.age)
  BY AgedInputs, AgedFindings DEF Aged, SameLater, ReferenceState, AggregateFreshness

LEMMA AgedFreshness ==
  ASSUME NEW r, NEW s, Aged(r, s)
  PROVE  LET old == Freshness(r.reference.age)
             new == Freshness(s.reference.age)
         IN <<old, new>> \in {<<"fresh", "fresh">>, <<"fresh", "aging">>, <<"fresh", "stale">>,
                              <<"aging", "aging">>, <<"aging", "stale">>, <<"stale", "stale">>}
  <1>1. /\ FreshSeconds \in Int /\ AgingSeconds \in Int
        /\ r.reference.age \in Int /\ s.reference.age \in Int
    BY EngineAssumption, AgedInputs
  <1>2. r.reference.age <= s.reference.age
    BY DEF Aged, SameLater
  <1>. QED
    BY <1>1, <1>2 DEF Freshness

LEMMA AgedAnomaly ==
  ASSUME NEW r, NEW s, Aged(r, s)
  PROVE  DetectAnomaly(s) = DetectAnomaly(r)
  <1>1. ReferenceState(s) \in Incomparable <=> ReferenceState(r) \in Incomparable
    BY AgedState, AgedFreshness DEF Incomparable
  <1>. DEFINE best(C) == CHOOSE c \in C : \A d \in C : Precedes(c, d)
              found(nothing, C) == IF nothing \/ C = {} THEN NoAnomaly ELSE best(C)
  <1>2. \A q : DetectAnomaly(q) = found(ReferenceState(q) \in Incomparable, Candidates(q))
    BY DEF DetectAnomaly
  <1>3. Candidates(s) = Candidates(r)
    BY AgedFindings
  <1>. HIDE DEF best
  <1>. QED
    BY <1>1, <1>2, <1>3

\* Only an opening session raises the quality, by 15 times the difference of
\* what an open and a closed market are worth.
LEMMA AgedQuality ==
  ASSUME NEW r, NEW s, Aged(r, s), NEW anomalous \in BOOLEAN
  PROVE  /\ ~Opens(r, s) => Quality(s, anomalous) <= Quality(r, anomalous)
         /\ Opens(r, s) => Quality(s, anomalous) <= Quality(r, anomalous) + 90
  <1>. DEFINE worth(fresh) == CASE fresh = "fresh" -> 10 [] fresh = "aging" -> 6
                                [] fresh = "stale" -> 2  [] OTHER -> 0
              n(q) == Len(q.tokens)
              confirmed(q) == q.confirmations + (IF anomalous THEN 1 ELSE 0)
              a(q) == IF \A k \in DOMAIN q.tokens : q.tokens[k].source THEN 10 ELSE 7
              b(q) == CASE n(q) = 0 -> 0 [] n(q) = 1 -> 4 [] n(q) = 2 -> 8 [] OTHER -> 10
              hours(m) == CASE m \in {"open", "continuous"} -> 10 [] m = "unknown" -> 7
                            [] OTHER -> 4
              c(q) == hours(UnderlyingMarket(q))
              d(q) == IF confirmed(q) >= 2 THEN 10 ELSE 6
              e(q) == CASE q.pairs = "yes" -> 10 [] q.pairs = "no" -> 9 [] OTHER -> 8
  <1>1. \A q : Quality(q, anomalous) =
          30 * worth(AggregateFreshness(q)) + 15 * a(q) + 20 * b(q) + 15 * c(q)
            + 10 * d(q) + 10 * e(q)
    BY DEF Quality
  <1>2. a(r) \in Int /\ b(r) \in Int /\ c(r) \in Int /\ d(r) \in Int /\ e(r) \in Int
    <2>1. a(r) \in Int
      OBVIOUS
    <2>2. b(r) \in Int
      OBVIOUS
    <2>3. c(r) \in Int
      OBVIOUS
    <2>4. d(r) \in Int
      OBVIOUS
    <2>5. e(r) \in Int
      OBVIOUS
    <2>. QED
      BY <2>1, <2>2, <2>3, <2>4, <2>5
  <1>3. a(s) = a(r) /\ b(s) = b(r) /\ d(s) = d(r) /\ e(s) = e(r)
    BY AgedInputs
  <1>4. /\ AggregateFreshness(r) = Freshness(r.reference.age)
        /\ AggregateFreshness(s) = Freshness(s.reference.age)
    BY DEF Aged, SameLater, AggregateFreshness
  <1>5. /\ worth(AggregateFreshness(s)) \in Int /\ worth(AggregateFreshness(r)) \in Int
        /\ worth(AggregateFreshness(s)) <= worth(AggregateFreshness(r))
    BY <1>4, AgedFreshness
  <1>6. /\ c(s) \in Int
        /\ ~Opens(r, s) => c(s) <= c(r)
        /\ Opens(r, s) => c(s) = c(r) + 6
    <2>1. c(r) = hours(r.market) /\ c(s) = hours(s.market)
      BY DEF Aged, SameLater, UnderlyingMarket
    <2>2. \/ s.market = r.market
          \/ r.market = "open" /\ s.market = "closed"
          \/ r.market = "closed" /\ s.market = "open"
      BY Zenon DEF Aged, SameLater, Turns
    <2>3. hours("open") = 10 /\ hours("closed") = 4 /\ \A m : hours(m) \in Int
      OBVIOUS
    <2>. HIDE DEF c, hours
    <2>. QED
      BY <2>1, <2>2, <2>3 DEF Opens
  <1>. HIDE DEF worth, a, b, c, d, e
  <1>. QED
    BY <1>1, <1>2, <1>3, <1>5, <1>6

\* Evaluated later, the same observations are better evidence only where the
\* session has opened in between (BetterOnlyAtOpening).
THEOREM LaterIsNoBetter == Spec => BetterOnlyAtOpening
  <1>. DEFINE Later == SameLater(reading, reading')
              Opening == Opens(reading, reading')
              Same == /\ evaluation'.severity = evaluation.severity
                      /\ evaluation'.kind = evaluation.kind
                      /\ evaluation'.deviation = evaluation.deviation
              NoBetter == /\ evaluation.classification = "price_difference"
                               => evaluation'.classification # "parity_gap"
                          /\ evaluation'.quality <= evaluation.quality
              AtOpening == /\ evaluation'.classification = "parity_gap"
                                => Freshness(reading'.reference.age) # "stale"
                           /\ evaluation'.quality <= evaluation.quality + 90
              Holds == Same /\ (~Opening => NoBetter) /\ (Opening => AtOpening)
  <1>1. EngineInv /\ EngineInv' /\ Later => Holds
    <2>1. SUFFICES ASSUME EngineInv, EngineInv', Later PROVE Holds
      OBVIOUS
    <2>. DEFINE r == reading
                s == reading'
                anomaly == DetectAnomaly(r)
    <2>2. Aged(r, s)
      BY <2>1 DEF Aged, EngineInv
    <2>3. evaluation = Evaluate(r) /\ evaluation' = Evaluate(s)
      BY <2>1 DEF EngineInv
    <2>4. /\ evaluation.quality = Quality(r, anomaly.severity # "none")
          /\ evaluation'.quality = Quality(s, anomaly.severity # "none")
      BY <2>2, <2>3, AgedAnomaly DEF Evaluate
    <2>5. /\ evaluation.classification = "price_difference" =>
               anomaly.severity # "none" /\ ReferenceState(r) \notin {"fresh", "aging"}
          /\ evaluation'.classification = "parity_gap" =>
               ReferenceState(s) \in {"fresh", "aging"}
      BY <2>2, <2>3, AgedAnomaly DEF Evaluate
    <2>6. Same
      BY <2>2, <2>3, AgedAnomaly DEF Evaluate
    <2>. HIDE DEF r, s, anomaly
    <2>7. /\ ~Opens(r, s) => evaluation'.quality <= evaluation.quality
          /\ Opens(r, s) => evaluation'.quality <= evaluation.quality + 90
      BY <2>2, <2>4, AgedQuality
    <2>8. ~Opens(r, s) /\ ReferenceState(r) \notin {"fresh", "aging"} =>
            ReferenceState(s) \notin {"fresh", "aging"}
      <3>1. \/ s.market = r.market
            \/ r.market = "open" /\ s.market = "closed"
            \/ Opens(r, s)
        BY <2>2, Zenon DEF Aged, SameLater, Turns, Opens
      <3>. QED
        BY <2>2, <3>1, AgedState, AgedFreshness
    <2>9. ReferenceState(s) \in {"fresh", "aging"} => Freshness(s.reference.age) # "stale"
      BY <2>2, AgedState
    <2>. QED
      BY <2>5, <2>6, <2>7, <2>8, <2>9 DEF r, s
  <1>2. EngineInv /\ EngineInv' => [Later => Holds]_vars
    BY <1>1
  <1>. QED
    BY EngineBegins, EngineStep, <1>2, PTL DEF Spec, BetterOnlyAtOpening

\* A list that holds the members of a finite set, each in one place, repeats none.
LEMMA OrderRepeatsNone ==
  ASSUME NEW S, IsFiniteSet(S), NEW f \in Orders(S)
  PROVE  /\ Cardinality(S) \in Nat /\ f \in [1 .. Cardinality(S) -> S]
         /\ \A x \in S : \E k \in 1 .. Cardinality(S) : f[k] = x
         /\ \A j, k \in 1 .. Cardinality(S) : f[j] = f[k] => j = k
  <1>. DEFINE n == Cardinality(S)
  <1>1. n \in Nat
    BY FS_CardinalityType
  <1>2. f \in [1 .. n -> S] /\ \A x \in S : \E k \in 1 .. n : f[k] = x
    BY DEF Orders
  <1>3. f \in Surjection(1 .. n, S)
    BY <1>2 DEF Surjection
  <1>4. IsFiniteSet(1 .. n) /\ Cardinality(1 .. n) = n
    BY <1>1, FS_Interval
  <1>. HIDE DEF n
  <1>5. f \in Injection(1 .. n, S)
    BY <1>3, <1>4, FS_SurjSameCardinalityImpliesInj DEF n
  <1>6. \A j, k \in 1 .. n : f[j] = f[k] => j = k
    BY <1>5 DEF Injection, IsInjective
  <1>. QED
    BY <1>1, <1>2, <1>6 DEF n

\* Two ascending lists of a set hold the same value in each place: below the
\* first place where the first has less there would be one member too many.
LEMMA NoLessThere ==
  ASSUME NEW S, IsFiniteSet(S), NEW value, \A x \in S : value[x] \in Int,
         NEW f \in Orders(S), Ascends(f, value), NEW g \in Orders(S), Ascends(g, value),
         NEW k \in 1 .. Cardinality(S)
  PROVE  ~(value[f[k]] < value[g[k]])
  <1>. DEFINE n == Cardinality(S)
  <1>1. /\ n \in Nat /\ f \in [1 .. n -> S] /\ g \in [1 .. n -> S]
        /\ \A x \in S : \E i \in 1 .. n : g[i] = x
        /\ \A i, j \in 1 .. n : f[i] = f[j] => i = j
    BY OrderRepeatsNone
  <1>. HIDE DEF n
  <1>2. k \in 1 .. n
    BY DEF n
  <1>3. SUFFICES ASSUME value[f[k]] < value[g[k]] PROVE FALSE
    OBVIOUS
  <1>. DEFINE place == [j \in 1 .. k |-> CHOOSE i \in 1 .. n : g[i] = f[j]]
  <1>4. ASSUME NEW j \in 1 .. k
        PROVE  place[j] \in 1 .. k - 1 /\ g[place[j]] = f[j]
    <2>1. j \in 1 .. n /\ f[j] \in S
      BY <1>1, <1>2
    <2>2. \E i \in 1 .. n : g[i] = f[j]
      BY <1>1, <2>1
    <2>3. place[j] \in 1 .. n /\ g[place[j]] = f[j]
      BY <2>2
    <2>. HIDE DEF place
    <2>4. value[f[j]] <= value[f[k]]
      BY <1>1, <1>2, <2>1 DEF Ascends
    <2>5. place[j] >= k => value[g[k]] <= value[g[place[j]]]
      BY <1>1, <1>2, <2>3 DEF Ascends
    <2>6. value[f[j]] \in Int /\ value[f[k]] \in Int /\ value[g[k]] \in Int
      BY <1>1, <1>2, <2>1
    <2>7. ~(place[j] >= k)
      BY <1>3, <2>3, <2>4, <2>5, <2>6
    <2>. QED
      BY <1>2, <2>3, <2>7
  <1>5. place \in [1 .. k -> 1 .. k - 1]
    BY <1>4
  <1>6. /\ IsFiniteSet(1 .. k) /\ Cardinality(1 .. k) = k
        /\ IsFiniteSet(1 .. k - 1) /\ Cardinality(1 .. k - 1) = k - 1
    <2>1. k \in Int /\ k - 1 \in Int /\ 1 \in Int /\ k >= 1
      BY <1>1, <1>2
    <2>2. /\ IsFiniteSet(1 .. k) /\ Cardinality(1 .. k) = IF 1 > k THEN 0 ELSE k - 1 + 1
          /\ IsFiniteSet(1 .. k - 1)
          /\ Cardinality(1 .. k - 1) = IF 1 > k - 1 THEN 0 ELSE (k - 1) - 1 + 1
      BY <2>1, FS_Interval
    <2>. QED
      BY <2>1, <2>2
  <1>. HIDE DEF place
  <1>7. k - 1 < k
    BY <1>1, <1>2
  <1>8. PICK i \in 1 .. k, j \in 1 .. k : i # j /\ place[i] = place[j]
    BY <1>5, <1>6, <1>7, FS_PigeonHole
  <1>9. f[i] = f[j] /\ i \in 1 .. n /\ j \in 1 .. n
    <2>1. g[place[i]] = f[i] /\ g[place[j]] = f[j]
      BY <1>4
    <2>2. i \in 1 .. n /\ j \in 1 .. n
      BY <1>1, <1>2
    <2>. QED
      BY <1>8, <2>1, <2>2
  <1>. QED
    BY <1>1, <1>8, <1>9

LEMMA SortedIs ==
  ASSUME NEW S, IsFiniteSet(S), NEW value, \A x \in S : value[x] \in Int,
         NEW g \in Orders(S), Ascends(g, value)
  PROVE  Sorted(S, value) = [k \in 1 .. Cardinality(S) |-> value[g[k]]]
  <1>. DEFINE f == CHOOSE f \in Orders(S) : Ascends(f, value)
              n == Cardinality(S)
  <1>1. f \in Orders(S) /\ Ascends(f, value)
    BY OrderExists
  <1>2. Sorted(S, value) = [k \in DOMAIN f |-> value[f[k]]]
    BY DEF Sorted, Ascends
  <1>. HIDE DEF f
  <1>3. f \in [1 .. n -> S] /\ g \in [1 .. n -> S]
    BY <1>1, OrderRepeatsNone
  <1>4. ASSUME NEW k \in 1 .. n PROVE value[f[k]] = value[g[k]]
    <2>1. ~(value[f[k]] < value[g[k]]) /\ ~(value[g[k]] < value[f[k]])
      BY <1>1, NoLessThere
    <2>2. value[f[k]] \in Int /\ value[g[k]] \in Int
      BY <1>3
    <2>. QED
      BY <2>1, <2>2
  <1>. QED
    BY <1>2, <1>3, <1>4

\* Sorting forgets where the values came from.
LEMMA SortedForgets ==
  ASSUME NEW S, IsFiniteSet(S), NEW value, \A x \in S : value[x] \in Int,
         NEW T, NEW other, NEW p \in [S -> T], NEW q \in [T -> S],
         \A x \in S : q[p[x]] = x /\ other[p[x]] = value[x],
         \A y \in T : p[q[y]] = y
  PROVE  Sorted(T, other) = Sorted(S, value)
  <1>. DEFINE n == Cardinality(S)
  <1>1. p \in Bijection(S, T)
    <2>1. \A x, y \in S : p[x] = p[y] => x = y
      OBVIOUS
    <2>2. \A y \in T : \E x \in S : p[x] = y
      OBVIOUS
    <2>. QED
      BY <2>1, <2>2 DEF Bijection, Injection, Surjection, IsInjective
  <1>2. IsFiniteSet(T) /\ Cardinality(T) = n
    BY <1>1, FS_Bijection DEF ExistsBijection
  <1>3. PICK f \in Orders(S) : Ascends(f, value)
    BY OrderExists
  <1>4. n \in Nat /\ f \in [1 .. n -> S] /\ \A x \in S : \E k \in 1 .. n : f[k] = x
    BY OrderRepeatsNone
  <1>. HIDE DEF n
  <1>. DEFINE g == [k \in 1 .. n |-> p[f[k]]]
  <1>5. g \in [1 .. n -> T] /\ \A k \in 1 .. n : g[k] = p[f[k]] /\ f[k] \in S
    BY <1>4
  <1>6. \A y \in T : \E k \in 1 .. n : g[k] = y
    BY <1>4
  <1>. HIDE DEF g
  <1>7. g \in Orders(T)
    BY <1>2, <1>5, <1>6 DEF Orders
  <1>8. \A k \in 1 .. n : other[g[k]] = value[f[k]]
    BY <1>5
  <1>9. Ascends(g, other)
    BY <1>3, <1>4, <1>5, <1>8 DEF Ascends
  <1>10. \A y \in T : other[y] \in Int
    <2>1. \A y \in T : q[y] \in S /\ other[p[q[y]]] = value[q[y]]
      OBVIOUS
    <2>. QED
      BY <2>1
  <1>11. Sorted(S, value) = [k \in 1 .. n |-> value[f[k]]]
    BY <1>3, SortedIs DEF n
  <1>12. Sorted(T, other) = [k \in 1 .. n |-> other[g[k]]]
    BY <1>2, <1>7, <1>9, <1>10, SortedIs
  <1>. QED
    BY <1>8, <1>11, <1>12

-----------------------------------------------------------------------------
(***************************************************************************)
(* The wrappers in another order.                                          *)
(***************************************************************************)
\* Where wrapper i is found once wrappers k and k + 1 have changed places.
Across(k, i) == IF i = k THEN k + 1 ELSE IF i = k + 1 THEN k ELSE i

\* o is r with two neighbouring wrappers exchanged.
Exchanged(r, o, k) ==
  /\ r \in Reading /\ k \in 1 .. Len(r.tokens) - 1
  /\ o = [r EXCEPT !.tokens = Swapped(@, k)]

LEMMA ExchangedInputs ==
  ASSUME NEW r, NEW o, NEW k, Exchanged(r, o, k)
  PROVE  /\ o \in Reading /\ r \in Reading
         /\ o.reference = r.reference /\ o.market = r.market /\ o.pairs = r.pairs
         /\ o.confirmations = r.confirmations
         /\ DOMAIN o.tokens = DOMAIN r.tokens /\ Len(o.tokens) = Len(r.tokens)
         /\ \A i \in DOMAIN r.tokens : /\ Across(k, i) \in DOMAIN r.tokens
                                       /\ Across(k, i) \in DOMAIN o.tokens
                                       /\ i \in DOMAIN o.tokens
                                       /\ Across(k, Across(k, i)) = i
                                       /\ o.tokens[Across(k, i)] = r.tokens[i]
                                       /\ r.tokens[Across(k, i)] = o.tokens[i]
  <1>1. PICK n \in 0 .. MaxTokens : r.tokens \in [1 .. n -> Tokens]
    BY DEF Exchanged, Reading, Listings
  <1>2. n \in Nat /\ Len(r.tokens) = n /\ DOMAIN r.tokens = 1 .. n
    BY <1>1, EngineAssumption
  <1>3. k \in 1 .. n - 1
    BY <1>2 DEF Exchanged
  <1>. DEFINE s == Swapped(r.tokens, k)
  <1>4. s \in [1 .. n -> Tokens] /\ \A i \in 1 .. n : s[i] = r.tokens[Across(k, i)]
    BY <1>1, <1>2, <1>3 DEF Swapped, Across
  <1>. HIDE DEF s
  <1>5. o.tokens = s
    BY DEF Exchanged, Reading, s
  <1>6. /\ o.reference = r.reference /\ o.market = r.market /\ o.pairs = r.pairs
        /\ o.confirmations = r.confirmations
    BY DEF Exchanged, Reading
  <1>7. o \in Reading /\ r \in Reading
    <2>1. s \in Listings
      BY <1>4 DEF Listings
    <2>. QED
      BY <2>1 DEF Exchanged, Reading, s
  <1>8. DOMAIN s = 1 .. n /\ Len(s) = n
    BY <1>2, <1>4
  <1>9. \A i \in 1 .. n : Across(k, i) \in 1 .. n /\ Across(k, Across(k, i)) = i
    BY <1>2, <1>3 DEF Across
  <1>10. \A i \in 1 .. n : s[Across(k, i)] = r.tokens[i] /\ r.tokens[Across(k, i)] = s[i]
    BY <1>4, <1>9
  <1>. QED
    BY <1>2, <1>5, <1>6, <1>7, <1>8, <1>9, <1>10

LEMMA ExchangedMeasures ==
  ASSUME NEW r, NEW o, NEW k, Exchanged(r, o, k)
  PROVE  /\ \A i \in DOMAIN r.tokens : Across(k, i) \in Measured(o) <=> i \in Measured(r)
         /\ \A i \in DOMAIN r.tokens : Across(k, i) \in Measured(r) <=> i \in Measured(o)
         /\ \A i \in DOMAIN r.tokens : Gap(o, Across(k, i)) = Gap(r, i)
         /\ Measured(o) = {} <=> Measured(r) = {}
         /\ ReferenceState(o) = ReferenceState(r)
  <1>. DEFINE j(i) == Across(k, i)
  <1>0. \A i \in DOMAIN r.tokens :
          /\ j(i) \in DOMAIN r.tokens /\ j(i) \in DOMAIN o.tokens /\ i \in DOMAIN o.tokens
          /\ o.tokens[j(i)] = r.tokens[i] /\ r.tokens[j(i)] = o.tokens[i]
          /\ o.reference = r.reference
    BY ExchangedInputs
  <1>. HIDE DEF j
  <1>1. \A i \in DOMAIN r.tokens : j(i) \in Measured(o) <=> i \in Measured(r)
    BY <1>0 DEF Measured
  <1>2. \A i \in DOMAIN r.tokens : j(i) \in Measured(r) <=> i \in Measured(o)
    BY <1>0 DEF Measured
  <1>3. \A i \in DOMAIN r.tokens : Gap(o, j(i)) = Gap(r, i)
    BY <1>0 DEF Gap
  <1>4. Measured(o) \subseteq DOMAIN r.tokens /\ Measured(r) \subseteq DOMAIN r.tokens
    BY ExchangedInputs DEF Measured
  <1>5. Measured(o) = {} <=> Measured(r) = {}
    BY <1>0, <1>1, <1>2, <1>4
  <1>6. AggregateFreshness(o) = AggregateFreshness(r)
    BY ExchangedInputs DEF AggregateFreshness
  <1>7. ReferenceState(o) = ReferenceState(r)
    BY ExchangedInputs, <1>5, <1>6 DEF ReferenceState
  <1>. QED
    BY <1>1, <1>2, <1>3, <1>5, <1>7 DEF j

LEMMA ExchangedSources ==
  ASSUME NEW r, NEW o, NEW k, Exchanged(r, o, k)
  PROVE  (\A i \in DOMAIN o.tokens : o.tokens[i].source)
           <=> (\A i \in DOMAIN r.tokens : r.tokens[i].source)
  <1>1. ASSUME NEW i \in DOMAIN r.tokens
        PROVE  /\ i \in DOMAIN o.tokens /\ Across(k, i) \in DOMAIN o.tokens
               /\ o.tokens[Across(k, i)] = r.tokens[i]
    BY ExchangedInputs
  <1>2. ASSUME NEW i \in DOMAIN r.tokens
        PROVE  Across(k, i) \in DOMAIN r.tokens /\ r.tokens[Across(k, i)] = o.tokens[i]
    BY ExchangedInputs
  <1>3. DOMAIN o.tokens = DOMAIN r.tokens
    BY ExchangedInputs
  <1>. QED
    BY <1>1, <1>2, <1>3

\* With a reference the currency is that of the reference, and the prices in
\* it are the same however listed.
LEMMA ExchangedSpread ==
  ASSUME NEW r, NEW o, NEW k, Exchanged(r, o, k), r.reference # NoReference
  PROVE  Dispersion(o) = Dispersion(r)
  <1>. DEFINE in(q) == {i \in DOMAIN q.tokens : Priced(q.tokens[i], Currency(q))}
              S == in(r)
              T == in(o)
              p == [i \in S |-> Across(k, i)]
              q == [i \in T |-> Across(k, i)]
  <1>1. Currency(o) = Currency(r)
    BY ExchangedInputs DEF Currency
  <1>2. S \subseteq DOMAIN r.tokens /\ T \subseteq DOMAIN r.tokens
    BY ExchangedInputs
  <1>3. \A i \in DOMAIN r.tokens : (Across(k, i) \in T <=> i \in S)
                                   /\ (Across(k, i) \in S <=> i \in T)
    BY ExchangedInputs, <1>1
  <1>4. \A i \in DOMAIN r.tokens : Prices(o)[Across(k, i)] = Prices(r)[i]
    <2>1. /\ Prices(o) = [i \in DOMAIN r.tokens |-> o.tokens[i].price]
          /\ Prices(r) = [i \in DOMAIN r.tokens |-> r.tokens[i].price]
      BY ExchangedInputs DEF Prices
    <2>2. \A i \in DOMAIN r.tokens : /\ Across(k, i) \in DOMAIN r.tokens
                                     /\ o.tokens[Across(k, i)] = r.tokens[i]
      BY ExchangedInputs
    <2>. QED
      BY <2>1, <2>2
  <1>5. IsFiniteSet(S)
    <2>1. IsFiniteSet(DOMAIN r.tokens)
      BY ExchangedInputs, Inputs, FS_Interval
    <2>. QED
      BY <1>2, <2>1, FS_Subset
  <1>6. \A i \in S : Prices(r)[i] \in Int
    BY ExchangedInputs, Inputs DEF Prices
  <1>7. Wrappers(r) = Sorted(S, Prices(r)) /\ Wrappers(o) = Sorted(T, Prices(o))
    BY DEF Wrappers
  <1>. HIDE DEF S, T
  <1>8. p \in [S -> T] /\ q \in [T -> S]
    BY <1>2, <1>3
  <1>9. /\ \A i \in S : q[p[i]] = i /\ Prices(o)[p[i]] = Prices(r)[i]
        /\ \A i \in T : p[q[i]] = i
    BY <1>2, <1>4, <1>8, ExchangedInputs
  <1>. HIDE DEF p, q
  <1>10. Wrappers(o) = Wrappers(r)
    BY <1>5, <1>6, <1>7, <1>8, <1>9, SortedForgets
  <1>. QED
    BY <1>10 DEF Dispersion

\* Alike but for the sign.
SameFinding(c, d) ==
  c.kind = d.kind /\ c.severity = d.severity /\ Abs(c.deviation) = Abs(d.deviation)

LEMMA ExchangedWidest ==
  ASSUME NEW r, NEW o, NEW k, Exchanged(r, o, k), NEW i, WidestGap(r, i)
  PROVE  \E j : WidestGap(o, j) /\ Abs(Gap(o, j)) = Abs(Gap(r, i))
  <1>1. r \in Reading /\ o \in Reading
    BY ExchangedInputs
  <1>2. i \in Measured(r) /\ i \in DOMAIN r.tokens
    BY DEF WidestGap, Measured
  <1>3. Measured(o) # {}
    BY <1>2, ExchangedMeasures
  <1>4. PICK j \in Measured(o) :
          WidestGap(o, j) /\ \A m \in Measured(o) : Abs(Gap(o, m)) <= Abs(Gap(o, j))
    BY <1>1, <1>3, WidestExists
  <1>5. j \in DOMAIN r.tokens
    BY ExchangedInputs DEF Measured
  <1>6. Across(k, i) \in Measured(o) /\ Gap(o, Across(k, i)) = Gap(r, i)
    BY <1>2, ExchangedMeasures
  <1>7. Across(k, j) \in Measured(r) /\ Gap(r, Across(k, j)) = Gap(o, j)
    <2>1. Across(k, j) \in DOMAIN r.tokens /\ Across(k, Across(k, j)) = j
      BY <1>5, ExchangedInputs
    <2>. QED
      BY <1>5, <2>1, ExchangedMeasures
  <1>8. Abs(Gap(r, i)) <= Abs(Gap(o, j))
    BY <1>4, <1>6
  <1>9. Abs(Gap(o, j)) <= Abs(Gap(r, i))
    <2>1. Dominates(r, i, Across(k, j))
      BY <1>7 DEF WidestGap
    <2>2. Abs(Gap(r, i)) \in Nat /\ Abs(Gap(r, Across(k, j))) \in Nat
      BY <1>1, <1>2, <1>7, GapIsNumber
    <2>. QED
      BY <1>7, <2>1, <2>2 DEF Dominates
  <1>10. Abs(Gap(r, i)) \in Nat /\ Abs(Gap(o, j)) \in Nat
    BY <1>1, <1>2, <1>4, GapIsNumber
  <1>. QED
    BY <1>4, <1>8, <1>9, <1>10

LEMMA ExchangedCandidates ==
  ASSUME NEW r, NEW o, NEW k, Exchanged(r, o, k), r.reference # NoReference,
         NEW c \in Candidates(r)
  PROVE  \E d \in Candidates(o) : SameFinding(c, d)
  <1>1. r \in Reading /\ o \in Reading
    BY ExchangedInputs
  <1>2. c.severity = SeverityFor(Abs(c.deviation)) /\ c.severity # "none"
    BY <1>1, CandidatesAre
  <1>3. ASSUME NEW d, Abs(d) = Abs(c.deviation), Candidate(c.kind, d) \in Candidates(o)
        PROVE  \E e \in Candidates(o) : SameFinding(c, e)
    <2>1. SameFinding(c, Candidate(c.kind, d))
      BY <1>2, <1>3 DEF SameFinding, Candidate
    <2>. QED
      BY <1>3, <2>1
  <1>4. \A d : Abs(d) = Abs(c.deviation) => Candidate(c.kind, d).severity # "none"
    BY <1>2 DEF Candidate
  <1>5. CASE c.kind = "parity_gap"
    <2>1. PICK i : WidestGap(r, i) /\ c.deviation = Gap(r, i)
      BY <1>1, <1>5, CandidatesAre
    <2>2. PICK j : WidestGap(o, j) /\ Abs(Gap(o, j)) = Abs(Gap(r, i))
      BY <2>1, ExchangedWidest
    <2>3. Gap(o, j) \in {Gap(o, i_1) : i_1 \in {i_2 \in Measured(o) :
                                      \A m \in Measured(o) : Dominates(o, i_2, m)}}
      BY <2>2 DEF WidestGap
    <2>4. Candidate("parity_gap", Gap(o, j)) \in Candidates(o)
      BY <1>4, <1>5, <2>1, <2>2, <2>3 DEF Candidates
    <2>. QED
      BY <1>3, <1>5, <2>1, <2>2, <2>4
  <1>6. CASE c.kind = "cross_wrapper_dispersion"
    <2>1. c.deviation = Dispersion(o) /\ Dispersion(o) # -1
      BY <1>1, <1>6, CandidatesAre, ExchangedSpread
    <2>2. Candidate("cross_wrapper_dispersion", Dispersion(o)) \in Candidates(o)
      BY <1>4, <1>6, <2>1 DEF Candidates
    <2>. QED
      BY <1>3, <1>6, <2>1, <2>2
  <1>. QED
    BY <1>1, <1>5, <1>6, CandidatesAre

LEMMA ExchangedBack ==
  ASSUME NEW r, NEW o, NEW k, Exchanged(r, o, k)
  PROVE  Exchanged(o, r, k)
  <1>1. /\ o \in Reading /\ k \in 1 .. Len(o.tokens) - 1
    BY ExchangedInputs DEF Exchanged
  <1>2. PICK n \in 0 .. MaxTokens : r.tokens \in [1 .. n -> Tokens]
    BY DEF Exchanged, Reading, Listings
  <1>3. n \in Nat /\ Len(r.tokens) = n /\ k \in 1 .. n - 1
    BY <1>2, EngineAssumption DEF Exchanged
  <1>4. Swapped(Swapped(r.tokens, k), k) = r.tokens
    BY <1>2, <1>3 DEF Swapped
  <1>5. r = [o EXCEPT !.tokens = Swapped(@, k)]
    BY <1>4 DEF Exchanged, Reading
  <1>. QED
    BY <1>1, <1>5 DEF Exchanged

LEMMA ExchangedAnomaly ==
  ASSUME NEW r, NEW o, NEW k, Exchanged(r, o, k)
  PROVE  SameFinding(DetectAnomaly(r), DetectAnomaly(o))
  <1>1. r \in Reading /\ o \in Reading /\ Exchanged(o, r, k)
        /\ o.reference = r.reference /\ ReferenceState(o) = ReferenceState(r)
    BY ExchangedInputs, ExchangedMeasures, ExchangedBack
  <1>2. CASE ReferenceState(r) \in Incomparable
    BY <1>1, <1>2 DEF DetectAnomaly, SameFinding
  <1>3. CASE ReferenceState(r) \notin Incomparable
    <2>1. r.reference # NoReference
      BY <1>3 DEF ReferenceState, Measured, Incomparable
    <2>2. \A c \in Candidates(r) : \E d \in Candidates(o) : SameFinding(c, d)
      BY <2>1, ExchangedCandidates
    <2>3. \A c \in Candidates(o) : \E d \in Candidates(r) : SameFinding(c, d)
      BY <1>1, <2>1, ExchangedCandidates
    <2>4. CASE Candidates(r) = {}
      BY <2>3, <2>4 DEF DetectAnomaly, SameFinding
    <2>5. CASE Candidates(r) # {}
      <3>. DEFINE a == DetectAnomaly(r)
                  b == DetectAnomaly(o)
      <3>1. Candidates(o) # {}
        BY <2>2, <2>5
      <3>2. /\ a \in Candidates(r) /\ \A d \in Candidates(r) : Precedes(a, d)
            /\ b \in Candidates(o) /\ \A d \in Candidates(o) : Precedes(b, d)
        BY <1>1, <1>3, <2>5, <3>1, Detected
      <3>. HIDE DEF a, b
      <3>3. PICK x \in Candidates(o) : SameFinding(a, x)
        BY <2>2, <3>2
      <3>4. PICK y \in Candidates(r) : SameFinding(b, y)
        BY <2>3, <3>2
      <3>5. a.kind = b.kind
        <4>1. SUFFICES ASSUME a.kind # b.kind PROVE FALSE
          OBVIOUS
        <4>2. Precedes(b, x) /\ Precedes(a, y)
          BY <3>2, <3>3, <3>4
        <4>3. b # x /\ a # y
          BY <3>3, <3>4, <4>1 DEF SameFinding
        <4>4. /\ SevRank[a.severity] \in Int /\ SevRank[b.severity] \in Int
              /\ Abs(a.deviation) \in Int /\ Abs(b.deviation) \in Int
          <5>1. a.deviation \in Int /\ b.deviation \in Int
            BY <1>1, <3>2, CandidatesAre
          <5>2. Abs(a.deviation) \in Int /\ Abs(b.deviation) \in Int
            BY <5>1 DEF Abs
          <5>3. a.severity = SeverityFor(Abs(a.deviation))
                /\ b.severity = SeverityFor(Abs(b.deviation))
            BY <1>1, <3>2, CandidatesAre
          <5>4. a.severity \in Severities /\ b.severity \in Severities
            BY <5>2, <5>3, Bands
          <5>. QED
            BY <5>2, <5>4, Ranks
        <4>5. /\ \/ SevRank[b.severity] > SevRank[a.severity]
                 \/ /\ b.severity = a.severity
                    /\ \/ Abs(b.deviation) > Abs(a.deviation)
                       \/ Abs(b.deviation) = Abs(a.deviation) /\ b.kind = "parity_gap"
              /\ \/ SevRank[a.severity] > SevRank[b.severity]
                 \/ /\ a.severity = b.severity
                    /\ \/ Abs(a.deviation) > Abs(b.deviation)
                       \/ Abs(a.deviation) = Abs(b.deviation) /\ a.kind = "parity_gap"
          BY <3>3, <3>4, <4>2, <4>3 DEF Precedes, SameFinding
        <4>. QED
          BY <4>1, <4>4, <4>5
      <3>6. x = b
        BY <1>1, <3>2, <3>3, <3>5, OneOfAKind DEF SameFinding
      <3>. QED
        BY <3>3, <3>6 DEF a, b
    <2>. QED
      BY <2>4, <2>5
  <1>. QED
    BY <1>2, <1>3

\* Any two neighbours of the list may change places: the verdict, its class
\* and its quality stay, and the deviation but for its sign.
THEOREM OrderIsForgotten == Spec => []OrderDecidesNothing
  <1>1. EngineInv => OrderDecidesNothing
    <2>1. SUFFICES ASSUME EngineInv, NEW k \in 1 .. Len(reading.tokens) - 1
                   PROVE  [evaluation EXCEPT !.deviation = Abs(@)] =
                            [Evaluate([reading EXCEPT !.tokens = Swapped(@, k)])
                               EXCEPT !.deviation = Abs(@)]
      BY DEF OrderDecidesNothing
    <2>. DEFINE r == reading
                o == [reading EXCEPT !.tokens = Swapped(@, k)]
                a == DetectAnomaly(r)
                b == DetectAnomaly(o)
    <2>2. Exchanged(r, o, k)
      BY <2>1 DEF Exchanged, EngineInv
    <2>3. evaluation = Evaluate(r)
      BY <2>1 DEF EngineInv
    <2>. HIDE DEF r, o
    <2>4. a.kind = b.kind /\ a.severity = b.severity /\ Abs(a.deviation) = Abs(b.deviation)
      BY <2>2, ExchangedAnomaly DEF SameFinding
    <2>5. ReferenceState(o) = ReferenceState(r)
      BY <2>2, ExchangedMeasures
    <2>6. \A anomalous : Quality(o, anomalous) = Quality(r, anomalous)
      <3>1. AggregateFreshness(o) = AggregateFreshness(r)
        BY <2>2, ExchangedInputs DEF AggregateFreshness
      <3>2. (\A i \in DOMAIN o.tokens : o.tokens[i].source)
              <=> (\A i \in DOMAIN r.tokens : r.tokens[i].source)
        BY <2>2, ExchangedSources
      <3>3. /\ Len(o.tokens) = Len(r.tokens) /\ o.market = r.market /\ o.pairs = r.pairs
            /\ o.confirmations = r.confirmations
        BY <2>2, ExchangedInputs
      <3>. QED
        BY <2>2, <3>1, <3>2, <3>3, ExchangedInputs DEF Quality, UnderlyingMarket
    <2>. HIDE DEF a, b
    <2>7. Evaluate(o) = [Evaluate(r) EXCEPT !.deviation = b.deviation]
      BY <2>4, <2>5, <2>6 DEF Evaluate, a, b
    <2>8. [Evaluate(o) EXCEPT !.deviation = Abs(@)] = [Evaluate(r) EXCEPT !.deviation = Abs(b.deviation)]
      BY <2>7 DEF Evaluate
    <2>9. [Evaluate(r) EXCEPT !.deviation = Abs(@)] = [Evaluate(r) EXCEPT !.deviation = Abs(a.deviation)]
      BY DEF Evaluate, a
    <2>. QED
      BY <2>3, <2>4, <2>8, <2>9 DEF o
  <1>. QED
    BY EngineBegins, EngineStep, <1>1, PTL DEF Spec

-----------------------------------------------------------------------------
(***************************************************************************)
(* A wrapper that moves further out.                                       *)
(***************************************************************************)
LEMMA QuotientsOrdered ==
  ASSUME NEW x \in Int, NEW u \in Int, NEW y \in Nat \ {0}, NEW v \in Nat \ {0}, x * v <= u * y
  PROVE  x \div y <= u \div v
  OBVIOUS

LEMMA PercentOrdered ==
  ASSUME NEW n \in Int, NEW m \in Int, NEW d \in Nat \ {0}, NEW e \in Nat \ {0},
         n * e <= m * d
  PROVE  Percent(n, d) <= Percent(m, e)
  <1>. DEFINE c == 200 * Unit
              x == c * n + d
              y == 2 * d
              u == c * m + e
              v == 2 * e
  <1>1. c \in Nat
    BY EngineAssumption
  <1>2. Percent(n, d) = x \div y /\ Percent(m, e) = u \div v
    BY DEF Percent
  <1>. HIDE DEF c
  <1>3. x \in Int /\ u \in Int /\ y \in Nat \ {0} /\ v \in Nat \ {0}
    BY <1>1
  <1>4. x * v <= u * y
    <2>. DEFINE p == n * e
                q == m * d
    <2>1. p \in Int /\ q \in Int /\ p <= q
      OBVIOUS
    <2>2. c * p <= c * q
      BY <1>1, <2>1
    <2>3. x * v = 2 * (c * p) + 2 * (d * e) /\ u * y = 2 * (c * q) + 2 * (d * e)
      BY <1>1
    <2>4. c * p \in Int /\ c * q \in Int /\ d * e \in Int
      BY <1>1, <2>1
    <2>. HIDE DEF p, q
    <2>. QED
      BY <2>2, <2>3, <2>4
  <1>. HIDE DEF x, y, u, v
  <1>. QED
    BY <1>2, <1>3, <1>4, QuotientsOrdered

LEMMA PercentSign ==
  ASSUME NEW n \in Int, NEW d \in Nat \ {0}
  PROVE  /\ Percent(n, d) \in Int
         /\ n >= 0 => Percent(n, d) >= 0
         /\ n <= 0 => Percent(n, d) <= 0
  <1>1. Percent(n, d) \in Int /\ (n >= 0 => Percent(n, d) >= 0)
    BY PercentIsNumber
  <1>2. ASSUME n <= 0 PROVE Percent(n, d) <= 0
    <2>1. Percent(n, d) <= Percent(0, d)
      BY <1>2, PercentOrdered
    <2>2. Percent(0, d) = 0
      <3>1. 200 * Unit * 0 + d = d
        BY EngineAssumption
      <3>2. d \div (2 * d) = 0
        OBVIOUS
      <3>. QED
        BY <3>1, <3>2 DEF Percent
    <2>. QED
      BY <2>1, <2>2
  <1>. QED
    BY <1>1, <1>2

\* A member can be put after, or before, the others in any order of them.
LEMMA OrderExtends ==
  ASSUME NEW S, IsFiniteSet(S), NEW x \in S, NEW g \in Orders(S \ {x})
  PROVE  LET n == Cardinality(S)
         IN /\ n \in Nat \ {0} /\ g \in [1 .. n - 1 -> S \ {x}]
            /\ [i \in 1 .. n |-> IF i = n THEN x ELSE g[i]] \in Orders(S)
            /\ [i \in 1 .. n |-> IF i = 1 THEN x ELSE g[i - 1]] \in Orders(S)
  <1>. DEFINE n == Cardinality(S)
              last == [i \in 1 .. n |-> IF i = n THEN x ELSE g[i]]
              first == [i \in 1 .. n |-> IF i = 1 THEN x ELSE g[i - 1]]
  <1>1. n \in Nat \ {0} /\ IsFiniteSet(S \ {x}) /\ Cardinality(S \ {x}) = n - 1
    BY FS_RemoveElement, FS_EmptySet, FS_CardinalityType
  <1>. HIDE DEF n
  <1>2. g \in [1 .. n - 1 -> S \ {x}] /\ \A y \in S \ {x} : \E i \in 1 .. n - 1 : g[i] = y
    BY <1>1 DEF Orders
  <1>3. last \in [1 .. n -> S] /\ first \in [1 .. n -> S]
    BY <1>1, <1>2
  <1>4. \A y \in S : \E i \in 1 .. n : last[i] = y
    <2>1. last[n] = x /\ n \in 1 .. n
      BY <1>1
    <2>2. \A i \in 1 .. n - 1 : i \in 1 .. n /\ last[i] = g[i]
      BY <1>1
    <2>. QED
      BY <1>2, <2>1, <2>2
  <1>5. \A y \in S : \E i \in 1 .. n : first[i] = y
    <2>1. first[1] = x /\ 1 \in 1 .. n
      BY <1>1
    <2>2. ASSUME NEW y \in S \ {x} PROVE \E i \in 1 .. n : first[i] = y
      <3>1. PICK i \in 1 .. n - 1 : g[i] = y
        BY <1>2
      <3>2. i + 1 \in 1 .. n /\ first[i + 1] = g[i]
        BY <1>1
      <3>. QED
        BY <3>1, <3>2
    <2>. QED
      BY <2>1, <2>2
  <1>. HIDE DEF last, first
  <1>6. last \in Orders(S) /\ first \in Orders(S)
    BY <1>3, <1>4, <1>5 DEF Orders, n
  <1>. QED
    BY <1>1, <1>2, <1>6 DEF n, last, first

\* Sorted values whose ends lie further apart, the others being as they were.
Apart(n, s, t) ==
  /\ s \in [1 .. n -> Int] /\ t \in [1 .. n -> Int]
  /\ t[1] <= s[1] /\ s[n] <= t[n] /\ \A i \in 2 .. n - 1 : t[i] = s[i]

\* The sorted values when the member of the greatest value has a greater one.
LEMMA LastRaised ==
  ASSUME NEW S, IsFiniteSet(S), Cardinality(S) >= 2, NEW x \in S, NEW value, NEW other,
         \A y \in S : value[y] \in Int /\ other[y] \in Int,
         \A y \in S \ {x} : other[y] = value[y] /\ value[y] <= value[x],
         value[x] <= other[x]
  PROVE  Apart(Cardinality(S), Sorted(S, value), Sorted(S, other))
  <1>. DEFINE n == Cardinality(S)
              rest == S \ {x}
  <1>1. IsFiniteSet(rest)
    BY FS_RemoveElement
  <1>2. PICK g \in Orders(rest) : Ascends(g, value)
    BY <1>1, OrderExists
  <1>. DEFINE f == [i \in 1 .. n |-> IF i = n THEN x ELSE g[i]]
  <1>3. n \in Nat \ {0} /\ g \in [1 .. n - 1 -> rest] /\ f \in Orders(S)
    BY OrderExtends
  <1>. HIDE DEF n
  <1>4. f[n] = x /\ \A i \in 1 .. n - 1 : f[i] = g[i] /\ f[i] \in rest
    BY <1>3
  <1>5. DOMAIN f = 1 .. n
    BY <1>3
  <1>. HIDE DEF f
  <1>6. ASSUME NEW i \in 1 .. n, NEW j \in 1 .. n, i <= j
        PROVE  value[f[i]] <= value[f[j]] /\ other[f[i]] <= other[f[j]]
    <2>1. CASE j = n /\ i = n
      BY <1>4, <2>1
    <2>2. CASE j = n /\ i # n
      <3>1. i \in 1 .. n - 1
        BY <1>3, <2>2
      <3>2. f[i] \in rest
        BY <1>4, <3>1
      <3>. QED
        BY <1>4, <2>2, <3>2
    <2>3. CASE j # n
      <3>1. i \in 1 .. n - 1 /\ j \in 1 .. n - 1
        BY <1>3, <1>6, <2>3
      <3>2. value[g[i]] <= value[g[j]]
        BY <1>2, <1>3, <1>6, <3>1 DEF Ascends
      <3>. QED
        BY <1>4, <3>1, <3>2
    <2>. QED
      BY <2>1, <2>2, <2>3
  <1>7. Ascends(f, value) /\ Ascends(f, other)
    BY <1>5, <1>6 DEF Ascends
  <1>8. /\ Sorted(S, value) = [i \in 1 .. n |-> value[f[i]]]
        /\ Sorted(S, other) = [i \in 1 .. n |-> other[f[i]]]
    BY <1>3, <1>7, SortedIs DEF n
  <1>9. \A i \in 1 .. n : f[i] \in S
    BY <1>3, <1>4
  <1>10. n >= 2
    BY DEF n
  <1>11. /\ \A i \in 1 .. n : /\ Sorted(S, value)[i] = value[f[i]]
                             /\ Sorted(S, other)[i] = other[f[i]]
         /\ \A i \in 1 .. n - 1 : i \in 1 .. n /\ value[f[i]] = other[f[i]]
         /\ n \in 1 .. n
    BY <1>3, <1>4, <1>8
  <1>12. Sorted(S, value) \in [1 .. n -> Int] /\ Sorted(S, other) \in [1 .. n -> Int]
    BY <1>8, <1>9
  <1>13. Sorted(S, value)[n] <= Sorted(S, other)[n]
    BY <1>4, <1>11
  <1>14. \A i \in 1 .. n - 1 : Sorted(S, other)[i] = Sorted(S, value)[i]
    BY <1>11
  <1>15. Sorted(S, other)[1] <= Sorted(S, value)[1]
    <2>1. 1 \in 1 .. n - 1 /\ 1 \in 1 .. n
      BY <1>3, <1>10
    <2>2. Sorted(S, value)[1] \in Int
      BY <1>12, <2>1
    <2>. QED
      BY <1>14, <2>1, <2>2
  <1>16. \A i \in 2 .. n - 1 : i \in 1 .. n - 1
    OBVIOUS
  <1>. QED
    BY <1>12, <1>13, <1>14, <1>15, <1>16 DEF Apart, n

\* The sorted values when the member of the least value has a lesser one.
LEMMA FirstLowered ==
  ASSUME NEW S, IsFiniteSet(S), Cardinality(S) >= 2, NEW x \in S, NEW value, NEW other,
         \A y \in S : value[y] \in Int /\ other[y] \in Int,
         \A y \in S \ {x} : other[y] = value[y] /\ value[x] <= value[y],
         other[x] <= value[x]
  PROVE  Apart(Cardinality(S), Sorted(S, value), Sorted(S, other))
  <1>. DEFINE n == Cardinality(S)
              rest == S \ {x}
  <1>1. IsFiniteSet(rest)
    BY FS_RemoveElement
  <1>2. PICK g \in Orders(rest) : Ascends(g, value)
    BY <1>1, OrderExists
  <1>. DEFINE f == [i \in 1 .. n |-> IF i = 1 THEN x ELSE g[i - 1]]
  <1>3. n \in Nat \ {0} /\ g \in [1 .. n - 1 -> rest] /\ f \in Orders(S)
    BY OrderExtends
  <1>. HIDE DEF n
  <1>4. f[1] = x /\ \A i \in 2 .. n : f[i] = g[i - 1] /\ f[i] \in rest
    BY <1>3
  <1>5. DOMAIN f = 1 .. n
    BY <1>3
  <1>. HIDE DEF f
  <1>6. ASSUME NEW i \in 1 .. n, NEW j \in 1 .. n, i <= j
        PROVE  value[f[i]] <= value[f[j]] /\ other[f[i]] <= other[f[j]]
    <2>1. CASE i = 1 /\ j = 1
      BY <1>4, <2>1
    <2>2. CASE i = 1 /\ j # 1
      <3>1. j \in 2 .. n
        BY <1>3, <2>2
      <3>2. f[j] \in rest
        BY <1>4, <3>1
      <3>. QED
        BY <1>4, <2>2, <3>2
    <2>3. CASE i # 1
      <3>1. /\ i \in 2 .. n /\ j \in 2 .. n
            /\ i - 1 \in 1 .. n - 1 /\ j - 1 \in 1 .. n - 1 /\ i - 1 <= j - 1
        BY <1>3, <1>6, <2>3
      <3>2. value[g[i - 1]] <= value[g[j - 1]]
        BY <1>2, <1>3, <3>1 DEF Ascends
      <3>. QED
        BY <1>4, <3>1, <3>2
    <2>. QED
      BY <2>1, <2>2, <2>3
  <1>7. Ascends(f, value) /\ Ascends(f, other)
    BY <1>5, <1>6 DEF Ascends
  <1>8. /\ Sorted(S, value) = [i \in 1 .. n |-> value[f[i]]]
        /\ Sorted(S, other) = [i \in 1 .. n |-> other[f[i]]]
    BY <1>3, <1>7, SortedIs DEF n
  <1>9. \A i \in 1 .. n : f[i] \in S
    <2>1. ASSUME NEW i \in 1 .. n PROVE i = 1 \/ i \in 2 .. n
      BY <1>3
    <2>. QED
      BY <1>4, <2>1
  <1>10. /\ \A i \in 1 .. n : /\ Sorted(S, value)[i] = value[f[i]]
                             /\ Sorted(S, other)[i] = other[f[i]]
         /\ \A i \in 2 .. n : i \in 1 .. n /\ value[f[i]] = other[f[i]]
         /\ 1 \in 1 .. n
    BY <1>3, <1>4, <1>8
  <1>11. Sorted(S, value) \in [1 .. n -> Int] /\ Sorted(S, other) \in [1 .. n -> Int]
    BY <1>8, <1>9
  <1>12. n >= 2
    BY DEF n
  <1>13. Sorted(S, other)[1] <= Sorted(S, value)[1]
    BY <1>4, <1>10
  <1>14. \A i \in 2 .. n : Sorted(S, other)[i] = Sorted(S, value)[i]
    BY <1>10
  <1>15. Sorted(S, value)[n] <= Sorted(S, other)[n]
    <2>1. n \in 2 .. n /\ n \in 1 .. n
      BY <1>3, <1>12
    <2>2. Sorted(S, value)[n] \in Int
      BY <1>11, <2>1
    <2>. QED
      BY <1>14, <2>1, <2>2
  <1>16. \A i \in 2 .. n - 1 : i \in 2 .. n
    BY <1>3
  <1>. QED
    BY <1>11, <1>13, <1>14, <1>15, <1>16 DEF Apart, n

\* Prices whose ends move apart: the median stays, or there is none between.
LEMMA StretchWidens ==
  ASSUME NEW n \in Nat, n >= 2, NEW s \in [1 .. n -> Int], NEW t \in [1 .. n -> Int],
         \A i \in 1 .. n : s[i] > 0 /\ t[i] > 0,
         \A i \in 2 .. n - 1 : t[i] = s[i],
         t[1] <= s[1], s[1] <= s[n], s[n] <= t[n]
  PROVE  Percent(2 * (s[n] - s[1]), TwiceMedian(s)) <= Percent(2 * (t[n] - t[1]), TwiceMedian(t))
  <1>. DEFINE a == s[1]
              b == s[n]
              c == t[1]
              d == t[n]
  <1>1. a \in Nat \ {0} /\ b \in Nat \ {0} /\ c \in Nat \ {0} /\ d \in Nat \ {0}
    <2>1. 1 \in 1 .. n /\ n \in 1 .. n
      OBVIOUS
    <2>. QED
      BY <2>1
  <1>2. s \in Seq(Int) /\ t \in Seq(Int) /\ Len(s) = n /\ Len(t) = n
    OBVIOUS
  <1>3. TwiceMedian(s) \in Nat \ {0} /\ TwiceMedian(t) \in Nat \ {0}
    BY <1>2, MedianIsPositive
  <1>4. CASE n = 2
    <2>1. TwiceMedian(s) = a + b /\ TwiceMedian(t) = c + d
      BY <1>2, <1>4 DEF TwiceMedian
    <2>. HIDE DEF a, b, c, d
    <2>2. (2 * (b - a)) * (c + d) <= (2 * (d - c)) * (a + b)
      <3>1. b * c <= a * d
        <4>1. b * c <= d * c /\ d * c <= d * a
          BY <1>1 DEF a, b, c, d
        <4>2. b * c \in Int /\ d * c \in Int /\ d * a \in Int /\ d * a = a * d
          BY <1>1
        <4>. QED
          BY <4>1, <4>2
      <3>2. (2 * (d - c)) * (a + b) - (2 * (b - a)) * (c + d) = 4 * (a * d - b * c)
        BY <1>1
      <3>3. a * d \in Int /\ b * c \in Int
        BY <1>1
      <3>4. (2 * (d - c)) * (a + b) \in Int /\ (2 * (b - a)) * (c + d) \in Int
        BY <1>1
      <3>. QED
        BY <3>1, <3>2, <3>3, <3>4
    <2>3. 2 * (b - a) \in Int /\ 2 * (d - c) \in Int
          /\ a + b \in Nat \ {0} /\ c + d \in Nat \ {0}
      BY <1>1
    <2>4. Percent(2 * (b - a), a + b) <= Percent(2 * (d - c), c + d)
      BY <2>2, <2>3, PercentOrdered
    <2>. QED
      BY <2>1, <2>4 DEF a, b, c, d
  <1>5. CASE n # 2
    <2>. DEFINE mid == n \div 2
                m == TwiceMedian(s)
    <2>1. mid + 1 \in 2 .. n - 1 /\ (n % 2 # 1 => mid \in 2 .. n - 1)
      BY <1>5
    <2>2. t[mid + 1] = s[mid + 1] /\ (n % 2 # 1 => t[mid] = s[mid])
      BY <2>1
    <2>3. TwiceMedian(t) = m
      BY <1>2, <2>2 DEF TwiceMedian
    <2>. HIDE DEF a, b, c, d, m
    <2>4. 2 * (b - a) \in Int /\ 2 * (d - c) \in Int /\ 2 * (b - a) <= 2 * (d - c)
      BY <1>1 DEF a, b, c, d
    <2>5. (2 * (b - a)) * m <= (2 * (d - c)) * m
      <3>1. m \in Nat
        BY <1>3 DEF m
      <3>. DEFINE x == 2 * (b - a)
                  y == 2 * (d - c)
      <3>2. x \in Int /\ y \in Int /\ x <= y
        BY <2>4
      <3>. HIDE DEF x, y
      <3>3. x * m <= y * m
        BY <3>1, <3>2
      <3>. QED
        BY <3>3 DEF x, y
    <2>6. Percent(2 * (b - a), m) <= Percent(2 * (d - c), m)
      BY <1>3, <2>4, <2>5, PercentOrdered DEF m
    <2>. QED
      BY <2>3, <2>6 DEF a, b, c, d, m
  <1>. QED
    BY <1>4, <1>5

\* s is r, but token k is priced further out.
MovedOut(r, s, k, t) ==
  /\ r \in Reading /\ s \in Reading /\ k \in DOMAIN r.tokens /\ t \in Tokens
  /\ Outlier(r, k, t.price) /\ t.currency = r.tokens[k].currency
  /\ s = [r EXCEPT !.tokens[k] = t]

LEMMA MovedInputs ==
  ASSUME NEW r, NEW s, NEW k, NEW t, MovedOut(r, s, k, t)
  PROVE  /\ s.reference = r.reference /\ s.market = r.market
         /\ DOMAIN s.tokens = DOMAIN r.tokens
         /\ s.tokens[k] = t
         /\ \A i \in DOMAIN r.tokens : i # k => s.tokens[i] = r.tokens[i]
         /\ \A i \in DOMAIN r.tokens : s.tokens[i].currency = r.tokens[i].currency
         /\ r.reference # NoReference /\ r.reference.price \in Nat \ {0}
         /\ t.price \in Nat \ {0} /\ r.tokens[k].price \in Nat \ {0}
  <1>1. PICK n \in Nat : r.tokens \in [1 .. n -> Tokens]
    BY DEF MovedOut, Reading, Listings
  <1>2. s.tokens = [r.tokens EXCEPT ![k] = t] /\ s.reference = r.reference /\ s.market = r.market
    BY DEF MovedOut, Reading
  <1>3. /\ DOMAIN s.tokens = DOMAIN r.tokens /\ s.tokens[k] = t
        /\ \A i \in DOMAIN r.tokens : i # k => s.tokens[i] = r.tokens[i]
    BY <1>1, <1>2 DEF MovedOut
  <1>4. \A i \in DOMAIN r.tokens : s.tokens[i].currency = r.tokens[i].currency
    BY <1>3 DEF MovedOut
  <1>5. /\ r.reference # NoReference /\ r.reference.price > 0
        /\ r.tokens[k].price > 0 /\ k \in DOMAIN r.tokens
    BY DEF MovedOut, Outlier, Measured, Priced
  <1>6. r.reference.price \in Int /\ r.tokens[k].price \in Int /\ t.price \in Int
    BY <1>5, Inputs, InputsAssumption DEF MovedOut
  <1>7. t.price > 0
    BY <1>5, <1>6 DEF MovedOut, Outlier
  <1>. QED
    BY <1>2, <1>3, <1>4, <1>5, <1>6, <1>7

LEMMA MovedMeasures ==
  ASSUME NEW r, NEW s, NEW k, NEW t, MovedOut(r, s, k, t)
  PROVE  /\ Measured(s) = Measured(r) /\ k \in Measured(r)
         /\ ReferenceState(s) = ReferenceState(r)
         /\ \A i \in Measured(r) : /\ Gap(r, i) \in Int /\ Gap(s, i) \in Int
                                   /\ Abs(Gap(r, i)) <= Abs(Gap(s, i))
  <1>1. \A i \in DOMAIN r.tokens :
          Priced(s.tokens[i], r.reference.currency) <=> Priced(r.tokens[i], r.reference.currency)
    BY MovedInputs DEF Priced
  <1>2. Measured(s) = Measured(r)
    BY <1>1, MovedInputs DEF Measured
  <1>3. k \in Measured(r) /\ r \in Reading /\ s \in Reading
    BY DEF MovedOut, Outlier
  <1>4. AggregateFreshness(s) = AggregateFreshness(r)
    BY MovedInputs DEF AggregateFreshness
  <1>5. ReferenceState(s) = ReferenceState(r)
    BY <1>2, <1>4, MovedInputs DEF ReferenceState
  <1>6. ASSUME NEW i \in Measured(r)
        PROVE  Gap(r, i) \in Int /\ Gap(s, i) \in Int /\ Abs(Gap(r, i)) <= Abs(Gap(s, i))
    <2>1. Gap(r, i) \in Int /\ Gap(s, i) \in Int /\ i \in DOMAIN r.tokens
      BY <1>2, <1>3, GapIsNumber DEF Measured
    <2>2. CASE i # k
      <3>1. Gap(s, i) = Gap(r, i)
        BY <2>1, <2>2, MovedInputs DEF Gap
      <3>. QED
        BY <2>1, <3>1 DEF Abs
    <2>3. CASE i = k
      <3>. DEFINE d == r.reference.price
                  p == r.tokens[k].price
                  q == t.price
      <3>1. d \in Nat \ {0} /\ p \in Nat \ {0} /\ q \in Nat \ {0}
        BY MovedInputs
      <3>2. Gap(r, i) = Percent(p - d, d) /\ Gap(s, i) = Percent(q - d, d)
        BY <2>3, MovedInputs DEF Gap
      <3>3. (q > p /\ p >= d) \/ (q < p /\ p <= d)
        BY DEF MovedOut, Outlier
      <3>. HIDE DEF d, p, q
      <3>4. p - d \in Int /\ q - d \in Int
        BY <3>1
      <3>5. CASE q > p /\ p >= d
        <4>1. (p - d) * d <= (q - d) * d
          <5>. DEFINE x == p - d
                      y == q - d
          <5>1. x \in Int /\ y \in Int /\ x <= y /\ d \in Nat
            BY <3>1, <3>5
          <5>. HIDE DEF x, y
          <5>2. x * d <= y * d
            BY <5>1
          <5>. QED
            BY <5>2 DEF x, y
        <4>2. Percent(p - d, d) <= Percent(q - d, d) /\ Percent(p - d, d) >= 0
          BY <3>1, <3>4, <3>5, <4>1, PercentOrdered, PercentSign
        <4>. QED
          BY <2>1, <3>2, <4>2 DEF Abs
      <3>6. CASE q < p /\ p <= d
        <4>1. (q - d) * d <= (p - d) * d
          <5>. DEFINE x == q - d
                      y == p - d
          <5>1. x \in Int /\ y \in Int /\ x <= y /\ d \in Nat
            BY <3>1, <3>6
          <5>. HIDE DEF x, y
          <5>2. x * d <= y * d
            BY <5>1
          <5>. QED
            BY <5>2 DEF x, y
        <4>2. Percent(q - d, d) <= Percent(p - d, d) /\ Percent(p - d, d) <= 0
          BY <3>1, <3>4, <3>6, <4>1, PercentOrdered, PercentSign
        <4>. QED
          BY <2>1, <3>2, <4>2 DEF Abs
      <3>. QED
        BY <3>3, <3>5, <3>6
    <2>. QED
      BY <2>2, <2>3
  <1>. QED
    BY <1>2, <1>3, <1>5, <1>6

\* The median of the spread may move as well, but never so far.
LEMMA MovedSpread ==
  ASSUME NEW r, NEW s, NEW k, NEW t, MovedOut(r, s, k, t), Dispersion(r) # -1
  PROVE  Dispersion(s) # -1 /\ Dispersion(r) <= Dispersion(s)
  <1>. DEFINE in(q) == {i \in DOMAIN q.tokens : Priced(q.tokens[i], Currency(q))}
              M == Measured(r)
              v == Prices(r)
              w == Prices(s)
              n == Cardinality(M)
              old == Sorted(M, v)
              new == Sorted(M, w)
  <1>1. r \in Reading /\ s \in Reading /\ k \in M /\ Measured(s) = M
    BY MovedMeasures DEF MovedOut
  <1>2. Currency(r) = r.reference.currency /\ Currency(s) = s.reference.currency
    BY MovedInputs DEF Currency
  <1>3. in(r) = M /\ in(s) = M
    <2>1. r.reference # NoReference /\ r.reference.price > 0 /\ s.reference = r.reference
      BY MovedInputs
    <2>. QED
      BY <1>1, <1>2, <2>1 DEF Measured
  <1>4. Wrappers(r) = old /\ Wrappers(s) = new
    BY <1>3 DEF Wrappers
  <1>5. IsFiniteSet(M)
    <2>1. IsFiniteSet(DOMAIN r.tokens)
      BY <1>1, Inputs, FS_Interval
    <2>2. M \subseteq DOMAIN r.tokens
      BY DEF Measured
    <2>. QED
      BY <2>1, <2>2, FS_Subset
  <1>6. \A i \in M : /\ v[i] = r.tokens[i].price /\ w[i] = s.tokens[i].price
                     /\ v[i] \in Int /\ w[i] \in Int /\ v[i] > 0 /\ w[i] > 0
    <2>1. ASSUME NEW i \in M
          PROVE  /\ i \in DOMAIN r.tokens /\ i \in DOMAIN s.tokens
                 /\ r.tokens[i].price > 0 /\ s.tokens[i].price > 0
      BY <1>1 DEF Measured, Priced
    <2>. QED
      BY <1>1, <2>1, Inputs DEF Prices
  <1>7. \A i \in M \ {k} : w[i] = v[i]
    <2>1. \A i \in M : i \in DOMAIN r.tokens
      BY DEF Measured
    <2>. QED
      BY <1>6, <2>1, MovedInputs
  <1>8. w[k] = t.price /\ v[k] = r.tokens[k].price
    BY <1>1, <1>6, MovedInputs
  <1>9. \/ v[k] <= w[k] /\ \A i \in M \ {k} : v[i] <= v[k]
        \/ w[k] <= v[k] /\ \A i \in M \ {k} : v[k] <= v[i]
    <2>1. \/ t.price > r.tokens[k].price /\ \A j \in M : r.tokens[j].price <= r.tokens[k].price
          \/ t.price < r.tokens[k].price /\ \A j \in M : r.tokens[j].price >= r.tokens[k].price
      BY DEF MovedOut, Outlier
    <2>. QED
      BY <1>1, <1>6, <1>8, <2>1
  <1>. HIDE DEF M, v, w
  <1>10. /\ old \in Seq(Int) /\ Len(old) = n /\ new \in Seq(Int) /\ Len(new) = n
         /\ \A i \in 1 .. n : old[i] > 0 /\ new[i] > 0
         /\ \A i, j \in 1 .. n : i <= j => old[i] <= old[j]
    <2>1. /\ old \in Seq(Int) /\ Len(old) = n /\ new \in Seq(Int) /\ Len(new) = n
          /\ \A i \in 1 .. n : \E x \in M : old[i] = v[x]
          /\ \A i \in 1 .. n : \E x \in M : new[i] = w[x]
          /\ \A i, j \in 1 .. n : i <= j => old[i] <= old[j]
      BY <1>5, <1>6, SortedValues
    <2>. QED
      BY <1>6, <2>1
  <1>11. n \in Nat /\ n >= 2
    <2>1. ~(Len(old) < 2)
      BY <1>4 DEF Dispersion
    <2>2. Len(old) \in Nat
      BY <1>10, LenProperties
    <2>. HIDE DEF n, old
    <2>. QED
      BY <1>10, <2>1, <2>2
  <1>12. Apart(n, old, new)
    <2>1. \A y \in M : v[y] \in Int /\ w[y] \in Int
      BY <1>6
    <2>2. Cardinality(M) >= 2
      BY <1>11
    <2>3. CASE v[k] <= w[k] /\ \A i \in M \ {k} : v[i] <= v[k]
      BY <1>1, <1>5, <1>7, <2>1, <2>2, <2>3, LastRaised
    <2>4. CASE w[k] <= v[k] /\ \A i \in M \ {k} : v[k] <= v[i]
      BY <1>1, <1>5, <1>7, <2>1, <2>2, <2>4, FirstLowered
    <2>. QED
      BY <1>9, <2>3, <2>4
  <1>. HIDE DEF n, old, new
  <1>13. old[1] <= old[n]
    BY <1>10, <1>11
  <1>14. /\ Dispersion(r) = Percent(2 * (old[n] - old[1]), TwiceMedian(old))
         /\ Dispersion(s) = Percent(2 * (new[n] - new[1]), TwiceMedian(new))
    BY <1>4, <1>10, <1>11 DEF Dispersion
  <1>15. Dispersion(r) <= Dispersion(s)
    BY <1>10, <1>11, <1>12, <1>13, <1>14, StretchWidens DEF Apart
  <1>16. Dispersion(r) \in Nat /\ (Dispersion(s) = -1 \/ Dispersion(s) \in Nat)
    BY <1>1, DispersionIsSpread
  <1>. QED
    BY <1>15, <1>16

\* Each thing measured is in no worse a band than what is reported.
LEMMA GapIsNoWorse ==
  ASSUME NEW r \in Reading, ReferenceState(r) \notin Incomparable, NEW k \in Measured(r)
  PROVE  SevRank[SeverityFor(Abs(Gap(r, k)))] <= SevRank[DetectAnomaly(r).severity]
  <1>1. PICK i \in Measured(r) : WidestGap(r, i) /\ Abs(Gap(r, k)) <= Abs(Gap(r, i))
    BY WidestExists
  <1>2. Gap(r, i) \in Int /\ Abs(Gap(r, k)) \in Int /\ Abs(Gap(r, i)) \in Int
    BY <1>1, GapIsNumber
  <1>3. Measurement(r, Gap(r, i))
    BY <1>1 DEF Measurement
  <1>4. SevRank[SeverityFor(Abs(Gap(r, i)))] <= SevRank[DetectAnomaly(r).severity]
    BY <1>2, <1>3, ReportedIsWorst
  <1>5. /\ SeverityFor(Abs(Gap(r, k))) \in Severities
        /\ SeverityFor(Abs(Gap(r, i))) \in Severities
        /\ SevRank[SeverityFor(Abs(Gap(r, k)))] <= SevRank[SeverityFor(Abs(Gap(r, i)))]
    BY <1>1, <1>2, Bands
  <1>6. DetectAnomaly(r).severity \in Severities
    BY Found
  <1>. QED
    BY <1>4, <1>5, <1>6, Ranks

LEMMA MovedIsNoMilder ==
  ASSUME NEW r, NEW s, NEW k, NEW t, MovedOut(r, s, k, t)
  PROVE  SevRank[DetectAnomaly(s).severity] >= SevRank[DetectAnomaly(r).severity]
  <1>. DEFINE a == DetectAnomaly(r)
              b == DetectAnomaly(s)
  <1>1. r \in Reading /\ s \in Reading
    BY DEF MovedOut
  <1>2. /\ a.severity \in Severities /\ b.severity \in Severities
        /\ SevRank[a.severity] \in Int /\ SevRank[b.severity] \in Int
        /\ SevRank[b.severity] >= 0
    <2>1. a.severity \in Severities /\ b.severity \in Severities
      BY <1>1, Found
    <2>. QED
      BY <2>1, Ranks
  <1>. HIDE DEF a, b
  <1>3. CASE a = NoAnomaly
    <2>1. SevRank[a.severity] = 0
      BY <1>2, <1>3, Ranks DEF NoAnomaly
    <2>. QED
      BY <1>2, <2>1 DEF a, b
  <1>4. CASE a \in Candidates(r) /\ ReferenceState(r) \notin Incomparable
    <2>1. ReferenceState(s) \notin Incomparable
      BY <1>4, MovedMeasures
    <2>2. /\ a.severity = SeverityFor(Abs(a.deviation)) /\ a.deviation \in Int
          /\ \/ \E i : WidestGap(r, i) /\ a.deviation = Gap(r, i)
             \/ a.deviation = Dispersion(r) /\ a.deviation \in Nat
      BY <1>1, <1>4, CandidatesAre
    <2>3. CASE \E i : WidestGap(r, i) /\ a.deviation = Gap(r, i)
      <3>1. PICK i : WidestGap(r, i) /\ a.deviation = Gap(r, i)
        BY <2>3
      <3>2. /\ i \in Measured(s) /\ Gap(r, i) \in Int /\ Gap(s, i) \in Int
            /\ Abs(Gap(r, i)) <= Abs(Gap(s, i))
        BY <3>1, MovedMeasures DEF WidestGap
      <3>3. Abs(Gap(r, i)) \in Int /\ Abs(Gap(s, i)) \in Int
        BY <3>2 DEF Abs
      <3>4. /\ SeverityFor(Abs(Gap(s, i))) \in Severities
            /\ SevRank[a.severity] <= SevRank[SeverityFor(Abs(Gap(s, i)))]
        BY <2>2, <3>1, <3>2, <3>3, Bands
      <3>5. SevRank[SeverityFor(Abs(Gap(s, i)))] <= SevRank[b.severity]
        BY <1>1, <2>1, <3>2, GapIsNoWorse DEF b
      <3>6. SevRank[SeverityFor(Abs(Gap(s, i)))] \in Int
        BY <3>4, Ranks
      <3>. QED
        BY <1>2, <3>4, <3>5, <3>6 DEF a, b
    <2>4. CASE a.deviation = Dispersion(r) /\ a.deviation \in Nat
      <3>1. Dispersion(s) # -1 /\ Dispersion(r) <= Dispersion(s)
        BY <2>4, MovedSpread
      <3>2. Dispersion(s) \in Nat /\ Dispersion(r) \in Nat
        BY <1>1, <2>4, <3>1, DispersionIsSpread
      <3>3. Abs(Dispersion(s)) = Dispersion(s) /\ Abs(Dispersion(r)) = Dispersion(r)
        BY <3>2 DEF Abs
      <3>4. /\ SeverityFor(Dispersion(s)) \in Severities
            /\ SevRank[SeverityFor(Dispersion(r))] <= SevRank[SeverityFor(Dispersion(s))]
        BY <3>1, <3>2, Bands
      <3>5. Measurement(s, Dispersion(s))
        BY <3>1 DEF Measurement
      <3>6. SevRank[SeverityFor(Dispersion(s))] <= SevRank[b.severity]
        BY <1>1, <2>1, <3>2, <3>3, <3>5, ReportedIsWorst DEF b
      <3>7. SevRank[SeverityFor(Dispersion(s))] \in Int
        BY <3>4, Ranks
      <3>8. SevRank[a.severity] = SevRank[SeverityFor(Dispersion(r))]
        BY <2>2, <2>4, <3>3
      <3>. QED
        BY <1>2, <3>4, <3>6, <3>7, <3>8 DEF a, b
    <2>. QED
      BY <2>2, <2>3, <2>4
  <1>. QED
    BY <1>1, <1>3, <1>4, Detected DEF a

\* A wrapper further out never makes the finding milder, whichever of the two
\* detectors found it and however the median moves.
THEOREM FurtherIsNoMilder == Spec => OutlierNeverMilder
  <1>. DEFINE Out == \A k \in DOMAIN reading.tokens, t \in Tokens :
                       /\ Outlier(reading, k, t.price)
                       /\ t.currency = reading.tokens[k].currency
                       /\ reading' = [reading EXCEPT !.tokens[k] = t]
                       => SevRank[evaluation'.severity] >= SevRank[evaluation.severity]
  <1>1. EngineInv /\ EngineInv' => Out
    <2>1. SUFFICES ASSUME EngineInv, EngineInv',
                          NEW k \in DOMAIN reading.tokens, NEW t \in Tokens,
                          Outlier(reading, k, t.price),
                          t.currency = reading.tokens[k].currency,
                          reading' = [reading EXCEPT !.tokens[k] = t]
                   PROVE  SevRank[evaluation'.severity] >= SevRank[evaluation.severity]
      OBVIOUS
    <2>2. MovedOut(reading, reading', k, t)
      BY <2>1 DEF MovedOut, EngineInv
    <2>3. /\ evaluation.severity = DetectAnomaly(reading).severity
          /\ evaluation'.severity = DetectAnomaly(reading').severity
      <3>1. evaluation = Evaluate(reading) /\ evaluation' = Evaluate(reading')
        BY <2>1 DEF EngineInv
      <3>2. \A q : Evaluate(q).severity = DetectAnomaly(q).severity
        BY DEF Evaluate
      <3>. QED
        BY <3>1, <3>2
    <2>. QED
      BY <2>2, <2>3, MovedIsNoMilder
  <1>2. EngineInv /\ EngineInv' => [Out]_vars
    BY <1>1
  <1>. QED
    BY EngineBegins, EngineStep, <1>2, PTL DEF Spec, OutlierNeverMilder

-----------------------------------------------------------------------------
(***************************************************************************)
(* Market hours.                                                           *)
(***************************************************************************)
\* The days before month m in a year that is not, or is, a leap year.
DaysBefore(leap, m) ==
  CASE m = 1 -> 0 [] m = 2 -> 31 [] m = 3 -> 59 + leap [] m = 4 -> 90 + leap
    [] m = 5 -> 120 + leap [] m = 6 -> 151 + leap [] m = 7 -> 181 + leap
    [] m = 8 -> 212 + leap [] m = 9 -> 243 + leap [] m = 10 -> 273 + leap
    [] m = 11 -> 304 + leap [] m = 12 -> 334 + leap

Leap(y) == IF IsLeap(y) THEN 1 ELSE 0

\* The days of the years before y, up to whole weeks.
DaysUntil(y) == (y - 1) + (y - 1) \div 4 - (y - 1) \div 100 + (y - 1) \div 400

LEMMA WeekdayIs ==
  ASSUME NEW y \in Int, NEW m \in 1 .. 12, NEW d \in Int
  PROVE  /\ DaysUntil(y) \in Int /\ DaysBefore(Leap(y), m) \in Int
         /\ GetUTCDay(y, m, d) = (DaysUntil(y) + DaysBefore(Leap(y), m) + d) % 7
  <1>. DEFINE before == <<0, 31, 59, 90, 120, 151, 181, 212, 243, 273, 304, 334>>[m]
              leap == IF m > 2 /\ IsLeap(y) THEN 1 ELSE 0
  <1>1. DaysUntil(y) \in Int
    BY DEF DaysUntil
  <1>2. before + leap = DaysBefore(Leap(y), m) /\ before \in Int /\ leap \in Int
    <2>1. m = 1 \/ m = 2 \/ m = 3 \/ m = 4 \/ m = 5 \/ m = 6 \/ m = 7 \/ m = 8
          \/ m = 9 \/ m = 10 \/ m = 11 \/ m = 12
      OBVIOUS
    <2>. QED
      BY <2>1 DEF DaysBefore, Leap
  <1>3. GetUTCDay(y, m, d) = (DaysUntil(y) + before + leap + d) % 7
    BY DEF GetUTCDay, DaysUntil
  <1>. HIDE DEF before, leap
  <1>4. DaysUntil(y) + before + leap + d = DaysUntil(y) + DaysBefore(Leap(y), m) + d
    BY <1>1, <1>2
  <1>. QED
    BY <1>1, <1>2, <1>3, <1>4

LEMMA SameMonth ==
  ASSUME NEW y \in Int, NEW m \in 1 .. 12, NEW d \in Int, NEW e \in Int
  PROVE  /\ GetUTCDay(y, m, d) \in 0 .. 6
         /\ GetUTCDay(y, m, e) = (GetUTCDay(y, m, d) + e - d) % 7
  <1>. DEFINE x == DaysUntil(y) + DaysBefore(Leap(y), m)
  <1>1. DaysUntil(y) \in Int /\ DaysBefore(Leap(y), m) \in Int
    BY WeekdayIs
  <1>2. GetUTCDay(y, m, d) = (x + d) % 7
    BY WeekdayIs
  <1>3. GetUTCDay(y, m, e) = (x + e) % 7
    BY WeekdayIs
  <1>4. x \in Int
    BY <1>1
  <1>. HIDE DEF x
  <1>5. (x + d) % 7 \in 0 .. 6 /\ (x + e) % 7 = (((x + d) % 7) + e - d) % 7
    BY <1>4
  <1>. QED
    BY <1>2, <1>3, <1>5

LEMMA MonthLength ==
  ASSUME NEW y \in Int, NEW m \in 1 .. 12
  PROVE  /\ DaysInMonth(y, m) \in 28 .. 31
         /\ m # 12 => DaysBefore(Leap(y), m + 1) = DaysBefore(Leap(y), m) + DaysInMonth(y, m)
         /\ m = 12 => DaysBefore(Leap(y), m) + DaysInMonth(y, m) = 365 + Leap(y)
  <1>1. m = 1 \/ m = 2 \/ m = 3 \/ m = 4 \/ m = 5 \/ m = 6 \/ m = 7 \/ m = 8
        \/ m = 9 \/ m = 10 \/ m = 11 \/ m = 12
    OBVIOUS
  <1>. QED
    BY <1>1 DEF DaysBefore, DaysInMonth, Leap

\* The days of the years up to one: a whole number of weeks and the leap days.
LEMMA YearLength ==
  ASSUME NEW y \in Int
  PROVE  DaysUntil(y + 1) = DaysUntil(y) + 1 + Leap(y)
  <1>1. y \div 4 = (y - 1) \div 4 + (IF y % 4 = 0 THEN 1 ELSE 0)
    OBVIOUS
  <1>2. y \div 100 = (y - 1) \div 100 + (IF y % 100 = 0 THEN 1 ELSE 0)
    OBVIOUS
  <1>3. y \div 400 = (y - 1) \div 400 + (IF y % 400 = 0 THEN 1 ELSE 0)
    OBVIOUS
  <1>4. (y % 400 = 0 => y % 100 = 0) /\ (y % 100 = 0 => y % 4 = 0)
    OBVIOUS
  <1>5. DaysUntil(y + 1) = y + y \div 4 - y \div 100 + y \div 400
    BY DEF DaysUntil
  <1>. QED
    BY <1>1, <1>2, <1>3, <1>4, <1>5 DEF DaysUntil, Leap, IsLeap

LEMMA TomorrowIsDate ==
  ASSUME NEW t, IsDate(t)
  PROVE  IsDate(Tomorrow(t))
  <1>. DEFINE y == t.year
              m == t.month
              d == t.day
              wd == (t.weekday + 1) % 7
              x == DaysUntil(y) + DaysBefore(Leap(y), m)
              next == Tomorrow(t)
  <1>1. /\ y \in Int /\ y >= 100 /\ m \in 1 .. 12 /\ d \in 1 .. 31
        /\ t.weekday \in 0 .. 6 /\ d <= DaysInMonth(y, m)
        /\ t = [year |-> y, month |-> m, day |-> d, weekday |-> t.weekday]
    BY DEF IsDate, Years
  <1>2. x \in Int /\ t.weekday = (x + d) % 7
    <2>1. DaysUntil(y) \in Int /\ DaysBefore(Leap(y), m) \in Int
      BY <1>1, WeekdayIs
    <2>2. t.weekday = GetUTCDay(y, m, d)
      BY DEF IsDate
    <2>3. GetUTCDay(y, m, d) = (x + d) % 7
      BY <1>1, WeekdayIs
    <2>. QED
      BY <2>1, <2>2, <2>3
  <1>. HIDE DEF x
  <1>3. wd = (x + d + 1) % 7 /\ wd \in 0 .. 6
    BY <1>1, <1>2
  <1>4. DaysInMonth(y, m) \in 28 .. 31
    BY <1>1, MonthLength
  <1>5. CASE d < DaysInMonth(y, m)
    <2>1. next = [year |-> y, month |-> m, day |-> d + 1, weekday |-> wd]
      <3>1. t.day < DaysInMonth(t.year, t.month) /\ t.day # DaysInMonth(t.year, t.month)
        BY <1>1, <1>4, <1>5
      <3>2. next = [t EXCEPT !.day = t.day + 1, !.weekday = wd]
        BY <3>1 DEF Tomorrow
      <3>. QED
        BY <1>1, <3>2
    <2>2. GetUTCDay(y, m, d + 1) = (x + d + 1) % 7
      BY <1>1, <1>2, WeekdayIs DEF x
    <2>. QED
      BY <1>1, <1>3, <1>4, <1>5, <2>1, <2>2 DEF IsDate, Years
  <1>6. CASE d = DaysInMonth(y, m) /\ m # 12
    <2>1. next = [year |-> y, month |-> m + 1, day |-> 1, weekday |-> wd]
      <3>1. t.month < 12 /\ t.day = DaysInMonth(t.year, t.month) /\ ~(t.day < DaysInMonth(t.year, t.month))
        BY <1>1, <1>4, <1>6
      <3>2. next = [t EXCEPT !.day = 1, !.month = t.month + 1, !.weekday = wd]
        BY <3>1 DEF Tomorrow
      <3>. QED
        BY <1>1, <3>2
    <2>2. m + 1 \in 1 .. 12 /\ DaysInMonth(y, m + 1) \in 28 .. 31
      BY <1>1, <1>6, MonthLength
    <2>3. GetUTCDay(y, m + 1, 1) = (DaysUntil(y) + DaysBefore(Leap(y), m + 1) + 1) % 7
      BY <1>1, <2>2, WeekdayIs
    <2>4. DaysUntil(y) + DaysBefore(Leap(y), m + 1) + 1 = x + d + 1
      <3>1. DaysBefore(Leap(y), m + 1) = DaysBefore(Leap(y), m) + d
        BY <1>1, <1>6, MonthLength
      <3>2. DaysUntil(y) \in Int /\ DaysBefore(Leap(y), m) \in Int
        BY <1>1, WeekdayIs
      <3>. QED
        BY <1>1, <3>1, <3>2 DEF x
    <2>. QED
      BY <1>1, <1>3, <2>1, <2>2, <2>3, <2>4 DEF IsDate, Years
  <1>7. CASE d = DaysInMonth(y, m) /\ m = 12
    <2>1. next = [year |-> y + 1, month |-> 1, day |-> 1, weekday |-> wd]
      BY <1>1, <1>4, <1>7 DEF Tomorrow
    <2>2. y + 1 \in Int /\ DaysInMonth(y + 1, 1) \in 28 .. 31
      BY <1>1, MonthLength
    <2>3. GetUTCDay(y + 1, 1, 1) = (DaysUntil(y + 1) + DaysBefore(Leap(y + 1), 1) + 1) % 7
      BY <1>1, WeekdayIs
    <2>4. /\ DaysUntil(y + 1) = DaysUntil(y) + 1 + Leap(y) /\ DaysUntil(y) \in Int
          /\ Leap(y) \in Int /\ DaysBefore(Leap(y + 1), 1) = 0
          /\ x + d = DaysUntil(y) + 365 + Leap(y)
      <3>1. DaysUntil(y + 1) = DaysUntil(y) + 1 + Leap(y)
        BY <1>1, YearLength
      <3>2. DaysUntil(y) \in Int /\ DaysBefore(Leap(y), m) \in Int
        BY <1>1, WeekdayIs
      <3>3. Leap(y) \in Int /\ DaysBefore(Leap(y + 1), 1) = 0
        BY DEF Leap, DaysBefore
      <3>4. DaysBefore(Leap(y), m) + d = 365 + Leap(y)
        BY <1>1, <1>7, MonthLength
      <3>. QED
        BY <1>1, <3>1, <3>2, <3>3, <3>4 DEF x
    <2>5. DaysUntil(y + 1) + DaysBefore(Leap(y + 1), 1) + 1 = x + d + 1 - 364
      BY <1>2, <2>4
    <2>6. (x + d + 1 - 364) % 7 = (x + d + 1) % 7
      BY <1>1, <1>2
    <2>. QED
      BY <1>1, <1>3, <2>1, <2>2, <2>3, <2>5, <2>6 DEF IsDate, Years
  <1>. QED
    BY <1>1, <1>4, <1>5, <1>6, <1>7

\* A holiday with a date, as it is kept on a weekday.
KeptOn(h, d, w) == d = h \/ (w = 1 /\ d = h + 1) \/ (w = 5 /\ d = h - 1)

LEMMA ObservedOn ==
  ASSUME NEW y \in Int, NEW m \in 1 .. 12, NEW h \in Int, NEW d \in Int,
         GetUTCDay(y, m, d) \in 1 .. 5
  PROVE  d = ObservedDay(y, m, h) <=> KeptOn(h, d, GetUTCDay(y, m, d))
  <1>. DEFINE a == GetUTCDay(y, m, h)
              b == GetUTCDay(y, m, d)
  <1>1. a \in 0 .. 6 /\ b = (a + d - h) % 7 /\ b \in 1 .. 5
    BY SameMonth
  <1>2. ObservedDay(y, m, h) = IF a = 6 THEN h - 1 ELSE IF a = 0 THEN h + 1 ELSE h
    BY DEF ObservedDay
  <1>. HIDE DEF a, b
  <1>3. CASE a = 6
    BY <1>1, <1>2, <1>3 DEF b, KeptOn
  <1>4. CASE a = 0
    BY <1>1, <1>2, <1>4 DEF b, KeptOn
  <1>5. CASE a # 0 /\ a # 6
    BY <1>1, <1>2, <1>5 DEF b, KeptOn
  <1>. QED
    BY <1>3, <1>4, <1>5

LEMMA NthOn ==
  ASSUME NEW y \in Int, NEW m \in 1 .. 12, NEW wd \in 0 .. 6, NEW n \in Int, NEW d \in Int
  PROVE  d = NthWeekdayOfMonth(y, m, wd, n) <=>
           GetUTCDay(y, m, d) = wd /\ d \in 7 * n - 6 .. 7 * n
  <1>. DEFINE a == GetUTCDay(y, m, 1)
              b == GetUTCDay(y, m, d)
  <1>1. a \in 0 .. 6 /\ b = (a + d - 1) % 7
    <2>1. 1 \in Int
      OBVIOUS
    <2>2. a \in 0 .. 6
      BY <2>1, SameMonth
    <2>3. b = (a + d - 1) % 7
      BY <2>1, SameMonth
    <2>. QED
      BY <2>2, <2>3
  <1>2. NthWeekdayOfMonth(y, m, wd, n) = 1 + ((wd - a + 7) % 7) + (n - 1) * 7
    BY DEF NthWeekdayOfMonth
  <1>. HIDE DEF a, b
  <1>. QED
    BY <1>1, <1>2 DEF b

LEMMA LastOn ==
  ASSUME NEW y \in Int, NEW m \in 1 .. 12, NEW wd \in 0 .. 6, NEW d \in Int
  PROVE  d = LastWeekdayOfMonth(y, m, wd) <=>
           GetUTCDay(y, m, d) = wd /\ d \in DaysInMonth(y, m) - 6 .. DaysInMonth(y, m)
  <1>. DEFINE e == DaysInMonth(y, m)
              a == GetUTCDay(y, m, e)
              b == GetUTCDay(y, m, d)
  <1>1. e \in 28 .. 31
    BY MonthLength
  <1>. HIDE DEF e
  <1>2. a \in 0 .. 6 /\ b = (a + d - e) % 7
    <2>1. e \in Int
      BY <1>1
    <2>2. a \in 0 .. 6
      BY <2>1, SameMonth
    <2>3. b = (a + d - e) % 7
      BY <2>1, SameMonth
    <2>. QED
      BY <2>2, <2>3
  <1>3. LastWeekdayOfMonth(y, m, wd) = e - ((a - wd + 7) % 7)
    BY DEF LastWeekdayOfMonth, e
  <1>. HIDE DEF a, b, e
  <1>4. d = e - ((a - wd + 7) % 7) <=> (a + d - e) % 7 = wd /\ d \in e - 6 .. e
    BY <1>1, <1>2
  <1>. QED
    BY <1>2, <1>3, <1>4 DEF a, b, e

LEMMA NewYearsDay ==
  ASSUME NEW y \in Int
  PROVE  GetUTCDay(y + 1, 1, 1) = (GetUTCDay(y, 12, 31) + 1) % 7
  <1>1. /\ DaysUntil(y) \in Int /\ DaysUntil(y + 1) = DaysUntil(y) + 1 + Leap(y)
        /\ Leap(y) \in Int /\ Leap(y + 1) \in Int
    BY YearLength, WeekdayIs DEF Leap
  <1>2. GetUTCDay(y, 12, 31) = (DaysUntil(y) + DaysBefore(Leap(y), 12) + 31) % 7
    BY WeekdayIs
  <1>3. GetUTCDay(y + 1, 1, 1) = (DaysUntil(y + 1) + DaysBefore(Leap(y + 1), 1) + 1) % 7
    BY WeekdayIs
  <1>4. DaysBefore(Leap(y), 12) = 334 + Leap(y) /\ DaysBefore(Leap(y + 1), 1) = 0
    BY DEF DaysBefore
  <1>. QED
    BY <1>1, <1>2, <1>3, <1>4

\* The day of March, above 31 of April, of the Sunday the computus finds.
Easter(y) ==
  LET a == y % 19
      b == y \div 100
      c == y % 100
      g == (b - (b + 8) \div 25 + 1) \div 3
      h == (19 * a + b - b \div 4 - g + 15) % 30
      l == (32 + 2 * (b % 4) + 2 * (c \div 4) - h - (c % 4)) % 7
  IN h + l - 7 * ((a + 11 * h + 22 * l) \div 451) + 22

\* The computus is right: a Sunday in the week after the full moon.
LEMMA EasterIsSunday ==
  ASSUME NEW y \in Nat
  PROVE  /\ Easter(y) \in Int
         /\ Easter(y) - PaschalMoon(y) \in 1 .. 7
         /\ GetUTCDay(y, 3, Easter(y)) = 0
         /\ PaschalMoon(y) \in 21 .. 49
         /\ EasterSunday(y) = IF Easter(y) <= 31 THEN <<3, Easter(y)>> ELSE <<4, Easter(y) - 31>>
  <1>. DEFINE a == y % 19
              b == y \div 100
              c == y % 100
              g == (b - (b + 8) \div 25 + 1) \div 3
              h == (19 * a + b - b \div 4 - g + 15) % 30
              l == (32 + 2 * (b % 4) + 2 * (c \div 4) - h - (c % 4)) % 7
              m == (a + 11 * h + 22 * l) \div 451
              raw == (11 * (a + 1) + 20 + ((8 * (b + 1) + 5) \div 25 - 5) - ((3 * (b + 1)) \div 4 - 12)) % 30
              epact == IF raw = 24 \/ (raw = 25 /\ a + 1 > 11) THEN raw + 1 ELSE raw
  <1>1. Easter(y) = h + l - 7 * m + 22
    BY DEF Easter
  <1>2. PaschalMoon(y) = IF 44 - epact < 21 THEN 74 - epact ELSE 44 - epact
    BY DEF PaschalMoon
  <1>3. a \in 0 .. 18 /\ b \in Nat /\ c \in 0 .. 99 /\ y = 100 * b + c
    OBVIOUS
  <1>4. EasterSunday(y) = LET n == h + l - 7 * m + 114 IN <<n \div 31, (n % 31) + 1>>
    BY DEF EasterSunday
  <1>. HIDE DEF a, b, c
  <1>5. g \in Int /\ (8 * (b + 1) + 5) \div 25 = g /\ (3 * (b + 1)) \div 4 = b - b \div 4
    <2>1. (b - (b + 8) \div 25 + 1) \div 3 = (8 * b + 13) \div 25
      BY <1>3
    <2>2. (3 * (b + 1)) \div 4 = b - b \div 4
      BY <1>3
    <2>. QED
      BY <1>3, <2>1, <2>2
  <1>6. h \in 0 .. 29 /\ l \in 0 .. 6 /\ raw \in 0 .. 29
    BY <1>3, <1>5
  <1>7. raw = (23 - h) % 30
    <2>. DEFINE x == b - b \div 4 - g
    <2>1. x \in Int
      BY <1>3, <1>5
    <2>2. h = (19 * a + x + 15) % 30
      BY <1>3, <1>5
    <2>3. raw = (11 * a + 38 - x) % 30
      BY <1>3, <1>5
    <2>. HIDE DEF x, h, raw
    <2>. QED
      BY <1>3, <2>1, <2>2, <2>3
  <1>8. GetUTCDay(y, 3, h + l + 22) = 0
    <2>. DEFINE leap == Leap(y)
                cc == c \div 4
                bb == b \div 4
    <2>1. GetUTCDay(y, 3, h + l + 22) = (DaysUntil(y) + DaysBefore(Leap(y), 3) + (h + l + 22)) % 7
      <3>. DEFINE d == h + l + 22
      <3>1. d \in Int /\ y \in Int /\ 3 \in 1 .. 12
        BY <1>6
      <3>. HIDE DEF d
      <3>2. GetUTCDay(y, 3, d) = (DaysUntil(y) + DaysBefore(Leap(y), 3) + d) % 7
        BY <3>1, WeekdayIs
      <3>. QED
        BY <3>2 DEF d
    <2>2. DaysBefore(Leap(y), 3) = 59 + Leap(y) /\ Leap(y) \in Int /\ DaysUntil(y) \in Int
      BY WeekdayIs DEF DaysBefore, Leap
    <2>3. DaysUntil(y + 1) = y + y \div 4 - y \div 100 + y \div 400
      BY DEF DaysUntil
    <2>4. DaysUntil(y) + Leap(y) = y + y \div 4 - y \div 100 + y \div 400 - 1
      <3>1. DaysUntil(y + 1) = DaysUntil(y) + 1 + Leap(y)
        BY YearLength
      <3>. QED
        BY <2>2, <2>3, <3>1
    <2>5. y \div 4 = 25 * b + c \div 4 /\ y \div 100 = b /\ y \div 400 = b \div 4
      BY <1>3
    <2>6. DaysUntil(y) + 59 + Leap(y) = 124 * b + c + c \div 4 + b \div 4 + 58
      BY <1>3, <2>2, <2>4, <2>5
    <2>7. l = (32 + 2 * (b % 4) + 2 * (c \div 4) - h - (c % 4)) % 7
      OBVIOUS
    <2>. HIDE DEF h, l
    <2>8. (124 * b + c + c \div 4 + b \div 4 + 58 + (h + l + 22)) % 7 = 0
      BY <1>3, <1>6, <2>7
    <2>. QED
      BY <1>6, <2>1, <2>2, <2>6, <2>8
  <1>9. m = (a + 11 * h + 22 * l) \div 451
    OBVIOUS
  <1>. HIDE DEF h, l, m, raw
  <1>10. /\ m \in 0 .. 1
         /\ m = 1 <=> l = 6 /\ (h = 29 \/ (h = 28 /\ a > 10))
    BY <1>3, <1>6, <1>9
  <1>11. PaschalMoon(y) = 21 + h - (IF h = 29 \/ (h = 28 /\ a > 10) THEN 1 ELSE 0)
    <2>1. epact = IF raw = 24 \/ (raw = 25 /\ a > 10) THEN raw + 1 ELSE raw
      BY <1>3
    <2>. HIDE DEF epact
    <2>2. raw = IF h <= 23 THEN 23 - h ELSE 53 - h
      BY <1>6, <1>7
    <2>. QED
      BY <1>2, <1>3, <1>6, <2>1, <2>2
  <1>12. Easter(y) \in Int /\ Easter(y) - PaschalMoon(y) \in 1 .. 7 /\ PaschalMoon(y) \in 21 .. 49
    BY <1>1, <1>3, <1>6, <1>10, <1>11
  <1>13. GetUTCDay(y, 3, Easter(y)) = 0
    <2>1. GetUTCDay(y, 3, Easter(y)) = (0 + Easter(y) - (h + l + 22)) % 7
      BY <1>6, <1>8, <1>12, SameMonth
    <2>. QED
      BY <1>1, <1>6, <1>10, <2>1
  <1>14. EasterSunday(y) = <<(Easter(y) + 92) \div 31, ((Easter(y) + 92) % 31) + 1>>
    BY <1>1, <1>4, <1>6, <1>10
  <1>15. Easter(y) \in 22 .. 56
    BY <1>12
  <1>. QED
    BY <1>12, <1>13, <1>14, <1>15

LEMMA AprilFollowsMarch ==
  ASSUME NEW y \in Int, NEW d \in Int
  PROVE  GetUTCDay(y, 4, d) = GetUTCDay(y, 3, 31 + d)
  <1>1. GetUTCDay(y, 4, d) = (DaysUntil(y) + DaysBefore(Leap(y), 4) + d) % 7
    BY WeekdayIs
  <1>2. GetUTCDay(y, 3, 31 + d) = (DaysUntil(y) + DaysBefore(Leap(y), 3) + (31 + d)) % 7
    BY WeekdayIs
  <1>3. /\ DaysBefore(Leap(y), 4) = 90 + Leap(y) /\ DaysBefore(Leap(y), 3) = 59 + Leap(y)
        /\ DaysUntil(y) \in Int /\ Leap(y) \in Int
    BY WeekdayIs DEF DaysBefore, Leap
  <1>. QED
    BY <1>1, <1>2, <1>3

\* The code's Good Friday is the rule's.
LEMMA GoodFridayOn ==
  ASSUME NEW t, IsDate(t)
  PROVE  <<t.year, t.month, t.day>> = GoodFriday(t.year) <=> EasterFriday(t)
  <1>. DEFINE y == t.year
              m == t.month
              d == t.day
              e == Easter(y)
              moon == PaschalMoon(y)
              dayOfMarch == IF m = 3 THEN d ELSE 31 + d
  <1>1. y \in Nat /\ m \in 1 .. 12 /\ d \in 1 .. 31 /\ t.weekday = GetUTCDay(y, m, d)
    BY DEF IsDate, Years
  <1>2. /\ e \in Int /\ e - moon \in 1 .. 7 /\ GetUTCDay(y, 3, e) = 0 /\ moon \in 21 .. 49
        /\ EasterSunday(y) = IF e <= 31 THEN <<3, e>> ELSE <<4, e - 31>>
    BY <1>1, EasterIsSunday
  <1>. HIDE DEF e, moon
  <1>3. GoodFriday(y) = IF e <= 33 THEN <<y, 3, e - 2>> ELSE <<y, 4, e - 33>>
    <2>1. CASE e <= 31
      BY <1>2, <2>1 DEF GoodFriday
    <2>2. CASE e > 31 /\ e <= 33
      BY <1>2, <2>2 DEF GoodFriday
    <2>3. CASE e > 33
      BY <1>2, <2>3 DEF GoodFriday
    <2>. QED
      BY <1>2, <2>1, <2>2, <2>3
  <1>4. EasterFriday(t) <=> GetUTCDay(y, m, d) = 5 /\ m \in {3, 4} /\ dayOfMarch + 2 - moon \in 1 .. 7
    BY <1>1 DEF EasterFriday, moon
  <1>5. CASE m \notin {3, 4}
    BY <1>1, <1>2, <1>3, <1>4, <1>5
  <1>6. CASE m \in {3, 4}
    <2>1. dayOfMarch \in Int /\ GetUTCDay(y, m, d) = GetUTCDay(y, 3, dayOfMarch)
      BY <1>1, <1>6, AprilFollowsMarch
    <2>. HIDE DEF dayOfMarch
    <2>2. GetUTCDay(y, 3, dayOfMarch) = (0 + dayOfMarch - e) % 7
      <3>1. y \in Int /\ 3 \in 1 .. 12 /\ e \in Int /\ dayOfMarch \in Int
        BY <1>1, <1>2, <2>1
      <3>2. GetUTCDay(y, 3, dayOfMarch) = (GetUTCDay(y, 3, e) + dayOfMarch - e) % 7
        BY <3>1, SameMonth
      <3>. QED
        BY <1>2, <3>2
    <2>3. EasterFriday(t) <=> dayOfMarch = e - 2
      BY <1>2, <1>4, <1>6, <2>1, <2>2
    <2>4. <<y, m, d>> = GoodFriday(y) <=> dayOfMarch = e - 2
      BY <1>1, <1>2, <1>3, <1>6 DEF dayOfMarch
    <2>. QED
      BY <2>3, <2>4
  <1>. QED
    BY <1>5, <1>6

\* The code's closures by the month they fall in.
LEMMA ClosuresAre ==
  ASSUME NEW t, IsDate(t)
  PROVE  <<t.year, t.month, t.day>> \in NyseClosedDates(t.year) <=>
           \/ t.month = 1 /\ t.day = ObservedDay(t.year, 1, 1)
           \/ t.month = 1 /\ t.day = NthWeekdayOfMonth(t.year, 1, 1, 3)
           \/ t.month = 2 /\ t.day = NthWeekdayOfMonth(t.year, 2, 1, 3)
           \/ <<t.year, t.month, t.day>> = GoodFriday(t.year)
           \/ t.month = 5 /\ t.day = LastWeekdayOfMonth(t.year, 5, 1)
           \/ t.month = 6 /\ t.day = ObservedDay(t.year, 6, 19)
           \/ t.month = 7 /\ t.day = ObservedDay(t.year, 7, 4)
           \/ t.month = 9 /\ t.day = NthWeekdayOfMonth(t.year, 9, 1, 1)
           \/ t.month = 11 /\ t.day = NthWeekdayOfMonth(t.year, 11, 4, 4)
           \/ t.month = 12 /\ t.day = ObservedDay(t.year, 12, 25)
           \/ t.month = 12 /\ t.day = 31 /\ GetUTCDay(t.year + 1, 1, 1) = 6
  BY DEF NyseClosedDates

LEMMA FixedHolidaysAre ==
  ASSUME NEW m, NEW d
  PROVE  <<m, d>> \in FixedHolidays <=> \/ (m = 1 /\ d = 1) \/ (m = 6 /\ d = 19)
                                        \/ (m = 7 /\ d = 4) \/ (m = 12 /\ d = 25)
  BY DEF FixedHolidays

\* The day before a holiday with a date.
LEMMA EvesAre ==
  ASSUME NEW t, IsDate(t)
  PROVE  Nominal(Tomorrow(t)) <=>
           \/ t.month = 6 /\ t.day = 18
           \/ t.month = 7 /\ t.day = 3
           \/ t.month = 12 /\ t.day = 24
           \/ t.month = 12 /\ t.day = 31
  <1>. DEFINE n == DaysInMonth(t.year, t.month)
              next == Tomorrow(t)
  <1>1. /\ t.month \in 1 .. 12 /\ t.day \in 1 .. 31 /\ t.day <= n /\ n \in 28 .. 31
        /\ t.month \in {6} => n = 30
        /\ t.month \in {7, 12} => n = 31
        /\ t \in [year : Years, month : 1 .. 12, day : 1 .. 31, weekday : 0 .. 6]
    BY MonthLength DEF IsDate, Years, DaysInMonth
  <1>2. Nominal(next) <=> \/ (next.month = 1 /\ next.day = 1) \/ (next.month = 6 /\ next.day = 19)
                          \/ (next.month = 7 /\ next.day = 4) \/ (next.month = 12 /\ next.day = 25)
    BY FixedHolidaysAre DEF Nominal
  <1>. HIDE DEF n
  <1>3. CASE t.day < n
    <2>1. next = [t EXCEPT !.day = t.day + 1, !.weekday = (t.weekday + 1) % 7]
      BY <1>1, <1>3 DEF Tomorrow, n
    <2>2. next.month = t.month /\ next.day = t.day + 1
      BY <1>1, <2>1
    <2>. HIDE DEF next
    <2>. QED
      BY <1>1, <1>2, <1>3, <2>2 DEF next
  <1>4. CASE t.day = n /\ t.month # 12
    <2>1. t.month < 12 /\ ~(t.day < n)
      BY <1>1, <1>4
    <2>2. next = [t EXCEPT !.day = 1, !.month = t.month + 1, !.weekday = (t.weekday + 1) % 7]
      BY <1>4, <2>1 DEF Tomorrow, n
    <2>3. next.month = t.month + 1 /\ next.day = 1
      BY <1>1, <2>2
    <2>. HIDE DEF next
    <2>. QED
      BY <1>1, <1>2, <1>4, <2>3 DEF next
  <1>5. CASE t.day = n /\ t.month = 12
    <2>1. next.month = 1 /\ next.day = 1
      BY <1>1, <1>5 DEF Tomorrow, n
    <2>. QED
      BY <1>1, <1>2, <1>5, <2>1
  <1>. QED
    BY <1>1, <1>3, <1>4, <1>5

LEMMA WeekdaysOn ==
  ASSUME NEW y \in Int, NEW m \in 1 .. 12, NEW d \in Int
  PROVE  /\ d = NthWeekdayOfMonth(y, m, 1, 3) <=> GetUTCDay(y, m, d) = 1 /\ d \in 15 .. 21
         /\ d = NthWeekdayOfMonth(y, m, 1, 1) <=> GetUTCDay(y, m, d) = 1 /\ d \in 1 .. 7
         /\ d = NthWeekdayOfMonth(y, m, 4, 4) <=> GetUTCDay(y, m, d) = 4 /\ d \in 22 .. 28
  <1>1. ASSUME NEW wd \in 0 .. 6, NEW n \in Int
        PROVE  d = NthWeekdayOfMonth(y, m, wd, n)
                 <=> GetUTCDay(y, m, d) = wd /\ d \in 7 * n - 6 .. 7 * n
    BY NthOn
  <1>2. 1 \in 0 .. 6 /\ 4 \in 0 .. 6 /\ 1 \in Int /\ 3 \in Int /\ 4 \in Int
    OBVIOUS
  <1>. QED
    BY <1>1, <1>2

\* On a weekday the exchanges are closed exactly on the holidays of the rules.
LEMMA ClosedOnHolidays ==
  ASSUME NEW t, IsDate(t), t.weekday \in 1 .. 5
  PROVE  <<t.year, t.month, t.day>> \in NyseClosedDates(t.year) <=>
           \/ Nominal(t) \/ MondayAfter(t) \/ FridayBefore(t)
           \/ WeekdayHoliday(t) \/ EasterFriday(t)
  <1>. DEFINE y == t.year
              m == t.month
              d == t.day
              w == t.weekday
  <1>1. /\ y \in Int /\ m \in 1 .. 12 /\ d \in 1 .. 31 /\ d <= DaysInMonth(y, m)
        /\ w = GetUTCDay(y, m, d) /\ w \in 1 .. 5
    BY DEF IsDate, Years
  <1>. HIDE DEF y, m, d, w
  <1>2. ASSUME NEW h \in Int
        PROVE  d = ObservedDay(y, m, h) <=> d = h \/ (w = 1 /\ d = h + 1) \/ (w = 5 /\ d = h - 1)
    <2>1. d \in Int /\ GetUTCDay(y, m, d) \in 1 .. 5
      BY <1>1
    <2>2. d = ObservedDay(y, m, h) <=> KeptOn(h, d, GetUTCDay(y, m, d))
      BY <1>1, <2>1, ObservedOn
    <2>. QED
      BY <1>1, <2>2 DEF KeptOn
  <1>4. m = 5 => (d = LastWeekdayOfMonth(y, 5, 1) <=> w = 1 /\ d \in 25 .. 31)
    BY <1>1, LastOn DEF DaysInMonth
  <1>5. m = 12 /\ d = 31 => (GetUTCDay(y + 1, 1, 1) = 6 <=> w = 5)
    BY <1>1, NewYearsDay
  <1>6. FridayBefore(t) <=> w = 5 /\ \/ (m = 6 /\ d = 18) \/ (m = 7 /\ d = 3)
                                     \/ (m = 12 /\ d = 24) \/ (m = 12 /\ d = 31)
    BY EvesAre DEF FridayBefore, m, d, w
  <1>7. Nominal(t) <=> \/ (m = 1 /\ d = 1) \/ (m = 6 /\ d = 19)
                       \/ (m = 7 /\ d = 4) \/ (m = 12 /\ d = 25)
    BY FixedHolidaysAre DEF Nominal, m, d
  <1>8. MondayAfter(t) <=> w = 1 /\ \/ (m = 1 /\ d = 2) \/ (m = 6 /\ d = 20)
                                    \/ (m = 7 /\ d = 5) \/ (m = 12 /\ d = 26)
    <2>1. (\E h \in FixedHolidays : h[1] = m /\ h[2] + 1 = d) <=>
            \/ (m = 1 /\ d = 2) \/ (m = 6 /\ d = 20) \/ (m = 7 /\ d = 5) \/ (m = 12 /\ d = 26)
      BY <1>1 DEF FixedHolidays
    <2>. QED
      BY <2>1 DEF MondayAfter, m, d, w
  <1>9. /\ m = 1 => (d = ObservedDay(y, 1, 1) <=> d = 1 \/ (w = 1 /\ d = 2))
        /\ m = 6 => (d = ObservedDay(y, 6, 19) <=> d = 19 \/ (w = 1 /\ d = 20) \/ (w = 5 /\ d = 18))
        /\ m = 7 => (d = ObservedDay(y, 7, 4) <=> d = 4 \/ (w = 1 /\ d = 5) \/ (w = 5 /\ d = 3))
        /\ m = 12 => (d = ObservedDay(y, 12, 25) <=> d = 25 \/ (w = 1 /\ d = 26) \/ (w = 5 /\ d = 24))
    BY <1>1, <1>2
  <1>10. /\ m = 1 => (d = NthWeekdayOfMonth(y, 1, 1, 3) <=> w = 1 /\ d \in 15 .. 21)
         /\ m = 2 => (d = NthWeekdayOfMonth(y, 2, 1, 3) <=> w = 1 /\ d \in 15 .. 21)
         /\ m = 9 => (d = NthWeekdayOfMonth(y, 9, 1, 1) <=> w = 1 /\ d \in 1 .. 7)
         /\ m = 11 => (d = NthWeekdayOfMonth(y, 11, 4, 4) <=> w = 4 /\ d \in 22 .. 28)
    BY <1>1, WeekdaysOn
  <1>11. WeekdayHoliday(t) <=> \/ w = 1 /\ m \in {1, 2} /\ d \in 15 .. 21
                               \/ w = 1 /\ m = 5 /\ d \in 25 .. 31
                               \/ w = 1 /\ m = 9 /\ d \in 1 .. 7
                               \/ w = 4 /\ m = 11 /\ d \in 22 .. 28
    BY DEF WeekdayHoliday, m, d, w
  <1>. DEFINE friday == EasterFriday(t)
  <1>12. <<y, m, d>> \in NyseClosedDates(y) <=>
           \/ (m = 1 /\ d = ObservedDay(y, 1, 1)) \/ (m = 1 /\ d = NthWeekdayOfMonth(y, 1, 1, 3))
           \/ (m = 2 /\ d = NthWeekdayOfMonth(y, 2, 1, 3)) \/ friday
           \/ (m = 5 /\ d = LastWeekdayOfMonth(y, 5, 1)) \/ (m = 6 /\ d = ObservedDay(y, 6, 19))
           \/ (m = 7 /\ d = ObservedDay(y, 7, 4)) \/ (m = 9 /\ d = NthWeekdayOfMonth(y, 9, 1, 1))
           \/ m = 11 /\ d = NthWeekdayOfMonth(y, 11, 4, 4)
           \/ m = 12 /\ d = ObservedDay(y, 12, 25)
           \/ m = 12 /\ d = 31 /\ GetUTCDay(y + 1, 1, 1) = 6
    BY ClosuresAre, GoodFridayOn DEF y, m, d
  <1>. HIDE DEF friday
  <1>13. <<y, m, d>> \in NyseClosedDates(y) <=>
           \/ Nominal(t) \/ MondayAfter(t) \/ FridayBefore(t) \/ WeekdayHoliday(t) \/ friday
    BY <1>1, <1>4, <1>5, <1>6, <1>7, <1>8, <1>9, <1>10, <1>11, <1>12
  <1>. QED
    BY <1>13 DEF y, m, d, friday

\* For every year: as long as the walk goes on, whatever the date it starts at,
\* the session is open in the regular hours of the trading days and no others.
THEOREM SessionsAreTradingDays == Walk => []SessionFollowsRules
  <1>. DEFINE DateInv == IsDate(today)
  <1>1. today = FirstDay => DateInv
    BY CalendarAssumption
  <1>2. DateInv /\ [DayPasses]_today => DateInv'
    BY TomorrowIsDate DEF DayPasses
  <1>3. DateInv => SessionFollowsRules
    <2>1. SUFFICES ASSUME IsDate(today), NEW minutes \in SessionMinutes
                   PROVE  UnderlyingMarketState("etf", TRUE, today, minutes) = "open"
                            <=> TradingDay(today) /\ minutes \in 570 .. 959
      BY DEF SessionFollowsRules
    <2>2. minutes \in Nat /\ today.weekday \in 0 .. 6
      BY <2>1, CalendarAssumption DEF IsDate
    <2>3. UnderlyingMarketState("etf", TRUE, today, minutes) = "open"
            <=> IsUsRegularSessionOpen(today, minutes)
      BY DEF UnderlyingMarketState
    <2>4. 9 * 60 + 30 <= minutes /\ minutes < 16 * 60 <=> minutes \in 570 .. 959
      BY <2>2
    <2>5. CASE today.weekday \in {0, 6}
      <3>1. ~(today.weekday \in 1 .. 5)
        BY <2>5
      <3>. QED
        BY <2>3, <2>5, <3>1 DEF IsUsRegularSessionOpen, TradingDay
    <2>6. CASE today.weekday \in 1 .. 5
      <3>1. today.weekday \notin {0, 6}
        BY <2>6
      <3>2. TradingDay(today) <=> <<today.year, today.month, today.day>> \notin NyseClosedDates(today.year)
        BY <2>1, <2>6, ClosedOnHolidays DEF TradingDay
      <3>3. IsUsRegularSessionOpen(today, minutes) <=>
              /\ <<today.year, today.month, today.day>> \notin NyseClosedDates(today.year)
              /\ 9 * 60 + 30 <= minutes /\ minutes < 16 * 60
        BY <3>1 DEF IsUsRegularSessionOpen
      <3>. DEFINE hours == 9 * 60 + 30 <= minutes /\ minutes < 16 * 60
                  closed == <<today.year, today.month, today.day>> \in NyseClosedDates(today.year)
      <3>4. (IsUsRegularSessionOpen(today, minutes) <=> ~closed /\ hours)
            /\ (TradingDay(today) <=> ~closed) /\ (hours <=> minutes \in 570 .. 959)
        BY <2>4, <3>2, <3>3
      <3>. HIDE DEF hours, closed
      <3>5. ~closed /\ hours <=> TradingDay(today) /\ minutes \in 570 .. 959
        BY <3>4
      <3>. DEFINE state == UnderlyingMarketState("etf", TRUE, today, minutes)
      <3>6. state = "open" <=> IsUsRegularSessionOpen(today, minutes)
        BY <2>3
      <3>. HIDE DEF state
      <3>7. state = "open" <=> TradingDay(today) /\ minutes \in 570 .. 959
        BY <3>4, <3>5, <3>6
      <3>. QED
        BY <3>7 DEF state
    <2>7. today.weekday \in {0, 6} \/ today.weekday \in 1 .. 5
      BY <2>2
    <2>. QED
      BY <2>5, <2>6, <2>7
  <1>. QED
    BY <1>1, <1>2, <1>3, PTL DEF Walk

-----------------------------------------------------------------------------
(***************************************************************************)
(* The receipt of an anomaly.                                              *)
(***************************************************************************)
\* The numbers of an interval in order.
LEMMA AscendingRun ==
  ASSUME NEW a \in Int, NEW n \in Nat
  PROVE  Ascending(a + 1 .. a + n) = [i \in 1 .. n |-> a + i]
  <1>. DEFINE S == a + 1 .. a + n
              f == [i \in 1 .. n |-> a + i]
              value == [x \in S |-> x]
  <1>1. IsFiniteSet(S) /\ Cardinality(S) = n
    <2>1. a + 1 \in Int /\ a + n \in Int
      OBVIOUS
    <2>2. IsFiniteSet(S) /\ Cardinality(S) = IF a + 1 > a + n THEN 0 ELSE a + n - (a + 1) + 1
      BY <2>1, FS_Interval
    <2>. QED
      BY <2>2
  <1>2. f \in [1 .. n -> S]
    OBVIOUS
  <1>3. \A x \in S : \E i \in 1 .. n : f[i] = x
    <2>1. ASSUME NEW x \in S PROVE x - a \in 1 .. n /\ f[x - a] = x
      OBVIOUS
    <2>. QED
      BY <2>1
  <1>4. \A x \in S : value[x] \in Int /\ value[x] = x
    OBVIOUS
  <1>5. \A j, k \in DOMAIN f : j <= k => value[f[j]] <= value[f[k]]
    OBVIOUS
  <1>6. f \in Orders(S)
    BY <1>1, <1>2, <1>3 DEF Orders
  <1>7. Ascends(f, value)
    BY <1>5 DEF Ascends
  <1>8. \A i \in 1 .. n : value[f[i]] = f[i]
    BY <1>2, <1>4
  <1>. HIDE DEF S, f, value
  <1>9. Sorted(S, value) = [i \in 1 .. n |-> value[f[i]]]
    BY <1>1, <1>4, <1>6, <1>7, SortedIs
  <1>10. Sorted(S, value) = [i \in 1 .. n |-> f[i]]
    BY <1>8, <1>9
  <1>. QED
    BY <1>10 DEF Ascending, S, f, value

\* The observations of a receipt: the reference, n tokens, then the venues.
Layout(s, n) ==
  /\ DOMAIN s = 1 .. 1 + n + Len(Venues)
  /\ s[1].kind = "tokenized_aggregate"
  /\ \A k \in 1 .. n : s[k + 1].kind = "token"
  /\ \A v \in 1 .. Len(Venues) : s[1 + n + v].kind = "tradfi_context"

LEMMA KindsOf ==
  ASSUME NEW n \in Nat, NEW b, Layout(b.observations, n)
  PROVE  /\ OfKind(b, "tokenized_aggregate") = [i \in 1 .. 1 |-> b.observations[1]]
         /\ OfKind(b, "token") = [k \in 1 .. n |-> b.observations[k + 1]]
  <1>. DEFINE s == b.observations
              v == Len(Venues)
              at(kind) == {i \in DOMAIN s : s[i].kind = kind}
  <1>1. v \in Nat
    BY EvidenceAssumption
  <1>2. DOMAIN s = 1 .. 1 + n + v
    BY DEF Layout
  <1>. HIDE DEF v
  <1>3. \A i \in DOMAIN s : \/ i = 1 /\ s[i].kind = "tokenized_aggregate"
                            \/ i \in 2 .. 1 + n /\ s[i].kind = "token"
                            \/ i \in 2 + n .. 1 + n + v /\ s[i].kind = "tradfi_context"
    <2>1. ASSUME NEW i \in 2 .. 1 + n PROVE s[i].kind = "token"
      <3>1. i - 1 \in 1 .. n /\ (i - 1) + 1 = i
        OBVIOUS
      <3>. QED
        BY <3>1 DEF Layout
    <2>2. ASSUME NEW i \in 2 + n .. 1 + n + v PROVE s[i].kind = "tradfi_context"
      <3>1. i - 1 - n \in 1 .. v /\ 1 + n + (i - 1 - n) = i
        BY <1>1
      <3>. QED
        BY <3>1 DEF Layout, v
    <2>3. s[1].kind = "tokenized_aggregate"
      BY DEF Layout
    <2>4. \A i \in 1 .. 1 + n + v : i = 1 \/ i \in 2 .. 1 + n \/ i \in 2 + n .. 1 + n + v
      BY <1>1
    <2>. QED
      BY <1>2, <2>1, <2>2, <2>3, <2>4
  <1>4. at("tokenized_aggregate") = 0 + 1 .. 0 + 1
    BY <1>1, <1>2, <1>3
  <1>5. at("token") = 1 + 1 .. 1 + n
    BY <1>1, <1>2, <1>3
  <1>6. Ascending(at("tokenized_aggregate")) = [i \in 1 .. 1 |-> 0 + i]
    <2>1. Ascending(0 + 1 .. 0 + 1) = [i \in 1 .. 1 |-> 0 + i]
      <3>1. 0 \in Int /\ 1 \in Nat
        OBVIOUS
      <3>. QED
        BY <3>1, AscendingRun, Zenon
    <2>. QED
      BY <1>4, <2>1
  <1>7. Ascending(at("token")) = [i \in 1 .. n |-> 1 + i]
    <2>1. Ascending(1 + 1 .. 1 + n) = [i \in 1 .. n |-> 1 + i]
      <3>1. 1 \in Int /\ n \in Nat
        OBVIOUS
      <3>. QED
        BY <3>1, AscendingRun, Zenon
    <2>. QED
      BY <1>5, <2>1
  <1>8. OfKind(b, "tokenized_aggregate") = [i \in 1 .. 1 |-> s[1]]
    <2>. DEFINE ns == Ascending(at("tokenized_aggregate"))
    <2>1. OfKind(b, "tokenized_aggregate") = [i \in DOMAIN ns |-> s[ns[i]]]
      BY DEF OfKind
    <2>2. DOMAIN ns = 1 .. 1 /\ \A i \in 1 .. 1 : ns[i] = 1
      BY <1>6
    <2>. HIDE DEF ns
    <2>. QED
      BY <2>1, <2>2
  <1>9. OfKind(b, "token") = [k \in 1 .. n |-> s[k + 1]]
    <2>. DEFINE ns == Ascending(at("token"))
    <2>1. OfKind(b, "token") = [i \in DOMAIN ns |-> s[ns[i]]]
      BY DEF OfKind
    <2>2. DOMAIN ns = 1 .. n /\ \A i \in 1 .. n : ns[i] = i + 1
      <3>1. \A i \in 1 .. n : 1 + i = i + 1
        OBVIOUS
      <3>. QED
        BY <1>7, <3>1
    <2>. HIDE DEF ns
    <2>. QED
      BY <2>1, <2>2
  <1>. QED
    BY <1>8, <1>9

\* A reading of which a receipt is issued.
Certified(r) == r \in Reading /\ Normalised(r) /\ Evaluate(r).severity # "none"

LEMMA CertifiedInputs ==
  ASSUME NEW r, Certified(r)
  PROVE  /\ r \in Reading /\ ReferenceState(r) \notin Incomparable
         /\ r.reference # NoReference /\ r.reference.price \in Nat \ {0}
         /\ Len(r.tokens) \in Nat \ {0} /\ DOMAIN r.tokens = 1 .. Len(r.tokens)
         /\ Measured(r) = 1 .. Len(r.tokens)
         /\ \A k \in 1 .. Len(r.tokens) : /\ r.tokens[k].price \in Nat \ {0}
                                          /\ r.tokens[k].currency = r.reference.currency
         /\ DetectAnomaly(r) \in Candidates(r)
  <1>1. r \in Reading /\ Normalised(r)
    BY DEF Certified
  <1>2. DetectAnomaly(r).severity # "none"
    BY DEF Certified, Evaluate
  <1>3. ReferenceState(r) \notin Incomparable /\ DetectAnomaly(r) \in Candidates(r)
    BY <1>1, <1>2, Detected DEF NoAnomaly
  <1>4. r.reference # NoReference
    <2>1. r.reference = NoReference => Measured(r) = {}
      BY DEF Measured
    <2>. QED
      BY <1>3, <2>1 DEF ReferenceState, Incomparable
  <1>5. Measured(r) # {}
    BY <1>3, <1>4 DEF ReferenceState, Incomparable
  <1>6. r.reference.price \in Nat \ {0}
    BY <1>1, <1>4, Inputs DEF Normalised
  <1>7. r.reference.currency = "USD"
    BY <1>1, <1>5 DEF Measured, Priced, Normalised
  <1>8. /\ Len(r.tokens) \in Nat /\ DOMAIN r.tokens = 1 .. Len(r.tokens)
        /\ \A k \in DOMAIN r.tokens : /\ r.tokens[k].price \in Nat \ {0}
                                      /\ r.tokens[k].currency = r.reference.currency
    BY <1>1, <1>7, Inputs DEF Normalised
  <1>9. Measured(r) = DOMAIN r.tokens
    BY <1>4, <1>6, <1>8 DEF Measured, Priced
  <1>10. Len(r.tokens) # 0
    BY <1>5, <1>8, <1>9
  <1>. QED
    BY <1>1, <1>3, <1>4, <1>6, <1>8, <1>9, <1>10

\* What buildReceipt puts in.
IssuedBody(b, r, mode) ==
  /\ b = [mode |-> b.mode, finding |-> b.finding, observations |-> b.observations,
          confirmations |-> b.confirmations, age |-> b.age,
          gaps |-> b.gaps, trace |-> b.trace, dispersion |-> b.dispersion,
          claims |-> b.claims, provenance |-> b.provenance]
  /\ b.finding = Evaluate(r) /\ b.confirmations = r.confirmations + 1
  /\ b.age = r.reference.age
  /\ b.mode = mode /\ b.provenance = {mode} /\ b.claims = Claims(r)
  /\ b.dispersion = Spread(r)
  /\ Layout(b.observations, Len(r.tokens))
  /\ Len(b.observations) = 1 + Len(r.tokens) + Len(Venues)
  /\ b.observations[1] = ReferenceObservation(r)
  /\ \A k \in 1 .. Len(r.tokens) : b.observations[k + 1] = TokenObservation(r, k)
  /\ \A v \in 1 .. Len(Venues) :
       b.observations[1 + Len(r.tokens) + v] = VenueContext(Venues[v])
  /\ b.gaps = [k \in 1 .. Len(r.tokens) |-> GapEntry(r, k)] /\ b.trace = b.gaps

LEMMA Issued ==
  ASSUME NEW r, Certified(r), NEW mode
  PROVE  IssuedBody(Contents(r, mode), r, mode)
  <1>. DEFINE b == Contents(r, mode)
              n == Len(r.tokens)
              u == Len(Venues)
              first == <<ReferenceObservation(r)>>
              tokens == [k \in DOMAIN r.tokens |-> TokenObservation(r, k)]
              venues == [v \in DOMAIN Venues |-> VenueContext(Venues[v])]
              gaps == [i \in DOMAIN MeasuredSeq(r) |-> GapEntry(r, MeasuredSeq(r)[i])]
              s == first \o tokens \o venues
  <1>1. n \in Nat \ {0} /\ DOMAIN r.tokens = 1 .. n /\ Measured(r) = 1 .. n
    BY CertifiedInputs
  <1>2. u \in Nat /\ DOMAIN Venues = 1 .. u
    BY EvidenceAssumption
  <1>. HIDE DEF n, u
  <1>3. MeasuredSeq(r) = [i \in 1 .. n |-> i]
    <2>1. Ascending(0 + 1 .. 0 + n) = [i \in 1 .. n |-> 0 + i]
      BY <1>1, AscendingRun
    <2>. QED
      BY <1>1, <2>1 DEF MeasuredSeq
  <1>4. gaps = [k \in 1 .. n |-> GapEntry(r, k)]
    BY <1>3
  <1>5. Cited(r) = {Ref}
    BY CertifiedInputs DEF Cited, Observed
  <1>6. b = [mode |-> mode, finding |-> Evaluate(r), confirmations |-> r.confirmations + 1,
             age |-> r.reference.age, observations |-> s, gaps |-> gaps,
             trace |-> gaps, dispersion |-> Spread(r), claims |-> Claims(r),
             provenance |-> {mode}]
    BY <1>5 DEF Contents
  <1>7. DOMAIN tokens = 1 .. n /\ DOMAIN venues = 1 .. u
    BY <1>1, <1>2
  <1>8. /\ DOMAIN s = 1 .. 1 + n + u /\ Len(s) = 1 + n + u
        /\ s[1] = ReferenceObservation(r)
        /\ \A k \in 1 .. n : s[k + 1] = tokens[k]
        /\ \A v \in 1 .. u : s[1 + n + v] = venues[v]
    <2>1. \A k \in 1 .. n : tokens[k] \in {tokens[i] : i \in 1 .. n}
      OBVIOUS
    <2>. DEFINE all == {ReferenceObservation(r)} \cup {tokens[i] : i \in 1 .. n}
                         \cup {venues[i] : i \in 1 .. u}
    <2>2. first \in Seq(all) /\ tokens \in Seq(all) /\ venues \in Seq(all)
          /\ Len(first) = 1 /\ Len(tokens) = n /\ Len(venues) = u /\ first[1] = ReferenceObservation(r)
      BY <1>1, <1>2, <1>7
    <2>. HIDE DEF all, tokens, venues, first
    <2>3. /\ first \o tokens \in Seq(all) /\ Len(first \o tokens) = 1 + n
          /\ (first \o tokens)[1] = first[1]
          /\ \A k \in 1 .. n : (first \o tokens)[k + 1] = tokens[k]
      <3>1. first \o tokens \in Seq(all) /\ Len(first \o tokens) = 1 + n
        <4>1. first \o tokens \in Seq(all)
          BY <2>2, ConcatProperties
        <4>2. Len(first \o tokens) = Len(first) + Len(tokens)
          BY <2>2, ConcatProperties
        <4>. QED
          BY <2>2, <4>1, <4>2
      <3>2. (first \o tokens)[1] = first[1]
        BY <2>2, <1>1, ConcatProperties
      <3>3. ASSUME NEW k \in 1 .. n PROVE (first \o tokens)[k + 1] = tokens[k]
        <4>. DEFINE j == k + 1
        <4>1. j \in 1 .. 1 + n /\ ~(j <= 1) /\ j - 1 = k
          BY <1>1
        <4>. HIDE DEF j
        <4>2. j \in 1 .. Len(first) + Len(tokens) /\ ~(j <= Len(first)) /\ j - Len(first) = k
          BY <2>2, <4>1
        <4>3. (first \o tokens)[j] = tokens[k]
          BY <2>2, <4>2, ConcatProperties
        <4>. QED
          BY <4>3 DEF j
      <3>. QED
        BY <3>1, <3>2, <3>3
    <2>. DEFINE both == first \o tokens
    <2>. HIDE DEF both
    <2>4. both \in Seq(all) /\ Len(both) = 1 + n /\ both[1] = first[1]
          /\ \A k \in 1 .. n : both[k + 1] = tokens[k]
      BY <2>3 DEF both
    <2>5. /\ both \o venues \in Seq(all) /\ Len(both \o venues) = 1 + n + u
          /\ \A i \in 1 .. 1 + n : (both \o venues)[i] = both[i]
          /\ \A v \in 1 .. u : (both \o venues)[1 + n + v] = venues[v]
      <3>1. both \o venues \in Seq(all) /\ Len(both \o venues) = 1 + n + u
        <4>1. both \o venues \in Seq(all) /\ Len(both \o venues) = Len(both) + Len(venues)
          BY <2>2, <2>4, ConcatProperties
        <4>. QED
          BY <2>2, <2>4, <4>1
      <3>2. ASSUME NEW i \in 1 .. 1 + n PROVE (both \o venues)[i] = both[i]
        <4>1. i \in 1 .. Len(both) + Len(venues) /\ i <= Len(both)
          BY <1>1, <1>2, <2>2, <2>4
        <4>. QED
          BY <2>2, <2>4, <4>1, ConcatProperties
      <3>3. ASSUME NEW v \in 1 .. u PROVE (both \o venues)[1 + n + v] = venues[v]
        <4>. DEFINE j == 1 + n + v
        <4>1. j \in 1 .. 1 + n + u /\ ~(j <= 1 + n) /\ j - (1 + n) = v
          BY <1>1, <1>2
        <4>. HIDE DEF j
        <4>2. j \in 1 .. Len(both) + Len(venues) /\ ~(j <= Len(both)) /\ j - Len(both) = v
          BY <2>2, <2>4, <4>1
        <4>3. (both \o venues)[j] = venues[v]
          BY <2>2, <2>4, <4>2, ConcatProperties
        <4>. QED
          BY <4>3 DEF j
      <3>. QED
        BY <3>1, <3>2, <3>3
    <2>6. s = both \o venues
      BY DEF both
    <2>7. 1 \in 1 .. 1 + n /\ \A k \in 1 .. n : k + 1 \in 1 .. 1 + n
      BY <1>1
    <2>. HIDE DEF s
    <2>. QED
      BY <2>2, <2>4, <2>5, <2>6, <2>7, LenProperties
  <1>9. /\ \A k \in 1 .. n : tokens[k] = TokenObservation(r, k)
        /\ \A v \in 1 .. u : venues[v] = VenueContext(Venues[v])
    BY <1>1, <1>2
  <1>. HIDE DEF s, tokens, venues, gaps
  <1>10. Layout(s, n)
    <2>1. s[1].kind = "tokenized_aggregate"
      BY <1>8 DEF ReferenceObservation
    <2>2. \A k \in 1 .. n : s[k + 1].kind = "token"
      <3>1. \A k \in 1 .. n : s[k + 1] = TokenObservation(r, k)
        BY <1>8, <1>9
      <3>2. \A k : TokenObservation(r, k).kind = "token"
        BY DEF TokenObservation
      <3>. QED
        BY <3>1, <3>2
    <2>3. \A v \in 1 .. u : s[1 + n + v].kind = "tradfi_context"
      <3>1. \A v \in 1 .. u : s[1 + n + v] = VenueContext(Venues[v])
        BY <1>8, <1>9
      <3>2. \A v : VenueContext(v).kind = "tradfi_context"
        BY DEF VenueContext
      <3>. QED
        BY <3>1, <3>2
    <2>. QED
      BY <1>8, <2>1, <2>2, <2>3 DEF Layout, u
  <1>11. /\ b.mode = mode /\ b.provenance = {mode} /\ b.claims = Claims(r)
         /\ b.dispersion = Spread(r) /\ b.observations = s /\ b.gaps = gaps /\ b.trace = gaps
         /\ b.finding = Evaluate(r) /\ b.confirmations = r.confirmations + 1
         /\ b.age = r.reference.age
    BY <1>6
  <1>12. b = [mode |-> b.mode, finding |-> b.finding, observations |-> b.observations,
              confirmations |-> b.confirmations, age |-> b.age, gaps |-> b.gaps, trace |-> b.trace, dispersion |-> b.dispersion,
              claims |-> b.claims, provenance |-> b.provenance]
    BY <1>6
  <1>. HIDE DEF b
  <1>. QED
    BY <1>4, <1>8, <1>9, <1>10, <1>11, <1>12 DEF IssuedBody, b, n, u

\* A receipt names each observation once.
LEMMA IdsAre ==
  ASSUME NEW r, Certified(r), NEW mode
  PROVE  LET b == Contents(r, mode)
             ids == {o.id : o \in Range(b.observations)}
         IN /\ ids = {Ref} \cup 1 .. Len(r.tokens) \cup Range(Venues)
            /\ Cardinality(ids) = Len(b.observations)
  <1>. DEFINE b == Contents(r, mode)
              s == b.observations
              n == Len(r.tokens)
              u == Len(Venues)
              ids == {o.id : o \in Range(b.observations)}
              id == [i \in 1 .. 1 + n + u |-> s[i].id]
  <1>1. /\ n \in Nat /\ u \in Nat /\ DOMAIN Venues = 1 .. u
        /\ \A v \in 1 .. u : Venues[v] \in Int /\ Venues[v] < 0
        /\ \A v, w \in 1 .. u : Venues[v] = Venues[w] => v = w
    BY CertifiedInputs, EvidenceAssumption DEF IsInjective
  <1>2. IssuedBody(b, r, mode)
    BY Issued
  <1>. HIDE DEF b
  <1>3. DOMAIN s = 1 .. 1 + n + u /\ Len(s) = 1 + n + u
    BY <1>2 DEF IssuedBody, Layout
  <1>4. s[1].id = Ref
    BY <1>2 DEF IssuedBody, ReferenceObservation
  <1>5. \A k \in 1 .. n : s[k + 1].id = k
    <2>1. \A k \in 1 .. n : s[k + 1] = TokenObservation(r, k)
      BY <1>2 DEF IssuedBody
    <2>2. \A k : TokenObservation(r, k).id = k
      BY DEF TokenObservation
    <2>. QED
      BY <2>1, <2>2
  <1>6. \A v \in 1 .. u : s[1 + n + v].id = Venues[v]
    <2>1. \A v \in 1 .. u : s[1 + n + v] = VenueContext(Venues[v])
      BY <1>2 DEF IssuedBody
    <2>2. \A v : VenueContext(v).id = v
      BY DEF VenueContext
    <2>. QED
      BY <2>1, <2>2
  <1>7. ids = {s[i].id : i \in 1 .. 1 + n + u}
    BY <1>3 DEF Range
  <1>. HIDE DEF s, n, u
  <1>8. \A i \in 1 .. 1 + n + u : /\ i = 1 => s[i].id = 0
                                  /\ i \in 2 .. 1 + n => s[i].id = i - 1
                                  /\ i \in 2 + n .. 1 + n + u => s[i].id = Venues[i - 1 - n]
    <2>1. ASSUME NEW i \in 2 .. 1 + n PROVE s[i].id = i - 1
      <3>. DEFINE k == i - 1
      <3>1. k \in 1 .. n /\ k + 1 = i
        BY <1>1
      <3>. HIDE DEF k
      <3>. QED
        BY <1>5, <3>1 DEF k
    <2>2. ASSUME NEW i \in 2 + n .. 1 + n + u PROVE s[i].id = Venues[i - 1 - n]
      <3>. DEFINE v == i - 1 - n
      <3>1. v \in 1 .. u /\ 1 + n + v = i
        BY <1>1
      <3>. HIDE DEF v
      <3>. QED
        BY <1>6, <3>1 DEF v
    <2>. QED
      BY <1>4, <2>1, <2>2 DEF Ref
  <1>9. ids = {Ref} \cup 1 .. n \cup Range(Venues)
    <2>1. ASSUME NEW i \in 1 .. 1 + n + u PROVE s[i].id \in {Ref} \cup 1 .. n \cup Range(Venues)
      <3>1. CASE i = 1
        BY <1>4, <3>1
      <3>2. CASE i \in 2 .. 1 + n
        BY <1>1, <1>8, <3>2
      <3>3. CASE i \in 2 + n .. 1 + n + u
        <4>1. i - 1 - n \in 1 .. u
          BY <1>1, <3>3
        <4>. QED
          BY <1>1, <1>8, <3>3, <4>1 DEF Range
      <3>. QED
        BY <1>1, <3>1, <3>2, <3>3
    <2>2. ASSUME NEW x \in {Ref} \cup 1 .. n \cup Range(Venues)
          PROVE  \E i \in 1 .. 1 + n + u : s[i].id = x
      <3>1. CASE x = Ref
        <4>1. 1 \in 1 .. 1 + n + u
          BY <1>1
        <4>. QED
          BY <1>4, <3>1, <4>1
      <3>2. CASE x \in 1 .. n
        <4>1. x + 1 \in 1 .. 1 + n + u
          BY <1>1, <3>2
        <4>. QED
          BY <1>5, <3>2, <4>1
      <3>3. CASE x \in Range(Venues)
        <4>1. PICK v \in 1 .. u : x = Venues[v]
          BY <1>1, <3>3 DEF Range
        <4>2. 1 + n + v \in 1 .. 1 + n + u
          BY <1>1
        <4>. QED
          BY <1>6, <4>1, <4>2
      <3>. QED
        BY <3>1, <3>2, <3>3
    <2>. QED
      BY <1>7, <2>1, <2>2
  <1>10. ASSUME NEW i \in 1 .. 1 + n + u, NEW j \in 1 .. 1 + n + u, s[i].id = s[j].id
        PROVE  i = j
    <2>. DEFINE x == s[i].id
    <2>1. /\ i = 1 \/ i \in 2 .. 1 + n \/ i \in 2 + n .. 1 + n + u
          /\ j = 1 \/ j \in 2 .. 1 + n \/ j \in 2 + n .. 1 + n + u
      BY <1>1
    <2>2. ASSUME NEW k \in 2 + n .. 1 + n + u
          PROVE  k - 1 - n \in 1 .. u /\ Venues[k - 1 - n] < 0 /\ Venues[k - 1 - n] \in Int
                 /\ s[k].id = Venues[k - 1 - n] /\ k \in 1 .. 1 + n + u
      <3>1. k - 1 - n \in 1 .. u /\ k \in 1 .. 1 + n + u
        BY <1>1
      <3>. QED
        BY <1>1, <1>8, <3>1
    <2>3. ASSUME NEW k \in 2 .. 1 + n PROVE s[k].id = k - 1 /\ k - 1 > 0 /\ k - 1 \in Int
      <3>1. k \in 1 .. 1 + n + u
        BY <1>1
      <3>. QED
        BY <1>1, <1>8, <3>1
    <2>4. s[1].id = 0
      BY <1>4 DEF Ref
    <2>5. CASE i \in 2 + n .. 1 + n + u /\ j \in 2 + n .. 1 + n + u
      <3>1. i - 1 - n = j - 1 - n
        BY <1>1, <1>10, <2>2, <2>5
      <3>. QED
        BY <1>1, <3>1
    <2>6. CASE i \in 2 .. 1 + n /\ j \in 2 .. 1 + n
      BY <1>1, <1>10, <2>3, <2>6
    <2>. QED
      BY <1>10, <2>1, <2>2, <2>3, <2>4, <2>5, <2>6
  <1>11. id \in Injection(1 .. 1 + n + u, ids) /\ id \in Surjection(1 .. 1 + n + u, ids)
    <2>1. id \in [1 .. 1 + n + u -> ids]
      BY <1>7
    <2>2. \A x \in ids : \E i \in 1 .. 1 + n + u : id[i] = x
      BY <1>7
    <2>. HIDE DEF ids
    <2>3. \A i, j \in 1 .. 1 + n + u : id[i] = id[j] => i = j
      BY <1>10
    <2>. QED
      BY <2>1, <2>2, <2>3 DEF Injection, Surjection, IsInjective
  <1>12. Cardinality(ids) = 1 + n + u
    <2>1. 1 + n + u \in Nat
      BY <1>1
    <2>2. IsFiniteSet(1 .. 1 + n + u) /\ Cardinality(1 .. 1 + n + u) = 1 + n + u
      BY <2>1, FS_Interval
    <2>. HIDE DEF id, ids
    <2>. QED
      BY <1>11, <2>2, FS_Surjection
  <1>. QED
    BY <1>3, <1>9, <1>12 DEF b, s, n, u

\* Each claim cites what was observed.
LEMMA ClaimsAreGrounded ==
  ASSUME NEW r, Certified(r), NEW c \in Claims(r)
  PROVE  c.evidence \cup c.inputs \subseteq {Ref} \cup 1 .. Len(r.tokens) \cup Range(Venues)
  <1>. DEFINE all == {Ref} \cup 1 .. Len(r.tokens) \cup Range(Venues)
              Fits(d) == d.evidence \subseteq all /\ d.inputs \subseteq all
  <1>1. /\ Measured(r) = 1 .. Len(r.tokens) /\ DOMAIN r.tokens = 1 .. Len(r.tokens)
        /\ r \in Reading /\ Measured(r) # {}
    BY CertifiedInputs
  <1>2. /\ Cited(r) \subseteq all /\ Observed(r) \subseteq all /\ DOMAIN r.tokens \subseteq all
        /\ Measured(r) \subseteq all /\ Ref \in all /\ Range(Venues) \subseteq all
    BY <1>1 DEF Cited, Observed
  <1>3. Widest(r) \in Measured(r)
    <2>1. PICK k \in Measured(r) : WidestGap(r, k)
      BY <1>1, WidestExists
    <2>. QED
      BY <2>1 DEF Widest, WidestGap
  <1>. HIDE DEF all
  <1>4. ASSUME NEW kind, NEW about, NEW evidence \in SUBSET all, NEW inputs \in SUBSET all
        PROVE  Fits(Claim(kind, about, evidence, inputs))
    BY DEF Claim
  <1>5. \A d \in Hypotheses(r) : Fits(d)
    <2>1. ASSUME NEW d \in Hypotheses(r)
          PROVE  \/ d = Claim("supported_hypothesis", "low_volume", {Widest(r)} \cup Cited(r), DOMAIN r.tokens)
                 \/ d = Claim("supported_hypothesis", "market_closed", Cited(r), {})
      BY DEF Hypotheses
    <2>2. {Widest(r)} \cup Cited(r) \subseteq all /\ {} \subseteq all
      BY <1>2, <1>3
    <2>. QED
      BY <1>2, <1>4, <2>1, <2>2
  <1>6. \A d \in Unknowns(r) : Fits(d)
    <2>1. ASSUME NEW d \in Unknowns(r) PROVE \E about : d = Claim("unknown", about, {}, {})
      BY DEF Unknowns
    <2>. QED
      BY <1>4, <2>1
  <1>7. \/ c = Claim("observed", "reference", {Ref}, {})
        \/ \E k \in DOMAIN r.tokens : c = Claim("observed", "token", {k}, {})
        \/ c = Claim("observed", "venues", Range(Venues), {})
        \/ c = Claim("observed", "context", Cited(r), {})
        \/ \E k \in Measured(r) : c = Claim("derived", "parity_gap_v1", Cited(r), {k, Ref})
        \/ c = Claim("derived", "dispersion_v1", DOMAIN r.tokens, DOMAIN r.tokens)
        \/ c = Claim("derived", "data_quality_v1", Observed(r), Observed(r))
        \/ c \in Hypotheses(r) \/ c \in Unknowns(r)
    BY DEF Claims
  <1>8. Fits(c)
    <2>1. {} \subseteq all /\ {Ref} \subseteq all
          /\ (\A k \in DOMAIN r.tokens : {k} \subseteq all)
          /\ (\A k \in Measured(r) : {k, Ref} \subseteq all)
      BY <1>2
    <2>. HIDE DEF Fits
    <2>. QED
      BY <1>2, <1>4, <1>5, <1>6, <1>7, <2>1
  <1>. QED
    BY <1>8 DEF all

\* What an audit finds among the observations: the reference and n wrappers.
Listed(b, n) ==
  /\ Len(OfKind(b, "tokenized_aggregate")) = 1
  /\ OfKind(b, "tokenized_aggregate")[1] = b.observations[1]
  /\ Range(OfKind(b, "tokenized_aggregate")) = {b.observations[1]}
  /\ DOMAIN OfKind(b, "token") = 1 .. n /\ OfKind(b, "token") # <<>>
  /\ \A k \in 1 .. n : OfKind(b, "token")[k] = b.observations[k + 1]
  /\ Range(OfKind(b, "token")) = {b.observations[k + 1] : k \in 1 .. n}

LEMMA ObservationsFound ==
  ASSUME NEW n \in Nat \ {0}, NEW b, Layout(b.observations, n)
  PROVE  Listed(b, n)
  <1>. DEFINE refs == OfKind(b, "tokenized_aggregate")
              tokens == OfKind(b, "token")
  <1>1. n \in Nat \ {0}
    OBVIOUS
  <1>2. refs = [i \in 1 .. 1 |-> b.observations[1]] /\ tokens = [k \in 1 .. n |-> b.observations[k + 1]]
    BY <1>1, KindsOf
  <1>. HIDE DEF refs, tokens
  <1>3. /\ refs \in Seq({b.observations[1]}) /\ Len(refs) = 1 /\ refs[1] = b.observations[1]
        /\ Range(refs) = {b.observations[1]}
    BY <1>2 DEF Range
  <1>4. /\ Len(tokens) = n /\ DOMAIN tokens = 1 .. n
        /\ \A k \in 1 .. n : tokens[k] = b.observations[k + 1]
        /\ Range(tokens) = {b.observations[k + 1] : k \in 1 .. n}
    <2>. DEFINE all == {b.observations[k + 1] : k \in 1 .. n}
    <2>1. tokens \in [1 .. n -> all]
      BY <1>2
    <2>. HIDE DEF all
    <2>2. tokens \in Seq(all) /\ Len(tokens) = n
      BY <1>1, <2>1
    <2>. QED
      BY <1>2, <2>2 DEF Range
  <1>5. tokens # <<>>
    BY <1>1, <1>4
  <1>. QED
    BY <1>3, <1>4, <1>5 DEF Listed, refs, tokens

LEMMA QuotientBounds ==
  ASSUME NEW x \in Int, NEW y \in Nat \ {0}
  PROVE  x \div y \in Int /\ (x \div y) * y <= x /\ x < (x \div y) * y + y
  OBVIOUS

\* A rounded percentage is within half a unit of the quotient.
LEMMA PercentBounds ==
  ASSUME NEW k \in Int, NEW f \in Nat \ {0}
  PROVE  /\ Percent(k, f) \in Int
         /\ 2 * (Percent(k, f) * f) <= 200 * Unit * k + f
         /\ 200 * Unit * k + f < 2 * (Percent(k, f) * f) + 2 * f
  <1>. DEFINE c == 200 * Unit
              x == c * k + f
              y == 2 * f
  <1>1. c \in Nat \ {0}
    BY EngineAssumption
  <1>. HIDE DEF c
  <1>2. x \in Int /\ y \in Nat \ {0}
    BY <1>1
  <1>3. Percent(k, f) = x \div y
    BY DEF Percent, c
  <1>. HIDE DEF x, y
  <1>4. Percent(k, f) \in Int /\ Percent(k, f) * y <= x /\ x < Percent(k, f) * y + y
    BY <1>2, <1>3, QuotientBounds
  <1>5. Percent(k, f) * y = 2 * (Percent(k, f) * f)
    BY <1>4 DEF y
  <1>. QED
    BY <1>4, <1>5 DEF x, y, c

\* A percentage moved by less than the tolerance is near the quotient it was
\* rounded from, and one moved by more is not.
LEMMA RoundedIsNear ==
  ASSUME NEW n \in Int, NEW d \in Nat \ {0}, NEW c \in Nat
  PROVE  /\ c < GapTolerance => Near(Percent(n, d) + c, n, d)
         /\ c > GapTolerance => ~Near(Percent(n, d) + c, n, d)
  <1>. DEFINE p == Percent(n, d)
              u == 100 * Unit * n
              e == p * d - u
              t == GapTolerance
              v == (p + c) * d - u
  <1>1. t \in Nat \ {0} /\ Unit \in Int
    BY EvidenceAssumption, EngineAssumption
  <1>2. p \in Int /\ u \in Int /\ 2 * (p * d) <= 2 * u + d /\ 2 * u + d < 2 * (p * d) + 2 * d
    <2>1. p \in Int /\ u \in Int
      BY <1>1, PercentBounds
    <2>2. 200 * Unit * n = 2 * u
      BY <1>1
    <2>3. /\ 2 * (p * d) <= 200 * Unit * n + d /\ 200 * Unit * n + d < 2 * (p * d) + 2 * d
      BY PercentBounds
    <2>. HIDE DEF p, u
    <2>. QED
      BY <2>1, <2>2, <2>3
  <1>3. Near(p + c, n, d) <=> Abs(v) <= t * d
    BY DEF Near
  <1>. HIDE DEF p, u, t
  <1>4. e \in Int /\ 2 * e <= d /\ 0 - d < 2 * e
    BY <1>2
  <1>5. v = e + c * d /\ c * d \in Nat /\ t * d \in Nat
    BY <1>1, <1>2
  <1>. HIDE DEF e, v
  <1>6. ASSUME c < t PROVE Abs(v) <= t * d
    <2>1. (c + 1) * d <= t * d
      BY <1>1, <1>6
    <2>2. (c + 1) * d = c * d + d
      OBVIOUS
    <2>. DEFINE cd == c * d
                td == t * d
    <2>3. cd \in Nat /\ td \in Nat /\ cd + d <= td /\ v = e + cd
      BY <1>5, <2>1, <2>2
    <2>. HIDE DEF cd, td
    <2>4. v <= td /\ 0 - v <= td /\ v \in Int
      BY <1>4, <2>3
    <2>5. Abs(v) <= td
      BY <2>3, <2>4 DEF Abs
    <2>. QED
      BY <2>5 DEF td
  <1>7. ASSUME c > t PROVE ~(Abs(v) <= t * d)
    <2>1. (t + 1) * d <= c * d
      BY <1>1, <1>7
    <2>2. (t + 1) * d = t * d + d
      BY <1>1
    <2>. DEFINE cd == c * d
                td == t * d
    <2>3. cd \in Nat /\ td \in Nat /\ td + d <= cd /\ v = e + cd
      BY <1>5, <2>1, <2>2
    <2>. HIDE DEF cd, td
    <2>4. v > td /\ v \in Int
      BY <1>4, <2>3
    <2>5. ~(Abs(v) <= td)
      BY <2>3, <2>4 DEF Abs
    <2>. QED
      BY <2>5 DEF td
  <1>. QED
    BY <1>3, <1>6, <1>7 DEF p, t

\* A sorted listing of positive prices, and its ends.
SortedPrices(q, n) ==
  /\ q \in Seq(Int) /\ Len(q) = n
  /\ \A i \in 1 .. n : q[i] \in Int /\ q[i] > 0

LEMMA SortedArePositive ==
  ASSUME NEW S, IsFiniteSet(S), NEW value, \A x \in S : value[x] \in Int /\ value[x] > 0
  PROVE  SortedPrices(Sorted(S, value), Cardinality(S))
  <1>. DEFINE q == Sorted(S, value)
              n == Cardinality(S)
  <1>1. \A x \in S : value[x] \in Int
    OBVIOUS
  <1>2. /\ q \in Seq(Int) /\ Len(q) = n
        /\ \A i \in 1 .. n : \E x \in S : q[i] = value[x]
    BY <1>1, SortedValues, SMTT(60)
  <1>. HIDE DEF q, n
  <1>3. \A i \in 1 .. n : q[i] \in Int /\ q[i] > 0
    <2>1. ASSUME NEW i \in 1 .. n PROVE q[i] \in Int /\ q[i] > 0
      <3>1. PICK x \in S : q[i] = value[x]
        BY <1>2
      <3>. QED
        BY <3>1
    <2>. QED
      BY <2>1
  <1>4. SortedPrices(q, n)
    BY <1>2, <1>3 DEF SortedPrices
  <1>. QED
    BY <1>4 DEF q, n

\* What the engine computes of the wrappers of a certified reading.
SpreadIs(r) ==
  LET s == Wrappers(r)
  IN /\ Len(s) = Len(r.tokens) /\ s[1] \in Int /\ s[Len(s)] \in Int
     /\ TwiceMedian(s) \in Nat \ {0}
     /\ Len(s) < 2 => Dispersion(r) = -1
     /\ Len(s) >= 2 => /\ Dispersion(r) \in Nat
                       /\ Dispersion(r) = Percent(2 * (s[Len(s)] - s[1]), TwiceMedian(s))

LEMMA SpreadNumbers ==
  ASSUME NEW r, Certified(r)
  PROVE  SpreadIs(r)
  <1>. DEFINE s == Wrappers(r)
  <1>. DEFINE in == {k \in DOMAIN r.tokens : Priced(r.tokens[k], Currency(r))}
              n == Len(r.tokens)
  <1>1. /\ n \in Nat \ {0} /\ DOMAIN r.tokens = 1 .. n /\ r \in Reading
        /\ r.reference # NoReference
        /\ \A k \in 1 .. n : /\ r.tokens[k].price \in Nat \ {0}
                             /\ r.tokens[k].currency = r.reference.currency
    BY CertifiedInputs
  <1>. HIDE DEF n
  <1>2. in = 1 .. n
    BY <1>1 DEF Priced, Currency
  <1>3. IsFiniteSet(1 .. n) /\ Cardinality(1 .. n) = n
    <2>1. 1 \in Int /\ n \in Int /\ n >= 1
      BY <1>1
    <2>. QED
      BY <2>1, FS_Interval
  <1>4. \A k \in 1 .. n : Prices(r)[k] = r.tokens[k].price
    BY <1>1 DEF Prices
  <1>5. s = Sorted(1 .. n, Prices(r))
    BY <1>2 DEF Wrappers
  <1>6. SortedPrices(s, n)
    <2>. DEFINE p == Prices(r)
    <2>1. \A k \in 1 .. n : p[k] \in Int /\ p[k] > 0
      BY <1>1, <1>4
    <2>. HIDE DEF p
    <2>2. SortedPrices(Sorted(1 .. n, p), Cardinality(1 .. n))
      BY <1>3, <2>1, SortedArePositive
    <2>. QED
      BY <1>3, <1>5, <2>2 DEF p
  <1>. HIDE DEF s
  <1>7. /\ s \in Seq(Int) /\ Len(s) = n
        /\ \A i \in 1 .. n : s[i] \in Int /\ s[i] > 0
    BY <1>6 DEF SortedPrices
  <1>8. 1 \in 1 .. n /\ n \in 1 .. n
    BY <1>1
  <1>9. TwiceMedian(s) \in Nat \ {0}
    <2>1. CASE n = 1
      BY <1>7, <1>8, <2>1 DEF TwiceMedian
    <2>2. CASE n >= 2
      BY <1>7, <2>2, MedianIsPositive
    <2>. QED
      BY <1>1, <2>1, <2>2
  <1>10. Dispersion(r) = IF Len(s) < 2 THEN -1 ELSE Percent(2 * (s[Len(s)] - s[1]), TwiceMedian(s))
    BY DEF Dispersion, s
  <1>11. Len(s) >= 2 => Dispersion(r) \in Nat
    <2>1. ASSUME Len(s) >= 2 PROVE Dispersion(r) \in Nat
      <3>1. s[1] <= s[n]
        <4>1. \A j, k \in 1 .. Cardinality(1 .. n) :
               j <= k => Sorted(1 .. n, Prices(r))[j] <= Sorted(1 .. n, Prices(r))[k]
          <5>. DEFINE p == Prices(r)
          <5>1. \A k \in 1 .. n : p[k] \in Int
            BY <1>1, <1>4
          <5>. HIDE DEF p
          <5>. QED
            BY <1>3, <5>1, SortedValues DEF p
        <4>. QED
          BY <1>1, <1>3, <1>5, <1>8, <4>1
      <3>2. 2 * (s[n] - s[1]) \in Int /\ 2 * (s[n] - s[1]) >= 0
        BY <1>7, <1>8, <3>1
      <3>3. Percent(2 * (s[n] - s[1]), TwiceMedian(s)) \in Int
            /\ Percent(2 * (s[n] - s[1]), TwiceMedian(s)) >= 0
        BY <1>9, <3>2, PercentIsNumber
      <3>. QED
        BY <1>1, <1>7, <1>10, <2>1, <3>3
    <2>. QED
      BY <2>1
  <1>12. Len(s) < 2 => ~(Len(s) >= 2)
    BY <1>1, <1>7
  <1>13. SpreadIs(r)
    BY <1>1, <1>7, <1>8, <1>9, <1>10, <1>11, <1>12 DEF SpreadIs, s, n
  <1>. QED
    BY <1>13

\* The dispersion an audit computes anew is the engine's.
Matches(d, r) ==
  LET s == Wrappers(r)
  IN /\ d.count = Len(s)
     /\ Abs(d.min - s[1]) <= PriceTolerance
     /\ Abs(d.max - s[Len(s)]) <= PriceTolerance
     /\ Abs(d.median - TwiceMedian(s)) <= 2 * PriceTolerance
     /\ IF Len(s) < 2 THEN d.spread = -1
        ELSE /\ d.spread # -1
             /\ Near(d.spread, 2 * (s[Len(s)] - s[1]), TwiceMedian(s))

LEMMA SpreadAgain ==
  ASSUME NEW r, Certified(r), NEW b, Layout(b.observations, Len(r.tokens)),
         b.observations[1] = ReferenceObservation(r),
         \A k \in 1 .. Len(r.tokens) : b.observations[k + 1] = TokenObservation(r, k)
  PROVE  SpreadRecomputed(b) <=> Matches(b.dispersion, r)
  <1>. DEFINE n == Len(r.tokens)
              refs == OfKind(b, "tokenized_aggregate")
              tokens == OfKind(b, "token")
              currency == IF refs # <<>> THEN refs[1].currency ELSE tokens[1].currency
              prices == Sorted({k \in DOMAIN tokens : tokens[k].currency = currency /\ tokens[k].price > 0},
                               [k \in DOMAIN tokens |-> tokens[k].price])
  <1>1. /\ DOMAIN r.tokens = 1 .. n /\ r.reference # NoReference
        /\ DOMAIN tokens = 1 .. n /\ Len(refs) = 1 /\ refs[1] = ReferenceObservation(r)
        /\ \A k \in 1 .. n : tokens[k] = TokenObservation(r, k)
    <2>1. n \in Nat \ {0} /\ DOMAIN r.tokens = 1 .. n /\ r.reference # NoReference
      BY CertifiedInputs
    <2>2. Layout(b.observations, n)
      OBVIOUS
    <2>3. \A k \in 1 .. n : b.observations[k + 1] = TokenObservation(r, k)
      OBVIOUS
    <2>. HIDE DEF n
    <2>4. Listed(b, n)
      BY <2>1, <2>2, ObservationsFound
    <2>5. Len(refs) = 1 /\ refs[1] = ReferenceObservation(r) /\ DOMAIN tokens = 1 .. n
      BY <2>4 DEF Listed
    <2>6. \A k \in 1 .. n : tokens[k] = TokenObservation(r, k)
      BY <2>3, <2>4 DEF Listed
    <2>. QED
      BY <2>1, <2>5, <2>6
  <1>2. refs # <<>>
    BY <1>1
  <1>3. currency = r.reference.currency /\ Currency(r) = r.reference.currency
    BY <1>1, <1>2 DEF ReferenceObservation, Currency
  <1>4. \A k \in 1 .. n : /\ tokens[k].currency = r.tokens[k].currency
                          /\ tokens[k].price = r.tokens[k].price
    <2>1. \A k : /\ TokenObservation(r, k).currency = r.tokens[k].currency
                 /\ TokenObservation(r, k).price = r.tokens[k].price
      BY DEF TokenObservation
    <2>. QED
      BY <1>1, <2>1
  <1>. HIDE DEF n, refs, tokens, currency
  <1>5. [k \in DOMAIN tokens |-> tokens[k].price] = Prices(r)
    BY <1>1, <1>4 DEF Prices
  <1>6. {k \in DOMAIN tokens : tokens[k].currency = currency /\ tokens[k].price > 0}
          = {k \in DOMAIN r.tokens : Priced(r.tokens[k], Currency(r))}
    BY <1>1, <1>3, <1>4 DEF Priced
  <1>7. prices = Wrappers(r)
    BY <1>5, <1>6 DEF Wrappers
  <1>. DEFINE s == Wrappers(r)
              d == b.dispersion
  <1>. HIDE DEF prices
  <1>8. SpreadRecomputed(b) <=>
          /\ d.count = Len(prices)
          /\ Abs(d.min - prices[1]) <= PriceTolerance
          /\ Abs(d.max - prices[Len(prices)]) <= PriceTolerance
          /\ Abs(d.median - TwiceMedian(prices)) <= 2 * PriceTolerance
          /\ IF Len(prices) < 2 THEN d.spread = -1
             ELSE /\ d.spread # -1
                  /\ Near(d.spread, 2 * (prices[Len(prices)] - prices[1]), TwiceMedian(prices))
    BY DEF SpreadRecomputed, prices, currency, tokens, refs
  <1>. QED
    BY <1>7, <1>8 DEF Matches

LEMMA EntryRecomputed ==
  ASSUME NEW r, Certified(r), NEW k \in 1 .. Len(r.tokens)
  PROVE  LET g == GapEntry(r, k)
         IN /\ g.id = k /\ g.price = r.tokens[k].price /\ g.reference = r.reference.price
            /\ g.currency = r.reference.currency /\ g.currency = r.tokens[k].currency
            /\ g.price > 0 /\ g.reference > 0
            /\ g.gap = Percent(g.price - g.reference, g.reference) /\ g.gap \in Int
  <1>1. Gap(r, k) \in Int
    BY CertifiedInputs, GapIsNumber
  <1>. QED
    BY <1>1, CertifiedInputs DEF GapEntry, Gap

\* An entry of a receipt with the prices of wrapper k, and a gap near to theirs.
SameEntry(g, r, k) ==
  /\ g.id = k /\ g.price = r.tokens[k].price
  /\ g.reference = r.reference.price /\ g.currency = r.reference.currency
  /\ Near(g.gap, r.tokens[k].price - r.reference.price, r.reference.price)

\* A body that is the issued one b to the tolerances of an audit: what it
\* leaves alone and what it holds the rest to.
Sound(c, b, r) ==
  /\ c.observations = b.observations /\ c.mode = b.mode
  /\ c.provenance = b.provenance /\ c.claims = b.claims
  /\ c.gaps = [k \in 1 .. Len(r.tokens) |-> c.gaps[k]]
  /\ c.trace = [k \in 1 .. Len(r.tokens) |-> c.trace[k]]
  /\ \A k \in 1 .. Len(r.tokens) :
       /\ SameEntry(c.gaps[k], r, k) /\ SameEntry(c.trace[k], r, k)
       /\ Abs(c.gaps[k].gap - c.trace[k].gap) <= GapTolerance
  /\ Matches(c.dispersion, r)

\* The gaps and the dispersion that are issued are themselves within them.
LEMMA IssuedEntries ==
  ASSUME NEW r, Certified(r), NEW k \in 1 .. Len(r.tokens)
  PROVE  /\ SameEntry(GapEntry(r, k), r, k) /\ GapEntry(r, k).gap \in Int
         /\ Abs(GapEntry(r, k).gap - GapEntry(r, k).gap) <= GapTolerance
  <1>. DEFINE g == GapEntry(r, k)
              n == r.tokens[k].price - r.reference.price
              d == r.reference.price
  <1>1. /\ g.id = k /\ g.price = r.tokens[k].price /\ g.reference = r.reference.price
        /\ g.currency = r.reference.currency
        /\ g.gap = Percent(n, d) /\ g.gap \in Int
    BY EntryRecomputed
  <1>2. n \in Int /\ d \in Nat \ {0}
    BY CertifiedInputs
  <1>3. GapTolerance \in Nat /\ 0 < GapTolerance /\ 0 \in Nat
    BY EvidenceAssumption
  <1>. HIDE DEF g, n, d
  <1>4. Near(Percent(n, d) + 0, n, d)
    BY <1>2, <1>3, RoundedIsNear
  <1>5. Near(g.gap, n, d)
    <2>1. g.gap + 0 = g.gap
      BY <1>1
    <2>. QED
      BY <1>1, <1>4, <2>1
  <1>6. SameEntry(g, r, k)
    BY <1>1, <1>5 DEF SameEntry, n, d
  <1>7. Abs(g.gap - g.gap) <= GapTolerance
    BY <1>1, <1>3 DEF Abs
  <1>. QED
    BY <1>1, <1>6, <1>7 DEF g

LEMMA IssuedSpread ==
  ASSUME NEW r, Certified(r)
  PROVE  Matches(Spread(r), r)
  <1>. DEFINE s == Wrappers(r)
              d == Spread(r)
  <1>1. /\ d.count = Len(s) /\ d.min = s[1] /\ d.max = s[Len(s)]
        /\ d.median = TwiceMedian(s) /\ d.spread = Dispersion(r)
    BY DEF Spread
  <1>2. SpreadIs(r)
    BY SpreadNumbers
  <1>3. /\ Len(s) = Len(r.tokens) /\ s[1] \in Int /\ s[Len(s)] \in Int
        /\ TwiceMedian(s) \in Nat \ {0}
        /\ Len(s) < 2 => Dispersion(r) = -1
        /\ Len(s) >= 2 => /\ Dispersion(r) \in Nat
                          /\ Dispersion(r) = Percent(2 * (s[Len(s)] - s[1]), TwiceMedian(s))
    BY <1>2 DEF SpreadIs
  <1>4. Len(s) \in Nat
    BY <1>3, CertifiedInputs
  <1>. HIDE DEF s, d
  <1>5. PriceTolerance \in Nat /\ GapTolerance \in Nat /\ 0 < GapTolerance /\ 0 \in Nat
    BY EvidenceAssumption
  <1>6. \A x \in Int : Abs(x - x) <= PriceTolerance /\ Abs(x - x) <= 2 * PriceTolerance
    BY <1>5 DEF Abs
  <1>7. IF Len(s) < 2 THEN d.spread = -1
        ELSE d.spread # -1 /\ Near(d.spread, 2 * (s[Len(s)] - s[1]), TwiceMedian(s))
    <2>1. CASE Len(s) < 2
      BY <1>1, <1>3, <2>1
    <2>2. CASE ~(Len(s) < 2)
      <3>. DEFINE n == 2 * (s[Len(s)] - s[1])
                  m == TwiceMedian(s)
      <3>1. Len(s) >= 2
        BY <1>4, <2>2
      <3>2. n \in Int /\ m \in Nat \ {0} /\ d.spread = Percent(n, m) /\ d.spread \in Nat
        BY <1>1, <1>3, <3>1
      <3>. HIDE DEF n, m
      <3>3. Near(Percent(n, m) + 0, n, m)
        BY <1>5, <3>2, RoundedIsNear
      <3>4. Near(d.spread, n, m)
        <4>1. d.spread + 0 = d.spread
          BY <3>2
        <4>. QED
          BY <3>2, <3>3, <4>1
      <3>. QED
        BY <2>2, <3>2, <3>4 DEF n, m
    <2>. QED
      BY <2>1, <2>2
  <1>. QED
    BY <1>1, <1>3, <1>6, <1>7 DEF Matches, s, d

LEMMA BodyIsSound ==
  ASSUME NEW r, Certified(r), NEW b, NEW mode, IssuedBody(b, r, mode)
  PROVE  Sound(b, b, r)
  <1>1. /\ b.gaps = [k \in 1 .. Len(r.tokens) |-> GapEntry(r, k)] /\ b.trace = b.gaps
        /\ b.dispersion = Spread(r)
    BY DEF IssuedBody
  <1>2. \A k \in 1 .. Len(r.tokens) :
          /\ SameEntry(b.gaps[k], r, k) /\ SameEntry(b.trace[k], r, k)
          /\ Abs(b.gaps[k].gap - b.trace[k].gap) <= GapTolerance
    BY <1>1, IssuedEntries
  <1>3. Matches(b.dispersion, r)
    BY <1>1, IssuedSpread
  <1>. QED
    BY <1>1, <1>2, <1>3 DEF Sound

\* An audit of what is sound finds nothing amiss.
LEMMA SoundAudits ==
  ASSUME NEW r, Certified(r), NEW mode, NEW c, Sound(c, Contents(r, mode), r),
         NEW x, x.body = c, Verifies(x)
  PROVE  Audits(x)
  <1>. DEFINE b == Contents(r, mode)
              n == Len(r.tokens)
              ids == {o.id : o \in Range(c.observations)}
              refs == OfKind(c, "tokenized_aggregate")
              tokens == OfKind(c, "token")
  <1>1. IssuedBody(b, r, mode) /\ Sound(c, b, r)
    BY Issued
  <1>2. n \in Nat \ {0} /\ \A k \in 1 .. n : r.tokens[k].price > 0
    BY CertifiedInputs
  <1>3. /\ Cardinality({o.id : o \in Range(b.observations)}) = Len(b.observations)
        /\ {o.id : o \in Range(b.observations)} = {Ref} \cup 1 .. n \cup Range(Venues)
    BY IdsAre
  <1>. HIDE DEF b
  <1>4. /\ c.observations = b.observations
        /\ c.mode = mode /\ c.provenance = {mode} /\ c.claims = Claims(r)
        /\ Layout(c.observations, n)
        /\ c.observations[1] = ReferenceObservation(r)
        /\ \A k \in 1 .. n : c.observations[k + 1] = TokenObservation(r, k)
    BY <1>1 DEF IssuedBody, Sound
  <1>5. /\ c.gaps = [k \in 1 .. n |-> c.gaps[k]] /\ c.trace = [k \in 1 .. n |-> c.trace[k]]
        /\ \A k \in 1 .. n : /\ SameEntry(c.gaps[k], r, k) /\ SameEntry(c.trace[k], r, k)
                             /\ Abs(c.gaps[k].gap - c.trace[k].gap) <= GapTolerance
        /\ Matches(c.dispersion, r)
    BY <1>1 DEF Sound
  <1>6. Cardinality(ids) = Len(c.observations) /\ ids = {Ref} \cup 1 .. n \cup Range(Venues)
    BY <1>3, <1>4
  <1>7. /\ Len(refs) = 1 /\ refs[1] = ReferenceObservation(r) /\ Range(refs) = {ReferenceObservation(r)}
        /\ tokens # <<>> /\ DOMAIN tokens = 1 .. n
        /\ \A k \in 1 .. n : tokens[k] = TokenObservation(r, k)
    BY <1>2, <1>4, ObservationsFound DEF Listed
  <1>8. Range(tokens) = {TokenObservation(r, k) : k \in 1 .. n}
    BY <1>7 DEF Range
  <1>. HIDE DEF refs, tokens, ids
  <1>9. \A o \in Range(tokens) : o.price > 0
    BY <1>2, <1>8 DEF TokenObservation
  <1>10. \A k \in 1 .. n : /\ c.gaps[k].id = k /\ c.gaps[k].price = r.tokens[k].price
                           /\ c.gaps[k].reference = r.reference.price
                           /\ c.gaps[k].currency = r.reference.currency
                           /\ c.trace[k].price = r.tokens[k].price
                           /\ c.trace[k].reference = r.reference.price
    BY <1>5 DEF SameEntry
  <1>11. /\ DOMAIN c.gaps = 1 .. n /\ Len(c.gaps) = n
         /\ DOMAIN c.trace = 1 .. n /\ Len(c.trace) = n
         /\ Range(c.gaps) = {c.gaps[k] : k \in 1 .. n}
         /\ Range(c.trace) = {c.trace[k] : k \in 1 .. n}
    <2>1. ASSUME NEW q, q = [k \in 1 .. n |-> q[k]]
          PROVE  DOMAIN q = 1 .. n /\ Len(q) = n /\ Range(q) = {q[k] : k \in 1 .. n}
      <3>1. DOMAIN q = 1 .. n
        BY <2>1
      <3>2. q \in Seq({q[k] : k \in 1 .. n})
        BY <1>2, <2>1
      <3>. QED
        BY <1>2, <3>1, <3>2 DEF Range
    <2>. QED
      BY <1>5, <2>1
  <1>12. GapsCovered(c)
    <2>1. IsInjective([i \in DOMAIN c.gaps |-> c.gaps[i].id])
      BY <1>10, <1>11 DEF IsInjective
    <2>2. ComparableIn(c) = 1 .. n
      <3>1. \A k \in 1 .. n : r.tokens[k].currency = r.reference.currency
        BY CertifiedInputs
      <3>2. \A k \in 1 .. n : tokens[k].currency = refs[1].currency
        <4>1. \A k : TokenObservation(r, k).currency = r.tokens[k].currency
          BY DEF TokenObservation
        <4>2. ReferenceObservation(r).currency = r.reference.currency
          BY DEF ReferenceObservation
        <4>. QED
          BY <1>7, <3>1, <4>1, <4>2
      <3>. QED
        BY <1>7, <3>2 DEF ComparableIn, refs, tokens
    <2>3. Cardinality(1 .. n) = n
      BY <1>2, FS_Interval
    <2>4. Len(refs) <= 1 /\ Len(c.trace) = Len(c.gaps)
      BY <1>7, <1>11
    <2>5. Len(c.gaps) = Cardinality(ComparableIn(c))
      BY <1>11, <2>2, <2>3
    <2>. QED
      BY <2>1, <2>4, <2>5 DEF GapsCovered, refs
  <1>13. \A l \in c.claims : l.evidence \cup l.inputs \subseteq ids
    BY <1>4, <1>6, ClaimsAreGrounded
  <1>14. r.reference.price > 0 /\ \A k \in 1 .. n : r.tokens[k].currency = r.reference.currency
    BY CertifiedInputs
  <1>15. \A g \in Range(c.gaps) : GapRecomputed(c, g)
    <2>1. SUFFICES ASSUME NEW k \in 1 .. n PROVE GapRecomputed(c, c.gaps[k])
      BY <1>11
    <2>. DEFINE g == c.gaps[k]
    <2>2. /\ g.id = k /\ g.price = r.tokens[k].price /\ g.reference = r.reference.price
          /\ g.currency = r.reference.currency
          /\ Near(g.gap, g.price - g.reference, g.reference)
      BY <1>5, <1>10 DEF SameEntry
    <2>. HIDE DEF g
    <2>3. \E o \in Range(refs) : o.currency = g.currency /\ o.price = g.reference
      BY <1>7, <2>2 DEF ReferenceObservation
    <2>4. \E o \in Range(tokens) : o.currency = g.currency /\ o.price = g.price /\ o.id = g.id
      <3>1. TokenObservation(r, k) \in Range(tokens)
        BY <1>8
      <3>2. /\ TokenObservation(r, k).currency = g.currency /\ TokenObservation(r, k).id = g.id
            /\ TokenObservation(r, k).price = g.price
        BY <1>14, <2>2 DEF TokenObservation
      <3>. QED
        BY <3>1, <3>2
    <2>5. g.reference > 0 /\ g.price > 0
      BY <1>2, <1>14, <2>2
    <2>. QED
      BY <2>2, <2>3, <2>4, <2>5 DEF GapRecomputed, refs, tokens, g
  <1>16. \A t \in Range(c.trace) : TraceAgrees(c, t)
    <2>1. SUFFICES ASSUME NEW k \in 1 .. n PROVE TraceAgrees(c, c.trace[k])
      BY <1>11
    <2>. DEFINE t == c.trace[k]
    <2>2. t.reference > 0 /\ Near(t.gap, t.price - t.reference, t.reference)
      BY <1>5, <1>10, <1>14 DEF SameEntry
    <2>3. c.gaps[k] \in Range(c.gaps)
      BY <1>11
    <2>4. /\ c.gaps[k].price = t.price /\ c.gaps[k].reference = t.reference
          /\ Abs(c.gaps[k].gap - t.gap) <= GapTolerance
      BY <1>5, <1>10
    <2>. HIDE DEF t
    <2>5. TraceAgrees(c, t)
      BY <2>2, <2>3, <2>4 DEF TraceAgrees
    <2>. QED
      BY <2>5 DEF t
  <1>17. SpreadRecomputed(c)
    BY <1>4, <1>5, SpreadAgain
  <1>. QED
    BY <1>4, <1>6, <1>7, <1>9, <1>12, <1>13, <1>15, <1>16, <1>17 DEF Audits, ids, tokens

LEMMA IssuedAudits ==
  ASSUME NEW r, Certified(r), NEW mode, NEW x, x.body = Contents(r, mode), Verifies(x)
  PROVE  Audits(x)
  <1>1. Sound(Contents(r, mode), Contents(r, mode), r)
    BY Issued, BodyIsSound
  <1>. QED
    BY <1>1, SoundAudits

\* Some of what an audit asks of a body.
Passes(b) ==
  /\ Len(b.gaps) = Cardinality(ComparableIn(b))
  /\ \A mode \in b.provenance : mode = b.mode
  /\ \A k \in DOMAIN b.gaps : GapRecomputed(b, b.gaps[k])
  /\ \A k \in DOMAIN b.trace : TraceAgrees(b, b.trace[k])
  /\ SpreadRecomputed(b)

LEMMA AuditAsks ==
  ASSUME NEW x, Audits(x)
  PROVE  Passes(x.body)
  <1>. DEFINE b == x.body
  <1>1. /\ GapsCovered(b) /\ SpreadRecomputed(b) /\ \A mode \in b.provenance : mode = b.mode
        /\ \A g \in Range(b.gaps) : GapRecomputed(b, g)
        /\ \A t \in Range(b.trace) : TraceAgrees(b, t)
    BY DEF Audits
  <1>2. /\ \A k \in DOMAIN b.gaps : b.gaps[k] \in Range(b.gaps)
        /\ \A k \in DOMAIN b.trace : b.trace[k] \in Range(b.trace)
    BY DEF Range
  <1>. QED
    BY <1>1, <1>2 DEF Passes, GapsCovered

\* c is not b, and an audit sees that it is not what was issued.
Exposed(c, b) == c # b /\ ~Passes(c)

\* The body issued for r, field by field.
LEMMA IssuedNumbers ==
  ASSUME NEW r, Certified(r), NEW b, NEW mode, IssuedBody(b, r, mode)
  PROVE  /\ Len(r.tokens) \in Nat \ {0}
         /\ DOMAIN b.gaps = 1 .. Len(r.tokens) /\ b.trace = b.gaps
         /\ \A k \in 1 .. Len(r.tokens) :
              /\ b.gaps[k] = GapEntry(r, k) /\ b.gaps[k].gap \in Int
              /\ b.gaps[k].gap = Percent(r.tokens[k].price - r.reference.price, r.reference.price)
              /\ r.tokens[k].price \in Int /\ b.gaps[k].price = r.tokens[k].price
         /\ DOMAIN b.observations = 1 .. 1 + Len(r.tokens) + Len(Venues)
         /\ Len(Venues) \in Nat
  <1>1. Len(r.tokens) \in Nat \ {0} /\ \A k \in 1 .. Len(r.tokens) : r.tokens[k].price \in Int
    BY CertifiedInputs
  <1>2. /\ b.gaps = [k \in 1 .. Len(r.tokens) |-> GapEntry(r, k)] /\ b.trace = b.gaps
        /\ DOMAIN b.observations = 1 .. 1 + Len(r.tokens) + Len(Venues)
    BY DEF IssuedBody, Layout
  <1>3. \A k \in 1 .. Len(r.tokens) :
          /\ GapEntry(r, k).gap \in Int /\ GapEntry(r, k).price = r.tokens[k].price
          /\ GapEntry(r, k).gap = Percent(r.tokens[k].price - r.reference.price, r.reference.price)
    BY EntryRecomputed
  <1>4. Len(Venues) \in Nat
    BY EvidenceAssumption
  <1>. QED
    BY <1>1, <1>2, <1>3, <1>4

\* What comes of a number moved by d: an audit with tolerance t exposes it
\* beyond the tolerance, and within it passes what has become of the body.
Judged(c, b, r, d, t) ==
  /\ c # b
  /\ d > t => ~Passes(c)
  /\ d < t => Sound(c, b, r)

\* An entry whose gap is moved.
LEMMA EntryMoved ==
  ASSUME NEW r, Certified(r), NEW k \in 1 .. Len(r.tokens), NEW d \in Nat \ {0},
         NEW g, g = [GapEntry(r, k) EXCEPT !.gap = @ + d]
  PROVE  /\ g.gap = GapEntry(r, k).gap + d /\ g.gap # GapEntry(r, k).gap
         /\ d > GapTolerance => ~Near(g.gap, g.price - g.reference, g.reference)
         /\ d < GapTolerance => /\ SameEntry(g, r, k)
                                /\ Abs(g.gap - GapEntry(r, k).gap) <= GapTolerance
                                /\ Abs(GapEntry(r, k).gap - g.gap) <= GapTolerance
  <1>. DEFINE e == GapEntry(r, k)
              n == r.tokens[k].price - r.reference.price
              m == r.reference.price
  <1>1. /\ e.id = k /\ e.price = r.tokens[k].price /\ e.reference = m
        /\ e.currency = r.reference.currency
        /\ e.gap = Percent(n, m) /\ e.gap \in Int
    BY EntryRecomputed
  <1>2. /\ g.gap = e.gap + d /\ g.id = e.id /\ g.price = e.price /\ g.reference = e.reference
        /\ g.currency = e.currency
    BY DEF GapEntry
  <1>3. n \in Int /\ m \in Nat \ {0} /\ GapTolerance \in Nat
    BY CertifiedInputs, EvidenceAssumption
  <1>. HIDE DEF e
  <1>4. g.gap = Percent(n, m) + d /\ g.price - g.reference = n /\ g.reference = m
    BY <1>1, <1>2
  <1>. HIDE DEF n, m
  <1>5. g.gap # e.gap
    BY <1>1, <1>2
  <1>6. d > GapTolerance => ~Near(g.gap, g.price - g.reference, g.reference)
    BY <1>3, <1>4, RoundedIsNear
  <1>7. d < GapTolerance => Near(g.gap, n, m)
    BY <1>3, <1>4, RoundedIsNear
  <1>8. d < GapTolerance => SameEntry(g, r, k)
    BY <1>1, <1>2, <1>7 DEF SameEntry, n, m
  <1>9. d < GapTolerance => Abs(g.gap - e.gap) <= GapTolerance /\ Abs(e.gap - g.gap) <= GapTolerance
    <2>1. g.gap - e.gap = d /\ e.gap - g.gap = 0 - d
      BY <1>1, <1>2
    <2>2. Abs(d) = d /\ Abs(0 - d) = d
      BY DEF Abs
    <2>. QED
      BY <1>3, <2>1, <2>2
  <1>. QED
    BY <1>2, <1>5, <1>6, <1>8, <1>9 DEF e

\* A gap that is moved is not the one its prices give.
LEMMA GapAltered ==
  ASSUME NEW r, Certified(r), NEW b, NEW mode, IssuedBody(b, r, mode),
         NEW k \in 1 .. Len(r.tokens), NEW d \in Nat \ {0},
         NEW c, c = [b EXCEPT !.gaps[k].gap = @ + d]
  PROVE  Judged(c, b, r, d, GapTolerance)
  <1>. DEFINE e == GapEntry(r, k)
              g == [e EXCEPT !.gap = @ + d]
              n == Len(r.tokens)
  <1>1. /\ b.gaps[k] = e /\ k \in DOMAIN b.gaps /\ DOMAIN b.gaps = 1 .. n
        /\ b.gaps = [i \in 1 .. n |-> b.gaps[i]]
    BY IssuedNumbers DEF IssuedBody
  <1>2. c.gaps = [b.gaps EXCEPT ![k].gap = @ + d]
    BY DEF IssuedBody
  <1>3. /\ c.gaps[k] = g /\ k \in DOMAIN c.gaps /\ c.gaps = [i \in 1 .. n |-> c.gaps[i]]
        /\ \A i \in 1 .. n : i # k => c.gaps[i] = b.gaps[i]
    BY <1>1, <1>2
  <1>4. /\ g.gap # e.gap
        /\ d > GapTolerance => ~Near(g.gap, g.price - g.reference, g.reference)
        /\ d < GapTolerance => /\ SameEntry(g, r, k)
                               /\ Abs(g.gap - e.gap) <= GapTolerance
    BY EntryMoved
  <1>. HIDE DEF g, e
  <1>5. c # b
    <2>1. c.gaps[k].gap # b.gaps[k].gap
      BY <1>1, <1>3, <1>4
    <2>. QED
      BY <2>1
  <1>6. ASSUME Passes(c), d > GapTolerance PROVE FALSE
    <2>1. GapRecomputed(c, g)
      BY <1>3, <1>6 DEF Passes
    <2>. QED
      BY <1>4, <1>6, <2>1 DEF GapRecomputed
  <1>7. ASSUME d < GapTolerance PROVE Sound(c, b, r)
    <2>1. Sound(b, b, r)
      BY BodyIsSound
    <2>2. /\ c.observations = b.observations /\ c.mode = b.mode /\ c.trace = b.trace
          /\ c.provenance = b.provenance /\ c.claims = b.claims /\ c.dispersion = b.dispersion
      BY DEF IssuedBody
    <2>3. b.trace[k] = e
      BY <1>1 DEF IssuedBody
    <2>4. \A i \in 1 .. n :
            /\ SameEntry(c.gaps[i], r, i) /\ SameEntry(c.trace[i], r, i)
            /\ Abs(c.gaps[i].gap - c.trace[i].gap) <= GapTolerance
      <3>1. \A i \in 1 .. n :
              /\ SameEntry(b.gaps[i], r, i) /\ SameEntry(b.trace[i], r, i)
              /\ Abs(b.gaps[i].gap - b.trace[i].gap) <= GapTolerance
        BY <2>1 DEF Sound
      <3>. QED
        BY <1>3, <1>4, <1>7, <2>2, <2>3, <3>1
    <2>. QED
      BY <1>3, <2>1, <2>2, <2>4 DEF Sound
  <1>. QED
    BY <1>5, <1>6, <1>7 DEF Judged

LEMMA TraceAltered ==
  ASSUME NEW r, Certified(r), NEW b, NEW mode, IssuedBody(b, r, mode),
         NEW k \in 1 .. Len(r.tokens), NEW d \in Nat \ {0},
         NEW c, c = [b EXCEPT !.trace[k].gap = @ + d]
  PROVE  Judged(c, b, r, d, GapTolerance)
  <1>. DEFINE e == GapEntry(r, k)
              g == [e EXCEPT !.gap = @ + d]
              n == Len(r.tokens)
  <1>1. /\ b.trace[k] = e /\ k \in DOMAIN b.trace /\ DOMAIN b.trace = 1 .. n
        /\ b.trace = [i \in 1 .. n |-> b.trace[i]]
    BY IssuedNumbers DEF IssuedBody
  <1>2. c.trace = [b.trace EXCEPT ![k].gap = @ + d]
    BY DEF IssuedBody
  <1>3. /\ c.trace[k] = g /\ k \in DOMAIN c.trace /\ c.trace = [i \in 1 .. n |-> c.trace[i]]
        /\ \A i \in 1 .. n : i # k => c.trace[i] = b.trace[i]
    BY <1>1, <1>2
  <1>4. /\ g.gap # e.gap
        /\ d > GapTolerance => ~Near(g.gap, g.price - g.reference, g.reference)
        /\ d < GapTolerance => /\ SameEntry(g, r, k)
                               /\ Abs(e.gap - g.gap) <= GapTolerance
    BY EntryMoved
  <1>. HIDE DEF g, e
  <1>5. c # b
    <2>1. c.trace[k].gap # b.trace[k].gap
      BY <1>1, <1>3, <1>4
    <2>. QED
      BY <2>1
  <1>6. ASSUME Passes(c), d > GapTolerance PROVE FALSE
    <2>1. TraceAgrees(c, g)
      BY <1>3, <1>6 DEF Passes
    <2>. QED
      BY <1>4, <1>6, <2>1 DEF TraceAgrees
  <1>7. ASSUME d < GapTolerance PROVE Sound(c, b, r)
    <2>1. Sound(b, b, r)
      BY BodyIsSound
    <2>2. /\ c.observations = b.observations /\ c.mode = b.mode /\ c.gaps = b.gaps
          /\ c.provenance = b.provenance /\ c.claims = b.claims /\ c.dispersion = b.dispersion
      BY DEF IssuedBody
    <2>3. b.gaps[k] = e
      BY <1>1 DEF IssuedBody
    <2>4. \A i \in 1 .. n :
            /\ SameEntry(c.gaps[i], r, i) /\ SameEntry(c.trace[i], r, i)
            /\ Abs(c.gaps[i].gap - c.trace[i].gap) <= GapTolerance
      <3>1. \A i \in 1 .. n :
              /\ SameEntry(b.gaps[i], r, i) /\ SameEntry(b.trace[i], r, i)
              /\ Abs(b.gaps[i].gap - b.trace[i].gap) <= GapTolerance
        BY <2>1 DEF Sound
      <3>. QED
        BY <1>3, <1>4, <1>7, <2>2, <2>3, <3>1
    <2>. QED
      BY <1>3, <2>1, <2>2, <2>4 DEF Sound
  <1>. QED
    BY <1>5, <1>6, <1>7 DEF Judged

\* The wrappers an audit finds, where the observations are those issued.
WrappersFound(c, r) ==
  \A o \in Range(OfKind(c, "token")) : \E i \in 1 .. Len(r.tokens) : o = TokenObservation(r, i)

LEMMA TokensListed ==
  ASSUME NEW r, Certified(r), NEW b, NEW mode, IssuedBody(b, r, mode),
         NEW c, c.observations = b.observations
  PROVE  WrappersFound(c, r)
  <1>. DEFINE n == Len(r.tokens)
              all == {c.observations[i + 1] : i \in 1 .. n}
  <1>1. Layout(c.observations, n) /\ \A i \in 1 .. n : c.observations[i + 1] = TokenObservation(r, i)
    BY DEF IssuedBody
  <1>2. n \in Nat \ {0}
    BY CertifiedInputs
  <1>. HIDE DEF n
  <1>3. Listed(c, n)
    BY <1>1, <1>2, ObservationsFound
  <1>4. Range(OfKind(c, "token")) = all
    BY <1>3 DEF Listed
  <1>5. \A o \in all : \E i \in 1 .. n : o = TokenObservation(r, i)
    BY <1>1
  <1>. QED
    BY <1>4, <1>5 DEF n, WrappersFound

\* A price that is another number is not that of the wrapper observed.
LEMMA PriceAltered ==
  ASSUME NEW r, Certified(r), NEW b, NEW mode, IssuedBody(b, r, mode),
         NEW k \in 1 .. Len(r.tokens), NEW d \in Nat \ {0}, NEW c, c = [b EXCEPT !.gaps[k].price = @ + d]
  PROVE  Exposed(c, b)
  <1>. DEFINE g == [GapEntry(r, k) EXCEPT !.price = @ + d]
              n == Len(r.tokens)
  <1>1. /\ b.gaps[k] = GapEntry(r, k) /\ k \in DOMAIN b.gaps
        /\ r.tokens[k].price \in Int /\ b.gaps[k].price = r.tokens[k].price
    BY IssuedNumbers
  <1>2. c.gaps = [b.gaps EXCEPT ![k].price = @ + d] /\ c.observations = b.observations
    BY DEF IssuedBody
  <1>3. c.gaps[k] = g /\ k \in DOMAIN c.gaps
    BY <1>1, <1>2
  <1>4. g.price = r.tokens[k].price + d /\ g.id = k
    BY <1>1 DEF GapEntry
  <1>. HIDE DEF g
  <1>5. c # b
    <2>1. c.gaps[k].price # b.gaps[k].price
      BY <1>1, <1>3, <1>4
    <2>. QED
      BY <2>1
  <1>6. WrappersFound(c, r)
    BY <1>2, TokensListed
  <1>7. \A i : TokenObservation(r, i).id = i /\ TokenObservation(r, i).price = r.tokens[i].price
    BY DEF TokenObservation
  <1>8. ASSUME Passes(c) PROVE FALSE
    <2>1. GapRecomputed(c, g)
      BY <1>3, <1>8 DEF Passes
    <2>2. PICK o \in Range(OfKind(c, "token")) : o.price = g.price /\ o.id = g.id
      BY <2>1 DEF GapRecomputed
    <2>3. PICK i \in 1 .. n : o = TokenObservation(r, i)
      BY <1>6, <2>2 DEF WrappersFound
    <2>. QED
      BY <1>1, <1>4, <1>7, <2>2, <2>3
  <1>. QED
    BY <1>5, <1>8 DEF Exposed

LEMMA VenuePlace ==
  ASSUME NEW n \in Nat, NEW u \in Nat, NEW i \in 1 .. 1 + n + u, i # 1,
         \A k \in 1 .. n : i # k + 1
  PROVE  i - 1 - n \in 1 .. u /\ 1 + n + (i - 1 - n) = i
  <1>1. ~(i - 1 \in 1 .. n)
    <2>1. i = (i - 1) + 1
      OBVIOUS
    <2>. QED
      BY <2>1
  <1>. QED
    BY <1>1

\* An observation with another price is not the one some gap was computed from.
LEMMA ObservationAltered ==
  ASSUME NEW r, Certified(r), NEW b, NEW mode, IssuedBody(b, r, mode),
         NEW i \in DOMAIN b.observations, b.observations[i].kind # "tradfi_context",
         NEW d \in Nat \ {0}, NEW c, c = [b EXCEPT !.observations[i].price = @ + d]
  PROVE  Exposed(c, b)
  <1>. DEFINE n == Len(r.tokens)
              s == b.observations
              o == [s[i] EXCEPT !.price = @ + d]
  <1>1. /\ n \in Nat \ {0} /\ Len(Venues) \in Nat /\ DOMAIN s = 1 .. 1 + n + Len(Venues)
        /\ DOMAIN b.gaps = 1 .. n /\ \A k \in 1 .. n : b.gaps[k] = GapEntry(r, k)
    BY IssuedNumbers
  <1>2. /\ Layout(s, n) /\ s[1] = ReferenceObservation(r)
        /\ \A k \in 1 .. n : s[k + 1] = TokenObservation(r, k)
    BY DEF IssuedBody
  <1>3. c.observations = [s EXCEPT ![i] = o] /\ c.gaps = b.gaps
    BY DEF IssuedBody
  <1>4. i = 1 \/ \E k \in 1 .. n : i = k + 1
    <2>1. ASSUME i # 1, \A k \in 1 .. n : i # k + 1 PROVE FALSE
      <3>. DEFINE v == i - 1 - n
      <3>1. v \in 1 .. Len(Venues) /\ 1 + n + v = i
        <4>. HIDE DEF n, s
        <4>1. n \in Nat /\ Len(Venues) \in Nat /\ i \in 1 .. 1 + n + Len(Venues)
          BY <1>1 DEF s
        <4>. QED
          BY <2>1, <4>1, VenuePlace
      <3>. HIDE DEF v
      <3>. QED
        BY <1>2, <3>1 DEF Layout
    <2>. QED
      BY <2>1
  <1>5. /\ o.kind = s[i].kind /\ o.price = s[i].price + d /\ s[i].price \in Int
        /\ o.id = s[i].id
    <2>1. CASE i = 1
      <3>1. r.reference.price \in Int
        BY CertifiedInputs
      <3>. QED
        BY <1>2, <2>1, <3>1 DEF ReferenceObservation
    <2>2. CASE \E k \in 1 .. n : i = k + 1
      <3>1. PICK k \in 1 .. n : i = k + 1
        BY <2>2
      <3>2. r.tokens[k].price \in Int
        BY CertifiedInputs
      <3>3. s[i] = TokenObservation(r, k)
        BY <1>2, <3>1
      <3>. QED
        BY <3>2, <3>3 DEF TokenObservation
    <2>. QED
      BY <1>4, <2>1, <2>2
  <1>. HIDE DEF n, s, o
  <1>6. /\ c.observations[i] = o /\ DOMAIN c.observations = DOMAIN s
        /\ \A j \in DOMAIN s : j # i => c.observations[j] = s[j]
    BY <1>3 DEF s
  <1>7. \A j \in DOMAIN s : c.observations[j].kind = s[j].kind
    BY <1>5, <1>6
  <1>8. Layout(c.observations, n)
    <2>1. 1 \in DOMAIN s /\ \A k \in 1 .. n : k + 1 \in DOMAIN s
      BY <1>1
    <2>2. \A v \in 1 .. Len(Venues) : 1 + n + v \in DOMAIN s
      BY <1>1
    <2>. QED
      BY <1>2, <1>6, <1>7, <2>1, <2>2 DEF Layout
  <1>9. c # b
    <2>1. c.observations[i].price = o.price
      BY <1>6
    <2>2. c.observations[i].price # s[i].price
      BY <1>5, <2>1
    <2>. QED
      BY <2>2 DEF s
  <1>10. ASSUME Passes(c) PROVE FALSE
    <2>1. \A k \in 1 .. n : GapRecomputed(c, GapEntry(r, k))
      <3>1. DOMAIN c.gaps = 1 .. n /\ \A k \in 1 .. n : c.gaps[k] = GapEntry(r, k)
        BY <1>1, <1>3
      <3>2. \A k \in DOMAIN c.gaps : GapRecomputed(c, c.gaps[k])
        BY <1>10 DEF Passes
      <3>. QED
        BY <3>1, <3>2
    <2>2. /\ Range(OfKind(c, "tokenized_aggregate")) = {c.observations[1]}
          /\ Range(OfKind(c, "token")) = {c.observations[k + 1] : k \in 1 .. n}
      <3>1. Listed(c, n)
        BY <1>1, <1>8, ObservationsFound
      <3>. QED
        BY <3>1 DEF Listed
    <2>3. CASE i = 1
      <3>1. 1 \in 1 .. n
        BY <1>1
      <3>2. GapEntry(r, 1).reference = c.observations[1].price
        BY <2>1, <2>2, <3>1 DEF GapRecomputed
      <3>. QED
        <4>1. GapEntry(r, 1).reference = r.reference.price
          BY DEF GapEntry
        <4>2. s[1].price = r.reference.price
          BY <1>2 DEF ReferenceObservation
        <4>3. c.observations[1].price = s[1].price + d /\ s[1].price \in Int
          BY <1>5, <1>6, <2>3
        <4>. QED
          BY <3>2, <4>1, <4>2, <4>3
    <2>4. CASE i # 1
      <3>1. PICK k \in 1 .. n : i = k + 1
        BY <1>4, <2>4
      <3>2. PICK j \in 1 .. n : /\ c.observations[j + 1].id = GapEntry(r, k).id
                                /\ c.observations[j + 1].price = GapEntry(r, k).price
        <4>. DEFINE e == GapEntry(r, k)
        <4>1. GapRecomputed(c, e)
          BY <2>1
        <4>. HIDE DEF e
        <4>2. PICK x \in Range(OfKind(c, "token")) : x.price = e.price /\ x.id = e.id
          BY <4>1 DEF GapRecomputed
        <4>3. x \in {c.observations[j + 1] : j \in 1 .. n}
          BY <2>2, <4>2
        <4>. QED
          BY <4>2, <4>3 DEF e
      <3>3. GapEntry(r, k).id = k /\ GapEntry(r, k).price = r.tokens[k].price
        BY DEF GapEntry
      <3>4. \A m \in 1 .. n : s[m + 1].id = m /\ s[m + 1].price = r.tokens[m].price
        <4>1. \A m : TokenObservation(r, m).id = m /\ TokenObservation(r, m).price = r.tokens[m].price
          BY DEF TokenObservation
        <4>. QED
          BY <1>2, <4>1
      <3>5. j + 1 \in DOMAIN s /\ (j + 1 = i => j = k)
        BY <1>1, <3>1
      <3>6. j = k
        <4>1. CASE j + 1 = i
          BY <3>5, <4>1
        <4>2. CASE j + 1 # i
          BY <1>6, <3>2, <3>3, <3>4, <3>5, <4>2
        <4>. QED
          BY <4>1, <4>2
      <3>7. c.observations[j + 1] = o /\ s[i].price = r.tokens[k].price
        BY <1>6, <3>1, <3>4, <3>6
      <3>8. o.price = s[i].price
        BY <3>2, <3>3, <3>7
      <3>. QED
        BY <1>5, <3>8
    <2>. QED
      BY <2>3, <2>4
  <1>. QED
    BY <1>9, <1>10 DEF Exposed

\* A wrapper is left out, or the mode is not the provenance's.
LEMMA EntryDropped ==
  ASSUME NEW r, Certified(r), NEW b, NEW mode, IssuedBody(b, r, mode),
         NEW c, c = [b EXCEPT !.gaps = Front(@), !.trace = Front(@)]
  PROVE  Exposed(c, b)
  <1>. DEFINE n == Len(r.tokens)
  <1>1. n \in Nat \ {0}
    BY CertifiedInputs
  <1>2. b.gaps = [k \in 1 .. n |-> GapEntry(r, k)]
    BY DEF IssuedBody
  <1>3. c.gaps = Front(b.gaps) /\ c.observations = b.observations
    BY DEF IssuedBody
  <1>. HIDE DEF n
  <1>4. Len(b.gaps) = n /\ Len(c.gaps) = n - 1
    <2>. DEFINE all == {GapEntry(r, k) : k \in 1 .. n}
    <2>1. b.gaps \in [1 .. n -> all]
      BY <1>2
    <2>. HIDE DEF all
    <2>2. b.gaps \in Seq(all) /\ Len(b.gaps) = n
      BY <1>1, <2>1
    <2>3. Len(SubSeq(b.gaps, 1, n - 1)) = n - 1
      BY <1>1, <2>2
    <2>. QED
      BY <1>3, <2>2, <2>3 DEF Front
  <1>5. c # b
    <2>1. Len(c.gaps) # Len(b.gaps)
      BY <1>1, <1>4
    <2>. QED
      BY <2>1
  <1>6. Cardinality(ComparableIn(c)) = n
    <2>1. \A k \in 1 .. n : r.tokens[k].currency = r.reference.currency
      BY CertifiedInputs DEF n
    <2>2. /\ Len(OfKind(c, "tokenized_aggregate")) = 1
          /\ OfKind(c, "tokenized_aggregate")[1] = ReferenceObservation(r)
          /\ DOMAIN OfKind(c, "token") = 1 .. n
          /\ \A k \in 1 .. n : OfKind(c, "token")[k] = TokenObservation(r, k)
      <3>1. /\ Layout(c.observations, n) /\ c.observations[1] = ReferenceObservation(r)
            /\ \A k \in 1 .. n : c.observations[k + 1] = TokenObservation(r, k)
        BY <1>3 DEF IssuedBody, n
      <3>2. Listed(c, n)
        BY <1>1, <3>1, ObservationsFound
      <3>. QED
        BY <3>1, <3>2 DEF Listed
    <2>3. \A k : TokenObservation(r, k).currency = r.tokens[k].currency
      BY DEF TokenObservation
    <2>4. ReferenceObservation(r).currency = r.reference.currency
      BY DEF ReferenceObservation
    <2>5. ComparableIn(c) = 1 .. n
      BY <2>1, <2>2, <2>3, <2>4 DEF ComparableIn
    <2>. QED
      BY <1>1, <2>5, FS_Interval
  <1>7. ASSUME Passes(c) PROVE FALSE
    <2>1. Len(c.gaps) = Cardinality(ComparableIn(c))
      BY <1>7 DEF Passes
    <2>. QED
      BY <1>1, <1>4, <1>6, <2>1
  <1>. QED
    BY <1>5, <1>7 DEF Exposed

LEMMA ModeAltered ==
  ASSUME NEW r, Certified(r), NEW b, IssuedBody(b, r, "live"),
         NEW c, c = [b EXCEPT !.mode = "fixture"]
  PROVE  Exposed(c, b)
  <1>1. b.mode = "live" /\ c.mode = "fixture" /\ c.provenance = {"live"}
    BY DEF IssuedBody
  <1>2. ASSUME Passes(c) PROVE FALSE
    BY <1>1, <1>2 DEF Passes
  <1>. QED
    BY <1>1, <1>2 DEF Exposed

\* Where only the dispersion is another, all depends on it.
LEMMA DispersionJudged ==
  ASSUME NEW r, Certified(r), NEW b, NEW mode, IssuedBody(b, r, mode), NEW c,
         c.observations = b.observations, c.mode = b.mode, c.provenance = b.provenance,
         c.claims = b.claims, c.gaps = b.gaps, c.trace = b.trace
  PROVE  /\ Matches(c.dispersion, r) => Sound(c, b, r)
         /\ Passes(c) => Matches(c.dispersion, r)
  <1>1. Sound(b, b, r)
    BY BodyIsSound
  <1>2. Matches(c.dispersion, r) => Sound(c, b, r)
    BY <1>1 DEF Sound
  <1>3. SpreadRecomputed(c) <=> Matches(c.dispersion, r)
    BY SpreadAgain DEF IssuedBody
  <1>. QED
    BY <1>2, <1>3 DEF Passes

\* The dispersion as it was issued.
SpreadIssued(b, r) ==
  LET s == Wrappers(r)
      e == b.dispersion
  IN /\ e = [count |-> e.count, min |-> e.min, max |-> e.max,
             median |-> e.median, spread |-> e.spread]
     /\ e.count = Len(s) /\ e.min = s[1] /\ e.max = s[Len(s)]
     /\ e.median = TwiceMedian(s) /\ e.spread = Dispersion(r)
     /\ Len(s) \in Nat /\ SpreadIs(r) /\ Matches(e, r)

LEMMA IssuedDispersion ==
  ASSUME NEW r, Certified(r), NEW b, NEW mode, IssuedBody(b, r, mode)
  PROVE  SpreadIssued(b, r)
  <1>. DEFINE s == Wrappers(r)
  <1>1. b.dispersion = [count |-> Len(s), min |-> s[1], max |-> s[Len(s)],
                        median |-> TwiceMedian(s), spread |-> Dispersion(r)]
    BY DEF IssuedBody, Spread
  <1>2. SpreadIs(r) /\ Matches(b.dispersion, r)
    BY SpreadNumbers, IssuedSpread DEF IssuedBody
  <1>3. Len(s) \in Nat
    BY <1>2, CertifiedInputs DEF SpreadIs
  <1>. HIDE DEF s
  <1>. QED
    BY <1>1, <1>2, <1>3 DEF SpreadIssued, s

\* The wrappers are counted exactly.
LEMMA CountAltered ==
  ASSUME NEW r, Certified(r), NEW b, NEW mode, IssuedBody(b, r, mode),
         NEW d \in Nat \ {0}, NEW c, c = [b EXCEPT !.dispersion.count = @ + d]
  PROVE  Exposed(c, b)
  <1>. DEFINE n == Len(Wrappers(r))
  <1>1. /\ c.observations = b.observations /\ c.mode = b.mode /\ c.provenance = b.provenance
        /\ c.claims = b.claims /\ c.gaps = b.gaps /\ c.trace = b.trace
        /\ c.dispersion = [b.dispersion EXCEPT !.count = @ + d]
    BY DEF IssuedBody
  <1>2. b.dispersion.count = n /\ n \in Nat /\ c.dispersion.count = n + d
    <2>1. SpreadIssued(b, r)
      BY IssuedDispersion
    <2>2. b.dispersion.count = n /\ n \in Nat
      BY <2>1 DEF SpreadIssued
    <2>3. c.dispersion.count = b.dispersion.count + d
      BY <1>1, <2>1 DEF SpreadIssued
    <2>. QED
      BY <2>2, <2>3
  <1>3. ASSUME Passes(c) PROVE FALSE
    <2>1. Matches(c.dispersion, r)
      BY <1>1, <1>3, DispersionJudged
    <2>2. c.dispersion.count = n
      BY <2>1 DEF Matches
    <2>. HIDE DEF n
    <2>. QED
      BY <1>2, <2>2
  <1>. HIDE DEF n
  <1>4. c # b
    <2>1. c.dispersion.count # b.dispersion.count
      BY <1>2
    <2>. QED
      BY <2>1
  <1>. QED
    BY <1>3, <1>4 DEF Exposed

\* The spread is held to the quotient it is rounded from.
LEMMA SpreadAltered ==
  ASSUME NEW r, Certified(r), NEW b, NEW mode, IssuedBody(b, r, mode),
         b.dispersion.spread # -1,
         NEW d \in Nat \ {0}, NEW c, c = [b EXCEPT !.dispersion.spread = @ + d]
  PROVE  Judged(c, b, r, d, GapTolerance)
  <1>. DEFINE s == Wrappers(r)
              e == b.dispersion
              f == c.dispersion
              n == 2 * (s[Len(s)] - s[1])
              m == TwiceMedian(s)
  <1>1. /\ c.observations = b.observations /\ c.mode = b.mode /\ c.provenance = b.provenance
        /\ c.claims = b.claims /\ c.gaps = b.gaps /\ c.trace = b.trace
        /\ f = [e EXCEPT !.spread = @ + d]
    BY DEF IssuedBody
  <1>2. SpreadIssued(b, r)
    BY IssuedDispersion
  <1>3. SpreadIs(r) /\ Matches(e, r) /\ Len(s) \in Nat /\ e.spread = Dispersion(r)
    BY <1>2 DEF SpreadIssued
  <1>4. /\ f.count = e.count /\ f.min = e.min /\ f.max = e.max /\ f.median = e.median
        /\ f.spread = e.spread + d
    BY <1>1, <1>2 DEF SpreadIssued
  <1>5. /\ ~(Len(s) < 2) /\ e.spread \in Nat /\ e.spread = Percent(n, m)
        /\ n \in Int /\ m \in Nat \ {0}
    <2>1. Len(s) >= 2
      BY <1>3 DEF SpreadIs
    <2>. QED
      BY <1>3, <2>1 DEF SpreadIs
  <1>6. /\ Matches(f, r) <=> f.spread # -1 /\ Near(f.spread, n, m)
    <2>1. /\ e.count = Len(s) /\ Abs(e.min - s[1]) <= PriceTolerance
          /\ Abs(e.max - s[Len(s)]) <= PriceTolerance
          /\ Abs(e.median - TwiceMedian(s)) <= 2 * PriceTolerance
      BY <1>3 DEF Matches
    <2>. HIDE DEF e, f
    <2>. QED
      BY <1>4, <1>5, <2>1 DEF Matches
  <1>7. GapTolerance \in Nat
    BY EvidenceAssumption
  <1>. HIDE DEF e, f, n, m, s
  <1>8. f.spread = Percent(n, m) + d /\ f.spread # -1 /\ f.spread # e.spread
    BY <1>4, <1>5
  <1>9. /\ d < GapTolerance => Near(f.spread, n, m)
        /\ d > GapTolerance => ~Near(f.spread, n, m)
    BY <1>5, <1>8, RoundedIsNear
  <1>10. c # b
    BY <1>8 DEF e, f
  <1>11. d > GapTolerance => ~Passes(c)
    BY <1>1, <1>6, <1>9, DispersionJudged DEF f
  <1>12. d < GapTolerance => Sound(c, b, r)
    BY <1>1, <1>6, <1>8, <1>9, DispersionJudged DEF f
  <1>. QED
    BY <1>10, <1>11, <1>12 DEF Judged

\* What comes of an extreme or the median moved by d: the tolerance is met
\* exactly where d is within it.
Bounded(c, b, r, d) ==
  /\ c # b
  /\ d > PriceTolerance => ~Passes(c)
  /\ d <= PriceTolerance => Sound(c, b, r)

\* The extremes and the median are held to the prices observed.
LEMMA ExtremeAltered ==
  ASSUME NEW r, Certified(r), NEW b, NEW mode, IssuedBody(b, r, mode), NEW d \in Nat \ {0},
         NEW c, \/ c = [b EXCEPT !.dispersion.min = @ + d]
                \/ c = [b EXCEPT !.dispersion.max = @ + d]
                \/ c = [b EXCEPT !.dispersion.median = @ + 2 * d]
  PROVE  Bounded(c, b, r, d)
  <1>. DEFINE s == Wrappers(r)
              e == b.dispersion
              f == c.dispersion
  <1>1. /\ c.observations = b.observations /\ c.mode = b.mode /\ c.provenance = b.provenance
        /\ c.claims = b.claims /\ c.gaps = b.gaps /\ c.trace = b.trace
        /\ \/ f = [e EXCEPT !.min = @ + d]
           \/ f = [e EXCEPT !.max = @ + d]
           \/ f = [e EXCEPT !.median = @ + 2 * d]
    BY DEF IssuedBody
  <1>2. SpreadIssued(b, r)
    BY IssuedDispersion
  <1>3. /\ e.count = Len(s) /\ e.min = s[1] /\ e.max = s[Len(s)] /\ e.median = TwiceMedian(s)
        /\ e.min \in Int /\ e.max \in Int /\ e.median \in Int /\ Matches(e, r)
    BY <1>2 DEF SpreadIssued, SpreadIs
  <1>4. /\ f.count = e.count /\ f.spread = e.spread
        /\ \/ f.min = e.min + d /\ f.max = e.max /\ f.median = e.median
           \/ f.min = e.min /\ f.max = e.max + d /\ f.median = e.median
           \/ f.min = e.min /\ f.max = e.max /\ f.median = e.median + 2 * d
    <2>1. e = [count |-> e.count, min |-> e.min, max |-> e.max,
               median |-> e.median, spread |-> e.spread]
      BY <1>2 DEF SpreadIssued
    <2>. HIDE DEF e, f
    <2>. QED
      BY <1>1, <2>1
  <1>5. Matches(f, r) <=> /\ Abs(f.min - e.min) <= PriceTolerance
                          /\ Abs(f.max - e.max) <= PriceTolerance
                          /\ Abs(f.median - e.median) <= 2 * PriceTolerance
    <2>1. IF Len(s) < 2 THEN e.spread = -1
          ELSE e.spread # -1 /\ Near(e.spread, 2 * (s[Len(s)] - s[1]), TwiceMedian(s))
      BY <1>3 DEF Matches
    <2>. HIDE DEF e, f
    <2>. QED
      BY <1>3, <1>4, <2>1 DEF Matches
  <1>6. PriceTolerance \in Nat
    BY EvidenceAssumption
  <1>. HIDE DEF e, f, s
  <1>7. Matches(f, r) <=> d <= PriceTolerance
    <2>1. \A x \in Int : Abs(x - x) = 0 /\ Abs((x + d) - x) = d /\ Abs((x + 2 * d) - x) = 2 * d
      BY DEF Abs
    <2>2. 0 <= PriceTolerance /\ 0 <= 2 * PriceTolerance
          /\ (2 * d <= 2 * PriceTolerance <=> d <= PriceTolerance)
      BY <1>6
    <2>3. CASE f.min = e.min + d /\ f.max = e.max /\ f.median = e.median
      BY <1>3, <1>5, <2>1, <2>2, <2>3
    <2>4. CASE f.min = e.min /\ f.max = e.max + d /\ f.median = e.median
      BY <1>3, <1>5, <2>1, <2>2, <2>4
    <2>5. CASE f.min = e.min /\ f.max = e.max /\ f.median = e.median + 2 * d
      BY <1>3, <1>5, <2>1, <2>2, <2>5
    <2>. QED
      BY <1>4, <2>3, <2>4, <2>5
  <1>8. f # e
    BY <1>3, <1>4
  <1>9. c # b
    BY <1>8 DEF e, f
  <1>10. d > PriceTolerance => ~Passes(c)
    BY <1>1, <1>6, <1>7, DispersionJudged DEF f
  <1>11. d <= PriceTolerance => Sound(c, b, r)
    BY <1>1, <1>7, DispersionJudged DEF f
  <1>. QED
    BY <1>9, <1>10, <1>11 DEF Bounded

\* What an audit does not read may be anything.
LEMMA FindingNumbers ==
  ASSUME NEW r, Certified(r)
  PROVE  /\ Evaluate(r).deviation \in Int /\ Evaluate(r).quality \in Int
         /\ {"deviation", "quality"} \subseteq DOMAIN Evaluate(r)
         /\ r.confirmations + 1 \in Int /\ r.reference.age \in Int
  <1>1. r \in Reading
    BY CertifiedInputs
  <1>2. r.confirmations \in Nat /\ r.reference.age \in Int
    BY <1>1, Inputs, InputsAssumption DEF Reading
  <1>3. DetectAnomaly(r).deviation \in Int
    BY <1>1, Found
  <1>4. ASSUME NEW a \in BOOLEAN PROVE Quality(r, a) \in Int
    <2>. DEFINE x1 == CASE AggregateFreshness(r) = "fresh" -> 10 [] AggregateFreshness(r) = "aging" -> 6
                        [] AggregateFreshness(r) = "stale" -> 2  [] OTHER -> 0
                x2 == IF \A k \in DOMAIN r.tokens : r.tokens[k].source THEN 10 ELSE 7
                x3 == CASE Len(r.tokens) = 0 -> 0 [] Len(r.tokens) = 1 -> 4
                        [] Len(r.tokens) = 2 -> 8 [] OTHER -> 10
                x4 == CASE UnderlyingMarket(r) \in {"open", "continuous"} -> 10
                        [] UnderlyingMarket(r) = "unknown" -> 7 [] OTHER -> 4
                x5 == IF r.confirmations + (IF a THEN 1 ELSE 0) >= 2 THEN 10 ELSE 6
                x6 == CASE r.pairs = "yes" -> 10 [] r.pairs = "no" -> 9 [] OTHER -> 8
    <2>1. x1 \in Int /\ x2 \in Int
      OBVIOUS
    <2>2. x3 \in Int /\ x4 \in Int
      OBVIOUS
    <2>3. x5 \in Int /\ x6 \in Int
      OBVIOUS
    <2>4. Quality(r, a) = 30 * x1 + 15 * x2 + 20 * x3 + 15 * x4 + 10 * x5 + 10 * x6
      BY DEF Quality
    <2>. HIDE DEF x1, x2, x3, x4, x5, x6
    <2>. QED
      BY <2>1, <2>2, <2>3, <2>4
  <1>5. Evaluate(r).quality \in Int
    <2>1. Evaluate(r).quality = Quality(r, DetectAnomaly(r).severity # "none")
      BY DEF Evaluate
    <2>2. (DetectAnomaly(r).severity # "none") \in BOOLEAN
      OBVIOUS
    <2>. QED
      BY <1>4, <2>1, <2>2
  <1>6. Evaluate(r).deviation \in Int
    BY <1>3 DEF Evaluate
  <1>7. {"deviation", "quality"} \subseteq DOMAIN Evaluate(r)
    BY DEF Evaluate
  <1>. QED
    BY <1>2, <1>5, <1>6, <1>7

LEMMA UnreadPasses ==
  ASSUME NEW r, Certified(r), NEW b, NEW mode, IssuedBody(b, r, mode), NEW d \in Nat \ {0},
         NEW c, \/ c = [b EXCEPT !.finding.deviation = @ + d]
                \/ c = [b EXCEPT !.finding.quality = @ + d]
                \/ c = [b EXCEPT !.confirmations = @ + d]
                \/ c = [b EXCEPT !.age = @ + d]
  PROVE  c # b /\ Sound(c, b, r)
  <1>1. /\ c.observations = b.observations /\ c.mode = b.mode /\ c.provenance = b.provenance
        /\ c.claims = b.claims /\ c.gaps = b.gaps /\ c.trace = b.trace
        /\ c.dispersion = b.dispersion
    BY DEF IssuedBody
  <1>2. \/ c.finding = [b.finding EXCEPT !.deviation = @ + d]
        \/ c.finding = [b.finding EXCEPT !.quality = @ + d]
        \/ c.confirmations = b.confirmations + d
        \/ c.age = b.age + d
    BY DEF IssuedBody
  <1>3. /\ b.finding.deviation \in Int /\ b.finding.quality \in Int
        /\ "deviation" \in DOMAIN b.finding /\ "quality" \in DOMAIN b.finding
        /\ b.confirmations \in Int /\ b.age \in Int
    <2>1. b.finding = Evaluate(r) /\ b.confirmations = r.confirmations + 1 /\ b.age = r.reference.age
      BY DEF IssuedBody
    <2>2. /\ Evaluate(r).deviation \in Int /\ Evaluate(r).quality \in Int
          /\ {"deviation", "quality"} \subseteq DOMAIN Evaluate(r)
          /\ r.confirmations + 1 \in Int /\ r.reference.age \in Int
      BY FindingNumbers
    <2>. QED
      BY <2>1, <2>2
  <1>4. c # b
    <2>1. CASE c.finding = [b.finding EXCEPT !.deviation = @ + d]
      <3>1. c.finding.deviation # b.finding.deviation
        BY <1>3, <2>1
      <3>. QED
        BY <3>1
    <2>2. CASE c.finding = [b.finding EXCEPT !.quality = @ + d]
      <3>1. c.finding.quality # b.finding.quality
        BY <1>3, <2>2
      <3>. QED
        BY <3>1
    <2>3. CASE c.confirmations = b.confirmations + d
      <3>1. c.confirmations # b.confirmations
        BY <1>3, <2>3
      <3>. QED
        BY <3>1
    <2>4. CASE c.age = b.age + d
      <3>1. c.age # b.age
        BY <1>3, <2>4
      <3>. QED
        BY <3>1
    <2>. QED
      BY <1>2, <2>1, <2>2, <2>3, <2>4
  <1>5. Sound(c, b, r)
    <2>1. Sound(b, b, r)
      BY BodyIsSound
    <2>. QED
      BY <1>1, <2>1 DEF Sound
  <1>. QED
    BY <1>4, <1>5

\* What an audit makes of each kind of alteration.
LEMMA AlterationsJudged ==
  ASSUME NEW r, Certified(r), NEW b, IssuedBody(b, r, "live"), NEW d \in Nat \ {0}
  PROVE  /\ \A c \in Matched(b, d) : Exposed(c, b)
         /\ \A c \in Percentages(b, d) : Judged(c, b, r, d, GapTolerance)
         /\ \A c \in Extremes(b, d) : Bounded(c, b, r, d)
         /\ \A c \in Unread(b, d) : c # b /\ Sound(c, b, r)
  <1>1. /\ DOMAIN b.gaps = 1 .. Len(r.tokens) /\ DOMAIN b.trace = 1 .. Len(r.tokens)
    BY IssuedNumbers
  <1>2. ASSUME NEW c \in Matched(b, d) PROVE Exposed(c, b)
    <2>1. \/ \E k \in DOMAIN b.gaps : c = [b EXCEPT !.gaps[k].price = @ + d]
          \/ \E i \in DOMAIN b.observations :
               /\ b.observations[i].kind # "tradfi_context"
               /\ c = [b EXCEPT !.observations[i].price = @ + d]
          \/ c = [b EXCEPT !.dispersion.count = @ + d]
          \/ c = [b EXCEPT !.gaps = Front(@), !.trace = Front(@)]
          \/ c = [b EXCEPT !.mode = "fixture"]
      BY Zenon DEF Matched
    <2>. QED
      BY <1>1, <2>1, PriceAltered, ObservationAltered, CountAltered, EntryDropped, ModeAltered
  <1>3. ASSUME NEW c \in Percentages(b, d) PROVE Judged(c, b, r, d, GapTolerance)
    <2>1. \/ \E k \in DOMAIN b.gaps : c = [b EXCEPT !.gaps[k].gap = @ + d]
          \/ \E k \in DOMAIN b.trace : c = [b EXCEPT !.trace[k].gap = @ + d]
          \/ b.dispersion.spread # -1 /\ c = [b EXCEPT !.dispersion.spread = @ + d]
      BY Zenon DEF Percentages
    <2>. QED
      BY <1>1, <2>1, GapAltered, TraceAltered, SpreadAltered
  <1>4. ASSUME NEW c \in Extremes(b, d) PROVE Bounded(c, b, r, d)
    <2>1. \/ c = [b EXCEPT !.dispersion.min = @ + d]
          \/ c = [b EXCEPT !.dispersion.max = @ + d]
          \/ c = [b EXCEPT !.dispersion.median = @ + 2 * d]
      BY Zenon DEF Extremes
    <2>. QED
      BY <2>1, ExtremeAltered
  <1>5. ASSUME NEW c \in Unread(b, d) PROVE c # b /\ Sound(c, b, r)
    <2>1. \/ c = [b EXCEPT !.finding.deviation = @ + d]
          \/ c = [b EXCEPT !.finding.quality = @ + d]
          \/ c = [b EXCEPT !.confirmations = @ + d]
          \/ c = [b EXCEPT !.age = @ + d]
      BY Zenon DEF Unread
    <2>. QED
      BY <2>1, UnreadPasses
  <1>. QED
    BY <1>2, <1>3, <1>4, <1>5

\* The invariant of the behaviours makes every certifiable reading a certified one.
LEMMA CertifiableIs == EngineInv /\ Certifiable => Certified(reading) /\ evaluation = Evaluate(reading)
  BY DEF EngineInv, Certifiable, Certified

\* The engine, the claim ledger and the audit agree on every receipt issued.
THEOREM IssuedReceiptsAudit == Spec => []IssuedReceiptAudits
  <1>1. EngineInv => IssuedReceiptAudits
    <2>. DEFINE receipt == Receipt(reading, "live")
                b == Contents(reading, "live")
    <2>1. SUFFICES ASSUME Certified(reading), evaluation = Evaluate(reading)
                   PROVE  /\ Audits(receipt)
                          /\ \A key \in Keys : Audits(Sign(receipt, key))
                          /\ evaluation.deviation \in {receipt.body.gaps[n].gap : n \in DOMAIN receipt.body.gaps}
                                                        \cup {receipt.body.dispersion.spread}
                          /\ \E c \in receipt.body.claims :
                               /\ c.kind = "derived"
                               /\ c.about = IF evaluation.kind = "parity_gap"
                                            THEN "parity_gap_v1" ELSE "dispersion_v1"
      BY CertifiableIs DEF IssuedReceiptAudits
    <2>2. receipt = [body |-> b, hash |-> b, signature |-> <<>>]
      BY DEF Receipt, Unsigned, Hash
    <2>3. Verifies(receipt)
      BY <2>2 DEF Verifies, Hash
    <2>4. ASSUME NEW key PROVE Sign(receipt, key).body = b /\ Verifies(Sign(receipt, key))
      <3>1. Sign(receipt, key) = [body |-> b, hash |-> b,
                                  signature |-> <<[publicKey |-> key, by |-> key, over |-> b]>>]
        BY <2>2 DEF Sign
      <3>. QED
        BY <3>1 DEF Verifies, Hash
    <2>5. receipt.body = b
      BY <2>2
    <2>. HIDE DEF receipt, b
    <2>6. Audits(receipt) /\ \A key \in Keys : Audits(Sign(receipt, key))
      BY <2>1, <2>3, <2>4, <2>5, IssuedAudits DEF b
    <2>. DEFINE a == DetectAnomaly(reading)
                n == Len(reading.tokens)
    <2>7. IssuedBody(b, reading, "live")
      BY <2>1, Issued DEF b
    <2>8. /\ reading \in Reading /\ a \in Candidates(reading) /\ Measured(reading) = 1 .. n
          /\ evaluation.deviation = a.deviation /\ evaluation.kind = a.kind
      BY <2>1, CertifiedInputs DEF Evaluate
    <2>9. /\ \/ a.kind = "parity_gap" /\ \E k : WidestGap(reading, k) /\ a.deviation = Gap(reading, k)
             \/ a.kind = "cross_wrapper_dispersion" /\ a.deviation = Dispersion(reading)
                /\ a.deviation \in Nat
      BY <2>8, CandidatesAre
    <2>. HIDE DEF a, n
    <2>10. CASE a.kind = "parity_gap" /\ \E k : WidestGap(reading, k) /\ a.deviation = Gap(reading, k)
      <3>1. PICK k : WidestGap(reading, k) /\ a.deviation = Gap(reading, k)
        BY <2>10
      <3>2. k \in Measured(reading) /\ k \in 1 .. n
        BY <2>8, <3>1 DEF WidestGap
      <3>3. k \in DOMAIN b.gaps /\ b.gaps[k].gap = a.deviation
        <4>1. DOMAIN b.gaps = 1 .. n /\ b.gaps[k] = GapEntry(reading, k)
          BY <2>7, <3>2 DEF IssuedBody, n
        <4>. QED
          BY <3>1, <3>2, <4>1 DEF GapEntry
      <3>. DEFINE c == Claim("derived", "parity_gap_v1", Cited(reading), {k, Ref})
      <3>4. c \in b.claims
        BY <2>7, <3>2 DEF IssuedBody, Claims
      <3>5. c.kind = "derived" /\ c.about = "parity_gap_v1"
        BY DEF Claim
      <3>. HIDE DEF c
      <3>. QED
        BY <2>5, <2>6, <2>8, <2>10, <3>3, <3>4, <3>5
    <2>11. CASE a.kind = "cross_wrapper_dispersion" /\ a.deviation = Dispersion(reading)
                /\ a.deviation \in Nat
      <3>1. b.dispersion.spread = a.deviation
        BY <2>7, <2>11 DEF IssuedBody, Spread
      <3>2. Dispersion(reading) # -1
        BY <2>11
      <3>. DEFINE c == Claim("derived", "dispersion_v1", DOMAIN reading.tokens, DOMAIN reading.tokens)
      <3>3. c \in b.claims
        BY <2>7, <3>2 DEF IssuedBody, Claims
      <3>4. c.kind = "derived" /\ c.about = "dispersion_v1"
        BY DEF Claim
      <3>. HIDE DEF c
      <3>. QED
        BY <2>5, <2>6, <2>8, <2>11, <3>1, <3>3, <3>4
    <2>. QED
      BY <2>9, <2>10, <2>11
  <1>. QED
    BY EngineBegins, EngineStep, <1>1, PTL DEF Spec

\* What an alteration of a receipt is found out by, and what it is not.
THEOREM AlteredReceiptsFail == Spec => []AlteredReceiptFails
  <1>1. EngineInv => AlteredReceiptFails
    <2>. DEFINE receipt == Receipt(reading, "live")
                body == receipt.body
                b == Contents(reading, "live")
                All(e) == Matched(body, e) \cup Percentages(body, e)
                            \cup Extremes(body, e) \cup Unread(body, e)
                Refuted(c) == /\ ~Verifies([receipt EXCEPT !.body = c])
                              /\ \A key \in Keys :
                                   ~Verifies([Sign(receipt, key) EXCEPT !.body = c, !.hash = Hash(c)])
    <2>1. SUFFICES ASSUME Certified(reading), NEW d \in Changes
                   PROVE  /\ \A c \in All(d) : Refuted(c)
                          /\ \A c \in Matched(body, d) : ~Audits(Unsigned(c))
                          /\ \A c \in Percentages(body, d) :
                               /\ d > GapTolerance => ~Audits(Unsigned(c))
                               /\ d < GapTolerance => Audits(Unsigned(c))
                          /\ \A c \in Extremes(body, d) : Audits(Unsigned(c)) <=> d <= PriceTolerance
                          /\ \A c \in Unread(body, d) : Audits(Unsigned(c))
      BY CertifiableIs DEF AlteredReceiptFails
    <2>2. receipt = [body |-> b, hash |-> b, signature |-> <<>>] /\ body = b
      BY DEF Receipt, Unsigned, Hash
    <2>3. d \in Nat \ {0} /\ PriceTolerance \in Nat
      BY EvidenceAssumption
    <2>4. IssuedBody(b, reading, "live")
      BY <2>1, Issued
    <2>. HIDE DEF body, receipt
    <2>5. ASSUME NEW c, c # b PROVE Refuted(c)
      <3>1. ~Verifies([receipt EXCEPT !.body = c])
        BY <2>2, <2>5 DEF Verifies, Hash
      <3>2. ASSUME NEW key \in Keys
            PROVE  ~Verifies([Sign(receipt, key) EXCEPT !.body = c, !.hash = Hash(c)])
        <4>. DEFINE signed == Sign(receipt, key)
                    x == [signed EXCEPT !.body = c, !.hash = Hash(c)]
                    sig == [publicKey |-> key, by |-> key, over |-> b]
        <4>1. signed = [body |-> b, hash |-> b, signature |-> <<sig>>]
          BY <2>2 DEF Sign
        <4>. HIDE DEF signed
        <4>2. x.hash = c /\ x.signature = <<sig>>
          BY <4>1 DEF Hash
        <4>. HIDE DEF x
        <4>3. ASSUME Verifies(x) PROVE b = c
          <5>1. \A n \in DOMAIN x.signature : x.signature[n].over = x.hash
            BY <4>3 DEF Verifies
          <5>2. 1 \in DOMAIN x.signature /\ x.signature[1].over = b
            BY <4>2
          <5>. QED
            BY <4>2, <5>1, <5>2
        <4>. QED
          BY <2>5, <4>3 DEF x, signed
      <3>. QED
        BY <3>1, <3>2
    <2>. HIDE DEF b
    <2>6. /\ \A c \in Matched(b, d) : Exposed(c, b)
          /\ \A c \in Percentages(b, d) : Judged(c, b, reading, d, GapTolerance)
          /\ \A c \in Extremes(b, d) : Bounded(c, b, reading, d)
          /\ \A c \in Unread(b, d) : c # b /\ Sound(c, b, reading)
      BY <2>1, <2>3, <2>4, AlterationsJudged
    <2>7. ASSUME NEW c, Sound(c, b, reading) PROVE Audits(Unsigned(c))
      <3>. DEFINE x == Unsigned(c)
      <3>1. x.body = c /\ Verifies(x)
        BY DEF Unsigned, Verifies, Hash
      <3>. HIDE DEF x
      <3>2. Audits(x)
        BY <2>1, <2>7, <3>1, SoundAudits DEF b
      <3>. QED
        BY <3>2 DEF x
    <2>8. ASSUME NEW c, ~Passes(c) PROVE ~Audits(Unsigned(c))
      <3>. DEFINE x == Unsigned(c)
      <3>1. x.body = c
        BY DEF Unsigned
      <3>. HIDE DEF x
      <3>2. ~Audits(x)
        BY <2>8, <3>1, AuditAsks
      <3>. QED
        BY <3>2 DEF x
    <2>9. \A c \in All(d) : c # b
      BY <2>2, <2>6 DEF Exposed, Judged, Bounded
    <2>10. \A c \in All(d) : Refuted(c)
      <3>. HIDE DEF All, Refuted
      <3>. QED
        BY <2>5, <2>9
    <2>11. \A c \in Matched(b, d) : ~Audits(Unsigned(c))
      BY <2>6, <2>8 DEF Exposed
    <2>12. \A c \in Percentages(b, d) : /\ d > GapTolerance => ~Audits(Unsigned(c))
                                        /\ d < GapTolerance => Audits(Unsigned(c))
      BY <2>6, <2>7, <2>8 DEF Judged
    <2>13. \A c \in Extremes(b, d) : Audits(Unsigned(c)) <=> d <= PriceTolerance
      <3>1. ASSUME NEW c \in Extremes(b, d) PROVE Audits(Unsigned(c)) <=> d <= PriceTolerance
        <4>1. /\ d > PriceTolerance => ~Passes(c)
              /\ d <= PriceTolerance => Sound(c, b, reading)
          BY <2>6 DEF Bounded
        <4>2. d > PriceTolerance \/ d <= PriceTolerance
          BY <2>3
        <4>3. d <= PriceTolerance => ~(d > PriceTolerance)
          BY <2>3
        <4>. QED
          BY <2>7, <2>8, <4>1, <4>2, <4>3
      <3>. QED
        BY <3>1
    <2>14. \A c \in Unread(b, d) : Audits(Unsigned(c))
      BY <2>6, <2>7
    <2>. HIDE DEF All, Refuted
    <2>. QED
      BY <2>2, <2>10, <2>11, <2>12, <2>13, <2>14
  <1>. QED
    BY EngineBegins, EngineStep, <1>1, PTL DEF Spec

-----------------------------------------------------------------------------
(***************************************************************************)
(* A wrapper and its peers.                                                *)
(***************************************************************************)
\* Where the t-th of a list is found in the list that still has its i-th.
Beyond(i, t) == IF t < i THEN t ELSE t + 1

\* The sorted values of a set without the member in place i.
LEMMA SortedWithout ==
  ASSUME NEW S, IsFiniteSet(S), NEW value, \A x \in S : value[x] \in Int,
         NEW f \in Orders(S), Ascends(f, value), NEW i \in 1 .. Cardinality(S)
  PROVE  Sorted(S \ {f[i]}, value)
           = [t \in 1 .. Cardinality(S) - 1 |-> value[f[Beyond(i, t)]]]
  <1>. DEFINE n == Cardinality(S)
              rest == S \ {f[i]}
              g == [t \in 1 .. n - 1 |-> f[Beyond(i, t)]]
  <1>1. /\ n \in Nat /\ f \in [1 .. n -> S] /\ \A x \in S : \E t \in 1 .. n : f[t] = x
        /\ \A j, k \in 1 .. n : f[j] = f[k] => j = k
    BY OrderRepeatsNone
  <1>2. f[i] \in S
    BY <1>1
  <1>3. IsFiniteSet(rest) /\ Cardinality(rest) = n - 1
    BY <1>2, FS_RemoveElement
  <1>4. i \in 1 .. n
    OBVIOUS
  <1>. HIDE DEF n
  <1>5. ASSUME NEW t \in 1 .. n - 1 PROVE Beyond(i, t) \in 1 .. n /\ Beyond(i, t) # i
    BY <1>1, <1>4 DEF Beyond
  <1>6. g \in [1 .. n - 1 -> rest]
    <2>1. ASSUME NEW t \in 1 .. n - 1 PROVE f[Beyond(i, t)] \in rest
      BY <1>1, <1>4, <1>5
    <2>. QED
      BY <2>1
  <1>7. \A x \in rest : \E t \in 1 .. n - 1 : g[t] = x
    <2>1. ASSUME NEW x \in rest PROVE \E t \in 1 .. n - 1 : g[t] = x
      <3>1. PICK k \in 1 .. n : f[k] = x
        BY <1>1
      <3>2. k # i
        BY <3>1
      <3>3. CASE k < i
        <4>1. k \in 1 .. n - 1 /\ Beyond(i, k) = k
          BY <1>1, <1>4, <3>3 DEF Beyond
        <4>. QED
          BY <3>1, <4>1
      <3>4. CASE ~(k < i)
        <4>1. k - 1 \in 1 .. n - 1 /\ Beyond(i, k - 1) = k
          BY <1>1, <1>4, <3>2, <3>4 DEF Beyond
        <4>. QED
          BY <3>1, <4>1
      <3>. QED
        BY <3>3, <3>4
    <2>. QED
      BY <2>1
  <1>8. g \in Orders(rest)
    BY <1>3, <1>6, <1>7 DEF Orders
  <1>9. Ascends(g, value)
    <2>1. ASSUME NEW j \in 1 .. n - 1, NEW k \in 1 .. n - 1, j <= k
          PROVE  value[g[j]] <= value[g[k]]
      <3>1. Beyond(i, j) <= Beyond(i, k)
        BY <1>1, <1>4, <2>1 DEF Beyond
      <3>2. value[f[Beyond(i, j)]] <= value[f[Beyond(i, k)]]
        BY <1>1, <1>5, <3>1 DEF Ascends
      <3>. QED
        BY <3>2
    <2>. QED
      BY <2>1 DEF Ascends
  <1>10. \A x \in rest : value[x] \in Int
    OBVIOUS
  <1>11. Sorted(rest, value) = [t \in 1 .. n - 1 |-> value[g[t]]]
    <2>. HIDE DEF rest, g
    <2>1. Sorted(rest, value) = [t \in 1 .. Cardinality(rest) |-> value[g[t]]]
      BY <1>3, <1>8, <1>9, <1>10, SortedIs
    <2>. QED
      BY <1>3, <2>1
  <1>12. [t \in 1 .. n - 1 |-> value[g[t]]] = [t \in 1 .. n - 1 |-> value[f[Beyond(i, t)]]]
    OBVIOUS
  <1>. QED
    BY <1>11, <1>12 DEF n

\* Twice the median of m + 1 ascending values without the i-th.
RestMedian(s, m, i) ==
  LET mid == m \div 2
  IN IF m % 2 = 1 THEN 2 * s[Beyond(i, mid + 1)]
     ELSE s[Beyond(i, mid)] + s[Beyond(i, mid + 1)]

Rising(s, n) ==
  /\ s \in [1 .. n -> Nat \ {0}]
  /\ \A j, k \in 1 .. n : j <= k => s[j] <= s[k]

HasMedian(peers, twice) == peers # <<>> /\ TwiceMedian(peers) = twice

LEMMA RestMedianIs ==
  ASSUME NEW S, IsFiniteSet(S), Cardinality(S) >= 2, NEW value, \A x \in S : value[x] \in Int,
         NEW f \in Orders(S), Ascends(f, value), NEW i \in 1 .. Cardinality(S)
  PROVE  HasMedian(Sorted(S \ {f[i]}, value),
                   RestMedian([t \in 1 .. Cardinality(S) |-> value[f[t]]], Cardinality(S) - 1, i))
  <1>. DEFINE n == Cardinality(S)
              peers == Sorted(S \ {f[i]}, value)
              s == [t \in 1 .. n |-> value[f[t]]]
  <1>1. n \in Nat /\ n >= 2 /\ i \in 1 .. n /\ f \in [1 .. n -> S]
    BY OrderRepeatsNone
  <1>2. peers = [t \in 1 .. n - 1 |-> value[f[Beyond(i, t)]]]
    BY SortedWithout
  <1>. HIDE DEF n, peers
  <1>3. ASSUME NEW t \in 1 .. n - 1 PROVE Beyond(i, t) \in 1 .. n
    BY <1>1 DEF Beyond
  <1>4. \A t \in 1 .. n - 1 : peers[t] = s[Beyond(i, t)] /\ peers[t] \in Int
    BY <1>1, <1>2, <1>3
  <1>5. peers \in [1 .. n - 1 -> Int]
    BY <1>2, <1>4
  <1>6. Len(peers) = n - 1 /\ peers # <<>>
    BY <1>1, <1>5
  <1>. HIDE DEF s
  <1>. DEFINE m == n - 1
              mid == m \div 2
  <1>7. mid + 1 \in 1 .. m /\ (m % 2 # 1 => mid \in 1 .. m)
    BY <1>1
  <1>8. TwiceMedian(peers) = IF m % 2 = 1 THEN 2 * peers[mid + 1] ELSE peers[mid] + peers[mid + 1]
    BY <1>6 DEF TwiceMedian
  <1>. HIDE DEF mid
  <1>9. TwiceMedian(peers) = IF m % 2 = 1 THEN 2 * s[Beyond(i, mid + 1)]
                              ELSE s[Beyond(i, mid)] + s[Beyond(i, mid + 1)]
    BY <1>4, <1>7, <1>8
  <1>10. TwiceMedian(peers) = RestMedian(s, m, i)
    BY <1>9 DEF RestMedian, mid
  <1>. QED
    BY <1>6, <1>10 DEF n, peers, s, HasMedian

\* The later the value left out, the lower the median of the others.
LEMMA RestMedianFalls ==
  ASSUME NEW n \in Nat, n >= 2, NEW s, Rising(s, n), NEW i \in 1 .. n
  PROVE  /\ RestMedian(s, n - 1, i) \in Nat \ {0}
         /\ RestMedian(s, n - 1, n) <= RestMedian(s, n - 1, i)
         /\ RestMedian(s, n - 1, i) <= RestMedian(s, n - 1, 1)
  <1>. DEFINE m == n - 1
              mid == m \div 2
  <1>1. mid + 1 \in 1 .. m /\ (m % 2 # 1 => mid \in 1 .. m)
    OBVIOUS
  <1>2. ASSUME NEW t \in 1 .. m
        PROVE  /\ s[Beyond(i, t)] \in Nat \ {0} /\ s[Beyond(n, t)] \in Nat \ {0}
               /\ s[Beyond(1, t)] \in Nat \ {0}
               /\ s[Beyond(n, t)] <= s[Beyond(i, t)] /\ s[Beyond(i, t)] <= s[Beyond(1, t)]
    <2>1. /\ Beyond(i, t) \in 1 .. n /\ Beyond(n, t) \in 1 .. n /\ Beyond(1, t) \in 1 .. n
          /\ Beyond(n, t) <= Beyond(i, t) /\ Beyond(i, t) <= Beyond(1, t)
      BY DEF Beyond
    <2>. QED
      BY <2>1 DEF Rising
  <1>. HIDE DEF mid
  <1>3. CASE m % 2 = 1
    <2>1. \A j \in {1, i, n} : RestMedian(s, m, j) = 2 * s[Beyond(j, mid + 1)]
      BY <1>3 DEF RestMedian, mid
    <2>. HIDE DEF m
    <2>. QED
      BY <1>1, <1>2, <2>1 DEF m
  <1>4. CASE m % 2 # 1
    <2>1. \A j \in {1, i, n} :
            RestMedian(s, m, j) = s[Beyond(j, mid)] + s[Beyond(j, mid + 1)]
      BY <1>4 DEF RestMedian, mid
    <2>2. /\ s[Beyond(i, mid)] \in Nat \ {0} /\ s[Beyond(n, mid)] \in Nat \ {0}
          /\ s[Beyond(1, mid)] \in Nat \ {0}
          /\ s[Beyond(n, mid)] <= s[Beyond(i, mid)] /\ s[Beyond(i, mid)] <= s[Beyond(1, mid)]
      BY <1>1, <1>2, <1>4
    <2>3. /\ s[Beyond(i, mid + 1)] \in Nat \ {0} /\ s[Beyond(n, mid + 1)] \in Nat \ {0}
          /\ s[Beyond(1, mid + 1)] \in Nat \ {0}
          /\ s[Beyond(n, mid + 1)] <= s[Beyond(i, mid + 1)]
          /\ s[Beyond(i, mid + 1)] <= s[Beyond(1, mid + 1)]
      BY <1>1, <1>2
    <2>. QED
      BY <2>1, <2>2, <2>3
  <1>. QED
    BY <1>3, <1>4

LEMMA ProductsOrdered ==
  ASSUME NEW a \in Nat, NEW b \in Nat, NEW c \in Nat, NEW d \in Nat, a <= b, c <= d
  PROVE  a * c <= b * d
  <1>1. a * c <= b * c
    OBVIOUS
  <1>2. b * c <= b * d
    OBVIOUS
  <1>. QED
    BY <1>1, <1>2

\* A dearer value over a lower median has the greater gap.
LEMMA GapsOrdered ==
  ASSUME NEW p \in Nat \ {0}, NEW q \in Nat \ {0}, NEW high \in Nat \ {0}, NEW low \in Nat \ {0},
         p <= q, low <= high
  PROVE  Percent(2 * p - high, high) <= Percent(2 * q - low, low)
  <1>1. p * low <= q * high
    BY ProductsOrdered
  <1>2. /\ (2 * p - high) * low = 2 * (p * low) - high * low
        /\ (2 * q - low) * high = 2 * (q * high) - high * low
        /\ p * low \in Int /\ q * high \in Int /\ high * low \in Int
    OBVIOUS
  <1>3. (2 * p - high) * low <= (2 * q - low) * high
    BY <1>1, <1>2
  <1>. DEFINE m == 2 * p - high
              l == 2 * q - low
  <1>4. m \in Int /\ l \in Int
    OBVIOUS
  <1>. HIDE DEF m, l
  <1>5. Percent(m, high) <= Percent(l, low)
    BY <1>3, <1>4, PercentOrdered DEF m, l
  <1>. QED
    BY <1>5 DEF m, l

\* The gap of a value to the median of the others.
GapToRest(s, n, i) ==
  Percent(2 * s[i] - RestMedian(s, n - 1, i), RestMedian(s, n - 1, i))

\* No value is farther from the others than the least or the greatest is.
LEMMA FarthestAtTheEnds ==
  ASSUME NEW n \in Nat, n >= 2, NEW s, Rising(s, n), NEW i \in 1 .. n
  PROVE  /\ Abs(GapToRest(s, n, i)) \in Nat
         /\ \/ Abs(GapToRest(s, n, i)) <= Abs(GapToRest(s, n, 1))
            \/ Abs(GapToRest(s, n, i)) <= Abs(GapToRest(s, n, n))
  <1>. DEFINE M(j) == RestMedian(s, n - 1, j)
              G(j) == Percent(2 * s[j] - M(j), M(j))
  <1>1. ASSUME NEW j \in 1 .. n
        PROVE  /\ M(j) \in Nat \ {0} /\ M(n) <= M(j) /\ M(j) <= M(1)
               /\ s[j] \in Nat \ {0} /\ s[1] <= s[j] /\ s[j] <= s[n]
    <2>1. M(j) \in Nat \ {0} /\ M(n) <= M(j) /\ M(j) <= M(1)
      BY RestMedianFalls
    <2>2. 1 \in 1 .. n /\ n \in 1 .. n /\ 1 <= j /\ j <= n
      OBVIOUS
    <2>3. s[j] \in Nat \ {0} /\ s[1] <= s[j] /\ s[j] <= s[n]
      BY <2>2 DEF Rising
    <2>. QED
      BY <2>1, <2>3
  <1>2. 1 \in 1 .. n /\ n \in 1 .. n /\ i \in 1 .. n
    OBVIOUS
  <1>. HIDE DEF M
  <1>3. \A j \in 1 .. n : G(j) \in Int
    <2>1. ASSUME NEW j \in 1 .. n PROVE G(j) \in Int
      <3>1. 2 * s[j] - M(j) \in Int /\ M(j) \in Nat \ {0}
        BY <1>1
      <3>. QED
        BY <3>1, PercentSign
    <2>. QED
      BY <2>1
  <1>4. G(i) <= G(n) /\ G(1) <= G(i)
    <2>1. Percent(2 * s[i] - M(i), M(i)) <= Percent(2 * s[n] - M(n), M(n))
      BY <1>1, <1>2, GapsOrdered
    <2>2. Percent(2 * s[1] - M(1), M(1)) <= Percent(2 * s[i] - M(i), M(i))
      BY <1>1, <1>2, GapsOrdered
    <2>. QED
      BY <2>1, <2>2
  <1>. HIDE DEF G
  <1>5. Abs(G(i)) \in Nat /\ (Abs(G(i)) <= Abs(G(1)) \/ Abs(G(i)) <= Abs(G(n)))
    <2>1. G(i) \in Int /\ G(1) \in Int /\ G(n) \in Int
      BY <1>2, <1>3
    <2>. QED
      BY <1>4, <2>1 DEF Abs
  <1>. QED
    BY <1>5 DEF G, M, GapToRest

-----------------------------------------------------------------------------
\* Rounding halves up favours what is above: a lesser gap below is not shown
\* as more than a greater one above, and the other way round it takes more.
LEMMA PercentMirrored ==
  ASSUME NEW n \in Nat, NEW m \in Nat, NEW d \in Nat \ {0}, NEW e \in Nat \ {0}
  PROVE  /\ n * e <= m * d => -Percent(-n, d) <= Percent(m, e)
         /\ n * e < m * d => Percent(n, d) <= -Percent(-m, e)
  <1>. DEFINE c == 200 * Unit
              p == n * e
              q == m * d
              de == d * e
  <1>1. c \in Nat \ {0} /\ p \in Nat /\ q \in Nat /\ de \in Nat \ {0}
    <2>1. c \in Nat \ {0}
      BY EngineAssumption
    <2>2. de \in Nat /\ de > 0
      OBVIOUS
    <2>. QED
      BY <2>1, <2>2
  <1>. HIDE DEF c
  <1>2. ASSUME NEW k \in Int, NEW f \in Nat \ {0}
        PROVE  /\ Percent(k, f) \in Int
               /\ 2 * (Percent(k, f) * f) <= c * k + f
               /\ c * k + f < 2 * (Percent(k, f) * f) + 2 * f
    BY PercentBounds DEF c
  <1>3. ASSUME p <= q PROVE -Percent(-n, d) <= Percent(m, e)
    <2>. DEFINE a == Percent(-n, d)
                b == Percent(m, e)
    <2>1. /\ a \in Int /\ b \in Int
          /\ c * (-n) + d < 2 * (a * d) + 2 * d
          /\ c * m + e < 2 * (b * e) + 2 * e
      <3>1. -n \in Int
        OBVIOUS
      <3>. QED
        BY <1>2, <3>1
    <2>. HIDE DEF a, b
    <2>2. -(c * p) + de < 2 * (a * de) + 2 * de
      <3>1. (c * (-n) + d) * e < (2 * (a * d) + 2 * d) * e
        BY <1>1, <2>1
      <3>2. (c * (-n) + d) * e = -(c * p) + de
        BY <1>1
      <3>3. (2 * (a * d) + 2 * d) * e = 2 * (a * de) + 2 * de
        BY <2>1
      <3>. QED
        BY <3>1, <3>2, <3>3
    <2>3. c * q + de < 2 * (b * de) + 2 * de
      <3>1. (c * m + e) * d < (2 * (b * e) + 2 * e) * d
        BY <1>1, <2>1
      <3>2. (c * m + e) * d = c * q + de
        BY <1>1
      <3>3. (2 * (b * e) + 2 * e) * d = 2 * (b * de) + 2 * de
        BY <2>1
      <3>. QED
        BY <3>1, <3>2, <3>3
    <2>. HIDE DEF p, q, de
    <2>4. c * p <= c * q /\ c * p \in Int /\ c * q \in Int
      BY <1>1, <1>3
    <2>5. a * de \in Int /\ b * de \in Int /\ a * de + b * de = (a + b) * de
      BY <1>1, <2>1
    <2>6. 0 < (a + b) * de + de
      BY <1>1, <2>2, <2>3, <2>4, <2>5
    <2>7. a + b >= 0
      BY <1>1, <2>1, <2>6
    <2>8. -a <= b
      BY <2>1, <2>7
    <2>. QED
      BY <2>8 DEF a, b
  <1>4. ASSUME p < q PROVE Percent(n, d) <= -Percent(-m, e)
    <2>. DEFINE a == Percent(n, d)
                b == Percent(-m, e)
    <2>1. /\ a \in Int /\ b \in Int
          /\ 2 * (a * d) <= c * n + d
          /\ 2 * (b * e) <= c * (-m) + e
      <3>1. -m \in Int
        OBVIOUS
      <3>. QED
        BY <1>2, <3>1
    <2>. HIDE DEF a, b
    <2>2. 2 * (a * de) <= c * p + de
      <3>1. (2 * (a * d)) * e <= (c * n + d) * e
        BY <1>1, <2>1
      <3>2. (c * n + d) * e = c * p + de
        BY <1>1
      <3>3. (2 * (a * d)) * e = 2 * (a * de)
        BY <2>1
      <3>. QED
        BY <3>1, <3>2, <3>3
    <2>3. 2 * (b * de) <= -(c * q) + de
      <3>1. (2 * (b * e)) * d <= (c * (-m) + e) * d
        BY <1>1, <2>1
      <3>2. (c * (-m) + e) * d = -(c * q) + de
        BY <1>1
      <3>3. (2 * (b * e)) * d = 2 * (b * de)
        BY <2>1
      <3>. QED
        BY <3>1, <3>2, <3>3
    <2>. HIDE DEF p, q, de
    <2>4. c * p < c * q /\ c * p \in Int /\ c * q \in Int
      BY <1>1, <1>4
    <2>5. a * de \in Int /\ b * de \in Int /\ a * de + b * de = (a + b) * de
      BY <1>1, <2>1
    <2>6. (a + b) * de < de
      BY <1>1, <2>2, <2>3, <2>4, <2>5
    <2>7. a + b < 1
      BY <1>1, <2>1, <2>6
    <2>8. a <= -b
      BY <2>1, <2>7
    <2>. QED
      BY <2>8 DEF a, b
  <1>. QED
    BY <1>3, <1>4

\* Where all values but one agree, the odd one is the farthest from the others.
LEMMA OddIsFarthest ==
  ASSUME NEW n \in Nat, n >= 3, NEW s, Rising(s, n), NEW p \in Nat \ {0}, NEW k \in 1 .. n,
         s[k] # p, \A j \in 1 .. n : j # k => s[j] = p, NEW i \in 1 .. n
  PROVE  Abs(GapToRest(s, n, i)) <= Abs(GapToRest(s, n, k))
  <1>. DEFINE m == n - 1
              mid == m \div 2
              q == s[k]
  <1>1. q \in Nat \ {0} /\ \A j \in 1 .. n : s[j] \in Nat \ {0}
    BY DEF Rising
  <1>2. k = 1 \/ k = n
    <2>1. SUFFICES ASSUME k # 1, k # n PROVE FALSE
      OBVIOUS
    <2>2. 1 \in 1 .. n /\ n \in 1 .. n /\ 1 <= k /\ k <= n
      OBVIOUS
    <2>3. s[1] = p /\ s[n] = p /\ s[1] <= q /\ q <= s[n]
      BY <2>1, <2>2 DEF Rising
    <2>. QED
      BY <1>1, <2>3
  <1>3. m \in Nat /\ m >= 2 /\ mid \in 1 .. m /\ mid + 1 \in 1 .. m
        /\ (m % 2 = 1 => mid + 1 >= 2 /\ mid + 1 <= m - 1)
    OBVIOUS
  <1>4. ASSUME NEW t \in 1 .. m, NEW j \in 1 .. n
        PROVE  /\ Beyond(j, t) \in 1 .. n /\ Beyond(j, t) # j
               /\ t >= 2 => Beyond(j, t) # 1
               /\ t <= m - 1 => Beyond(j, t) # n
    BY DEF Beyond
  <1>5. mid < mid + 1 /\ Beyond(i, mid) < Beyond(i, mid + 1)
    BY <1>3 DEF Beyond
  <1>. HIDE DEF mid
  <1>6. RestMedian(s, m, k) = 2 * p
    <2>1. s[Beyond(k, mid)] = p /\ s[Beyond(k, mid + 1)] = p
      BY <1>3, <1>4
    <2>2. RestMedian(s, m, k) = 2 * p \/ RestMedian(s, m, k) = p + p
      BY <2>1 DEF RestMedian, mid
    <2>. QED
      BY <2>2
  <1>7. RestMedian(s, m, i) = 2 * p \/ RestMedian(s, m, i) = p + q
    <2>1. CASE m % 2 = 1
      <3>1. Beyond(i, mid + 1) \in 1 .. n /\ Beyond(i, mid + 1) # k
        BY <1>2, <1>3, <1>4, <2>1
      <3>2. s[Beyond(i, mid + 1)] = p
        BY <3>1
      <3>3. RestMedian(s, m, i) = 2 * s[Beyond(i, mid + 1)]
        BY <2>1 DEF RestMedian, mid
      <3>. QED
        BY <3>2, <3>3
    <2>2. CASE m % 2 # 1
      <3>. DEFINE x == Beyond(i, mid)
                  y == Beyond(i, mid + 1)
      <3>1. x \in 1 .. n /\ y \in 1 .. n /\ x # y
        BY <1>3, <1>4, <1>5
      <3>2. RestMedian(s, m, i) = s[x] + s[y]
        BY <2>2 DEF RestMedian, mid
      <3>. HIDE DEF x, y
      <3>3. s[x] + s[y] = 2 * p \/ s[x] + s[y] = p + q
        BY <1>1, <3>1
      <3>. QED
        BY <3>2, <3>3
    <2>. QED
      BY <2>1, <2>2
  <1>8. GapToRest(s, n, k) = Percent(2 * q - 2 * p, 2 * p)
    BY <1>6 DEF GapToRest
  <1>9. 2 * q - 2 * p \in Int /\ 2 * p \in Nat \ {0} /\ p + q \in Nat \ {0} /\ q # p
    BY <1>1
  <1>10. CASE i = k
    <2>1. Abs(GapToRest(s, n, k)) \in Int
      BY <1>8, <1>9, PercentSign DEF Abs
    <2>. QED
      BY <1>10, <2>1
  <1>11. CASE i # k /\ RestMedian(s, m, i) = 2 * p
    <2>1. GapToRest(s, n, i) = Percent(0, 2 * p)
      <3>1. 2 * s[i] - 2 * p = 0
        BY <1>11
      <3>. QED
        BY <1>11, <3>1 DEF GapToRest
    <2>2. Percent(0, 2 * p) = 0
      <3>1. Percent(0, 2 * p) \in Int /\ Percent(0, 2 * p) >= 0 /\ Percent(0, 2 * p) <= 0
        BY <1>9, PercentSign
      <3>. QED
        BY <3>1
    <2>3. Percent(2 * q - 2 * p, 2 * p) \in Int
      BY <1>9, PercentSign
    <2>. QED
      BY <1>8, <2>1, <2>2, <2>3 DEF Abs
  <1>12. CASE i # k /\ RestMedian(s, m, i) = p + q
    <2>1. GapToRest(s, n, i) = Percent(p - q, p + q)
      <3>1. 2 * s[i] - (p + q) = p - q
        BY <1>1, <1>12
      <3>. QED
        BY <1>12, <3>1 DEF GapToRest
    <2>. HIDE DEF q
    <2>2. CASE q > p
      <3>. DEFINE a == q - p
                  b == 2 * q - 2 * p
      <3>1. a \in Nat /\ b \in Nat /\ p - q = -a
        BY <1>1, <2>2
      <3>2. a * (2 * p) <= b * (p + q)
        <4>1. b * (p + q) = a * (2 * p) + 2 * (a * q)
          BY <1>1
        <4>2. a * (2 * p) \in Int /\ a * q \in Nat
          BY <1>1, <3>1
        <4>. QED
          BY <4>1, <4>2
      <3>. HIDE DEF a, b
      <3>3. -Percent(-a, p + q) <= Percent(b, 2 * p)
        BY <1>9, <3>1, <3>2, PercentMirrored
      <3>4. Percent(-a, p + q) \in Int /\ Percent(-a, p + q) <= 0
        <4>1. -a \in Int /\ -a <= 0
          BY <3>1
        <4>. QED
          BY <1>9, <4>1, PercentSign
      <3>5. Percent(b, 2 * p) \in Int /\ Percent(b, 2 * p) >= 0
        <4>1. b \in Int /\ b >= 0
          BY <3>1
        <4>. QED
          BY <1>9, <4>1, PercentSign
      <3>6. Abs(Percent(-a, p + q)) <= Abs(Percent(b, 2 * p))
        BY <3>3, <3>4, <3>5 DEF Abs
      <3>. QED
        BY <1>8, <2>1, <3>1, <3>6 DEF b
    <2>3. CASE q < p
      <3>. DEFINE a == p - q
                  b == 2 * p - 2 * q
      <3>1. a \in Nat \ {0} /\ b \in Nat /\ 2 * q - 2 * p = -b
        BY <1>1, <2>3
      <3>2. a * (2 * p) < b * (p + q)
        <4>1. b * (p + q) = a * (2 * p) + 2 * (a * q)
          BY <1>1
        <4>2. a * (2 * p) \in Int /\ a * q \in Nat /\ a * q > 0
          BY <1>1, <3>1
        <4>. QED
          BY <4>1, <4>2
      <3>. HIDE DEF a, b
      <3>3. Percent(a, p + q) <= -Percent(-b, 2 * p)
        BY <1>9, <3>1, <3>2, PercentMirrored
      <3>4. Percent(-b, 2 * p) \in Int /\ Percent(-b, 2 * p) <= 0
        <4>1. -b \in Int /\ -b <= 0
          BY <3>1
        <4>. QED
          BY <1>9, <4>1, PercentSign
      <3>5. Percent(a, p + q) \in Int /\ Percent(a, p + q) >= 0
        <4>1. a \in Int /\ a >= 0
          BY <3>1
        <4>. QED
          BY <1>9, <4>1, PercentSign
      <3>6. Abs(Percent(a, p + q)) <= Abs(Percent(-b, 2 * p))
        BY <3>3, <3>4, <3>5 DEF Abs
      <3>. QED
        BY <1>8, <2>1, <3>1, <3>6 DEF a
    <2>. QED
      BY <1>1, <1>9, <2>2, <2>3
  <1>. QED
    BY <1>7, <1>10, <1>11, <1>12

\* Any members can be listed with the farthest first, equals by their number.
LEMMA RankingExists ==
  ASSUME NEW n \in Nat, NEW T \in SUBSET (1 .. n), NEW far, \A k \in T : far[k] \in Int
  PROVE  \E f \in Orders(T) : \A i, j \in DOMAIN f :
           i < j => \/ far[f[i]] > far[f[j]]
                    \/ far[f[i]] = far[f[j]] /\ f[i] < f[j]
  <1>. DEFINE value == [k \in T |-> k - far[k] * (n + 1)]
  <1>1. IsFiniteSet(T)
    <2>1. 1 \in Int /\ n \in Int
      OBVIOUS
    <2>2. IsFiniteSet(1 .. n)
      BY <2>1, FS_Interval
    <2>. QED
      BY <2>2, FS_Subset
  <1>2. \A k \in T : value[k] \in Int
    OBVIOUS
  <1>3. PICK f \in Orders(T) : Ascends(f, value)
    <2>. HIDE DEF value
    <2>. QED
      BY <1>1, <1>2, OrderExists
  <1>4. /\ f \in [1 .. Cardinality(T) -> T]
        /\ \A j, k \in 1 .. Cardinality(T) : f[j] = f[k] => j = k
    BY <1>1, OrderRepeatsNone
  <1>5. ASSUME NEW i \in DOMAIN f, NEW j \in DOMAIN f, i < j
        PROVE  far[f[i]] > far[f[j]] \/ (far[f[i]] = far[f[j]] /\ f[i] < f[j])
    <2>. DEFINE x == f[i]
                y == f[j]
                a == far[x]
                b == far[y]
    <2>1. x \in T /\ y \in T /\ x # y
      <3>1. Cardinality(T) \in Nat
        BY <1>1, FS_CardinalityType
      <3>. QED
        BY <1>4, <1>5, <3>1
    <2>2. x \in 1 .. n /\ y \in 1 .. n /\ a \in Int /\ b \in Int
      BY <2>1
    <2>3. value[x] <= value[y]
      <3>1. Cardinality(T) \in Nat
        BY <1>1, FS_CardinalityType
      <3>2. i <= j
        BY <1>4, <1>5, <3>1
      <3>. HIDE DEF value
      <3>. QED
        BY <1>3, <1>4, <3>2 DEF Ascends
    <2>4. value[x] = x - a * (n + 1) /\ value[y] = y - b * (n + 1)
      BY <2>1
    <2>. HIDE DEF x, y, a, b, value
    <2>5. x - y <= (a - b) * (n + 1)
      <3>1. a * (n + 1) \in Int /\ b * (n + 1) \in Int
            /\ (a - b) * (n + 1) = a * (n + 1) - b * (n + 1)
        BY <2>2
      <3>. QED
        BY <2>2, <2>3, <2>4, <3>1
    <2>6. a >= b
      <3>1. SUFFICES ASSUME a < b PROVE FALSE
        BY <2>2
      <3>2. (a - b) * (n + 1) <= -(n + 1)
        BY <2>2, <3>1
      <3>3. (a - b) * (n + 1) \in Int
        BY <2>2
      <3>. QED
        BY <2>2, <2>5, <3>2, <3>3
    <2>7. a = b => x < y
      <3>1. SUFFICES ASSUME a = b PROVE x < y
        OBVIOUS
      <3>2. (a - b) * (n + 1) = 0
        BY <2>2, <3>1
      <3>. QED
        BY <2>1, <2>2, <2>5, <3>2
    <2>8. a > b \/ (a = b /\ x < y)
      BY <2>2, <2>6, <2>7
    <2>. QED
      BY <2>8 DEF a, b, x, y
  <1>. QED
    BY <1>3, <1>5

\* The wrappers a review still has, of a reading as the normalisation leaves it.
Stored(r, kept) == DOMAIN r.tokens \cap kept

Reviewed(r, kept) == r \in Reading /\ Normalised(r) /\ kept \subseteq Observed(r)

LEMMA ReviewedInputs ==
  ASSUME NEW r, NEW kept, Reviewed(r, kept)
  PROVE  /\ IsFiniteSet(Stored(r, kept)) /\ Len(r.tokens) \in Nat
         /\ Stored(r, kept) \in SUBSET (1 .. Len(r.tokens))
         /\ \A k \in Stored(r, kept) : /\ k \in DOMAIN r.tokens
                                       /\ r.tokens[k].price \in Nat \ {0}
                                       /\ Prices(r)[k] = r.tokens[k].price
                                       /\ Prices(r)[k] \in Int
                                       /\ r.tokens[k].currency = "USD"
  <1>1. r \in Reading /\ Normalised(r)
    BY DEF Reviewed
  <1>2. /\ Len(r.tokens) \in Nat /\ DOMAIN r.tokens = 1 .. Len(r.tokens)
        /\ \A k \in DOMAIN r.tokens : r.tokens[k].price \in Nat \ {0} /\ r.tokens[k].currency = "USD"
    BY <1>1, Inputs DEF Normalised
  <1>3. IsFiniteSet(1 .. Len(r.tokens))
    BY <1>2, FS_Interval
  <1>4. IsFiniteSet(Stored(r, kept)) /\ Stored(r, kept) \in SUBSET (1 .. Len(r.tokens))
    BY <1>2, <1>3, FS_Subset DEF Stored
  <1>5. \A k \in DOMAIN r.tokens : Prices(r)[k] = r.tokens[k].price
    BY DEF Prices
  <1>. QED
    BY <1>2, <1>4, <1>5 DEF Stored

LEMMA PeersAre ==
  ASSUME NEW r, NEW kept, Reviewed(r, kept), NEW k \in Stored(r, kept)
  PROVE  Peers(r, kept, k) = Sorted(Stored(r, kept) \ {k}, Prices(r))
  <1>1. \A j \in Stored(r, kept) : r.tokens[j].currency = "USD"
    BY ReviewedInputs
  <1>2. {j \in DOMAIN r.tokens \cap (kept \ {k}) : r.tokens[j].currency = r.tokens[k].currency}
          = Stored(r, kept) \ {k}
    BY <1>1 DEF Stored
  <1>. QED
    BY <1>2 DEF Peers

\* The distances a review shows are those of the sorted prices.
Ladder(r, f, n) == [t \in 1 .. n |-> Prices(r)[f[t]]]

LEMMA PeerGapsAre ==
  ASSUME NEW r, NEW kept, Reviewed(r, kept), Cardinality(Stored(r, kept)) >= 2,
         NEW f \in Orders(Stored(r, kept)), Ascends(f, Prices(r))
  PROVE  LET n == Cardinality(Stored(r, kept))
             s == Ladder(r, f, n)
         IN /\ Rising(s, n)
            /\ \A i \in 1 .. n : Distance(r, kept, f[i]) = Abs(GapToRest(s, n, i))
  <1>. DEFINE T == Stored(r, kept)
              n == Cardinality(T)
              s == Ladder(r, f, n)
              value == Prices(r)
  <1>1. /\ IsFiniteSet(T) /\ \A k \in T : /\ r.tokens[k].price \in Nat \ {0}
                                          /\ value[k] = r.tokens[k].price
                                          /\ value[k] \in Int
    BY ReviewedInputs
  <1>2. f \in Orders(T) /\ Ascends(f, value) /\ n >= 2
    OBVIOUS
  <1>3. n \in Nat /\ f \in [1 .. n -> T]
    BY <1>1, OrderRepeatsNone
  <1>4. Rising(s, n)
    <2>1. \A t \in 1 .. n : s[t] = value[f[t]] /\ s[t] \in Nat \ {0}
      BY <1>1, <1>3 DEF Ladder
    <2>2. s \in [1 .. n -> Nat \ {0}]
      BY <2>1 DEF Ladder
    <2>. HIDE DEF s, value, n
    <2>3. ASSUME NEW j \in 1 .. n, NEW k \in 1 .. n, j <= k PROVE s[j] <= s[k]
      <3>1. value[f[j]] <= value[f[k]]
        BY <1>2, <1>3, <2>3 DEF Ascends
      <3>. QED
        BY <2>1, <3>1
    <2>. QED
      BY <2>2, <2>3 DEF Rising
  <1>5. ASSUME NEW i \in 1 .. n PROVE Distance(r, kept, f[i]) = Abs(GapToRest(s, n, i))
    <2>1. f[i] \in T /\ s[i] = r.tokens[f[i]].price
      BY <1>1, <1>3 DEF Ladder
    <2>2. Peers(r, kept, f[i]) = Sorted(T \ {f[i]}, value)
      BY <2>1, PeersAre
    <2>. DEFINE peers == Sorted(T \ {f[i]}, value)
    <2>3. peers # <<>> /\ TwiceMedian(peers) = RestMedian(s, n - 1, i)
      <3>1. s = [t \in 1 .. n |-> value[f[t]]]
        BY DEF Ladder
      <3>2. \A x \in T : value[x] \in Int
        BY <1>1
      <3>. HIDE DEF T, value, s
      <3>3. HasMedian(Sorted(T \ {f[i]}, value),
                      RestMedian([t \in 1 .. n |-> value[f[t]]], n - 1, i))
        BY <1>1, <1>2, <3>2, RestMedianIs
      <3>. QED
        BY <3>1, <3>3 DEF HasMedian
    <2>. HIDE DEF peers
    <2>4. PeerGap(r, kept, f[i])
            = Percent(2 * r.tokens[f[i]].price - RestMedian(s, n - 1, i), RestMedian(s, n - 1, i))
      BY <2>2, <2>3 DEF PeerGap, peers
    <2>. QED
      BY <2>1, <2>4 DEF Distance, GapToRest
  <1>. QED
    BY <1>4, <1>5

\* Alone, a wrapper is nowhere.
LEMMA NoPeers ==
  ASSUME NEW r, NEW kept, Reviewed(r, kept), NEW k, Stored(r, kept) = {k}
  PROVE  Distance(r, kept, k) = 0
  <1>1. Peers(r, kept, k) = Sorted({}, Prices(r))
    BY PeersAre
  <1>2. IsFiniteSet({}) /\ Cardinality({}) = 0
    BY FS_EmptySet
  <1>3. Sorted({}, Prices(r)) \in Seq(Int) /\ Len(Sorted({}, Prices(r))) = 0
    BY <1>2, SortedValues
  <1>4. Peers(r, kept, k) = <<>>
    BY <1>1, <1>3
  <1>. QED
    BY <1>4 DEF Distance, PeerGap, Abs

LEMMA DistanceIsNumber ==
  ASSUME NEW r, NEW kept, Reviewed(r, kept), NEW k \in Stored(r, kept)
  PROVE  Distance(r, kept, k) \in Nat
  <1>. DEFINE T == Stored(r, kept)
              n == Cardinality(T)
  <1>1. IsFiniteSet(T) /\ \A j \in T : Prices(r)[j] \in Int
    BY ReviewedInputs
  <1>2. n \in Nat /\ n # 0
    BY <1>1, FS_CardinalityType, FS_EmptySet
  <1>3. CASE n = 1
    <2>1. T = {k}
      BY <1>1, <1>3, FS_Singleton
    <2>. QED
      BY <2>1, NoPeers
  <1>4. CASE n >= 2
    <2>1. PICK f \in Orders(T) : Ascends(f, Prices(r))
      BY <1>1, OrderExists
    <2>. DEFINE s == Ladder(r, f, n)
    <2>2. Rising(s, n) /\ \A i \in 1 .. n : Distance(r, kept, f[i]) = Abs(GapToRest(s, n, i))
      BY <1>4, <2>1, PeerGapsAre
    <2>3. PICK i \in 1 .. n : f[i] = k
      BY <1>1, <2>1, OrderRepeatsNone
    <2>. HIDE DEF n, s
    <2>4. Abs(GapToRest(s, n, i)) \in Nat
      BY <1>2, <1>4, <2>2, FarthestAtTheEnds
    <2>. QED
      BY <2>2, <2>3, <2>4
  <1>. QED
    BY <1>2, <1>3, <1>4

\* The ranking lists what is stored, and no distance exceeds the first one.
LEMMA RankingIs ==
  ASSUME NEW r, NEW kept, Reviewed(r, kept)
  PROVE  /\ Range(Ranking(r, kept)) = Stored(r, kept)
         /\ Stored(r, kept) # {} =>
              /\ Ranking(r, kept)[1] \in Stored(r, kept)
              /\ \A k \in Stored(r, kept) :
                   Distance(r, kept, k) <= Distance(r, kept, Ranking(r, kept)[1])
  <1>. DEFINE T == Stored(r, kept)
              n == Cardinality(T)
              far == [k \in T |-> Distance(r, kept, k)]
              Ranked(f) == \A i, j \in DOMAIN f :
                             i < j => \/ far[f[i]] > far[f[j]]
                                      \/ far[f[i]] = far[f[j]] /\ f[i] < f[j]
              f == Ranking(r, kept)
  <1>1. IsFiniteSet(T) /\ Len(r.tokens) \in Nat /\ T \in SUBSET (1 .. Len(r.tokens))
    BY ReviewedInputs
  <1>2. \A k \in T : far[k] = Distance(r, kept, k) /\ far[k] \in Nat
    BY DistanceIsNumber
  <1>3. f = CHOOSE g \in Orders(T) : Ranked(g)
    BY DEF Ranking, Stored
  <1>. HIDE DEF f, far
  <1>4. \E g \in Orders(T) : Ranked(g)
    <2>1. \A k \in T : far[k] \in Int
      BY <1>2
    <2>. HIDE DEF T
    <2>2. \E g \in Orders(T) : \A i, j \in DOMAIN g :
            i < j => \/ far[g[i]] > far[g[j]]
                     \/ far[g[i]] = far[g[j]] /\ g[i] < g[j]
      BY <1>1, <2>1, RankingExists
    <2>. QED
      BY <2>2
  <1>5. f \in Orders(T) /\ Ranked(f)
    <2>. HIDE DEF Ranked
    <2>. QED
      BY <1>3, <1>4
  <1>6. n \in Nat /\ f \in [1 .. n -> T] /\ \A x \in T : \E k \in 1 .. n : f[k] = x
    BY <1>1, <1>5, OrderRepeatsNone
  <1>7. Range(f) = T
    BY <1>6 DEF Range
  <1>8. ASSUME NEW k \in T PROVE f[1] \in T /\ far[k] <= far[f[1]]
    <2>. HIDE DEF n, T
    <2>1. PICK i \in 1 .. n : f[i] = k
      BY <1>6
    <2>2. 1 \in 1 .. n /\ (i = 1 \/ 1 < i)
      BY <1>6
    <2>3. f[1] \in T
      BY <1>6, <2>2
    <2>4. i # 1 => far[f[1]] > far[k] \/ far[f[1]] = far[k]
      BY <1>5, <1>6, <2>1, <2>2
    <2>. QED
      BY <1>2, <2>1, <2>3, <2>4
  <1>9. \A k \in T : f[1] \in T /\ Distance(r, kept, k) <= Distance(r, kept, f[1])
    BY <1>2, <1>8
  <1>. QED
    BY <1>7, <1>9 DEF f

\* The gaps a review shows are measured; with a conclusion it shows all.
LEMMA GapsShown ==
  ASSUME NEW r, NEW kept, Reviewed(r, kept), NEW age, NEW sameMode \in BOOLEAN
  PROVE  LET review == Review(r, kept, age, sameMode)
         IN /\ review.gapped \subseteq Measured(r)
            /\ review.disposition # "refresh_evidence" =>
                 /\ review.gapped = Measured(r) /\ sameMode
                 /\ Evaluate(r).classification = "price_difference" => r.market = "closed"
  <1>. DEFINE review == Review(r, kept, age, sameMode)
              ref == r.reference
  <1>1. review.gapped = {k \in Stored(r, kept) : Ref \in kept /\ r.tokens[k].currency = ref.currency}
    BY RankingIs DEF Review
  <1>2. /\ r \in Reading /\ kept \subseteq Observed(r) /\ (ref = NoReference \/ ref.price > 0)
        /\ \A k \in DOMAIN r.tokens : r.tokens[k].price > 0
    BY DEF Reviewed, Normalised
  <1>3. DOMAIN r.tokens \subseteq Nat \ {0}
    BY <1>2, Inputs
  <1>4. Ref \in kept => ref # NoReference /\ ref.price > 0
    BY <1>2, <1>3 DEF Observed, Ref
  <1>5. Measured(r) = {k \in DOMAIN r.tokens : /\ ref # NoReference /\ ref.price > 0
                                               /\ r.tokens[k].currency = ref.currency}
    BY <1>2 DEF Measured, Priced
  <1>6. review.gapped \subseteq Measured(r)
    BY <1>1, <1>4, <1>5 DEF Stored
  <1>7. ASSUME review.disposition # "refresh_evidence"
        PROVE  /\ review.gapped = Measured(r) /\ sameMode
               /\ Evaluate(r).classification = "price_difference" => r.market = "closed"
    <2>1. ~Blocked(r, kept, age, sameMode)
      BY <1>7 DEF Review
    <2>2. kept = Observed(r) /\ Ref \in kept /\ AggregateFreshness(r) = "fresh" /\ sameMode
      BY <2>1 DEF Blocked
    <2>3. Stored(r, kept) = DOMAIN r.tokens
      BY <2>2 DEF Stored, Observed
    <2>4. review.gapped = Measured(r)
      BY <1>1, <1>4, <1>5, <2>2, <2>3
    <2>5. ASSUME Evaluate(r).classification = "price_difference", r.market # "closed" PROVE FALSE
      <3>1. ref # NoReference
        BY <1>4, <2>2
      <3>2. CASE Measured(r) = {}
        <4>1. ReferenceState(r) = "incomparable"
          BY <3>1, <3>2 DEF ReferenceState
        <4>2. DetectAnomaly(r) = NoAnomaly
          BY <4>1 DEF DetectAnomaly, Incomparable
        <4>. QED
          BY <2>5, <4>2 DEF Evaluate, NoAnomaly
      <3>3. CASE Measured(r) # {}
        <4>1. ReferenceState(r) = "fresh"
          BY <2>2, <2>5, <3>1, <3>3 DEF ReferenceState
        <4>. QED
          BY <2>5, <4>1 DEF Evaluate
      <3>. QED
        BY <3>2, <3>3
    <2>. QED
      BY <2>2, <2>4, <2>5
  <1>. QED
    BY <1>6, <1>7

\* The first is as far from its peers as the cheapest or the dearest is.
LEMMA FirstIsExtreme ==
  ASSUME NEW r, NEW kept, Reviewed(r, kept), Stored(r, kept) # {}
  PROVE  \E k \in Stored(r, kept) :
           /\ Distance(r, kept, k) = Distance(r, kept, Ranking(r, kept)[1])
           /\ \/ \A j \in Stored(r, kept) : r.tokens[k].price <= r.tokens[j].price
              \/ \A j \in Stored(r, kept) : r.tokens[k].price >= r.tokens[j].price
  <1>. DEFINE T == Stored(r, kept)
              n == Cardinality(T)
              first == Ranking(r, kept)[1]
              D(k) == Distance(r, kept, k)
  <1>1. /\ IsFiniteSet(T)
        /\ \A k \in T : /\ r.tokens[k].price \in Nat \ {0} /\ Prices(r)[k] = r.tokens[k].price
                        /\ Prices(r)[k] \in Int
    BY ReviewedInputs
  <1>2. first \in T /\ \A k \in T : D(k) <= D(first)
    BY RankingIs
  <1>3. \A k \in T : D(k) \in Nat
    BY DistanceIsNumber
  <1>4. n \in Nat /\ n # 0
    BY <1>1, FS_CardinalityType, FS_EmptySet
  <1>5. CASE n = 1
    <2>1. T = {first}
      BY <1>1, <1>2, <1>5, FS_Singleton
    <2>2. \A j \in T : r.tokens[first].price <= r.tokens[j].price
      BY <1>1, <2>1
    <2>. QED
      BY <1>2, <2>2
  <1>6. CASE n >= 2
    <2>1. PICK f \in Orders(T) : Ascends(f, Prices(r))
      BY <1>1, OrderExists
    <2>. DEFINE s == Ladder(r, f, n)
    <2>2. Rising(s, n) /\ \A i \in 1 .. n : D(f[i]) = Abs(GapToRest(s, n, i))
      BY <1>6, <2>1, PeerGapsAre
    <2>3. f \in [1 .. n -> T] /\ \A x \in T : \E i \in 1 .. n : f[i] = x
      BY <1>1, <2>1, OrderRepeatsNone
    <2>4. PICK i \in 1 .. n : f[i] = first
      BY <1>2, <2>3
    <2>. HIDE DEF n, s, T
    <2>5. 1 \in 1 .. n /\ n \in 1 .. n
      BY <1>4
    <2>6. D(first) <= D(f[1]) \/ D(first) <= D(f[n])
      <3>1. \/ Abs(GapToRest(s, n, i)) <= Abs(GapToRest(s, n, 1))
            \/ Abs(GapToRest(s, n, i)) <= Abs(GapToRest(s, n, n))
        BY <1>4, <1>6, <2>2, FarthestAtTheEnds
      <3>. HIDE DEF D
      <3>. QED
        BY <2>2, <2>4, <2>5, <3>1
    <2>7. f[1] \in T /\ f[n] \in T
      BY <2>3, <2>5
    <2>8. ASSUME NEW j \in T
          PROVE  r.tokens[f[1]].price <= r.tokens[j].price /\ r.tokens[f[n]].price >= r.tokens[j].price
      <3>1. PICK t \in 1 .. n : f[t] = j
        BY <2>3
      <3>2. 1 <= t /\ t <= n
        BY <1>4
      <3>3. Prices(r)[f[1]] <= Prices(r)[f[t]] /\ Prices(r)[f[t]] <= Prices(r)[f[n]]
        BY <2>1, <2>3, <2>5, <3>2 DEF Ascends
      <3>4. Prices(r)[f[1]] = r.tokens[f[1]].price /\ Prices(r)[f[n]] = r.tokens[f[n]].price
            /\ Prices(r)[j] = r.tokens[j].price
        BY <1>1, <2>7
      <3>5. r.tokens[f[1]].price \in Nat /\ r.tokens[f[n]].price \in Nat /\ r.tokens[j].price \in Nat
        BY <1>1, <2>7
      <3>. QED
        BY <3>1, <3>3, <3>4, <3>5
    <2>9. D(f[1]) = D(first) \/ D(f[n]) = D(first)
      <3>1. D(f[1]) <= D(first) /\ D(f[n]) <= D(first) /\ D(first) \in Nat
            /\ D(f[1]) \in Nat /\ D(f[n]) \in Nat
        BY <1>2, <1>3, <2>7
      <3>. HIDE DEF D
      <3>. QED
        BY <2>6, <3>1
    <2>. QED
      BY <2>7, <2>8, <2>9 DEF T
  <1>. QED
    BY <1>4, <1>5, <1>6

\* Where all wrappers but one agree, the first is as far as the odd one is.
LEMMA OddIsFirst ==
  ASSUME NEW r, NEW kept, Reviewed(r, kept), Cardinality(Stored(r, kept)) > 2,
         NEW k \in Stored(r, kept),
         \A i, j \in Stored(r, kept) \ {k} : r.tokens[i].price = r.tokens[j].price,
         \A j \in Stored(r, kept) \ {k} : r.tokens[j].price # r.tokens[k].price
  PROVE  Distance(r, kept, k) = Distance(r, kept, Ranking(r, kept)[1])
  <1>. DEFINE T == Stored(r, kept)
              n == Cardinality(T)
              first == Ranking(r, kept)[1]
              D(x) == Distance(r, kept, x)
              price(x) == r.tokens[x].price
  <1>1. /\ IsFiniteSet(T)
        /\ \A x \in T : price(x) \in Nat \ {0} /\ Prices(r)[x] = price(x) /\ Prices(r)[x] \in Int
    BY ReviewedInputs
  <1>2. n \in Nat /\ n >= 3 /\ T # {}
    BY <1>1, FS_CardinalityType
  <1>3. first \in T /\ \A x \in T : D(x) <= D(first)
    BY RankingIs
  <1>4. \A x \in T : D(x) \in Nat
    BY DistanceIsNumber
  <1>5. PICK f \in Orders(T) : Ascends(f, Prices(r))
    BY <1>1, OrderExists
  <1>. DEFINE s == Ladder(r, f, n)
  <1>6. Rising(s, n) /\ \A i \in 1 .. n : D(f[i]) = Abs(GapToRest(s, n, i))
    BY <1>2, <1>5, PeerGapsAre
  <1>7. /\ f \in [1 .. n -> T] /\ \A x \in T : \E i \in 1 .. n : f[i] = x
        /\ \A i, j \in 1 .. n : f[i] = f[j] => i = j
    BY <1>1, <1>5, OrderRepeatsNone
  <1>8. PICK o \in 1 .. n : f[o] = k
    BY <1>7
  <1>9. PICK l \in 1 .. n : f[l] = first
    BY <1>3, <1>7
  <1>10. \A i \in 1 .. n : s[i] = price(f[i])
    BY <1>1, <1>7 DEF Ladder
  <1>11. \A i, j \in T \ {k} : price(i) = price(j)
    OBVIOUS
  <1>12. \A j \in T \ {k} : price(j) # price(k)
    OBVIOUS
  <1>. HIDE DEF n, s, T
  <1>13. PICK a \in 1 .. n : a # o
    <2>1. 1 \in 1 .. n /\ 2 \in 1 .. n
      BY <1>2
    <2>. QED
      BY <2>1
  <1>14. \A i \in 1 .. n : i # o => f[i] \in T \ {k}
    BY <1>7, <1>8
  <1>. DEFINE p == price(f[a])
  <1>15. /\ \A i \in 1 .. n : i # o => s[i] = p
         /\ s[o] # p
    <2>. HIDE DEF price
    <2>1. f[a] \in T \ {k}
      BY <1>13, <1>14
    <2>2. ASSUME NEW i \in 1 .. n, i # o PROVE s[i] = p
      BY <1>10, <1>11, <1>14, <2>1, <2>2
    <2>3. s[o] # p
      BY <1>8, <1>10, <1>12, <2>1
    <2>. QED
      BY <2>2, <2>3
  <1>16. p \in Nat \ {0}
    <2>1. f[a] \in T
      BY <1>13, <1>14
    <2>. QED
      BY <1>1, <2>1
  <1>. HIDE DEF p
  <1>17. Abs(GapToRest(s, n, l)) <= Abs(GapToRest(s, n, o))
    BY <1>2, <1>6, <1>15, <1>16, OddIsFarthest
  <1>18. D(first) <= D(k)
    <2>. HIDE DEF D
    <2>. QED
      BY <1>6, <1>8, <1>9, <1>17
  <1>19. k \in T /\ D(k) <= D(first) /\ D(k) \in Nat /\ D(first) \in Nat
    BY <1>3, <1>4 DEF T
  <1>20. D(k) = D(first)
    <2>. HIDE DEF D
    <2>. QED
      BY <1>18, <1>19
  <1>. QED
    BY <1>20

\* For any wrappers at any prices, whatever part of the evidence is left and
\* at any age: the review shows measured gaps only, concludes from complete
\* evidence only, and lists first one that shows the distance of an extreme.
THEOREM ReviewFindsOutlier == Spec => []ReviewNamesOutlier
  <1>1. EngineInv => ReviewNamesOutlier
    <2>1. SUFFICES ASSUME EngineInv, Normalised(reading),
                          NEW kept \in SUBSET Observed(reading), NEW age \in ReviewAges,
                          NEW sameMode \in BOOLEAN
                   PROVE  LET review == Review(reading, kept, age, sameMode)
                              shown  == Range(review.ranked)
                              price(k) == reading.tokens[k].price
                              asFar(k) == Distance(reading, kept, k) = Distance(reading, kept, review.ranked[1])
                          IN /\ review.gapped \subseteq Measured(reading)
                             /\ review.disposition # "refresh_evidence" =>
                                  /\ review.gapped = Measured(reading) /\ sameMode
                                  /\ evaluation.classification = "price_difference"
                                       => reading.market = "closed"
                             /\ shown # {} =>
                                  \E k \in shown : /\ asFar(k)
                                                   /\ \/ \A j \in shown : price(k) <= price(j)
                                                      \/ \A j \in shown : price(k) >= price(j)
                             /\ Cardinality(shown) > 2 =>
                                  \A k \in shown :
                                    (/\ \A i, j \in shown \ {k} : price(i) = price(j)
                                     /\ \A j \in shown \ {k} : price(j) # price(k)) => asFar(k)
      BY DEF ReviewNamesOutlier
    <2>. DEFINE review == Review(reading, kept, age, sameMode)
                T == Stored(reading, kept)
    <2>2. Reviewed(reading, kept) /\ evaluation = Evaluate(reading)
      BY <2>1 DEF Reviewed, EngineInv
    <2>3. review.ranked = Ranking(reading, kept) /\ Range(review.ranked) = T
      BY <2>2, RankingIs DEF Review
    <2>4. /\ review.gapped \subseteq Measured(reading)
          /\ review.disposition # "refresh_evidence" =>
               /\ review.gapped = Measured(reading) /\ sameMode
               /\ evaluation.classification = "price_difference" => reading.market = "closed"
      BY <2>2, GapsShown
    <2>5. T # {} =>
            \E k \in T : /\ Distance(reading, kept, k) = Distance(reading, kept, review.ranked[1])
                         /\ \/ \A j \in T : reading.tokens[k].price <= reading.tokens[j].price
                            \/ \A j \in T : reading.tokens[k].price >= reading.tokens[j].price
      BY <2>2, <2>3, FirstIsExtreme
    <2>6. ASSUME Cardinality(T) > 2, NEW k \in T,
                 \A i, j \in T \ {k} : reading.tokens[i].price = reading.tokens[j].price,
                 \A j \in T \ {k} : reading.tokens[j].price # reading.tokens[k].price
          PROVE  Distance(reading, kept, k) = Distance(reading, kept, review.ranked[1])
      BY <2>2, <2>3, <2>6, OddIsFirst
    <2>. HIDE DEF T, review
    <2>. QED
      BY <2>3, <2>4, <2>5, <2>6 DEF review
  <1>. QED
    BY EngineBegins, EngineStep, <1>1, PTL DEF Spec
=============================================================================

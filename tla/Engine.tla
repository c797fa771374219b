------------------------------- MODULE Engine -------------------------------
(***************************************************************************)
(* The integrity engine: evaluateAsset (packages/core/src/engine.ts) and   *)
(* the measurements it is made of (parity, dispersion, freshness, anomaly, *)
(* quality).  It keeps no state; the behaviours here are the evaluations   *)
(* of one asset by successive scans, between which one input changes, so   *)
(* that a property can compare an evaluation with the one before it.       *)
(*                                                                         *)
(* Prices are whole numbers and a percentage is counted in 1/Unit percent: *)
(* an exact quotient rounded the way roundForHash rounds, where the code   *)
(* has a double.  A price that is not finite stands with those not above 0.*)
(***************************************************************************)
EXTENDS Domain, Sequences, FiniteSets

CONSTANTS
  Tokens,        \* token observations: price, currency, source
  References,    \* reference observations: price, currency, age (NoReference too)
  Markets,       \* what underlyingMarketState may say
  Pairs,         \* the source's market-pairs capability: yes, no, unknown
  Priors,        \* confirmations of the open event
  MaxTokens,     \* bound: wrappers of the asset
  Unit,          \* parts of a percent kept by roundForHash
  Thresholds,    \* info, watch, high, critical
  FreshSeconds, AgingSeconds

ASSUME EngineAssumption ==
  /\ Unit \in Nat \ {0} /\ MaxTokens \in Nat
  /\ FreshSeconds \in Nat \ {0} /\ AgingSeconds \in Nat \ {0}
  /\ 0 < Thresholds.info                    /\ Thresholds.info < Thresholds.watch
  /\ Thresholds.watch < Thresholds.high     /\ Thresholds.high < Thresholds.critical

ASSUME InputsAssumption ==
  /\ \A t \in Tokens : t.price \in Int
  /\ \A f \in References : f \in [price : Int, currency : {f.currency}, age : Int]
  /\ \A band \in {"info", "watch", "high", "critical"} : Thresholds[band] \in Nat
  /\ Priors \subseteq Nat

VARIABLES
  reading,     \* the inputs of the last evaluation
  evaluation   \* what it returned

vars == <<reading, evaluation>>

NoReference == [price |-> 0, currency |-> "none", age |-> 0]

-----------------------------------------------------------------------------
\* 100 n / d percent, rounded like Math.round: halves go up.
Percent(n, d) == (200 * Unit * n + d) \div (2 * d)

Priced(t, currency) == t.currency = currency /\ t.price > 0

\* The tokens measureGaps measures: none without a usable reference.
Measured(r) ==
  {k \in DOMAIN r.tokens : /\ r.reference # NoReference
                           /\ r.reference.price > 0
                           /\ Priced(r.tokens[k], r.reference.currency)}

Gap(r, k) ==
  Percent(r.tokens[k].price - r.reference.price, r.reference.price)

\* The members of a set, each in one place.
Orders(S) == {f \in [1 .. Cardinality(S) -> S] : \A x \in S : \E k \in DOMAIN f : f[k] = x}

\* Mutant of Sorted: the values in the order they were listed.
Unsorted(S, value) ==
  LET f == CHOOSE f \in Orders(S) : \A j, k \in DOMAIN f : j <= k => f[j] <= f[k]
  IN [k \in DOMAIN f |-> value[f[k]]]

\* Array.sort: the values of the members of S, in ascending order.
Sorted(S, value) ==
  LET f == CHOOSE f \in Orders(S) : \A j, k \in DOMAIN f : j <= k => value[f[j]] <= value[f[k]]
  IN [k \in DOMAIN f |-> value[f[k]]]

Prices(r) == [k \in DOMAIN r.tokens |-> r.tokens[k].price]

\* Twice the median of a sorted sequence.
TwiceMedian(s) ==
  LET mid == Len(s) \div 2
  IN IF Len(s) % 2 = 1 THEN 2 * s[mid + 1] ELSE s[mid] + s[mid + 1]

\* The currency the wrappers are compared in.
Currency(r) ==
  IF r.reference # NoReference THEN r.reference.currency
  ELSE IF r.tokens # <<>> THEN r.tokens[1].currency ELSE "USD"

\* Prices of the wrappers that take part in the dispersion, in order.
Wrappers(r) ==
  Sorted({k \in DOMAIN r.tokens : Priced(r.tokens[k], Currency(r))}, Prices(r))

\* dispersion_v1; fewer than two wrappers have none (-1 stands for null).
Dispersion(r) ==
  LET s == Wrappers(r)
  IN IF Len(s) < 2 THEN -1
     ELSE Percent(2 * (s[Len(s)] - s[1]), TwiceMedian(s))

-----------------------------------------------------------------------------
\* Mutant of Freshness: an aging reference is taken for a fresh one.
FreshnessSwapped(age) ==
  IF age <= FreshSeconds THEN "aging"
  ELSE IF age <= AgingSeconds THEN "fresh" ELSE "stale"

\* assessFreshness; an observation dated in the future is fresh.
Freshness(age) ==
  IF age <= FreshSeconds THEN "fresh"
  ELSE IF age <= AgingSeconds THEN "aging" ELSE "stale"

AggregateFreshness(r) ==
  IF r.reference = NoReference THEN "unavailable" ELSE Freshness(r.reference.age)

\* buildReferenceContext: what is missing outranks a closed market, which
\* outranks the age of the reference.
ReferenceState(r) ==
  CASE r.reference = NoReference -> "unavailable"
    [] r.reference # NoReference /\ Measured(r) = {} -> "incomparable"
    [] Measured(r) # {} /\ r.market = "closed" -> "market_closed"
    [] OTHER -> AggregateFreshness(r)

SeverityFor(deviation) ==
  CASE deviation >= Thresholds.critical -> "critical"
    [] deviation >= Thresholds.high /\ deviation < Thresholds.critical -> "high"
    [] deviation >= Thresholds.watch /\ deviation < Thresholds.high -> "watch"
    [] deviation >= Thresholds.info /\ deviation < Thresholds.watch -> "info"
    [] OTHER -> "none"

\* Mutant of Dominates: gaps are compared with their sign.
DominatesSigned(r, k, j) ==
  Gap(r, k) > Gap(r, j) \/ (Gap(r, k) = Gap(r, j) /\ k <= j)

\* The gap of token k is the larger one, or as large and listed first.
Dominates(r, k, j) ==
  \/ Abs(Gap(r, k)) > Abs(Gap(r, j))
  \/ (Abs(Gap(r, k)) = Abs(Gap(r, j)) /\ k <= j)

Candidate(kind, deviation) ==
  [kind |-> kind, severity |-> SeverityFor(Abs(deviation)), deviation |-> deviation]

\* The two detectors' findings: the widest gap, and the dispersion.
Candidates(r) ==
  LET gaps    == {Gap(r, k) : k \in {i \in Measured(r) :
                                \A j \in Measured(r) : Dominates(r, i, j)}}
      spreads == {Dispersion(r)} \ {-1}
  IN {c \in {Candidate("parity_gap", g) : g \in gaps}
            \cup {Candidate("cross_wrapper_dispersion", d) : d \in spreads} :
        c.severity # "none"}

\* Mutant of Precedes: the comparison is turned round.
PrecedesReversed(c, d) ==
  \/ SevRank[c.severity] < SevRank[d.severity]
  \/ c.severity = d.severity /\ Abs(c.deviation) <= Abs(d.deviation)

\* The order the candidates are sorted in: severity, deviation, gap first.
Precedes(c, d) ==
  \/ SevRank[c.severity] > SevRank[d.severity]
  \/ /\ c.severity = d.severity
     /\ \/ Abs(c.deviation) > Abs(d.deviation)
        \/ /\ Abs(c.deviation) = Abs(d.deviation)
           /\ c.kind = "parity_gap" \/ c = d

NoAnomaly == [kind |-> "parity_gap", severity |-> "none", deviation |-> 0]

\* Mutant of DetectAnomaly: the reference is not asked for first.
DetectRegardless(r) ==
  IF Candidates(r) = {} THEN NoAnomaly
  ELSE CHOOSE c \in Candidates(r) : \A d \in Candidates(r) : Precedes(c, d)

\* detectAnomaly.
DetectAnomaly(r) ==
  IF ReferenceState(r) \in Incomparable \/ Candidates(r) = {} THEN NoAnomaly
  ELSE CHOOSE c \in Candidates(r) : \A d \in Candidates(r) : Precedes(c, d)

\* underlyingMarket of the reference context.
UnderlyingMarket(r) == IF r.reference = NoReference THEN "unknown" ELSE r.market

\* data_quality_v1 in thousandths: six factors by their weights.
Quality(r, anomalous) ==
  LET fresh == AggregateFreshness(r)
      n     == Len(r.tokens)
      confirmations == r.confirmations + (IF anomalous THEN 1 ELSE 0)
  IN 30 * (CASE fresh = "fresh" -> 10 [] fresh = "aging" -> 6
             [] fresh = "stale" -> 2  [] OTHER -> 0)
   + 15 * (IF \A k \in DOMAIN r.tokens : r.tokens[k].source THEN 10 ELSE 7)
   + 20 * (CASE n = 0 -> 0 [] n = 1 -> 4 [] n = 2 -> 8 [] OTHER -> 10)
   + 15 * (CASE UnderlyingMarket(r) \in {"open", "continuous"} -> 10
             [] UnderlyingMarket(r) = "unknown" -> 7 [] OTHER -> 4)
   + 10 * (IF confirmations >= 2 THEN 10 ELSE 6)
   + 10 * (CASE r.pairs = "yes" -> 10 [] r.pairs = "no" -> 9 [] OTHER -> 8)

\* evaluateAsset: the snapshot's verdict, class and quality.
Evaluate(r) ==
  LET a        == DetectAnomaly(r)
      verified == ReferenceState(r) \in {"fresh", "aging"}
  IN [refState  |-> ReferenceState(r),
      severity  |-> a.severity,
      kind      |-> a.kind,
      deviation |-> a.deviation,
      classification |-> CASE a.severity = "none" -> "none"
                           [] a.severity # "none" /\ verified -> "parity_gap"
                           [] OTHER -> "price_difference",
      quality   |-> Quality(r, a.severity # "none")]

-----------------------------------------------------------------------------
Listings == UNION {[1 .. n -> Tokens] : n \in 0 .. MaxTokens}

\* A scan evaluates the asset on these inputs.
Scan(r) == reading' = r /\ evaluation' = Evaluate(r)

Init ==
  /\ reading \in [reference : References, tokens : Listings,
                  market : Markets, pairs : Pairs, confirmations : Priors]
  /\ evaluation = Evaluate(reading)

\* Between two scans a wrapper is priced anew.
Repriced ==
  \E k \in DOMAIN reading.tokens, t \in Tokens :
    Scan([reading EXCEPT !.tokens[k] = t])

\* Another reference is observed, or none.
Referenced == \E ref \in References : Scan([reading EXCEPT !.reference = ref])

\* Only a session that is modelled opens and closes.
Turns(m, n) == m = n \/ {m, n} = {"open", "closed"}

\* The same observations at a later now, from which the code derives both
\* the age of the reference and the state of the market.
TimePasses ==
  \E ref \in References, m \in Markets :
    /\ ref = [reading.reference EXCEPT !.age = ref.age]
    /\ reading.reference.age <= ref.age /\ Turns(reading.market, m)
    /\ Scan([reading EXCEPT !.reference = ref, !.market = m])

Next == Repriced \/ Referenced \/ TimePasses

Spec == Init /\ [][Next]_vars

-----------------------------------------------------------------------------
\* What the engine hands to the lifecycle is a verdict of the shape the
\* lifecycle counts on, classed as it says: an anomaly has something to be
\* compared with, and only a fresh or aging reference makes it a parity gap.
VerdictWellFormed ==
  LET v == [refState |-> evaluation.refState, severity |-> evaluation.severity,
            kind |-> evaluation.kind, deviation |-> evaluation.deviation]
  IN /\ WellFormed(v)
     /\ evaluation.classification =
          IF Anomalous(v) THEN Classification(v) ELSE "none"

\* No measurement of the scan is in a worse band than the one reported, and
\* the one reported was measured.
WorstBandReported ==
  LET deviations == {Abs(Gap(reading, k)) : k \in Measured(reading)}
                      \cup ({Dispersion(reading)} \ {-1})
      bands == {SeverityFor(d) : d \in deviations} \cup {"none"}
  IN evaluation.refState \notin Incomparable =>
       /\ evaluation.severity \in bands
       /\ \A b \in bands : SevRank[b] <= SevRank[evaluation.severity]

Swapped(s, k) == [s EXCEPT ![k] = s[k + 1], ![k + 1] = s[k]]

\* The upstream listing order of the wrappers decides nothing but the sign of
\* two equally wide gaps.
OrderDecidesNothing ==
  \A k \in 1 .. Len(reading.tokens) - 1 :
    LET other == Evaluate([reading EXCEPT !.tokens = Swapped(@, k)])
    IN [evaluation EXCEPT !.deviation = Abs(@)] = [other EXCEPT !.deviation = Abs(@)]

\* A wrapper that is the highest above (or the lowest below) the reference
\* and moves further away never makes the finding milder, though the median
\* of the dispersion may move as well.
Outlier(r, k, price) ==
  LET p == r.tokens[k].price
  IN /\ k \in Measured(r)
     /\ \/ /\ price > p /\ p >= r.reference.price
           /\ \A j \in Measured(r) : r.tokens[j].price <= p
        \/ /\ 0 < price /\ price < p /\ p <= r.reference.price
           /\ \A j \in Measured(r) : r.tokens[j].price >= p

OutlierNeverMilder ==
  [][\A k \in DOMAIN reading.tokens, t \in Tokens :
       /\ Outlier(reading, k, t.price)
       /\ t.currency = reading.tokens[k].currency
       /\ reading' = [reading EXCEPT !.tokens[k] = t]
       => SevRank[evaluation'.severity] >= SevRank[evaluation.severity]]_vars

\* s is r at a later now.
SameLater(r, s) ==
  /\ r.reference # NoReference /\ s.reference # NoReference
  /\ r.reference.age <= s.reference.age /\ Turns(r.market, s.market)
  /\ s = [r EXCEPT !.reference.age = s.reference.age, !.market = s.market]

Opens(r, s) == r.market = "closed" /\ s.market = "open"

\* The same observations evaluated later make the same finding, and never a
\* better one unless the session has opened in between: a price difference
\* does not become a verified parity gap and the quality does not rise.  At
\* the opening both may happen; the gap is verified then only against a
\* reference that is not stale, and the quality rises by at most 0.09.
BetterOnlyAtOpening ==
  [][SameLater(reading, reading') =>
       /\ evaluation'.severity = evaluation.severity
       /\ evaluation'.kind = evaluation.kind
       /\ evaluation'.deviation = evaluation.deviation
       /\ ~Opens(reading, reading') =>
            /\ evaluation.classification = "price_difference"
                  => evaluation'.classification # "parity_gap"
            /\ evaluation'.quality <= evaluation.quality
       /\ Opens(reading, reading') =>
            /\ evaluation'.classification = "parity_gap"
                  => Freshness(reading'.reference.age) # "stale"
            /\ evaluation'.quality <= evaluation.quality + 90]_vars
=============================================================================

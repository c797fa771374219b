------------------------------ MODULE Evidence ------------------------------
(***************************************************************************)
(* What an evaluation leaves behind for others: the claim ledger           *)
(* (investigation.ts), the receipt and its verification (receipt.ts), the  *)
(* independent audit (audit.ts) and the analyst's review (workbench.ts),   *)
(* all of packages/core/src, as functions of the readings of Engine.       *)
(*                                                                         *)
(* Token k of a reading is the observation k, the reference observation 0, *)
(* a venue of the underlying a negative one.  A hash is the very content   *)
(* it was computed from: SHA-256 over canonical JSON has no collisions and *)
(* tells contents apart that differ in one field.                          *)
(***************************************************************************)
EXTENDS Engine, FiniteSets, Functions, SequencesExt

CONSTANTS
  Venues,      \* the venues the underlying trades on, in order
  Keys,        \* signing keys
  ReviewAges,  \* ages of a snapshot when it is reviewed
  MaxAge,      \* agingSeconds, as the review's freshness window
  GapTolerance,   \* near() in 1/Unit percent: 2 of the last place kept
  PriceTolerance, \* near() in the unit of the prices
  Changes      \* bound: amounts a number of a receipt is altered by

ASSUME EvidenceAssumption ==
  /\ Venues \in Seq(Int) /\ IsInjective(Venues) /\ \A n \in DOMAIN Venues : Venues[n] < 0
  /\ ReviewAges \subseteq Int /\ MaxAge \in Nat
  /\ \A t \in Tokens : t.volume \in Nat
  /\ GapTolerance \in Nat \ {0} /\ PriceTolerance \in Nat
  /\ Changes \subseteq Nat \ {0}

-----------------------------------------------------------------------------
Ref == 0

\* snapshot.observationIds.
Observed(r) ==
  DOMAIN r.tokens \cup (IF r.reference = NoReference THEN {} ELSE {Ref})

\* Positions in the order they are listed, as a filtered list has them.
Ascending(S) == Sorted(S, [n \in S |-> n])

\* The positions of the measured tokens.
MeasuredSeq(r) == Ascending(Measured(r))

-----------------------------------------------------------------------------
Claim(kind, about, evidence, inputs) ==
  [kind |-> kind, about |-> about, evidence |-> evidence, inputs |-> inputs]

\* The reference, where a claim cites it if there is one.
Cited(r) == Observed(r) \cap {Ref}

\* The first measured token with the widest gap.
Widest(r) == CHOOSE k \in Measured(r) : \A j \in Measured(r) : Dominates(r, k, j)

\* Volumes that were reported, in order; the one the code calls the median is
\* the upper middle one.
Volumes(r) ==
  Sorted({k \in DOMAIN r.tokens : r.tokens[k].volume > 0},
         [k \in DOMAIN r.tokens |-> r.tokens[k].volume])

LowVolume(r) ==
  LET v == Volumes(r)
  IN /\ Len(v) >= 2
     /\ Measured(r) # {}
     /\ r.tokens[Widest(r)].volume > 0
     /\ 2 * r.tokens[Widest(r)].volume < v[Len(v) \div 2 + 1]

Hypotheses(r) ==
  {c \in {Claim("supported_hypothesis", "low_volume",
                {Widest(r)} \cup Cited(r), DOMAIN r.tokens)} : LowVolume(r)}
  \cup
  {c \in {Claim("supported_hypothesis", "market_closed", Cited(r), {})} :
     ReferenceState(r) = "market_closed"}

Unknowns(r) ==
  {Claim("unknown", about, {}, {}) :
     about \in {"tradfi_price", "redemption"}
       \cup {a \in {"token_times"} : \E k \in DOMAIN r.tokens : ~r.tokens[k].source}
       \cup {a \in {"market_pairs"} : r.pairs = "unknown"}}

\* buildInvestigation: what was observed, what is derived from it by a named
\* formula, what is only supposed and what is not known.
Claims(r) ==
  {Claim("observed", "reference", {Ref}, {}) : k \in Cited(r)}
  \cup {Claim("observed", "token", {k}, {}) : k \in DOMAIN r.tokens}
  \cup {c \in {Claim("observed", "venues", Range(Venues), {})} : Venues # <<>>}
  \cup {Claim("observed", "context", Cited(r), {})}
  \cup {Claim("derived", "parity_gap_v1", Cited(r), {k, Ref}) : k \in Measured(r)}
  \cup {c \in {Claim("derived", "dispersion_v1", DOMAIN r.tokens, DOMAIN r.tokens)} :
          Dispersion(r) # -1}
  \cup {Claim("derived", "data_quality_v1", Observed(r), Observed(r))}
  \cup Hypotheses(r) \cup Unknowns(r)

-----------------------------------------------------------------------------
ReferenceObservation(r) ==
  [id |-> Ref, kind |-> "tokenized_aggregate",
   currency |-> r.reference.currency, price |-> r.reference.price]

TokenObservation(r, k) ==
  [id |-> k, kind |-> "token",
   currency |-> r.tokens[k].currency, price |-> r.tokens[k].price]

VenueContext(v) ==
  [id |-> v, kind |-> "tradfi_context", currency |-> "N/A", price |-> -1]

\* Mutant of GapEntry: the entry of every wrapper has the first one's price.
GapEntryOfFirst(r, k) ==
  [id |-> k, price |-> r.tokens[1].price, reference |-> r.reference.price,
   currency |-> r.reference.currency, gap |-> Gap(r, k)]

\* One measured gap, and the trace of its calculation.
GapEntry(r, k) ==
  [id |-> k, price |-> r.tokens[k].price, reference |-> r.reference.price,
   currency |-> r.reference.currency, gap |-> Gap(r, k)]

Spread(r) ==
  LET s == Wrappers(r)
  IN [count |-> Len(s), min |-> s[1], max |-> s[Len(s)],
      median |-> TwiceMedian(s), spread |-> Dispersion(r)]

\* buildReceipt, all but the hash, for an anomaly: it has a wrapper or more.
\* The finding's deviation stands for the event's latest and maximal one.
Contents(r, mode) ==
  LET seq  == MeasuredSeq(r)
      gaps == [n \in DOMAIN seq |-> GapEntry(r, seq[n])]
  IN [mode         |-> mode,
      finding      |-> Evaluate(r),
      confirmations |-> r.confirmations + 1,
      age          |-> r.reference.age,
      observations |-> (IF Cited(r) = {} THEN <<>> ELSE <<ReferenceObservation(r)>>)
                         \o [k \in DOMAIN r.tokens |-> TokenObservation(r, k)]
                         \o [n \in DOMAIN Venues |-> VenueContext(Venues[n])],
      gaps         |-> gaps,
      trace        |-> gaps,
      dispersion   |-> Spread(r),
      claims       |-> Claims(r),
      provenance   |-> {mode}]

\* computeReceiptHash: of everything but the hash and the signature.
Hash(body) == body

Unsigned(body) == [body |-> body, hash |-> Hash(body), signature |-> <<>>]

Receipt(r, mode) == Unsigned(Contents(r, mode))

\* signReceipt signs the hash and embeds the public key.
Sign(receipt, key) ==
  [receipt EXCEPT !.signature =
     <<[publicKey |-> key, by |-> key, over |-> receipt.hash]>>]

\* verifyReceipt: the hash is recomputed, and a signature there is must be of
\* this hash and by the key it names.
Verifies(receipt) ==
  /\ Hash(receipt.body) = receipt.hash
  /\ \A n \in DOMAIN receipt.signature :
       LET s == receipt.signature[n] IN s.by = s.publicKey /\ s.over = receipt.hash

-----------------------------------------------------------------------------
OfKind(b, kind) ==
  LET ns == Ascending({n \in DOMAIN b.observations : b.observations[n].kind = kind})
  IN [i \in DOMAIN ns |-> b.observations[ns[i]]]

\* The wrappers an audit can compare with the one reference.
ComparableIn(b) ==
  LET refs   == OfKind(b, "tokenized_aggregate")
      tokens == OfKind(b, "token")
  IN {n \in DOMAIN tokens : Len(refs) = 1 /\ tokens[n].currency = refs[1].currency}

\* Mutant of GapsCovered: a gap or a wrapper may be left out.
GapsUncounted(b) ==
  /\ Len(OfKind(b, "tokenized_aggregate")) <= 1
  /\ IsInjective([n \in DOMAIN b.gaps |-> b.gaps[n].id])

\* gap:coverage, trace:coverage
GapsCovered(b) ==
  /\ Len(OfKind(b, "tokenized_aggregate")) <= 1
  /\ Len(b.gaps) = Cardinality(ComparableIn(b))
  /\ IsInjective([n \in DOMAIN b.gaps |-> b.gaps[n].id])
  /\ Len(b.trace) = Len(b.gaps)

\* near: x and the quotient 100 n / d, which is not rounded.
Near(x, n, d) == Abs(x * d - 100 * Unit * n) <= GapTolerance * d

\* gap:inputs and gap:arithmetic of one gap.
GapRecomputed(b, g) ==
  /\ \E o \in Range(OfKind(b, "tokenized_aggregate")) :
       o.currency = g.currency /\ o.price = g.reference
  /\ \E o \in Range(OfKind(b, "token")) :
       o.currency = g.currency /\ o.price = g.price /\ o.id = g.id
  /\ g.reference > 0 /\ g.price > 0
  /\ Near(g.gap, g.price - g.reference, g.reference)

TraceAgrees(b, t) ==
  /\ t.reference > 0
  /\ Near(t.gap, t.price - t.reference, t.reference)
  /\ \E g \in Range(b.gaps) :
       /\ g.price = t.price /\ g.reference = t.reference
       /\ Abs(g.gap - t.gap) <= GapTolerance

\* dispersion:count, range and arithmetic; the median is counted twice.
SpreadRecomputed(b) ==
  LET refs   == OfKind(b, "tokenized_aggregate")
      tokens == OfKind(b, "token")
      currency == IF refs # <<>> THEN refs[1].currency ELSE tokens[1].currency
      prices == Sorted({n \in DOMAIN tokens : tokens[n].currency = currency /\ tokens[n].price > 0},
                       [n \in DOMAIN tokens |-> tokens[n].price])
      last   == Len(prices)
      d      == b.dispersion
  IN /\ d.count = last
     /\ Abs(d.min - prices[1]) <= PriceTolerance
     /\ Abs(d.max - prices[last]) <= PriceTolerance
     /\ Abs(d.median - TwiceMedian(prices)) <= 2 * PriceTolerance
     /\ IF last < 2 THEN d.spread = -1
        ELSE /\ d.spread # -1
             /\ Near(d.spread, 2 * (prices[last] - prices[1]), TwiceMedian(prices))

\* auditReceipt: the receipt verifies, its gaps, trace and dispersion are
\* recomputed from its observations, and every claim cites observations it
\* contains.  The finding, the confirmations and the age are not read.
Audits(receipt) ==
  LET b   == receipt.body
      ids == {o.id : o \in Range(b.observations)}
  IN /\ Verifies(receipt)
     /\ OfKind(b, "token") # <<>>
     /\ \A o \in Range(OfKind(b, "token")) : o.price > 0
     /\ GapsCovered(b)
     /\ Cardinality(ids) = Len(b.observations)
     /\ b.provenance # {} /\ \A mode \in b.provenance : mode = b.mode
     /\ \A c \in b.claims : c.evidence \cup c.inputs \subseteq ids
     /\ \A g \in Range(b.gaps) : GapRecomputed(b, g)
     /\ \A t \in Range(b.trace) : TraceAgrees(b, t)
     /\ SpreadRecomputed(b)
-----------------------------------------------------------------------------
\* Prices of the other stored wrappers in a wrapper's currency, in order.
Peers(r, kept, k) ==
  Sorted({j \in DOMAIN r.tokens \cap (kept \ {k}) : r.tokens[j].currency = r.tokens[k].currency},
         Prices(r))

\* leave_one_out_median_v1; 0 without a peer, as the order takes a null.
PeerGap(r, kept, k) ==
  LET peers == Peers(r, kept, k)
  IN IF peers = <<>> THEN 0
     ELSE Percent(2 * r.tokens[k].price - TwiceMedian(peers), TwiceMedian(peers))

\* Mutant of Distance: gaps to the peers are compared with their sign.
SignedDistance(r, kept, k) == PeerGap(r, kept, k)

Distance(r, kept, k) == Abs(PeerGap(r, kept, k))

\* The stored wrappers, the one farthest from its peers first.
Ranking(r, kept) ==
  LET tokens == DOMAIN r.tokens \cap kept
      far    == [k \in tokens |-> Distance(r, kept, k)]
      further(j, k) == far[j] > far[k] \/ (far[j] = far[k] /\ j < k)
  IN CHOOSE f \in Orders(tokens) :
       \A i, j \in DOMAIN f : i < j => further(f[i], f[j])

\* What keeps a review from a current conclusion: evidence that retention has
\* deleted, a snapshot too old or from the future, no fresh reference, or
\* observations not made in the mode the program runs in now.
Blocked(r, kept, age, sameMode) ==
  \/ kept # Observed(r)
  \/ age < 0 \/ age > MaxAge
  \/ Ref \notin kept
  \/ AggregateFreshness(r) # "fresh"
  \/ kept # {} /\ ~sameMode

\* buildWorkbench without an analyst's quote: the disposition, and the
\* wrappers by their distance from their peers with their gap to the
\* aggregate (-1 has no gap).
Review(r, kept, age, sameMode) ==
  LET ranked  == Ranking(r, kept)
      blocked == Blocked(r, kept, age, sameMode)
  IN [disposition |-> CASE blocked -> "refresh_evidence"
                        [] ~blocked /\ Evaluate(r).severity = "none" -> "monitor"
                        [] OTHER -> "investigate",
      ranked |-> ranked,
      gapped |-> {k \in Range(ranked) : /\ Ref \in kept
                                        /\ r.tokens[k].currency = r.reference.currency}]

-----------------------------------------------------------------------------
\* What the normalisation lets through: prices above zero, all in USD, and a
\* reference with a price or none (normalize.ts).
Normalised(r) ==
  /\ r.reference = NoReference \/ r.reference.price > 0
  /\ \A k \in DOMAIN r.tokens : r.tokens[k].price > 0 /\ r.tokens[k].currency = "USD"

Certifiable == Normalised(reading) /\ evaluation.severity # "none"

\* The receipt of every confirmed anomaly, signed or not, verifies, passes
\* the independent audit and shows the gap or the dispersion that made it an
\* anomaly: the engine, the claim ledger and the audit agree.
IssuedReceiptAudits ==
  Certifiable =>
    LET receipt == Receipt(reading, "live")
        b == receipt.body
    IN /\ Audits(receipt)
       /\ \A key \in Keys : Audits(Sign(receipt, key))
       /\ evaluation.deviation \in {b.gaps[n].gap : n \in DOMAIN b.gaps}
                                     \cup {b.dispersion.spread}
       /\ \E c \in b.claims :
            /\ c.kind = "derived"
            /\ c.about = IF evaluation.kind = "parity_gap"
                         THEN "parity_gap_v1" ELSE "dispersion_v1"

(* A number of the receipt is altered by d, by what the audit holds it to. *)

\* The observations, exactly; and a wrapper left out, another mode.
Matched(b, d) ==
  {[b EXCEPT !.gaps[n].price = @ + d] : n \in DOMAIN b.gaps}
  \cup {[b EXCEPT !.observations[n].price = @ + d] :
          n \in {i \in DOMAIN b.observations : b.observations[i].kind # "tradfi_context"}}
  \cup {[b EXCEPT !.dispersion.count = @ + d],
        [b EXCEPT !.gaps = Front(@), !.trace = Front(@)], [b EXCEPT !.mode = "fixture"]}

\* A percentage recomputed from them.
Percentages(b, d) ==
  {[b EXCEPT !.gaps[n].gap = @ + d] : n \in DOMAIN b.gaps}
  \cup {[b EXCEPT !.trace[n].gap = @ + d] : n \in DOMAIN b.trace}
  \cup {[b EXCEPT !.dispersion.spread = @ + d] : s \in {b.dispersion.spread} \ {-1}}

\* A price found among them.
Extremes(b, d) ==
  {[b EXCEPT !.dispersion.min = @ + d], [b EXCEPT !.dispersion.max = @ + d],
   [b EXCEPT !.dispersion.median = @ + 2 * d]}

\* Nothing: the finding and its confirmations, the quality and the age.
Unread(b, d) ==
  {[b EXCEPT !.finding.deviation = @ + d], [b EXCEPT !.finding.quality = @ + d],
   [b EXCEPT !.confirmations = @ + d], [b EXCEPT !.age = @ + d]}

\* "Recompute numerical claims as well as the hash" (audit.ts): a receipt
\* altered after it was issued fails verification, and even with its hash
\* made anew if it was signed.  Unsigned and rehashed it is for the audit to
\* find out: it exposes every number it holds against the observations that
\* is off by more than the tolerance, passes one that is off by less, and
\* passes whatever the numbers are that it does not read.
AlteredReceiptFails ==
  Certifiable =>
    LET receipt == Receipt(reading, "live")
        body == receipt.body
    IN \A d \in Changes :
         /\ \A b \in Matched(body, d) \cup Percentages(body, d)
                       \cup Extremes(body, d) \cup Unread(body, d) :
              /\ ~Verifies([receipt EXCEPT !.body = b])
              /\ \A key \in Keys :
                   ~Verifies([Sign(receipt, key) EXCEPT !.body = b, !.hash = Hash(b)])
         /\ \A b \in Matched(body, d) : ~Audits(Unsigned(b))
         /\ \A b \in Percentages(body, d) :
              /\ d > GapTolerance => ~Audits(Unsigned(b))
              /\ d < GapTolerance => Audits(Unsigned(b))
         /\ \A b \in Extremes(body, d) : Audits(Unsigned(b)) <=> d <= PriceTolerance
         /\ \A b \in Unread(body, d) : Audits(Unsigned(b))

\* The review agrees with the engine and with what is still stored: the
\* wrapper it lists first is, to the precision it shows, as far from its peers
\* as the cheapest or the dearest is, and where all others agree as far as the
\* odd one is; every gap it shows is one the engine measured; and it has a
\* conclusion only on the complete evidence, of the mode it runs in, of a
\* verdict that had a fresh reference.
ReviewNamesOutlier ==
  Normalised(reading) =>
    \A kept \in SUBSET Observed(reading), age \in ReviewAges, sameMode \in BOOLEAN :
      LET review == Review(reading, kept, age, sameMode)
          shown  == Range(review.ranked)
          price(k) == reading.tokens[k].price
          asFar(k) == Distance(reading, kept, k) = Distance(reading, kept, review.ranked[1])
      IN /\ review.gapped \subseteq Measured(reading)
         /\ review.disposition # "refresh_evidence" =>
              /\ review.gapped = Measured(reading) /\ sameMode
              /\ evaluation.classification = "price_difference"
                   => reading.market = "closed"
         /\ shown # {} =>
              \E k \in shown : /\ asFar(k)
                               /\ \/ \A j \in shown : price(k) <= price(j)
                                  \/ \A j \in shown : price(k) >= price(j)
         /\ Cardinality(shown) > 2 =>
              \A k \in shown :
                (/\ \A i, j \in shown \ {k} : price(i) = price(j)
                 /\ \A j \in shown \ {k} : price(j) # price(k)) => asFar(k)
=============================================================================

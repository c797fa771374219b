---------------------------- MODULE MCLifecycle -----------------------------
(***************************************************************************)
(* Two assets; one verdict for each way a scan can go: inside the          *)
(* thresholds, nothing to compare, and anomalies of both kinds with rising *)
(* and falling severity and a deviation of either sign.                    *)
(* A gap anomaly is measured beside a narrower spread, a spread anomaly    *)
(* beside a narrower gap, and without a reference a spread alone.          *)
(***************************************************************************)
EXTENDS Surfaces

CONSTANTS a1, a2

MCAssets == {a1, a2}
MCBySymbol == <<a1, a2>>

\* Of two assets, which Spec treats alike, one has no more than half of the
\* scans: let it be a2.
MCNext ==
  /\ Next
  /\ Cardinality({k \in DOMAIN snapshots' : snapshots'[k].rwaId = a2}) <= MaxScans \div 2

MCSpec == Init /\ [][MCNext]_vars

Reading(ref, sev, kind, dev) ==
  [refState |-> ref, severity |-> sev, kind |-> kind, deviation |-> dev]

MCVerdicts ==
  {Reading("fresh",         "none",     "parity_gap",                0),
   Reading("unavailable",   "none",     "parity_gap",                0),
   Reading("aging",         "high",     "parity_gap",               -3),
   Reading("market_closed", "critical", "cross_wrapper_dispersion",  4),
   Reading("fresh",         "watch",    "parity_gap",                2)}

MCGapOf ==
  [v \in MCVerdicts |-> IF v.refState = "unavailable" THEN Null
                        ELSE IF v.kind = "parity_gap" THEN Abs(v.deviation) ELSE 1]

MCSpreadOf ==
  [v \in MCVerdicts |-> IF v.refState = "unavailable" THEN 3
                        ELSE IF v.kind = "parity_gap" THEN Null ELSE v.deviation]
=============================================================================

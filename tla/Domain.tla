------------------------------- MODULE Domain -------------------------------
(***************************************************************************)
(* The vocabulary every component shares: severities, reference states,    *)
(* event kinds and statuses, transition names (packages/core/src/domain).  *)
(* A stored timestamp or identifier is a number and 0 stands for null.     *)
(***************************************************************************)
EXTENDS Integers

Severities == {"none", "info", "watch", "high", "critical"}

\* The order of severity bands (ORDER in anomaly.ts, SEV_RANK in runtime.ts
\* and alerts.ts are three copies of this one table).
SevRank == [s \in Severities |-> CASE s = "none"  -> 0
                                   [] s = "info"  -> 1
                                   [] s = "watch" -> 2
                                   [] s = "high"  -> 3
                                   [] OTHER       -> 4]

ReferenceStates ==
  {"fresh", "aging", "stale", "market_closed", "unavailable", "incomparable"}

\* Reference states that leave nothing to compare against.
Incomparable == {"unavailable", "incomparable"}

EventKinds == {"parity_gap", "cross_wrapper_dispersion"}

Classifications == {"parity_gap", "price_difference"}

OpenStatuses   == {"candidate", "confirmed"}
ClosedStatuses == {"resolved", "invalidated"}
EventStatuses  == OpenStatuses \cup ClosedStatuses

\* Transitions written to event_transitions; "none" is the null result.
Transitions == {"created", "confirmed", "updated", "resolved", "invalidated"}

(***************************************************************************)
(* A verdict is what one evaluation of one asset hands to the lifecycle:   *)
(* the reference state and the anomaly found, if any.  severity "none"     *)
(* stands for a null anomaly (engine.ts sets snapshot.severity from it).   *)
(***************************************************************************)
Verdict == [refState  : ReferenceStates,
            severity  : Severities,
            kind      : EventKinds,
            deviation : Int]

Anomalous(v) == v.severity # "none"

\* detectAnomaly returns null when there is nothing to compare against, an
\* anomaly deviates by a threshold or more, and thresholds are positive, and
\* a dispersion is a spread, hence never negative.
WellFormed(v) ==
  /\ v \in Verdict
  /\ v.refState \in Incomparable => ~Anomalous(v)
  /\ Anomalous(v) => v.deviation # 0
  /\ v.kind = "cross_wrapper_dispersion" => v.deviation >= 0

\* A parity gap is a verified one only against a fresh or aging reference.
Classification(v) ==
  IF v.refState \in {"fresh", "aging"} THEN "parity_gap" ELSE "price_difference"

Abs(n) == IF n < 0 THEN -n ELSE n
=============================================================================

--------------------------- MODULE MCScanPipeline ---------------------------
(***************************************************************************)
(* Instances of ScanPipeline: verdicts for a clean reading and for         *)
(* anomalies of both kinds.                                                *)
(***************************************************************************)
EXTENDS ScanPipeline, TLC

CONSTANTS a1, a2, server, cli

OneAsset  == {a1}
TwoAssets == {a1, a2}

OneProcess   == {server}
TwoProcesses == {server, cli}

Reading(ref, sev, kind) ==
  [refState |-> ref, severity |-> sev, kind |-> kind, deviation |-> 1]

Clean    == Reading("fresh", "none", "parity_gap")
Gap      == Reading("fresh", "high", "parity_gap")
Spread   == Reading("fresh", "watch", "cross_wrapper_dispersion")

TwoVerdicts == {Clean, Gap}
Anomalies   == {Clean, Gap, Spread}

AssetSymmetry == Permutations(TwoAssets)
=============================================================================

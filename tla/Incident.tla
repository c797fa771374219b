------------------------------ MODULE Incident ------------------------------
(***************************************************************************)
(* What the event lifecycle promises, said without events, logs or rows:   *)
(* each asset has a run of consecutive anomalous scans; its incident is    *)
(* candidate while the run is shorter than ConfirmScans and confirmed from *)
(* then on; a scan that finds nothing ends it; and the run earns exactly   *)
(* one certificate (investigation and receipt), at the scan that confirms. *)
(***************************************************************************)
EXTENDS Integers

CONSTANTS Assets, ConfirmScans

VARIABLES
  run,          \* run[a]: consecutive anomalous scans of a up to now
  phase,        \* phase[a]: "quiet", "candidate" or "confirmed"
  certificates  \* certificates[a]: certificates a has earned so far

vars == <<run, phase, certificates>>

PhaseOf(n) == IF n = 0 THEN "quiet"
              ELSE IF n < ConfirmScans THEN "candidate" ELSE "confirmed"

Init ==
  /\ run = [a \in Assets |-> 0]
  /\ phase = [a \in Assets |-> "quiet"]
  /\ certificates = [a \in Assets |-> 0]

\* A scan finds the asset outside its thresholds.
AnomalousScan(a) ==
  /\ run' = [run EXCEPT ![a] = @ + 1]
  /\ phase' = [phase EXCEPT ![a] = PhaseOf(run[a] + 1)]
  /\ certificates' = [certificates EXCEPT
                        ![a] = IF run[a] + 1 = ConfirmScans THEN @ + 1 ELSE @]

\* A scan finds nothing (or nothing to compare against): the run is over.
CleanScan(a) ==
  /\ run' = [run EXCEPT ![a] = 0]
  /\ phase' = [phase EXCEPT ![a] = "quiet"]
  /\ UNCHANGED certificates

Next == \E a \in Assets : AnomalousScan(a) \/ CleanScan(a)

Spec == Init /\ [][Next]_vars
=============================================================================

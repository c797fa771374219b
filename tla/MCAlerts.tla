------------------------------ MODULE MCAlerts ------------------------------
(***************************************************************************)
(* Two destinations, a floor of "high", and readings below it, at it and   *)
(* above it, so that an event escalates, de-escalates and comes back.      *)
(***************************************************************************)
EXTENDS Alerts

TwoDests == <<"webhook", "discord">>

Reading(ref, sev) ==
  [refState |-> ref, severity |-> sev, kind |-> "parity_gap", deviation |-> 1]

Readings == {Reading("fresh", "none"), Reading("fresh", "watch"),
             Reading("fresh", "high"), Reading("fresh", "critical")}

\* Bound: at most two notifications are started, beside or after each other.
MCNext == Next /\ Len(jobs') <= 2

MCFairSpec == Init /\ [][MCNext]_vars
                   /\ \A j \in 1 .. MaxScans : WF_vars(j \in DOMAIN jobs /\ JobStep(j))
=============================================================================

--------------------------- MODULE LifecycleRules ---------------------------
(***************************************************************************)
(* applyScanToEvent of packages/core/src/lifecycle.ts: what one scan of    *)
(* one asset does to the event the store has open for that asset.          *)
(*                                                                         *)
(* An event row keeps every field the code reads back; symbol and data     *)
(* mode are constant per asset and are left out.  Deviations are integers  *)
(* (percent in some unit) with their sign.                                 *)
(***************************************************************************)
EXTENDS Domain

CONSTANT ConfirmScans   \* config.confirmScans, validated >= 1 (config.ts)

ASSUME ConfirmScansAssumption == ConfirmScans \in Nat \ {0}

\* "No event": applyScanToEvent's existing = null.  It is not open.
NoEvent == [status |-> "absent"]

IsOpen(e) == e.status \in OpenStatuses

-----------------------------------------------------------------------------
\* Case 1, nothing open: the asset's first anomalous scan opens an event.
CreatedEvent(a, v, snap, now) ==
  [rwaId           |-> a,
   kind            |-> v.kind,
   classification  |-> Classification(v),
   severity        |-> v.severity,
   status          |-> IF ConfirmScans <= 1 THEN "confirmed" ELSE "candidate",
   firstSeenAt     |-> now,
   lastSeenAt      |-> now,
   confirmations   |-> 1,
   maxDeviation    |-> v.deviation,
   latestDeviation |-> v.deviation,
   latestSnapshot  |-> snap,
   resolvedAt      |-> 0]

\* The larger deviation in size; a tie keeps the earlier one.
Peak(deviation, peak) == IF Abs(deviation) > Abs(peak) THEN deviation ELSE peak

\* Mutant of ContinuedStatus: confirmation comes one scan late.
LateStatus(e) ==
  IF e.status = "confirmed" \/ e.confirmations >= ConfirmScans
  THEN "confirmed" ELSE "candidate"

\* The status of an open event after one more confirmation.
ContinuedStatus(e) ==
  IF e.status = "confirmed" \/ e.confirmations + 1 >= ConfirmScans
  THEN "confirmed" ELSE "candidate"

\* Case 1, already open: one more confirmation.  The kind the event was
\* opened with stays, whatever kind this scan's anomaly has.
ContinuedEvent(e, v, snap, now) ==
  [e EXCEPT
     !.severity        = v.severity,
     !.classification  = Classification(v),
     !.status          = ContinuedStatus(e),
     !.lastSeenAt      = now,
     !.confirmations   = e.confirmations + 1,
     !.maxDeviation    = Peak(v.deviation, e.maxDeviation),
     !.latestDeviation = v.deviation,
     !.latestSnapshot  = snap]

\* Mutant of InvalidatedEvent: an event waits, open, for the data to return.
InvalidatedEventKeptOpen(e, snap, now) == [e EXCEPT !.latestSnapshot = snap]

\* Case 2, the comparison is no longer possible: severity, lastSeenAt and
\* the last deviation stay as the last anomalous scan left them.
InvalidatedEvent(e, snap, now) ==
  [e EXCEPT !.status = "invalidated", !.resolvedAt = now, !.latestSnapshot = snap]

\* Mutant of ResolvedEvent: the clean snapshot's severity is taken over.
ResolvedEventClean(e, snap, now) ==
  [e EXCEPT !.status = "resolved", !.resolvedAt = now, !.latestSnapshot = snap,
            !.latestDeviation = 0, !.severity = "none"]

\* Case 2, back inside the thresholds.
ResolvedEvent(e, snap, now) ==
  [e EXCEPT !.status          = "resolved",
            !.resolvedAt      = now,
            !.latestSnapshot  = snap,
            !.latestDeviation = 0]

-----------------------------------------------------------------------------
\* Mutant of ContinuedTransition: every scan of a confirmed event confirms it.
RepeatedTransition(before, after) ==
  IF after.status = "confirmed" THEN "confirmed" ELSE "updated"

\* "confirmed" is reported by the one scan that confirms.
ContinuedTransition(before, after) ==
  IF before.status = "candidate" /\ after.status = "confirmed"
  THEN "confirmed" ELSE "updated"

\* The whole function.  transition = "none" is its null result.
ApplyScanToEvent(existing, a, v, snap, now) ==
  LET continued == ContinuedEvent(existing, v, snap, now) IN
  CASE Anomalous(v) /\ ~IsOpen(existing) ->
         [event      |-> CreatedEvent(a, v, snap, now),
          transition |-> IF ConfirmScans <= 1 THEN "confirmed" ELSE "created"]
    [] Anomalous(v) /\ IsOpen(existing) ->
         [event      |-> continued,
          transition |-> ContinuedTransition(existing, continued)]
    [] ~Anomalous(v) /\ IsOpen(existing) /\ v.refState \in Incomparable ->
         [event |-> InvalidatedEvent(existing, snap, now), transition |-> "invalidated"]
    [] ~Anomalous(v) /\ IsOpen(existing) /\ v.refState \notin Incomparable ->
         [event |-> ResolvedEvent(existing, snap, now), transition |-> "resolved"]
    [] OTHER ->
         [event |-> existing, transition |-> "none"]
=============================================================================

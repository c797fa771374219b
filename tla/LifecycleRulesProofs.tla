------------------------ MODULE LifecycleRulesProofs -------------------------
(***************************************************************************)
(* What applyScanToEvent returns, for every event, every well-formed       *)
(* verdict and every ConfirmScans: the facts about the rules that the      *)
(* proofs about the alerts and about the scan pipeline rest on.            *)
(***************************************************************************)
EXTENDS LifecycleRules, TLAPS

\* The rows of an events table over the assets A and the snapshot ids S.
EventRow(A, S) ==
  [rwaId           : A,
   kind            : EventKinds,
   classification  : Classifications,
   severity        : Severities \ {"none"},
   status          : EventStatuses,
   firstSeenAt     : Nat,
   lastSeenAt      : Nat,
   confirmations   : Nat \ {0},
   maxDeviation    : Int,
   latestDeviation : Int,
   latestSnapshot  : S,
   resolvedAt      : Nat]

\* The first anomalous scan of an asset with nothing open opens an event.
LEMMA CreatedRow ==
  ASSUME NEW A, NEW S, NEW a \in A, NEW snap \in S, NEW now \in Nat,
         NEW v, WellFormed(v), Anomalous(v)
  PROVE  LET c == CreatedEvent(a, v, snap, now) IN
         /\ c \in EventRow(A, S)
         /\ IsOpen(c)
         /\ c.rwaId = a /\ c.kind = v.kind /\ c.firstSeenAt = now
         /\ c.severity = v.severity
         /\ c.confirmations = 1
         /\ c.status = "confirmed" <=> 1 >= ConfirmScans
         /\ c.latestSnapshot = snap
<1>1. /\ v.severity \in Severities \ {"none"}
      /\ v.kind \in EventKinds
      /\ v.deviation \in Int
  BY DEF WellFormed, Verdict, Anomalous
<1>2. Classification(v) \in Classifications
  BY DEF Classification, Classifications
<1>3. QED
  BY <1>1, <1>2, ConfirmScansAssumption
     DEF CreatedEvent, EventRow, IsOpen, OpenStatuses, EventStatuses, ClosedStatuses

\* A further anomalous scan keeps the event open, and counts.
LEMMA ContinuedRow ==
  ASSUME NEW A, NEW S, NEW snap \in S, NEW now \in Nat,
         NEW e \in EventRow(A, S), IsOpen(e), NEW v, WellFormed(v), Anomalous(v)
  PROVE  LET c == ContinuedEvent(e, v, snap, now) IN
         /\ c \in EventRow(A, S)
         /\ IsOpen(c)
         /\ c.rwaId = e.rwaId /\ c.kind = e.kind /\ c.firstSeenAt = e.firstSeenAt
         /\ c.severity = v.severity
         /\ c.confirmations = e.confirmations + 1
         /\ c.status = ContinuedStatus(e)
         /\ c.latestSnapshot = snap
<1>1. v.severity \in Severities \ {"none"} /\ v.deviation \in Int
  BY DEF WellFormed, Verdict, Anomalous
<1>2. Classification(v) \in Classifications
  BY DEF Classification, Classifications
<1>3. e.maxDeviation \in Int /\ e.confirmations \in Nat \ {0}
  BY DEF EventRow
<1> DEFINE status == ContinuedStatus(e)
           peak == Peak(v.deviation, e.maxDeviation)
<1>4. /\ status \in EventStatuses /\ status \in OpenStatuses
      /\ peak \in Int
      /\ e.confirmations + 1 \in Nat \ {0}
  BY <1>1, <1>3 DEF EventStatuses, OpenStatuses, ContinuedStatus, Peak
<1>5. ContinuedEvent(e, v, snap, now) \in EventRow(A, S)
  BY <1>1, <1>2, <1>4, Zenon DEF ContinuedEvent, EventRow
<1>6. LET c == ContinuedEvent(e, v, snap, now) IN
      /\ c.rwaId = e.rwaId /\ c.kind = e.kind /\ c.firstSeenAt = e.firstSeenAt
      /\ c.severity = v.severity
      /\ c.confirmations = e.confirmations + 1
      /\ c.status = status
      /\ c.latestSnapshot = snap
  BY Zenon DEF ContinuedEvent, EventRow
<1>7. QED
  BY <1>4, <1>5, <1>6 DEF IsOpen

\* A scan that finds nothing closes the event and keeps the rest of it.
LEMMA ClosedRow ==
  ASSUME NEW A, NEW S, NEW snap \in S, NEW now \in Nat, NEW e \in EventRow(A, S)
  PROVE  \A c \in {InvalidatedEvent(e, snap, now), ResolvedEvent(e, snap, now)} :
           /\ c \in EventRow(A, S)
           /\ ~IsOpen(c)
           /\ c.rwaId = e.rwaId /\ c.kind = e.kind /\ c.firstSeenAt = e.firstSeenAt
           /\ c.severity = e.severity
           /\ c.confirmations = e.confirmations
           /\ c.latestSnapshot = snap
<1>1. /\ "invalidated" \in EventStatuses /\ "resolved" \in EventStatuses
      /\ 0 \in Int
  BY DEF EventStatuses, ClosedStatuses
<1> DEFINE Kept(c) == /\ c \in EventRow(A, S)
                      /\ c.rwaId = e.rwaId /\ c.kind = e.kind
                      /\ c.firstSeenAt = e.firstSeenAt
                      /\ c.severity = e.severity
                      /\ c.confirmations = e.confirmations
                      /\ c.latestSnapshot = snap
<1>2. /\ Kept(InvalidatedEvent(e, snap, now))
      /\ InvalidatedEvent(e, snap, now).status = "invalidated"
  BY <1>1, Zenon DEF InvalidatedEvent, EventRow
<1>3. /\ Kept(ResolvedEvent(e, snap, now))
      /\ ResolvedEvent(e, snap, now).status = "resolved"
  BY <1>1, Zenon DEF ResolvedEvent, EventRow
<1>4. QED
  BY <1>2, <1>3 DEF IsOpen, OpenStatuses

\* The four cases of the whole function: it opens an event, ...
LEMMA OpeningResult ==
  ASSUME NEW A, NEW S, NEW a \in A, NEW snap \in S, NEW now \in Nat,
         NEW v, WellFormed(v), Anomalous(v), NEW e, ~IsOpen(e)
  PROVE  LET r == ApplyScanToEvent(e, a, v, snap, now) IN
         /\ r.transition = IF ConfirmScans <= 1 THEN "confirmed" ELSE "created"
         /\ r.event \in EventRow(A, S) /\ IsOpen(r.event)
         /\ r.event.rwaId = a /\ r.event.kind = v.kind /\ r.event.firstSeenAt = now
         /\ r.event.severity = v.severity
         /\ r.event.confirmations = 1
         /\ r.event.status = "confirmed" <=> 1 >= ConfirmScans
         /\ r.event.latestSnapshot = snap
<1> DEFINE c == CreatedEvent(a, v, snap, now)
<1>1. ApplyScanToEvent(e, a, v, snap, now)
        = [event |-> c, transition |-> IF ConfirmScans <= 1 THEN "confirmed" ELSE "created"]
  BY DEF ApplyScanToEvent
<1>2. /\ c \in EventRow(A, S) /\ IsOpen(c)
      /\ c.rwaId = a /\ c.kind = v.kind /\ c.firstSeenAt = now
      /\ c.severity = v.severity
      /\ c.confirmations = 1
      /\ c.status = "confirmed" <=> 1 >= ConfirmScans
      /\ c.latestSnapshot = snap
  BY CreatedRow
<1> HIDE DEF c
<1>3. QED
  BY <1>1, <1>2

\* ... continues one, ...
LEMMA ContinuingResult ==
  ASSUME NEW A, NEW S, NEW a, NEW snap \in S, NEW now \in Nat,
         NEW v, WellFormed(v), Anomalous(v), NEW e \in EventRow(A, S), IsOpen(e)
  PROVE  LET r == ApplyScanToEvent(e, a, v, snap, now) IN
         /\ r.transition = IF e.status = "candidate" /\ r.event.status = "confirmed"
                           THEN "confirmed" ELSE "updated"
         /\ r.event \in EventRow(A, S) /\ IsOpen(r.event)
         /\ r.event.rwaId = e.rwaId /\ r.event.kind = e.kind
         /\ r.event.firstSeenAt = e.firstSeenAt
         /\ r.event.severity = v.severity
         /\ r.event.confirmations = e.confirmations + 1
         /\ r.event.status = ContinuedStatus(e)
         /\ r.event.latestSnapshot = snap
<1> DEFINE c == ContinuedEvent(e, v, snap, now)
<1>1. ApplyScanToEvent(e, a, v, snap, now)
        = [event |-> c, transition |-> ContinuedTransition(e, c)]
  BY DEF ApplyScanToEvent
<1>2. /\ c \in EventRow(A, S) /\ IsOpen(c)
      /\ c.rwaId = e.rwaId /\ c.kind = e.kind /\ c.firstSeenAt = e.firstSeenAt
      /\ c.severity = v.severity
      /\ c.confirmations = e.confirmations + 1
      /\ c.status = ContinuedStatus(e)
      /\ c.latestSnapshot = snap
  BY ContinuedRow
<1> HIDE DEF c
<1>3. QED
  BY <1>1, <1>2 DEF ContinuedTransition

\* ... closes one, ...
LEMMA ClosingResult ==
  ASSUME NEW A, NEW S, NEW a, NEW snap \in S, NEW now \in Nat,
         NEW v, ~Anomalous(v), NEW e \in EventRow(A, S), IsOpen(e)
  PROVE  LET r == ApplyScanToEvent(e, a, v, snap, now) IN
         /\ r.transition \in ClosedStatuses
         /\ r.event \in EventRow(A, S) /\ ~IsOpen(r.event)
         /\ r.event.rwaId = e.rwaId /\ r.event.kind = e.kind
         /\ r.event.firstSeenAt = e.firstSeenAt
         /\ r.event.severity = e.severity
         /\ r.event.confirmations = e.confirmations
         /\ r.event.latestSnapshot = snap
<1>1. \E c \in {InvalidatedEvent(e, snap, now), ResolvedEvent(e, snap, now)},
         t \in ClosedStatuses :
           ApplyScanToEvent(e, a, v, snap, now) = [event |-> c, transition |-> t]
  BY DEF ApplyScanToEvent, ClosedStatuses
<1>2. PICK c \in {InvalidatedEvent(e, snap, now), ResolvedEvent(e, snap, now)},
           t \in ClosedStatuses :
             ApplyScanToEvent(e, a, v, snap, now) = [event |-> c, transition |-> t]
  BY <1>1
<1>3. /\ c \in EventRow(A, S) /\ ~IsOpen(c)
      /\ c.rwaId = e.rwaId /\ c.kind = e.kind /\ c.firstSeenAt = e.firstSeenAt
      /\ c.severity = e.severity
      /\ c.confirmations = e.confirmations
      /\ c.latestSnapshot = snap
  BY ClosedRow
<1>4. QED
  BY <1>2, <1>3

\* ... or has nothing to report.
LEMMA NoResult ==
  ASSUME NEW e, ~IsOpen(e), NEW v, ~Anomalous(v), NEW a, NEW snap, NEW now
  PROVE  ApplyScanToEvent(e, a, v, snap, now) = [event |-> e, transition |-> "none"]
  BY DEF ApplyScanToEvent

\* The four together, for an event that may be absent.
LEMMA ScanResultFacts ==
  ASSUME NEW A, NEW S, NEW a \in A, NEW snap \in S, NEW now \in Nat,
         NEW v, WellFormed(v),
         NEW e, e = NoEvent \/ e \in EventRow(A, S)
  PROVE  LET r == ApplyScanToEvent(e, a, v, snap, now) IN
         /\ r.transition = "none" <=> ~IsOpen(e) /\ ~Anomalous(v)
         /\ r.transition \in Transitions \cup {"none"}
         /\ r.transition = "none" => r.event = e
         /\ r.transition # "none" => /\ r.event \in EventRow(A, S)
                                     /\ r.event.latestSnapshot = snap
                                     /\ IsOpen(r.event) <=> Anomalous(v)
         /\ IsOpen(e) =>
              /\ r.event.rwaId = e.rwaId /\ r.event.kind = e.kind
              /\ r.event.firstSeenAt = e.firstSeenAt
              /\ r.event.confirmations
                   = IF Anomalous(v) THEN e.confirmations + 1 ELSE e.confirmations
         /\ Anomalous(v) => r.event.severity = v.severity
<1> DEFINE r == ApplyScanToEvent(e, a, v, snap, now)
<1>1. IsOpen(e) => e \in EventRow(A, S)
  BY DEF NoEvent, IsOpen, OpenStatuses
<1>2. CASE ~IsOpen(e) /\ Anomalous(v)
  <2>1. /\ r.transition \in {"confirmed", "created"}
        /\ r.event \in EventRow(A, S) /\ IsOpen(r.event)
        /\ r.event.severity = v.severity /\ r.event.latestSnapshot = snap
    BY <1>2, OpeningResult
  <2> HIDE DEF r
  <2>2. QED
    BY <1>2, <2>1 DEF Transitions, r
<1>3. CASE IsOpen(e) /\ Anomalous(v)
  <2>1. /\ r.transition \in {"confirmed", "updated"}
        /\ r.event \in EventRow(A, S) /\ IsOpen(r.event)
        /\ r.event.rwaId = e.rwaId /\ r.event.kind = e.kind
        /\ r.event.firstSeenAt = e.firstSeenAt
        /\ r.event.confirmations = e.confirmations + 1
        /\ r.event.severity = v.severity /\ r.event.latestSnapshot = snap
    BY <1>1, <1>3, ContinuingResult
  <2> HIDE DEF r
  <2>2. QED
    BY <1>3, <2>1 DEF Transitions, r
<1>4. CASE IsOpen(e) /\ ~Anomalous(v)
  <2>1. /\ r.transition \in ClosedStatuses
        /\ r.event \in EventRow(A, S) /\ ~IsOpen(r.event)
        /\ r.event.rwaId = e.rwaId /\ r.event.kind = e.kind
        /\ r.event.firstSeenAt = e.firstSeenAt
        /\ r.event.confirmations = e.confirmations /\ r.event.latestSnapshot = snap
    BY <1>1, <1>4, ClosingResult
  <2> HIDE DEF r
  <2>2. QED
    BY <1>4, <2>1 DEF Transitions, ClosedStatuses, r
<1>5. CASE ~IsOpen(e) /\ ~Anomalous(v)
  BY <1>5, NoResult
<1>6. QED
  BY <1>2, <1>3, <1>4, <1>5
=============================================================================

----------------------------- MODULE Lifecycle ------------------------------
(***************************************************************************)
(* The event lifecycle over a whole history of scans, one scan of one      *)
(* asset at a time: processEntry of packages/runtime/src/runtime.ts        *)
(* running alone against the store.  ScanPipeline.tla takes the same step  *)
(* apart into its store operations and lets scans overlap and fail.        *)
(*                                                                         *)
(* Rows of a table are a sequence in insertion order and an identifier is  *)
(* a position in it.  Scans here are serial, so a scan's number is also    *)
(* its clock reading: a timestamp is the number of the scan that wrote it. *)
(***************************************************************************)
EXTENDS LifecycleRules, Sequences, FiniteSets

CONSTANTS
  Assets,    \* the watched assets (rwaId)
  Verdicts,  \* the evaluation outcomes a scan may produce
  MaxScans   \* bound: how many snapshots are taken

ASSUME VerdictsAssumption == \A v \in Verdicts : WellFormed(v)
ASSUME MaxScansAssumption == MaxScans \in Nat

VARIABLES
  snapshots,    \* snapshots table: asset and verdict
  events,       \* events table
  transitions,  \* event_transitions table
  receipts      \* investigations and receipts: written together per event

vars == <<snapshots, events, transitions, receipts>>

-----------------------------------------------------------------------------
\* Mutant of OpenIds: closed events are found as well.
OpenIdsOfAnyStatus(a, kind) ==
  {i \in DOMAIN events : events[i].rwaId = a /\ events[i].kind = kind}

\* openEventFor, asked for a parity gap first and a dispersion second, the
\* most recently seen of several; 0 when nothing is open.
OpenIds(a, kind) ==
  {i \in DOMAIN events : /\ events[i].rwaId = a
                         /\ events[i].kind = kind
                         /\ IsOpen(events[i])}

MostRecent(ids) ==
  CHOOSE i \in ids : \A j \in ids : events[j].lastSeenAt <= events[i].lastSeenAt

\* Mutant of ExistingId: only an open parity gap is looked up.
ExistingGapId(a) ==
  IF OpenIds(a, "parity_gap") = {} THEN 0 ELSE MostRecent(OpenIds(a, "parity_gap"))

ExistingId(a) ==
  IF OpenIds(a, "parity_gap") # {}
  THEN MostRecent(OpenIds(a, "parity_gap"))
  ELSE IF OpenIds(a, "cross_wrapper_dispersion") # {}
       THEN MostRecent(OpenIds(a, "cross_wrapper_dispersion"))
       ELSE 0

Existing(a) == IF ExistingId(a) = 0 THEN NoEvent ELSE events[ExistingId(a)]

\* upsertEvent: the row of an existing event is replaced, a new one is added
\* under the next identifier (nextEventSeq).
Upsert(id, e) ==
  IF id = 0 THEN Append(events, e) ELSE [events EXCEPT ![id] = e]

-----------------------------------------------------------------------------
Init ==
  /\ snapshots   = <<>>
  /\ events      = <<>>
  /\ transitions = <<>>
  /\ receipts    = <<>>

\* One scan of asset a with verdict v: snapshot, event, transition row and,
\* when the event becomes confirmed, its investigation and receipt.
ProcessEntry(a, v) ==
  LET now    == Len(snapshots) + 1
      id     == ExistingId(a)
      result == ApplyScanToEvent(Existing(a), a, v, now, now)
      eventId == IF id = 0 THEN Len(events) + 1 ELSE id
  IN
  /\ Len(snapshots) < MaxScans
  /\ snapshots' = Append(snapshots, [rwaId |-> a, verdict |-> v])
  /\ \/ /\ result.transition = "none"
        /\ UNCHANGED <<events, transitions, receipts>>
     \/ /\ result.transition # "none"
        /\ events' = Upsert(id, result.event)
        /\ transitions' =
             Append(transitions, [eventId    |-> eventId,
                                  transition |-> result.transition,
                                  severity   |-> result.event.severity,
                                  deviation  |-> IF Anomalous(v) THEN v.deviation ELSE 0,
                                  snapshot   |-> now])
        /\ receipts' = IF result.transition = "confirmed"
                       THEN Append(receipts, [eventId |-> eventId, snapshot |-> now])
                       ELSE receipts

Next == \E a \in Assets, v \in Verdicts : ProcessEntry(a, v)

Spec == Init /\ [][Next]_vars

-----------------------------------------------------------------------------
Event ==
  [rwaId           : Assets,
   kind            : EventKinds,
   classification  : Classifications,
   severity        : Severities \ {"none"},
   status          : EventStatuses,
   firstSeenAt     : Nat \ {0},
   lastSeenAt      : Nat \ {0},
   confirmations   : Nat \ {0},
   maxDeviation    : Int,
   latestDeviation : Int,
   latestSnapshot  : Nat \ {0},
   resolvedAt      : Nat]

Transition ==
  [eventId    : Nat \ {0},
   transition : Transitions,
   severity   : Severities \ {"none"},
   deviation  : Int,
   snapshot   : Nat \ {0}]

\* Type correctness of the four tables (AnomalyEventSchema,
\* EventTransitionSchema).
TypeOK ==
  /\ snapshots \in Seq([rwaId : Assets, verdict : Verdicts])
  /\ events \in Seq(Event)
  /\ transitions \in Seq(Transition)
  /\ receipts \in Seq([eventId : Nat \ {0}, snapshot : Nat \ {0}])

-----------------------------------------------------------------------------
(***************************************************************************)
(* Safety.                                                                 *)
(***************************************************************************)

\* The run of a: its snapshots since the last one that found nothing.
Run(a) ==
  {k \in DOMAIN snapshots :
     \A j \in k .. Len(snapshots) :
        snapshots[j].rwaId = a => Anomalous(snapshots[j].verdict)}
  \cap {k \in DOMAIN snapshots : snapshots[k].rwaId = a}

\* An asset never has two open events: processEntry looks up both kinds, so
\* an anomaly that changes kind continues the event instead of opening a
\* second one (which nothing would ever close).
OneOpenEvent ==
  \A i, j \in DOMAIN events :
     /\ IsOpen(events[i]) /\ IsOpen(events[j])
     /\ events[i].rwaId = events[j].rwaId
     => i = j

\* The open event is a faithful summary of the run: there is one exactly
\* while the run is non-empty, it counts it, it was first and last seen where
\* the run starts and ends, and its peak is the run's.  This is about the run
\* under way; of closed events IncidentsMatch (History) says the like.
EventSummarisesRun ==
  \A a \in Assets :
     /\ (Run(a) # {}) <=> (ExistingId(a) # 0)
     /\ Run(a) # {} =>
          /\ Existing(a).confirmations = Cardinality(Run(a))
          /\ Existing(a).firstSeenAt \in Run(a)
          /\ Existing(a).lastSeenAt \in Run(a)
          /\ Existing(a).latestSnapshot = Existing(a).lastSeenAt
          /\ \A k \in Run(a) :
               /\ Existing(a).firstSeenAt <= k
               /\ k <= Existing(a).lastSeenAt
               /\ Abs(snapshots[k].verdict.deviation) <= Abs(Existing(a).maxDeviation)
          /\ \E k \in Run(a) :
               Existing(a).maxDeviation = snapshots[k].verdict.deviation

\* An open event is confirmed exactly from its ConfirmScans-th confirmation.
ConfirmedByCount ==
  \A i \in DOMAIN events :
     IsOpen(events[i]) =>
       (events[i].status = "confirmed" <=> events[i].confirmations >= ConfirmScans)

TransitionsOf(id, kinds) ==
  {k \in DOMAIN transitions : /\ transitions[k].eventId = id
                              /\ transitions[k].transition \in kinds}

\* "Confirmed anomalies earn a full investigation + receipt" (runtime.ts):
\* an event has one exactly when it reached ConfirmScans confirmations, and
\* its evidence is the snapshot of the event's one "confirmed" row.
CertifiedOnce ==
  \A i \in DOMAIN events :
     LET certs == {k \in DOMAIN receipts : receipts[k].eventId = i} IN
     /\ (certs # {}) <=> (events[i].confirmations >= ConfirmScans)
     /\ \A k, m \in certs : k = m
     /\ {receipts[k].snapshot : k \in certs} =
          {transitions[t].snapshot : t \in TransitionsOf(i, {"confirmed"})}

-----------------------------------------------------------------------------
(***************************************************************************)
(* Action properties.                                                      *)
(***************************************************************************)

\* A closed event is history: no later scan changes it, even when the same
\* asset becomes anomalous again (that opens a new event).
ClosedIsFinal ==
  [][\A i \in DOMAIN events : ~IsOpen(events[i]) => events'[i] = events[i]]_vars

\* While an event is open its identity never changes, a confirmation is
\* never taken back, and its count and its peak never shrink.
ProgressOnly ==
  [][\A i \in DOMAIN events :
       LET e == events[i]  f == events'[i] IN
       /\ f.rwaId = e.rwaId /\ f.kind = e.kind /\ f.firstSeenAt = e.firstSeenAt
       /\ e.status = "confirmed" => f.status # "candidate"
       /\ f.confirmations >= e.confirmations
       /\ Abs(f.maxDeviation) >= Abs(e.maxDeviation)]_vars

\* An event only advances: an open one progresses and a closed one is final.
EventsOnlyAdvance == ClosedIsFinal /\ ProgressOnly

-----------------------------------------------------------------------------
(***************************************************************************)
(* Lifecycle implements Incident.                                          *)
(***************************************************************************)
Promise ==
  INSTANCE Incident WITH
    run          <- [a \in Assets |-> IF ExistingId(a) = 0 THEN 0
                                      ELSE Existing(a).confirmations],
    phase        <- [a \in Assets |-> IF ExistingId(a) = 0 THEN "quiet"
                                      ELSE Existing(a).status],
    certificates <- [a \in Assets |->
                       Cardinality({k \in DOMAIN receipts :
                                      events[receipts[k].eventId].rwaId = a})]

\* Every history of scans the lifecycle can produce keeps the promise.
ImplementsIncident == Promise!Spec
=============================================================================

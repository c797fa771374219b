------------------------------ MODULE History -------------------------------
(***************************************************************************)
(* The read side of the runtime over everything serial scans can store:    *)
(* eventTimeline, incident statistics, assetHistory, radar and overview of *)
(* packages/runtime/src/runtime.ts, computed from the tables of Lifecycle. *)
(***************************************************************************)
EXTENDS Lifecycle, Timeline

CONSTANTS
  GapOf,     \* GapOf[v]: widest |gap| of a snapshot with verdict v, or Null
  SpreadOf,  \* SpreadOf[v]: its dispersion, or Null
  Windows,   \* widths of a history window, in scans
  MaxPoints, \* bound: points a chart may have
  RowLimit,  \* snapshots read for a chart, the oldest of its window
  OverviewLimit, \* events the overview looks at, those last seen latest
  LiveFrom   \* the first scan after the restart in live mode on the same file

ASSUME MeasuredAssumption ==
  \A v \in Verdicts : /\ GapOf[v] \in Nat \cup {Null}
                      /\ SpreadOf[v] \in Nat \cup {Null}
                      /\ v.refState \in Incomparable => GapOf[v] = Null
ASSUME LiveFromAssumption == LiveFrom \in Nat
ASSUME WindowAssumption == Windows \subseteq Nat /\ MaxPoints \in Nat \ {0}
ASSUME ReadAssumption == RowLimit \in Nat \ {0} /\ OverviewLimit \in Nat \ {0}

-----------------------------------------------------------------------------
\* LIMIT of a query.
Take(rows, limit) == SubSeq(rows, 1, Min({limit, Len(rows)}))

\* ORDER BY last_seen_at DESC of a set of events.  A scan here is of one
\* asset and changes one event, so no two were last seen together.
NewestFirst(ids) ==
  Ranked(ids, {p \in ids \X ids : events[p[1]].lastSeenAt > events[p[2]].lastSeenAt})

\* The rows of event i in insertion order.
TransitionsFor(i) ==
  Picked(transitions, {k \in DOMAIN transitions : transitions[k].eventId = i})

\* The time of a row is that of the scan which wrote it.
Dated(rows) ==
  [k \in DOMAIN rows |-> [at         |-> rows[k].snapshot,
                          transition |-> rows[k].transition,
                          severity   |-> rows[k].severity,
                          deviation  |-> rows[k].deviation]]

ReceiptsOf(i) == {k \in DOMAIN receipts : receipts[k].eventId = i}

\* generatedAt of the receipt of event i, 0 without one.
ReceiptAt(i) ==
  IF ReceiptsOf(i) = {} THEN 0 ELSE receipts[Max(ReceiptsOf(i))].snapshot

EventTimeline(i) == BuildIncidentTimeline(Dated(TransitionsFor(i)), ReceiptAt(i))

EventIdsFor(a, kind) ==
  {i \in DOMAIN events : events[i].rwaId = a /\ events[i].kind = kind}

StatsOf(i) ==
  IncidentStats(events[i], Dated(TransitionsFor(i)),
                EventIdsFor(events[i].rwaId, events[i].kind))

\* The data source of scan k: fixture until the restart, live from then on.
ModeAt(k) == IF k < LiveFrom THEN "fixture" ELSE "live"

\* An event keeps the data mode it was created in, and its receipt takes it
\* from the event; the provenance is that of the observations received.
EventMode(i) == ModeAt(events[i].firstSeenAt)

ReceiptModes(k) ==
  [dataMode   |-> EventMode(receipts[k].eventId),
   provenance |-> ModeAt(receipts[k].snapshot)]

\* evidenceCapsule of an event with a receipt: what the receipt certified
\* beside what the event has become.
Capsule(i) ==
  [divergence    |-> snapshots[ReceiptAt(i)].verdict.deviation,
   peak          |-> events[i].maxDeviation,
   severity      |-> events[i].severity,
   status        |-> events[i].status,
   confirmations |-> events[i].confirmations,
   resolvedAt    |-> events[i].resolvedAt,
   duration      |-> StatsOf(i).duration,
   recurrences   |-> StatsOf(i).recurrences]

-----------------------------------------------------------------------------
SnapshotToPoint(k) ==
  LET v == snapshots[k].verdict
  IN [at |-> k, gap |-> GapOf[v], spread |-> SpreadOf[v],
      severity |-> v.severity, refState |-> v.refState]

InWindow(a, window) ==
  {k \in DOMAIN snapshots : snapshots[k].rwaId = a /\ k >= Len(snapshots) - window}

\* snapshotsFor: those of the asset within the window, ascending, and of
\* these the first: beyond the limit it is the newest that are not read.
PointsFor(a, window) ==
  LET kept == Take(InOrder(InWindow(a, window)), RowLimit)
  IN [n \in DOMAIN kept |-> SnapshotToPoint(kept[n])]

\* assetHistory: the statistics are taken before the points are thinned out.
AssetHistory(a, window, n) ==
  LET points == PointsFor(a, window)
  IN [points |-> DownsamplePoints(points, n), stats |-> HistoryStats(points)]

-----------------------------------------------------------------------------
SnapshotsOf(a) == {k \in DOMAIN snapshots : snapshots[k].rwaId = a}

\* The assets on the radar and their latest snapshots.
Radar == {a \in Assets : SnapshotsOf(a) # {}}

LatestSnapshot(a) == snapshots[Max(SnapshotsOf(a))]

OpenEvents == {i \in DOMAIN events : IsOpen(events[i])}

\* The overview looks at the events seen last, open or closed.
Active ==
  LET listed == Take(NewestFirst(DOMAIN events), OverviewLimit)
  IN {i \in OpenEvents : \E k \in DOMAIN listed : listed[k] = i}

AtLeastHigh(severity) == SevRank[severity] >= SevRank["high"]

\* overview, as far as it counts assets and incidents.
Overview ==
  [assetsWatched      |-> Cardinality(Radar),
   assetsAnomalous    |-> Cardinality({a \in Radar : Anomalous(LatestSnapshot(a).verdict)}),
   activeIncidents    |-> Cardinality(Active),
   confirmedIncidents |-> Cardinality({i \in Active : events[i].status = "confirmed"}),
   criticalOrHigh     |-> Cardinality({i \in Active : AtLeastHigh(events[i].severity)})]

-----------------------------------------------------------------------------
EntriesOf(timeline, types) == {n \in DOMAIN timeline : timeline[n].type \in types}

RowsTold(timeline, types) == {timeline[n].row : n \in EntriesOf(timeline, types)}

\* The timeline told of event e and its rows opens with the candidate, which
\* it tells once; it closes with what closed the event, before which there is
\* one entry or more for each confirmation; a peak it announces is above all
\* before it and the last extreme it tells is the event's own; and the
\* receipt comes when the event is confirmed and before anything later.
TellsArc(e, rows, told) ==
  /\ EntriesOf(told, {"candidate_created"}) = {1}
  /\ EntriesOf(told, ClosedStatuses) =
       IF IsOpen(e) THEN {} ELSE {n \in {Len(told)} : told[n].type = e.status}
  /\ IsOpen(e) <=> EntriesOf(told, ClosedStatuses) = {}
  /\ Cardinality({told[n].row : n \in DOMAIN told}
                   \ ({0} \cup RowsTold(told, ClosedStatuses))) = e.confirmations
  /\ \A k \in RowsTold(told, {"peak_divergence"}), j \in DOMAIN rows :
       j < k => Size(rows[j]) < Size(rows[k])
  /\ Max({Size(rows[k]) :
            k \in RowsTold(told, {"candidate_created", "confirmed", "peak_divergence"})})
       = Abs(e.maxDeviation)
  /\ \A n \in EntriesOf(told, {"receipt_issued"}) :
       /\ rows[told[n - 1].row].transition = "confirmed"
       /\ \A m \in n + 1 .. Len(told) : told[m].at > told[n].at
  /\ EntriesOf(told, {"receipt_issued"}) # {} <=> e.confirmations >= ConfirmScans

\* "The full arc (candidate, confirmed, peak, resolved) is reconstructible"
\* (domain/timeline.ts) of every event.
TimelineTellsArc ==
  \A i \in DOMAIN events :
    TellsArc(events[i], ByTime(Dated(TransitionsFor(i))), EventTimeline(i))

\* The events seen after event i.
SeenAfter(i) == {j \in DOMAIN events : events[j].lastSeenAt > events[i].lastSeenAt}

\* An open event that has OverviewLimit others, open or closed, seen after it.
Overlooked == {i \in OpenEvents : Cardinality(SeenAfter(i)) >= OverviewLimit}

\* The two halves of the first screen differ by what the overview overlooks
\* and by nothing else: every asset the radar shows as anomalous has one open
\* event, as severe, which is an active incident unless OverviewLimit other
\* events were seen after it.  Up to that limit the halves agree; past it an
\* asset that is not scanned again loses its incident on the overview alone.
OverviewAgrees ==
  /\ Overview.activeIncidents + Cardinality(Overlooked) = Overview.assetsAnomalous
  /\ Overview.criticalOrHigh
       + Cardinality({i \in Overlooked : AtLeastHigh(events[i].severity)}) =
       Cardinality({a \in Radar : AtLeastHigh(LatestSnapshot(a).verdict.severity)})
  /\ Overview.confirmedIncidents
       + Cardinality({i \in Overlooked : events[i].status = "confirmed"}) <= Len(receipts)

\* The statistics of an incident agree with the scans: it was observed once
\* per confirmation and once to close it, its duration spans them, the peak
\* is dated at the last snapshot that shows it, and it recurs as often as an
\* event of its asset and kind opened after an earlier one had closed.  The
\* capsule, half receipt and half event, tells one story: a peak no smaller
\* than the divergence certified, which was seen while the event lasted.
IncidentsMatch ==
  \A i \in DOMAIN events :
    LET e == events[i]
        s == StatsOf(i)
        siblings == EventIdsFor(e.rwaId, e.kind)
        of == {k \in SnapshotsOf(e.rwaId) : e.firstSeenAt <= k /\ k <= e.lastSeenAt}
    IN /\ s.observations = Cardinality(of) + (IF IsOpen(e) THEN 0 ELSE 1)
       /\ s.duration >= s.observations - 1
       /\ s.peakAt = Max({k \in of : Abs(snapshots[k].verdict.deviation) = Abs(s.peak)})
       /\ s.recurrences =
            Cardinality({j \in siblings : /\ events[j].resolvedAt # 0
                                          /\ \E k \in siblings :
                                               events[k].firstSeenAt > events[j].resolvedAt})
       /\ ReceiptsOf(i) # {} =>
            LET c == Capsule(i)
            IN /\ Abs(c.divergence) <= Abs(c.peak)
               /\ c.confirmations >= ConfirmScans
               /\ ReceiptAt(i) >= e.firstSeenAt + ConfirmScans - 1
               /\ c.status = "confirmed" \/ c.duration >= c.confirmations
               /\ c.resolvedAt = 0 <=> c.status = "confirmed"

\* Every view that counts or sums up incidents agrees with the history they
\* were made from: the statistics and the capsule of each, and, but for what
\* lies past its limit, the overview.
StatsMatchHistory == IncidentsMatch /\ OverviewAgrees

\* "Preserves peaks, the thing an integrity chart must never smooth away"
\* (history.ts): however few points a chart may have, it shows points that
\* were read, in their order, at most so many, and where every one has a gap
\* the peak of the statistics.  No snapshot of the window is higher than all
\* of the chart, unless RowLimit others of the window came before it: such a
\* one is not read, and its peak is shown by neither.
ChartKeepsPeaks ==
  \A a \in Assets, w \in Windows, n \in 1 .. MaxPoints :
    LET all   == PointsFor(a, w)
        h     == AssetHistory(a, w, n)
        shown == {h.points[k] : k \in DOMAIN h.points}
    IN all # <<>> =>
         /\ Len(h.points) <= n
         /\ shown \subseteq {all[k] : k \in DOMAIN all}
         /\ \A j, k \in DOMAIN h.points : j < k => h.points[j].at < h.points[k].at
         /\ \E p \in shown : \A k \in InWindow(a, w) :
              \/ Score(SnapshotToPoint(k)) <= Score(p)
              \/ Cardinality({j \in InWindow(a, w) : j < k}) >= RowLimit
         /\ (\A k \in DOMAIN all : all[k].gap # Null)
              => \E p \in shown : p.gap = h.stats.peak

\* "Every provenance entry must match the receipt data mode" (audit.ts:31):
\* a receipt issued here passes that check of the audit.
ReceiptModeMatches ==
  \A k \in DOMAIN receipts :
    ReceiptModes(k).provenance = ReceiptModes(k).dataMode
=============================================================================

------------------------------ MODULE Timeline ------------------------------
(***************************************************************************)
(* What the program shows of the past: the incident timeline               *)
(* (packages/core/src/timeline.ts) and the history series and statistics   *)
(* (history.ts).  All of it is computed from stored rows, nothing is kept. *)
(*                                                                         *)
(* A transition row has at, transition, severity, deviation (0 for the     *)
(* null of a closing row); a point of a chart has at, gap, spread (Null    *)
(* where nothing was measured), severity, refState.  Titles and details    *)
(* are wording and left out.                                               *)
(***************************************************************************)
EXTENDS Domain, SequencesExt

Null == -1

\* A finite set as a list: everyone's place is one more than the number of
\* those before it, where <<s, t>> \in before says that s comes before t.
Ranked(S, before) ==
  LET places == {<<Cardinality({t \in S : <<t, s>> \in before}) + 1, s>> : s \in S}
  IN [i \in 1 .. Cardinality(S) |-> (CHOOSE p \in places : p[1] = i)[2]]

\* The numbers of a set in ascending order.
InOrder(S) == Ranked(S, {p \in S \X S : p[1] < p[2]})

\* The rows at some of their places, in the order they had.
Picked(rows, places) ==
  LET found == InOrder(places) IN [n \in DOMAIN found |-> rows[found[n]]]

\* Rows sorted by a number each has; the sort is stable, so equal ones keep
\* their order.
SortedBy(rows, key) ==
  LET before == {p \in (DOMAIN rows) \X (DOMAIN rows) :
                   \/ key[p[1]] < key[p[2]]
                   \/ key[p[1]] = key[p[2]] /\ p[1] < p[2]}
      order  == Ranked(DOMAIN rows, before)
  IN [k \in DOMAIN order |-> rows[order[k]]]

ByTime(rows) == SortedBy(rows, [k \in DOMAIN rows |-> rows[k].at])

-----------------------------------------------------------------------------
(***************************************************************************)
(* The incident timeline.                                                  *)
(***************************************************************************)
Size(row) == IF row.deviation = 0 THEN Null ELSE Abs(row.deviation)

\* Mutant of PeakBefore: only updated rows move the running peak.
PeakOfUpdates(rows, k) ==
  Max({Size(rows[j]) : j \in {i \in 1 .. k - 1 : rows[i].transition = "updated"}}
        \cup {Null})

\* runningPeak when row k is reached.
PeakBefore(rows, k) == Max({Size(rows[j]) : j \in 1 .. k - 1} \cup {Null})

\* prevDev is known.
HasPrevious(rows, k) == k > 1 /\ rows[k - 1].deviation # 0

\* An updated row first tells a change of severity ...
SeverityEntry(rows, k) ==
  CASE k > 1 /\ SevRank[rows[k].severity] > SevRank[rows[k - 1].severity]
         -> <<"severity_escalated">>
    [] k > 1 /\ SevRank[rows[k].severity] < SevRank[rows[k - 1].severity]
         -> <<"severity_decreased">>
    [] OTHER -> <<>>

\* ... and then where the deviation went; an equal one counts as decreasing.
DeviationEntry(rows, k) ==
  CASE Size(rows[k]) > PeakBefore(rows, k)
         -> IF HasPrevious(rows, k) THEN <<"peak_divergence">> ELSE <<"observation">>
    [] Size(rows[k]) <= PeakBefore(rows, k) /\ HasPrevious(rows, k)
         -> IF Size(rows[k]) > Size(rows[k - 1])
            THEN <<"deviation_increased">> ELSE <<"deviation_decreased">>
    [] OTHER -> <<"observation">>

EntryTypes(rows, k) ==
  CASE rows[k].transition = "created" -> <<"candidate_created">>
    [] rows[k].transition = "confirmed" ->
         IF \E j \in DOMAIN rows : rows[j].transition = "created"
         THEN <<"confirmed">> ELSE <<"candidate_created">>
    [] rows[k].transition = "updated" -> SeverityEntry(rows, k) \o DeviationEntry(rows, k)
    [] OTHER -> <<rows[k].transition>>

\* buildIncidentTimeline; receiptAt is 0 when there is no receipt.  The
\* entries are pushed row by row, one or two for each and the receipt last,
\* and then sorted by time.
BuildIncidentTimeline(transitions, receiptAt) ==
  LET rows    == ByTime(transitions)
      receipt == <<Len(rows) + 1, 1>>
      slots   == UNION {{<<k, n>> : n \in DOMAIN EntryTypes(rows, k)} : k \in DOMAIN rows}
      pushed  == slots \cup (IF receiptAt = 0 THEN {} ELSE {receipt})
      at(s)   == IF s = receipt THEN receiptAt ELSE rows[s[1]].at
      before  == {p \in pushed \X pushed :
                    LET s == p[1]  t == p[2] IN
                    \/ at(s) < at(t)
                    \/ at(s) = at(t) /\ s[1] < t[1]
                    \/ at(s) = at(t) /\ s[1] = t[1] /\ s[2] < t[2]}
      order   == Ranked(pushed, before)
      told(s) == IF s = receipt
                 THEN [at |-> receiptAt, type |-> "receipt_issued", row |-> 0]
                 ELSE [at |-> rows[s[1]].at, type |-> EntryTypes(rows, s[1])[s[2]], row |-> s[1]]
  IN [n \in DOMAIN order |-> told(order[n])]

-----------------------------------------------------------------------------
\* Mutant of PeakAt: the first time the peak was reached.
FirstPeakAt(event, rows) ==
  LET at == {rows[k].at : k \in {j \in DOMAIN rows :
                                    Size(rows[j]) >= Abs(event.maxDeviation)}}
  IN IF at = {} THEN event.lastSeenAt ELSE Min(at)

\* When the event's peak was last reached; a row above the event's own peak
\* raises the mark.
PeakAt(event, rows) ==
  LET mark == Max({Size(rows[k]) : k \in DOMAIN rows} \cup {Abs(event.maxDeviation)})
      at   == {rows[k].at : k \in {j \in DOMAIN rows : Size(rows[j]) = mark}}
  IN IF at = {} THEN event.lastSeenAt ELSE Max(at)

\* incidentStats; siblings are the ids of the events of one asset and kind.
IncidentStats(event, rows, siblings) ==
  LET end == IF event.resolvedAt = 0 THEN event.lastSeenAt ELSE event.resolvedAt
  IN [confirmations |-> event.confirmations,
      peak          |-> event.maxDeviation,
      peakAt        |-> PeakAt(event, rows),
      duration      |-> Max({0, end - event.firstSeenAt}),
      observations  |-> Len(rows),
      recurrences   |-> Max({0, Cardinality(siblings) - 1})]

-----------------------------------------------------------------------------
(***************************************************************************)
(* The history of an asset: points ascending in time.                      *)
(***************************************************************************)
Score(p) == IF p.gap # Null THEN p.gap ELSE IF p.spread # Null THEN p.spread ELSE 0

\* The equal-width bucket of point k; the last instant belongs to the last.
Bucket(points, k, n) ==
  LET first == points[1].at
      span  == Max({1, points[Len(points)].at - first})
  IN Min({n - 1, ((points[k].at - first) * n) \div span})

\* Mutant of Outdone: the later point of a bucket replaces the earlier one.
OutdoneByLater(points, k, n) ==
  \E j \in DOMAIN points : j > k /\ Bucket(points, j, n) = Bucket(points, k, n)

\* Another point of the bucket has a larger score, or the same and is later.
Outdone(points, k, n) ==
  \E j \in DOMAIN points :
    /\ Bucket(points, j, n) = Bucket(points, k, n)
    /\ \/ Score(points[j]) > Score(points[k])
       \/ Score(points[j]) = Score(points[k]) /\ j > k

\* downsamplePoints.
DownsamplePoints(points, n) ==
  IF Len(points) <= n THEN points
  ELSE Picked(points, {k \in DOMAIN points : ~Outdone(points, k, n)})

\* historyStats; the shares are kept as counts.
HistoryStats(points) ==
  LET peak == Max({points[k].gap : k \in DOMAIN points} \cup {Null}) IN
  [points    |-> Len(points),
   peak      |-> peak,
   peakAt    |-> IF peak = Null THEN 0
                 ELSE Min({points[k].at : k \in {j \in DOMAIN points : points[j].gap = peak}}),
   spread    |-> Max({points[k].spread : k \in DOMAIN points} \cup {Null}),
   closed    |-> Cardinality({k \in DOMAIN points : points[k].refState = "market_closed"}),
   anomalous |-> Cardinality({k \in DOMAIN points : points[k].severity # "none"})]
=============================================================================

------------------------------ MODULE Surfaces ------------------------------
(***************************************************************************)
(* What a reader is answered over HTTP (apps/web/src/api.ts), by the MCP   *)
(* tools (apps/mcp/src/tools.ts) and on the command line (apps/cli/src):   *)
(* three sets of thin handlers over one runtime and one store, here over   *)
(* what the serial scans of Lifecycle stored.                              *)
(*                                                                         *)
(* An answer has a code ("ok", or why there is none) and a body.  A list   *)
(* of events is a sequence of their identifiers, 0 is the identifier of no *)
(* event, and an asset is known once a scan has stored it.  Presentation   *)
(* (columns, colours, JSON) is left out.                                   *)
(***************************************************************************)
EXTENDS History

CONSTANTS
  BySymbol,      \* the assets in the order of their symbols
  Absent,        \* a parameter that is not given
  Garbled,       \* text that is no number, or no JSON
  ListDefault,   \* rows of an event list asked for without a limit
  HttpMax,       \* rows of a list the HTTP API will give
  StoreMax,      \* rows of a list the store will give
  PageLimit,     \* events shown with an asset
  ScanLimit,     \* scans listed
  SearchLimit,   \* assets a search finds
  MaxBody,       \* bytes of a request body
  DefaultWindow, \* window of a history asked for without one
  PointsMin,     \* points of a chart, at the least (MaxPoints at the most)
  PointsDefault  \* and when it is asked for without a number

ASSUME SymbolAssumption ==
  /\ BySymbol \in Seq(Assets)
  /\ {BySymbol[k] : k \in DOMAIN BySymbol} = Assets
  /\ Len(BySymbol) = Cardinality(Assets)
ASSUME LimitAssumption ==
  /\ {ListDefault, HttpMax, StoreMax, PageLimit, ScanLimit, SearchLimit, MaxBody,
      PointsMin, PointsDefault} \subseteq Nat \ {0}
  /\ PageLimit <= ListDefault /\ ListDefault <= HttpMax /\ HttpMax <= StoreMax
  /\ OverviewLimit <= StoreMax
  /\ PointsMin <= PointsDefault /\ PointsDefault <= MaxPoints
  /\ DefaultWindow \in Windows

\* What is not given or makes no sense is none of what could be asked for.
ASSUME ParameterAssumption ==
  /\ Absent # Garbled
  /\ \A p \in {Absent, Garbled} : p \notin Nat /\ p \notin Assets
  /\ Absent # Assets

-----------------------------------------------------------------------------
(***************************************************************************)
(* Queries of the store.                                                   *)
(***************************************************************************)
AnyStatus == ""

Matching(status, a) ==
  {i \in DOMAIN events : /\ status = AnyStatus \/ events[i].status = status
                         /\ a = Absent \/ events[i].rwaId = a}

\* Those of the listed events that are in ids.
Only(list, ids) == Picked(list, {k \in DOMAIN list : list[k] \in ids})

\* Mutant of ListEvents: the limit is applied before the filter.
ListEventsCutFirst(status, a, limit) ==
  Only(Take(NewestFirst(DOMAIN events), Min({limit, StoreMax})), Matching(status, a))

ListEvents(status, a, limit) ==
  Take(NewestFirst(Matching(status, a)), Min({limit, StoreMax}))

EventCountsByStatus ==
  [s \in {events[i].status : i \in DOMAIN events} |-> Cardinality(Matching(s, Absent))]

ListScans(limit) == Take(Reverse([k \in DOMAIN snapshots |-> k]), limit)

LatestScan == IF snapshots = <<>> THEN Null ELSE Len(snapshots)

\* Every scan stores its asset together with the snapshot.
GetAsset(a) == a \in Radar

\* ORDER BY symbol of a set of assets.
AssetsBySymbol(known) == Picked(BySymbol, {k \in DOMAIN BySymbol : BySymbol[k] \in known})

ListAssets == AssetsBySymbol(Radar)

\* The stored assets among those whose symbol or name contains the text.
SearchAssets(named) == Take(AssetsBySymbol(Radar \cap named), SearchLimit)

\* The newest receipt of an event, 0 without one; the investigation is
\* written with it.
ReceiptForEvent(i) == IF ReceiptsOf(i) = {} THEN 0 ELSE Max(ReceiptsOf(i))

-----------------------------------------------------------------------------
(***************************************************************************)
(* Questions to the runtime.                                               *)
(***************************************************************************)
GetEvent(i) == i \in DOMAIN events

EventDetail(i) ==
  [event    |-> events[i],
   snapshot |-> events[i].latestSnapshot,
   receipt  |-> ReceiptForEvent(i),
   timeline |-> EventTimeline(i),
   stats    |-> StatsOf(i)]

HasCapsule(i) == GetEvent(i) /\ ReceiptForEvent(i) # 0

\* The widest gap of the latest snapshot, 0 when it has none.
MaxGap(a) == Max({GapOf[LatestSnapshot(a).verdict], 0})

\* radar: the known assets, widest gap first, those with equal gaps by symbol.
RadarRows == SortedBy(ListAssets, [k \in DOMAIN ListAssets |-> -MaxGap(ListAssets[k])])

\* workbench: what the review of an asset is made from (Evidence has the
\* review itself).
WorkbenchOf(a, quote) == [snapshot |-> Max(SnapshotsOf(a)), quote |-> quote]

-----------------------------------------------------------------------------
Ok(body)   == [code |-> "ok", body |-> body]
Fail(code) == [code |-> code, body |-> <<>>]

Answered(answer) == answer.code = "ok"

\* The body when the thing asked for exists.
Found(exists, body, code) == IF exists THEN Ok(body) ELSE Fail(code)

(***************************************************************************)
(* HTTP.                                                                   *)
(***************************************************************************)

\* boundedInt: Number(null) is 0, which is finite.
BoundedInt(raw, lo, hi, default) ==
  IF raw = Garbled THEN default
  ELSE Max({lo, Min({hi, IF raw = Absent THEN 0 ELSE raw})})

HttpEvents(status, a, limit) ==
  IF status \notin EventStatuses \cup {AnyStatus} THEN Fail("bad_status")
  ELSE IF a = Garbled THEN Fail("bad_id")
  ELSE Ok([events |-> ListEvents(status, a, BoundedInt(limit, 1, HttpMax, ListDefault)),
           counts |-> EventCountsByStatus])

HttpEvent(i)    == Found(GetEvent(i), EventDetail(i), "not_found")
HttpTimeline(i) == Found(GetEvent(i), EventTimeline(i), "not_found")
HttpCapsule(i)  == Found(HasCapsule(i), Capsule(i), "not_found")
HttpReceipt(i)  == Found(ReceiptForEvent(i) # 0, ReceiptForEvent(i), "not_found")

\* The verdict on a receipt depends on that receipt alone (Evidence).
HttpVerify(i) == Found(ReceiptForEvent(i) # 0, ReceiptForEvent(i), "not_found")

ReadJsonBody(size, content) ==
  IF size > MaxBody THEN Fail("payload_too_large")
  ELSE Found(content # Garbled, content, "bad_json")

HttpVerifyPosted(size, content) == ReadJsonBody(size, content)

HttpAsset(a) ==
  IF a = Garbled THEN Fail("bad_id")
  ELSE Found(GetAsset(a),
             [snapshot |-> Max(SnapshotsOf(a)), events |-> ListEvents(AnyStatus, a, PageLimit)],
             "not_found")

HttpHistory(a, window, n) ==
  LET asked == IF window = Absent THEN DefaultWindow ELSE window
  IN IF a = Garbled THEN Fail("bad_id")
     ELSE IF ~GetAsset(a) THEN Fail("not_found")
     ELSE Found(asked \in Windows,
                AssetHistory(a, asked, BoundedInt(n, PointsMin, MaxPoints, PointsDefault)),
                "bad_window")

HttpWorkbench(a) ==
  IF a = Garbled THEN Fail("bad_id")
  ELSE Found(GetAsset(a), WorkbenchOf(a, Absent), "not_found")

HttpCompare(a, size, quote) ==
  IF a = Garbled THEN Fail("bad_id")
  ELSE IF ~Answered(ReadJsonBody(size, quote)) THEN ReadJsonBody(size, quote)
  ELSE IF quote = Absent THEN Fail("bad_quote")
  ELSE Found(GetAsset(a), WorkbenchOf(a, quote), "not_found")

HttpAssets(named) == IF named = Absent THEN ListAssets ELSE SearchAssets(named)

RadarRow(a, gap) == [rwaId |-> a, severity |-> LatestSnapshot(a).verdict.severity, gap |-> gap]

HttpRadar ==
  LET rows   == RadarRows
      row(a) == RadarRow(a, GapOf[LatestSnapshot(a).verdict])
  IN [k \in DOMAIN rows |-> row(rows[k])]

HttpOverview ==
  [counted |-> Overview, latestScan |-> LatestScan, eventCounts |-> EventCountsByStatus]

HttpScans == [scans |-> ListScans(ScanLimit), latest |-> LatestScan]

-----------------------------------------------------------------------------
(***************************************************************************)
(* MCP.  The transport refuses arguments outside the declared schema.      *)
(***************************************************************************)
McpEvents(status) ==
  Found(status \in EventStatuses \cup {AnyStatus},
        ListEvents(status, Absent, ListDefault), "invalid")

McpEvent(i)    == Found(GetEvent(i), EventDetail(i), "error")
McpTimeline(i) == Found(GetEvent(i), EventTimeline(i), "error")
McpCapsule(i)  == Found(HasCapsule(i), Capsule(i), "error")
McpVerify(i)   == Found(ReceiptForEvent(i) # 0, ReceiptForEvent(i), "error")

\* mirrorgap_inspect_asset by identifier (by symbol it scans first): the
\* events of the asset among the latest of all.
McpInspect(a) ==
  Found(GetAsset(a),
        [snapshot |-> Max(SnapshotsOf(a)),
         events   |-> Only(ListEvents(AnyStatus, Absent, PageLimit), Matching(AnyStatus, a))],
        "error")

McpHistory(a, window, n) ==
  IF \/ window \notin Windows \cup {Absent}
     \/ n # Absent /\ n \notin PointsMin .. MaxPoints
  THEN Fail("invalid")
  ELSE Found(GetAsset(a),
             AssetHistory(a, IF window = Absent THEN DefaultWindow ELSE window,
                             IF n = Absent THEN PointsDefault ELSE n),
             "error")

\* A quote that does not parse throws; the transport answers with the error.
McpWorkbench(a, quote) ==
  IF quote = Garbled THEN Fail("invalid")
  ELSE Found(GetAsset(a), WorkbenchOf(a, quote), "error")

\* A gap of exactly 0 is shown as none.
McpRadar ==
  LET rows   == RadarRows
      gap(a) == IF MaxGap(a) = 0 THEN Null ELSE MaxGap(a)
  IN [k \in DOMAIN rows |-> RadarRow(rows[k], gap(rows[k]))]

McpOverview == HttpOverview

-----------------------------------------------------------------------------
(***************************************************************************)
(* Command line.  "exit" ends with code 1, "told" prints why and ends with *)
(* code 0.                                                                 *)
(***************************************************************************)
CliEvents(status) == Ok(ListEvents(status, Absent, ListDefault))

\* A command about one event: without an identifier it refuses.
CliOf(i, exists, body) ==
  IF i = Absent THEN Fail("exit") ELSE Found(exists, body, "told")

CliEvent(i)    == CliOf(i, GetEvent(i), EventDetail(i))
CliTimeline(i) == CliOf(i, GetEvent(i), EventTimeline(i))
CliCapsule(i)  == CliOf(i, HasCapsule(i), Capsule(i))
CliReceipt(i)  == CliOf(i, ReceiptForEvent(i) # 0, ReceiptForEvent(i))

\* The window is not checked: an unknown one has no length and throws.
CliHistory(a, window) ==
  IF a = Absent THEN Fail("exit")
  ELSE IF ~GetAsset(a) THEN Fail("told")
  ELSE Found(window \in Windows \cup {Absent},
             AssetHistory(a, IF window = Absent THEN DefaultWindow ELSE window, PointsDefault),
             "exit")

CliWorkbench(a, quote) ==
  Found(GetAsset(a) /\ quote # Garbled, WorkbenchOf(a, quote), "exit")

\* inspect, after the scan it makes: the snapshot it shows.
CliInspect(a) ==
  IF a = Absent THEN Fail("exit") ELSE Found(GetAsset(a), Max(SnapshotsOf(a)), "told")

CliRadar ==
  LET rows   == RadarRows
      row(a) == RadarRow(a, GapOf[LatestSnapshot(a).verdict])
  IN [k \in DOMAIN rows |-> row(rows[k])]

CliStats == HttpOverview

-----------------------------------------------------------------------------
(***************************************************************************)
(* Properties.                                                             *)
(***************************************************************************)

\* rows lists the newest of the events ids, newest first: all, or limit.
IsNewestOf(rows, ids, limit) ==
  LET shown == {rows[k] : k \in DOMAIN rows}
      seen(i) == events[i].lastSeenAt
  IN /\ Len(rows) = Min({limit, Cardinality(ids)})
     /\ shown \subseteq ids
     /\ \A k \in 2 .. Len(rows) : seen(rows[k]) < seen(rows[k - 1])
     /\ \A i \in ids \ shown, j \in shown : seen(i) < seen(j)

\* Whatever the filter, a list shows the newest matching events, is cut only
\* at its limit, and the counts beside it count what it would show uncut.
\* mirrorgap_inspect_asset filters behind its limit where the asset page
\* filters before it: an event of the page is missing there exactly when
\* PageLimit events of whatever asset were seen after it.
ListsAreNewest ==
  /\ \A status \in EventStatuses \cup {AnyStatus} :
       /\ \A a \in Assets \cup {Absent}, n \in {1, HttpMax} :
            IsNewestOf(HttpEvents(status, a, n).body.events, Matching(status, a), n)
       /\ IsNewestOf(McpEvents(status).body, Matching(status, Absent), ListDefault)
       /\ status \in DOMAIN EventCountsByStatus =>
            HttpEvents(status, Absent, HttpMax + 1).body.counts[status]
              = Cardinality(Matching(status, Absent))
  /\ \A a \in Radar :
       LET page == HttpAsset(a).body.events
           tool == McpInspect(a).body.events
       IN /\ IsNewestOf(page, Matching(AnyStatus, a), PageLimit)
          /\ {tool[k] : k \in DOMAIN tool} =
               {i \in {page[k] : k \in DOMAIN page} : Cardinality(SeenAfter(i)) < PageLimit}

\* Every surface answers about the events there are and no other, and shows
\* a receipt, a verdict on it or a capsule exactly of the events whose
\* timeline tells that they were confirmed.
EventsAnswered ==
  \A i \in DOMAIN events \cup {0} :
    /\ \A answered \in
          {Answered(HttpEvent(i)), Answered(HttpTimeline(i)), Answered(McpEvent(i)),
           Answered(McpTimeline(i)), Answered(CliEvent(i)), Answered(CliTimeline(i))} :
         answered <=> i # 0
    /\ \A answered \in
          {Answered(HttpCapsule(i)), Answered(HttpReceipt(i)), Answered(HttpVerify(i)),
           Answered(McpCapsule(i)), Answered(McpVerify(i)),
           Answered(CliCapsule(i)), Answered(CliReceipt(i))} :
         answered <=> TransitionsOf(i, {"confirmed"}) # {}

Scanned == {snapshots[k].rwaId : k \in DOMAIN snapshots}

\* The rows of a radar are the scanned assets, each once, widest gap first.
Ranks(rows) ==
  /\ Len(rows) = Cardinality(Scanned)
  /\ {rows[k].rwaId : k \in DOMAIN rows} = Scanned
  /\ \A k \in 2 .. Len(rows) : MaxGap(rows[k].rwaId) <= MaxGap(rows[k - 1].rwaId)

\* The scanned assets make up the radar of every surface, in the order of
\* their gaps; the tool tells of no gap where the page shows one of exactly 0,
\* and else of the same.  What a radar calls anomalous is what the page of the
\* asset begins with, its open event, and is called as severe there.  The
\* scanned assets and no others are answered about, no quote that makes no
\* sense is compared with, and the latest scan heads the list of scans.
AssetsAnswered ==
  /\ Ranks(HttpRadar) /\ Ranks(McpRadar) /\ Ranks(CliRadar)
  /\ \A k \in DOMAIN HttpRadar :
       LET row  == HttpRadar[k]
           page == HttpAsset(row.rwaId).body.events
       IN /\ McpRadar[k].gap = IF row.gap = 0 THEN Null ELSE row.gap
          /\ row.severity # "none" <=> page # <<>> /\ IsOpen(events[page[1]])
          /\ row.severity # "none" => events[page[1]].severity = row.severity
  /\ \A a \in Assets, w \in Windows :
       /\ \A answered \in
             {Answered(HttpAsset(a)), Answered(McpInspect(a)), Answered(CliInspect(a)),
              Answered(HttpWorkbench(a)), Answered(HttpCompare(a, 1, 1)),
              Answered(McpWorkbench(a, Absent)), Answered(CliWorkbench(a, 1)),
              Answered(HttpHistory(a, w, Absent)), Answered(McpHistory(a, w, PointsMin)),
              Answered(CliHistory(a, w))} :
            answered <=> a \in Scanned
       /\ ~Answered(HttpCompare(a, 1, Garbled))
       /\ ~Answered(McpWorkbench(a, Garbled)) /\ ~Answered(CliWorkbench(a, Garbled))
  /\ snapshots # <<>> => HttpScans.scans[1] = HttpOverview.latestScan

\* What the three surfaces show of one store follows from what was scanned:
\* which events, receipts and assets each of them lists and answers about,
\* in which order and up to which limit, and where two of them differ.
SurfacesAgree == ListsAreNewest /\ EventsAnswered /\ AssetsAnswered

\* "default": 100 and "default": 720 (apps/web/public/openapi.json): a list
\* asked for without a limit, or a chart without a number of points, is given
\* as with the default.
AbsentLimitIsDefault ==
  /\ HttpEvents(AnyStatus, Absent, Absent) = HttpEvents(AnyStatus, Absent, ListDefault)
  /\ \A a \in Radar :
       HttpHistory(a, Absent, Absent) = HttpHistory(a, Absent, PointsDefault)
=============================================================================

------------------------------ MODULE Watchlist ------------------------------
(***************************************************************************)
(* The watchlist and what a scan makes of it, inside one process: adding   *)
(* and removing assets, the data source's lists, the resolution of the     *)
(* list at the start of a scan, the telemetry rows the scan stores and the *)
(* retention that deletes them (runtime.ts, adapter.ts, fixtures/index.ts, *)
(* sqlite.ts).                                                             *)
(*                                                                         *)
(* An await lets other requests run; what stands between two awaits is one *)
(* step.  A symbol stands for its asset.  Of an entry of the list only the *)
(* asset is kept: addedAt, enabled (every write sets it to true) and the   *)
(* thresholds, which the evaluation takes as they are (Engine), are left   *)
(* out.  The lifecycle of an event is reduced to open or not, and to the   *)
(* snapshot it refers to.                                                  *)
(***************************************************************************)
EXTENDS Integers, FiniteSets, SequencesExt

CONSTANTS
  Assets,        \* rwa ids
  Catalog,       \* the source's map: assets in the order it lists them
  Rank,          \* rwa_rank of each asset
  TokenLess,     \* assets without tokens
  Stuck,         \* assets whose last_updated at the source stays at 0
  KnownAtStart,  \* assets stored by an earlier run, maybe of the other mode
  DataMode,      \* "live" or "fixture"
  PageSize, MaxPages,
  Clients,       \* who sends requests to the server
  Loop,          \* the server's scan loop
  Null,
  WatchLimit,
  Retention,     \* retentionDays; 0 keeps everything
  MaxTime,       \* bound: the clock
  MaxScans       \* bound: scans started

ASSUME WatchlistAssumption ==
  /\ Range(Catalog) \subseteq Assets /\ DataMode \in {"live", "fixture"}
  /\ PageSize \in Nat \ {0} /\ MaxPages \in Nat \ {0}
  /\ WatchLimit \in Nat \ {0} /\ Retention \in Nat
  /\ IsFiniteSet(Clients)
  /\ MaxTime \in Nat /\ MaxScans \in Nat

Scanners == Clients \cup {Loop}

VARIABLES
  clock,
  watchlist,     \* watchlist: the assets listed
  known,         \* assets
  observations,  \* observations: id -> retrieved_at of the row
  snapshots,     \* snapshots
  events,        \* events: open or closed, with the latest snapshot
  adds,          \* adds[c]: what an add in flight read before its await
  scans,         \* scans[k]: the scan k is waiting for
  begun          \* scans started so far

storage == <<watchlist, known, observations, snapshots, events>>
listVars == <<clock, storage, adds, scans, begun>>

-----------------------------------------------------------------------------
(* The data source. *)

\* paginate: the pages that are full are followed up to the last one allowed.
Paginate(list) == SubSeq(list, 1, IF Len(list) < PageSize * MaxPages
                                  THEN Len(list) ELSE PageSize * MaxPages)

\* listRwaMap by symbol, or without: the live source in pages.
ListRwaMap(asked) ==
  LET found == SelectSeq(Catalog, LAMBDA a : asked = {} \/ a \in asked)
  IN IF DataMode = "live" THEN Paginate(found) ELSE found

\* oneIdentifier: the live source takes no empty list of ids.
RejectsIds(ids) == DataMode = "live" /\ ids = {}

\* The assets getRwaQuotes may answer for: the live one skips what it does
\* not know; the fixture filters, and takes no filter for every asset.
QuotedFor(ids) ==
  IF DataMode = "live" THEN SUBSET (ids \cap Range(Catalog))
  ELSE {IF ids = {} THEN Range(Catalog) ELSE ids \cap Range(Catalog)}

\* last_updated of the aggregate in an answer received at time t.
LastUpdated(a, t) == IF a \in Stuck THEN 0 ELSE t

-----------------------------------------------------------------------------
(* addToWatchlist and removeFromWatchlist. *)

NoAdd == [asset |-> Null]

\* Mutant of Refused: the comparison with the limit allows one more.
RefusedAboveLimit(a) == a \notin watchlist /\ Cardinality(watchlist) > WatchLimit

\* Decided on the list as the first line reads it, before any await.
Refused(a) == a \notin watchlist /\ Cardinality(watchlist) >= WatchLimit

\* upsertWatchEntry and upsertAsset, unless the list was full when read.
WriteEntry(a, refused) ==
  IF refused
  THEN UNCHANGED <<watchlist, known>>
  ELSE /\ watchlist' = watchlist \cup {a}
       /\ known' = known \cup {a}

Idle(c) == adds[c] = NoAdd /\ scans[c].pc = "idle"

\* By rwaId of a stored asset, nothing is awaited.
AddStored(c, a) ==
  /\ Idle(c) /\ a \in known
  /\ WriteEntry(a, Refused(a))
  /\ UNCHANGED <<clock, observations, snapshots, events, adds, scans, begun>>

\* By symbol, or by an rwaId not stored, the source is asked first.
AddAsks(c, a) ==
  /\ Idle(c)
  /\ adds' = [adds EXCEPT ![c] = [asset |-> a, refused |-> Refused(a)]]
  /\ UNCHANGED <<clock, storage, scans, begun>>

\* The source answers; an asset it does not list may still be stored.
AddAnswered(c) ==
  /\ adds[c] # NoAdd
  /\ IF adds[c].asset \in Range(ListRwaMap({adds[c].asset})) \cup known
     THEN WriteEntry(adds[c].asset, adds[c].refused)
     ELSE UNCHANGED <<watchlist, known>>
  /\ adds' = [adds EXCEPT ![c] = NoAdd]
  /\ UNCHANGED <<clock, observations, snapshots, events, scans, begun>>

AddSourceFails(c) ==
  /\ adds[c] # NoAdd
  /\ adds' = [adds EXCEPT ![c] = NoAdd]
  /\ UNCHANGED <<clock, storage, scans, begun>>

RemoveFromWatchlist(c, a) ==
  /\ Idle(c) /\ a \in watchlist
  /\ watchlist' = watchlist \ {a}
  /\ UNCHANGED <<clock, known, observations, snapshots, events, adds, scans, begun>>

-----------------------------------------------------------------------------
(* A scan and its awaits. *)

NoScan == [pc |-> "idle"]

\* resolveWatchlist up to its await.
ScanBegins(k) ==
  /\ scans[k].pc = "idle" /\ begun < MaxScans
  /\ begun' = begun + 1
  /\ scans' = [scans EXCEPT ![k] = [pc |-> "map", id |-> begun + 1, now |-> clock,
                                    asked |-> watchlist]]
  /\ UNCHANGED <<clock, storage, adds>>

\* The first WatchLimit of a list.
Slice(list) == SubSeq(list, 1, IF Len(list) < WatchLimit THEN Len(list) ELSE WatchLimit)

\* resolveWatchlist after it: the watched assets the source lists, or the
\* best ranked assets with tokens when nothing is watched.
ResolveWatchlist(asked) ==
  LET found  == ListRwaMap(asked)
      ranked == SortSeq(SelectSeq(found, LAMBDA a : a \notin TokenLess),
                        LAMBDA a, b : Rank[a] < Rank[b])
  IN Range(Slice(IF asked # {} THEN found ELSE ranked))

MapAnswers(k) ==
  LET ids == ResolveWatchlist(scans[k].asked) IN
  /\ scans[k].pc = "map" /\ ~RejectsIds(ids)
  /\ scans' = [scans EXCEPT ![k] = [pc |-> "quotes", id |-> @.id, now |-> @.now, ids |-> ids]]
  /\ UNCHANGED <<clock, storage, adds, begun>>

\* The quotes are received; getRwaInfo, whose failure is ignored, is awaited.
QuotesArrive(k) ==
  /\ scans[k].pc = "quotes"
  /\ \E entries \in QuotedFor(scans[k].ids) :
       scans' = [scans EXCEPT ![k] = [pc |-> "info", id |-> @.id, now |-> @.now,
                                      entries |-> entries, retrieved |-> clock]]
  /\ UNCHANGED <<clock, storage, adds, begun>>

\* The source throws, or the scan has no asset to ask for.
ScanFails(k) ==
  /\ scans[k].pc \in {"map", "quotes"}
  /\ scans' = [scans EXCEPT ![k] = NoScan]
  /\ UNCHANGED <<clock, storage, adds, begun>>

-----------------------------------------------------------------------------
(* The rest of the scan has no await: entries, then retention. *)

Reference(a, t) == [asset |-> a, kind |-> "ref", at |-> LastUpdated(a, t)]
Token(a, t)     == [asset |-> a, kind |-> "tok", at |-> t]

\* The observations a snapshot of the asset cites (observationIds).
Evidence(a, t) == {Reference(a, t), Token(a, t)}

\* The retrieved_at a row is kept under: stored again, it keeps its own.
FirstRetrieved(o, t) == IF o \in DOMAIN observations THEN observations[o] ELSE t

\* Mutant of InsertObservations: a row is kept under the source's own time.
InsertUnderOwnTime(entries, t) ==
  [o \in DOMAIN observations \cup UNION {Evidence(a, t) : a \in entries} |-> o.at]

\* insertObservation.
InsertObservations(entries, t) ==
  [o \in DOMAIN observations \cup UNION {Evidence(a, t) : a \in entries} |->
     FirstRetrieved(o, t)]

\* insertSnapshot.  Of the observations cited, "cites" also holds when the
\* row of each was first retrieved; the code does not store that.
SnapshotsOf(scan) ==
  {[id |-> <<scan.id, a>>, at |-> scan.now,
    cites |-> [o \in Evidence(a, scan.retrieved) |-> FirstRetrieved(o, scan.retrieved)]] :
     a \in scan.entries}

\* The event of each entry: opened, kept open or closed, and in the latter
\* two cases referring to the new snapshot.
EventsAfter(scan, anomalous) ==
  LET openFor == {e.asset : e \in {f \in events : f.open}}
  IN {IF e.open /\ e.asset \in scan.entries
      THEN [e EXCEPT !.open = e.asset \in anomalous, !.latest = <<scan.id, e.asset>>]
      ELSE e : e \in events}
     \cup {[asset |-> a, open |-> TRUE, latest |-> <<scan.id, a>>] :
             a \in anomalous \ openFor}

Prunable(s, cutoff, referenced) == s.at < cutoff /\ s.id \notin referenced

\* processEntry for every entry, then pruneOlderThan.  The alerts' delivery,
\* awaited after it, changes nothing here and never throws (Alerts).
ScanProcesses(k) ==
  LET scan   == scans[k]
      cutoff == IF Retention > 0 THEN scan.now - Retention ELSE 0
      stored == InsertObservations(scan.entries, scan.retrieved)
  IN /\ scan.pc = "info"
     /\ \E anomalous \in SUBSET scan.entries :
          LET after == EventsAfter(scan, anomalous) IN
          /\ events' = after
          /\ snapshots' = {s \in snapshots \cup SnapshotsOf(scan) :
                             ~Prunable(s, cutoff, {e.latest : e \in after})}
     /\ observations' = [o \in {p \in DOMAIN stored : stored[p] >= cutoff} |-> stored[o]]
     /\ known' = known \cup scan.entries
     /\ scans' = [scans EXCEPT ![k] = NoScan]
     /\ UNCHANGED <<clock, watchlist, adds, begun>>

-----------------------------------------------------------------------------
ListInit ==
  /\ clock = 0 /\ watchlist = {} /\ known = KnownAtStart
  /\ observations = <<>> /\ snapshots = {} /\ events = {} /\ begun = 0
  /\ adds  = [c \in Clients |-> NoAdd]
  /\ scans = [k \in Scanners |-> NoScan]

TimePasses ==
  /\ clock < MaxTime
  /\ clock' = clock + 1
  /\ UNCHANGED <<storage, adds, scans, begun>>

-----------------------------------------------------------------------------
\* The comparison with the limit uses a list read before an await, so the
\* list may exceed it, but only by adds that were in flight together: by less
\* than the number of clients, whatever is removed and added again between.
OverrunNeedsOverlap ==
  Cardinality(watchlist) <= WatchLimit + Cardinality(Clients) - 1

\* What retention leaves (pruneOlderThan), however scans overlap: an event
\* keeps the snapshot it refers to, however old; an observation a snapshot
\* cites is there for the whole period after its row was first retrieved.
\* No longer: a row stored again keeps its retrieved_at, so an aggregate the
\* source repeats for longer than the period is deleted by the very scan
\* whose snapshot cites it, and the newest snapshot lacks its reference.
RetentionKeepsRecent ==
  /\ \A e \in events : \E s \in snapshots : s.id = e.latest
  /\ Retention > 0 =>
       \A s \in snapshots : \A o \in DOMAIN s.cites :
         s.cites[o] >= clock - Retention => o \in DOMAIN observations
=============================================================================

---------------------------- MODULE ScanPipeline ----------------------------
(***************************************************************************)
(* MirrorGapRuntime.scan of packages/runtime/src/runtime.ts, one action    *)
(* per store operation, each of which commits on its own (sqlite.ts).      *)
(*                                                                         *)
(* Scans overlap: the server's loop, POST /scan, the CLI and the MCP       *)
(* server all start them.  Inside one process a scan runs its loop over    *)
(* the entries without an await, so it keeps the CPU from its last await   *)
(* on the data source to the one on its alerts; between processes every    *)
(* store operation may interleave.  A store operation may throw, the data  *)
(* source may fail, and a process may be killed at any point.              *)
(*                                                                         *)
(* Left to other modules: alert delivery, and the normalised telemetry     *)
(* rows (assets, representations, observations) with their retention,      *)
(* which nothing below reads.  The two queries of openEventFor are one     *)
(* step.                                                                   *)
(***************************************************************************)
EXTENDS LifecycleRules, Sequences, FiniteSets

CONSTANTS
  Assets,    \* assets on the watchlist
  Verdicts,  \* outcomes an evaluation may have
  Procs,     \* processes sharing one database
  Retention, \* age, in scans, past which a scan deletes snapshots; 0: never
  MaxScans,  \* bound: scans started
  MaxFaults  \* bound: store exceptions and crashes

ASSUME VerdictsAssumption == \A v \in Verdicts : WellFormed(v)
ASSUME ProcsAssumption == Procs # {}
ASSUME RetentionAssumption == Retention \in Nat
ASSUME BoundsAssumption == MaxScans \in Nat /\ MaxFaults \in Nat

\* Scan s is the s-th to start, which is also the time it read from the
\* clock when it did (scanNow), and so the timestamp of all it writes.
Scans == 1 .. MaxScans

VARIABLES
  \* the database
  scanRuns,        \* scan_runs: status and counts of each scan begun
  snapshots,       \* every row snapshots was given: id <<scan, asset>> -> verdict
  pruned,          \* ids of those that retention has deleted since
  eventSeq,        \* meta: the last event number handed out
  events,          \* events: event number -> event
  transitions,     \* event_transitions, in insertion order
  investigations,  \* ids <<event, confirmations>>
  receipts,        \* ids: the event's number
  \* the processes
  cpu,             \* cpu[p]: the scan inside its synchronous part, 0 if none
  pc,              \* pc[s]: what scan s does next
  proc,            \* proc[s]: the process that runs s
  todo,            \* todo[s]: entries of the batched quote still to process
  work,            \* work[s]: what s knows of the entry it is processing
  tally,           \* tally[s]: snapshots and events collected for the outcome
  faults           \* store exceptions and crashes so far

database == <<scanRuns, snapshots, pruned, eventSeq, events, transitions,
              investigations, receipts>>
vars == <<database, cpu, pc, proc, todo, work, tally, faults>>

-----------------------------------------------------------------------------
OpenIds(a, kind) ==
  {i \in DOMAIN events : /\ events[i].rwaId = a
                         /\ events[i].kind = kind
                         /\ IsOpen(events[i])}

\* The most recently seen; several may share the same last_seen_at.
MostRecent(ids) ==
  {i \in ids : \A j \in ids : events[j].lastSeenAt <= events[i].lastSeenAt}

\* The ids processEntry may find: openEventFor for either kind, gap first.
ExistingIds(a) ==
  IF OpenIds(a, "parity_gap") # {}
  THEN MostRecent(OpenIds(a, "parity_gap"))
  ELSE IF OpenIds(a, "cross_wrapper_dispersion") # {}
       THEN MostRecent(OpenIds(a, "cross_wrapper_dispersion"))
       ELSE {0}

NoWork == [id |-> 0]

Begun == {s \in Scans : pc[s] # "idle"}

\* The ids the table snapshots holds.
Held == DOMAIN snapshots \ pruned

\* A table with one row inserted, or replaced.
WithRow(table, key, row) ==
  [k \in DOMAIN table \cup {key} |-> IF k = key THEN row ELSE table[k]]

Goto(s, label) == pc' = [pc EXCEPT ![s] = label]

\* The process of s is not in the middle of another scan's loop.
CanRun(s) == cpu[proc[s]] \in {0, s}

-----------------------------------------------------------------------------
Init ==
  /\ scanRuns = <<>> /\ snapshots = <<>> /\ pruned = {}
  /\ eventSeq = 0 /\ events = <<>>
  /\ transitions = <<>> /\ investigations = {} /\ receipts = {}
  /\ cpu  = [p \in Procs |-> 0]
  /\ pc   = [s \in Scans |-> "idle"]
  /\ proc = [s \in Scans |-> CHOOSE p \in Procs : TRUE]
  /\ todo = [s \in Scans |-> {}]
  /\ work = [s \in Scans |-> NoWork]
  /\ tally = [s \in Scans |-> [snapshots |-> 0, found |-> <<>>]]
  /\ faults = 0

\* scan() up to its first await: the clock is read and the run recorded.
BeginScan(p) ==
  LET s == Cardinality(Begun) + 1 IN
  /\ s \in Scans
  /\ cpu[p] = 0
  /\ scanRuns' = WithRow(scanRuns, s,
                         [status |-> "running", assets |-> 0, anomalies |-> 0])
  /\ proc' = [proc EXCEPT ![s] = p]
  /\ Goto(s, "fetching")
  /\ UNCHANGED <<snapshots, pruned, eventSeq, events, transitions,
                 investigations, receipts, cpu, todo, work, tally, faults>>

\* Mutant of QuotesArrive: the loop over the entries awaits something, so
\* that other scans of the process run between its steps.
QuotesArriveYielding(s) ==
  /\ pc[s] = "fetching" /\ CanRun(s)
  /\ \E entries \in SUBSET Assets : todo' = [todo EXCEPT ![s] = entries]
  /\ Goto(s, "entries")
  /\ UNCHANGED <<database, cpu, proc, work, tally, faults>>

\* The awaits on the data source end (getRwaInfo is enrichment only and its
\* errors are ignored): the loop over the entries returned starts.
QuotesArrive(s) ==
  /\ pc[s] = "fetching" /\ CanRun(s)
  /\ \E entries \in SUBSET Assets : todo' = [todo EXCEPT ![s] = entries]
  /\ cpu' = [cpu EXCEPT ![proc[s]] = s]
  /\ Goto(s, "entries")
  /\ UNCHANGED <<database, proc, work, tally, faults>>

\* The source throws: the scan fails with nothing processed.
SourceFails(s) ==
  /\ pc[s] = "fetching" /\ CanRun(s)
  /\ cpu' = [cpu EXCEPT ![proc[s]] = s]
  /\ Goto(s, "failing")
  /\ UNCHANGED <<database, proc, todo, work, tally, faults>>

-----------------------------------------------------------------------------
(***************************************************************************)
(* processEntry, one step per store operation.                             *)
(***************************************************************************)

\* The open event is looked up and the entry evaluated.
LookUp(s) ==
  /\ pc[s] = "entries"
  /\ \E a \in todo[s], v \in Verdicts :
       \E id \in ExistingIds(a) :
         LET existing == IF id = 0 THEN NoEvent ELSE events[id] IN
         /\ todo' = [todo EXCEPT ![s] = @ \ {a}]
         /\ work' = [work EXCEPT ![s] =
              [rwaId |-> a, verdict |-> v, id |-> id,
               result |-> ApplyScanToEvent(existing, a, v, <<s, a>>, s)]]
  /\ Goto(s, "snapshot")
  /\ UNCHANGED <<database, cpu, proc, tally, faults>>

\* insertSnapshot; then the lifecycle decides.  A null result ends the
\* entry, and a new event needs an identifier first.
PersistSnapshot(s) ==
  LET w == work[s] IN
  /\ pc[s] = "snapshot"
  /\ snapshots' = WithRow(snapshots, <<s, w.rwaId>>, w.verdict)
  /\ pruned' = pruned \ {<<s, w.rwaId>>}
  /\ IF w.result.transition = "none"
     THEN /\ Goto(s, "entries")
          /\ tally' = [tally EXCEPT ![s].snapshots = @ + 1]
          /\ work' = [work EXCEPT ![s] = NoWork]
     ELSE /\ Goto(s, IF w.id = 0 THEN "allocate" ELSE "event")
          /\ UNCHANGED <<tally, work>>
  /\ UNCHANGED <<scanRuns, eventSeq, events, transitions, investigations,
                 receipts, cpu, proc, todo, faults>>

\* Mutant of AllocateId: the number is handed out and not stored.
AllocateIdUnstored(s) ==
  /\ pc[s] = "allocate"
  /\ work' = [work EXCEPT ![s].id = eventSeq + 1]
  /\ Goto(s, "event")
  /\ UNCHANGED <<database, cpu, proc, todo, tally, faults>>

\* nextEventSeq, one transaction.
AllocateId(s) ==
  /\ pc[s] = "allocate"
  /\ eventSeq' = eventSeq + 1
  /\ work' = [work EXCEPT ![s].id = eventSeq + 1]
  /\ Goto(s, "event")
  /\ UNCHANGED <<scanRuns, snapshots, pruned, events, transitions,
                 investigations, receipts, cpu, proc, todo, tally, faults>>

\* Mutant of Stored: ON CONFLICT DO NOTHING.
StoredIfNew(id, e) ==
  IF id \in DOMAIN events THEN events ELSE WithRow(events, id, e)

\* The events table with one row inserted or replaced.
Stored(id, e) == WithRow(events, id, e)

\* upsertEvent: the row is written as this scan computed it, whatever has
\* become of it since LookUp.
UpsertEvent(s) ==
  /\ pc[s] = "event"
  /\ events' = Stored(work[s].id, work[s].result.event)
  /\ Goto(s, "transition")
  /\ UNCHANGED <<scanRuns, snapshots, pruned, eventSeq, transitions,
                 investigations, receipts, cpu, proc, todo, work, tally, faults>>

\* The entry is done: its snapshot and event join the scan's outcome.
EntryDone(s) ==
  /\ Goto(s, "entries")
  /\ tally' = [tally EXCEPT ![s] =
                 [snapshots |-> @.snapshots + 1,
                  found     |-> Append(@.found, work[s].result.event.status)]]
  /\ work' = [work EXCEPT ![s] = NoWork]

\* Mutant of RowsOfEntry: mere updates leave no row.
RowsOfChanges(s) ==
  IF work[s].result.transition = "updated" THEN <<>>
  ELSE <<[eventId |-> work[s].id, transition |-> work[s].result.transition,
          scan |-> s, rwaId |-> work[s].rwaId]>>

\* The transition row of the entry s is processing.
RowsOfEntry(s) ==
  <<[eventId |-> work[s].id, transition |-> work[s].result.transition,
     scan |-> s, rwaId |-> work[s].rwaId]>>

\* recordTransition.
RecordTransition(s) ==
  /\ pc[s] = "transition"
  /\ transitions' = transitions \o RowsOfEntry(s)
  /\ IF work[s].result.transition = "confirmed"
     THEN Goto(s, "investigation") /\ UNCHANGED <<tally, work>>
     ELSE EntryDone(s)
  /\ UNCHANGED <<scanRuns, snapshots, pruned, eventSeq, events, investigations,
                 receipts, cpu, proc, todo, faults>>

\* insertInvestigation; a second one under the same id violates the primary
\* key and throws, and so does a second receipt of the event.
InsertInvestigation(s) ==
  LET key == <<work[s].id, work[s].result.event.confirmations>> IN
  /\ pc[s] = "investigation"
  /\ IF key \in investigations
     THEN Goto(s, "failing") /\ UNCHANGED investigations
     ELSE Goto(s, "receipt") /\ investigations' = investigations \cup {key}
  /\ UNCHANGED <<scanRuns, snapshots, pruned, eventSeq, events, transitions,
                 receipts, cpu, proc, todo, work, tally, faults>>

InsertReceipt(s) ==
  /\ pc[s] = "receipt"
  /\ IF work[s].id \in receipts
     THEN Goto(s, "failing") /\ UNCHANGED <<receipts, tally, work>>
     ELSE receipts' = receipts \cup {work[s].id} /\ EntryDone(s)
  /\ UNCHANGED <<scanRuns, snapshots, pruned, eventSeq, events, transitions,
                 investigations, cpu, proc, todo, faults>>

-----------------------------------------------------------------------------
\* Mutant of Expired: the latest snapshots of events go like the others.
ExpiredReferenced(s) == {k \in Held : k[1] + Retention < s}

\* The snapshots measured before the cutoff of scan s, but for those some
\* event has as its latest.
Expired(s) ==
  {k \in Held : k[1] + Retention < s} \ {events[i].latestSnapshot : i \in DOMAIN events}

\* pruneOlderThan after the last entry, one transaction.
Prune(s) ==
  /\ pc[s] = "entries" /\ todo[s] = {}
  /\ pruned' = IF Retention > 0 THEN pruned \cup Expired(s) ELSE pruned
  /\ Goto(s, "complete")
  /\ UNCHANGED <<scanRuns, snapshots, eventSeq, events, transitions,
                 investigations, receipts, cpu, proc, todo, work, tally, faults>>

FinishRun(s, status, anomalies) ==
  scanRuns' = [scanRuns EXCEPT ![s] =
                 [status |-> status, assets |-> tally[s].snapshots,
                  anomalies |-> anomalies]]

\* completeScan; only confirmed anomalies are counted.
CompleteScan(s) ==
  /\ pc[s] = "complete"
  /\ FinishRun(s, "completed",
       Cardinality({k \in DOMAIN tally[s].found : tally[s].found[k] = "confirmed"}))
  /\ cpu' = [cpu EXCEPT ![proc[s]] = 0]
  /\ Goto(s, "settling")
  /\ UNCHANGED <<snapshots, pruned, eventSeq, events, transitions,
                 investigations, receipts, proc, todo, work, tally, faults>>

\* Mutant of FailScan: the catch clause rethrows without completeScan.
FailScanUnrecorded(s) ==
  /\ pc[s] = "failing"
  /\ cpu' = [cpu EXCEPT ![proc[s]] = 0]
  /\ Goto(s, "settling")
  /\ UNCHANGED <<database, proc, todo, work, tally, faults>>

\* completeScan of the catch clause; every event is counted.
FailScan(s) ==
  /\ pc[s] = "failing"
  /\ FinishRun(s, "failed", Len(tally[s].found))
  /\ cpu' = [cpu EXCEPT ![proc[s]] = 0]
  /\ Goto(s, "settling")
  /\ UNCHANGED <<snapshots, pruned, eventSeq, events, transitions,
                 investigations, receipts, proc, todo, work, tally, faults>>

\* The scan's alerts have settled and it returns or rethrows.
AlertsSettle(s) ==
  /\ pc[s] = "settling" /\ CanRun(s)
  /\ Goto(s, "done")
  /\ UNCHANGED <<database, cpu, proc, todo, work, tally, faults>>

\* Mutant of StoreThrows: an exception skips the entry, not the scan.
StoreThrowSkipsEntry(s) ==
  /\ faults < MaxFaults
  /\ faults' = faults + 1
  /\ pc[s] \in {"snapshot", "allocate", "event", "transition", "investigation", "receipt"}
  /\ Goto(s, "entries")
  /\ UNCHANGED <<database, cpu, proc, todo, work, tally>>

\* A store operation throws (disk full, database busy): the rest of the
\* scan is skipped, but for retention, whose failure is ignored.  When
\* completeScan of the catch clause throws as well, the scan ends there and
\* its run stays "running".
StoreThrows(s) ==
  /\ faults < MaxFaults
  /\ faults' = faults + 1
  /\ \/ /\ \/ pc[s] = "entries" /\ todo[s] # {}
           \/ pc[s] \in {"snapshot", "allocate", "event", "transition",
                        "investigation", "receipt", "complete"}
        /\ Goto(s, "failing")
        /\ UNCHANGED cpu
     \/ /\ pc[s] = "entries" /\ todo[s] = {}
        /\ Goto(s, "complete")
        /\ UNCHANGED cpu
     \/ /\ pc[s] = "failing"
        /\ Goto(s, "done")
        /\ cpu' = [cpu EXCEPT ![proc[s]] = 0]
  /\ UNCHANGED <<database, proc, todo, work, tally>>

\* The process is killed or shut down (server.ts exits without waiting for
\* a scan): its scans are gone and the database keeps what was committed.
Crash(p) ==
  /\ faults < MaxFaults
  /\ faults' = faults + 1
  /\ \E s \in Begun : proc[s] = p /\ pc[s] \notin {"done", "dead"}
  /\ pc' = [s \in Scans |-> IF s \in Begun /\ proc[s] = p /\ pc[s] # "done"
                            THEN "dead" ELSE pc[s]]
  /\ cpu' = [cpu EXCEPT ![p] = 0]
  /\ UNCHANGED <<database, proc, todo, work, tally>>

ScanStep(s) ==
  \/ QuotesArrive(s) \/ SourceFails(s)
  \/ LookUp(s) \/ PersistSnapshot(s) \/ AllocateId(s) \/ UpsertEvent(s)
  \/ RecordTransition(s) \/ InsertInvestigation(s) \/ InsertReceipt(s)
  \/ Prune(s) \/ CompleteScan(s) \/ FailScan(s) \/ AlertsSettle(s)

Next ==
  \/ \E s \in Scans : ScanStep(s) \/ StoreThrows(s)
  \/ \E p \in Procs : BeginScan(p) \/ Crash(p)

Spec == Init /\ [][Next]_vars

\* The event loop runs every continuation that is ready, and a pending call
\* on the data source or on an alert destination settles: both have
\* timeouts and a bounded number of attempts.
FairSpec == Spec /\ \A s \in Scans : WF_vars(ScanStep(s))

-----------------------------------------------------------------------------
(***************************************************************************)
(* Safety.                                                                 *)
(***************************************************************************)

\* An asset never has two open events ("same open events updated, not
\* re-created", runtime/test/scan.test.ts), however scans overlap or fail.
OneOpenEvent ==
  \A i, j \in DOMAIN events :
     /\ IsOpen(events[i]) /\ IsOpen(events[j])
     /\ events[i].rwaId = events[j].rwaId
     => i = j

RowsOf(i, kinds) ==
  {k \in DOMAIN transitions : /\ transitions[k].eventId = i
                              /\ transitions[k].transition \in kinds}

\* Scans begun so much later than s that their retention reaches it.
Outliving(s) == {r \in Begun : Retention > 0 /\ s + Retention < r}

\* Nothing in the database speaks of what was never written, at any moment
\* a reader or a restarted process may look, and of what it speaks of only
\* retention takes anything away.  A transition row has its event, and its
\* snapshot until a scan begins that is later by more than the retention;
\* an event has its latest snapshot however old it is ("so incident detail
\* stays intact", sqlite.ts), unless another process began such a scan
\* while the one that wrote the event was still on its way; an
\* investigation has its "confirmed" row and a receipt its investigation.
EvidenceBeforeClaim ==
  /\ \A i \in DOMAIN events :
       LET id == events[i].latestSnapshot IN
       /\ id \in DOMAIN snapshots
       /\ id \in Held \/ \E r \in Outliving(id[1]) : proc[r] # proc[id[1]]
  /\ \A k \in DOMAIN transitions :
       LET t == transitions[k] IN
       /\ t.eventId \in DOMAIN events
       /\ events[t.eventId].rwaId = t.rwaId
       /\ <<t.scan, t.rwaId>> \in DOMAIN snapshots
       /\ <<t.scan, t.rwaId>> \in Held \/ Outliving(t.scan) # {}
  /\ \A inv \in investigations : RowsOf(inv[1], {"confirmed"}) # {}
  /\ \A r \in receipts : \E inv \in investigations : inv[1] = r

\* A run recorded as completed is whole: its count is the count of the
\* snapshots it took, all of which are there until retention reaches them,
\* each anomalous one of them left a transition row, each of its "confirmed"
\* rows a receipt, and no more anomalies are reported than that.
CompletedScanIsWhole ==
  \A s \in Begun : scanRuns[s].status = "completed" =>
    LET mine == {a \in Assets : <<s, a>> \in DOMAIN snapshots}
        rows == {k \in DOMAIN transitions : transitions[k].scan = s}
    IN /\ scanRuns[s].assets = Cardinality(mine)
       /\ Outliving(s) = {} => \A a \in mine : <<s, a>> \in Held
       /\ \A a \in mine : Anomalous(snapshots[<<s, a>>]) =>
            \E k \in rows : transitions[k].rwaId = a
       /\ \A k \in rows : transitions[k].transition = "confirmed" =>
            transitions[k].eventId \in receipts
       /\ Cardinality({k \in rows : transitions[k].transition = "confirmed"})
            <= scanRuns[s].anomalies
       /\ scanRuns[s].anomalies <=
            Cardinality({a \in mine : Anomalous(snapshots[<<s, a>>])})

\* The transition rows of i replay to i: as many confirmations as it counts,
\* a closing row exactly when it is closed and after all others, a receipt
\* exactly when it was confirmed.
ArcWhole(i) ==
  LET closing == RowsOf(i, ClosedStatuses)
      confirming == RowsOf(i, Transitions \ ClosedStatuses)
  IN /\ Cardinality(confirming) = events[i].confirmations
     /\ Cardinality(closing) = IF IsOpen(events[i]) THEN 0 ELSE 1
     /\ \A k \in closing, j \in confirming : j < k
     /\ (i \in receipts) <=> (events[i].confirmations >= ConfirmScans)

\* Only a scan cut short leaves a gap: the arc of an event is whole when
\* every scan that took a snapshot of its asset is recorded as completed.
GapOnlyAfterFailure ==
  \A i \in DOMAIN events :
    (\A s \in Begun : <<s, events[i].rwaId>> \in DOMAIN snapshots
                        => scanRuns[s].status = "completed")
    => ArcWhole(i)

\* A crash or an exception loses rows and never invents any: the log of an
\* event never counts more confirmations than the event, it has at most one
\* "confirmed" row, and none at all before the count is reached.
LogNeverAhead ==
  \A i \in DOMAIN events :
    /\ Cardinality(RowsOf(i, Transitions \ ClosedStatuses)) <= events[i].confirmations
    /\ Cardinality(RowsOf(i, {"confirmed"})) <= 1
    /\ RowsOf(i, {"confirmed"}) # {} => events[i].confirmations >= ConfirmScans
    /\ events[i].status = "confirmed" <=>
         IsOpen(events[i]) /\ events[i].confirmations >= ConfirmScans

-----------------------------------------------------------------------------
\* An event keeps the asset, the kind and the opening time it was given,
\* so no two scans ever open different events under one number.
EventIdentityStable ==
  [][\A i \in DOMAIN events :
       /\ events'[i].rwaId = events[i].rwaId
       /\ events'[i].kind = events[i].kind
       /\ events'[i].firstSeenAt = events[i].firstSeenAt]_vars

\* Every run begun is eventually recorded as completed or failed, whatever
\* the data source does and however many scans share the process.
EveryRunFinishes ==
  \A s \in Scans :
    s \in Begun ~> (s \in Begun /\ scanRuns[s].status \in {"completed", "failed"})
=============================================================================

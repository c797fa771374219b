-------------------------- MODULE ScanPipelineProofs --------------------------
(***************************************************************************)
(* Theorems about the scan pipeline, for every set of assets and of        *)
(* well-formed verdicts, every number of scans, of processes, of store     *)
(* exceptions and of crashes.  OneEventOpen, LogStaysBehind and            *)
(* GapsAreExplained are about a database with one process; the others hold *)
(* for any number of them.                                                 *)
(***************************************************************************)
EXTENDS ScanPipeline, LifecycleRulesProofs, FiniteSetTheorems

-----------------------------------------------------------------------------
(***************************************************************************)
(* The inductive invariant of the identity of events.                      *)
(***************************************************************************)

\* The steps of processEntry.
Recording  == {"transition", "investigation", "receipt"}
Processing == {"snapshot", "allocate", "event"} \cup Recording
Labels == Processing \cup {"idle", "fetching", "entries", "complete", "failing",
                           "settling", "done", "dead"}

Row == EventRow(Assets, Scans \X Assets)

TransitionRow == [eventId : Nat, transition : Transitions, scan : Scans, rwaId : Assets]

TypeOK ==
  /\ eventSeq \in Nat
  /\ \A i \in DOMAIN events : i \in Nat \ {0} /\ i <= eventSeq /\ events[i] \in Row
  /\ transitions \in Seq(TransitionRow)
  /\ pc \in [Scans -> Labels]
  /\ todo \in [Scans -> SUBSET Assets]
  /\ work = [s \in Scans |-> work[s]]

SameIdentity(e, f) == e.rwaId = f.rwaId /\ e.kind = f.kind /\ e.firstSeenAt = f.firstSeenAt

\* What scan s at this label of processEntry knows of its entry, given the
\* events table, the last number handed out and the snapshots stored.
WorkFits(s, label, w, table, last, stored) ==
  /\ w = [rwaId |-> w.rwaId, verdict |-> w.verdict, id |-> w.id, result |-> w.result]
  /\ w.rwaId \in Assets
  /\ w.id \in Nat /\ w.id <= last
  /\ w.result.transition \in Transitions \cup {"none"}
  /\ w.result.transition # "none" => /\ w.result.event \in Row
                                     /\ w.result.event.latestSnapshot = <<s, w.rwaId>>
                                     /\ w.result.event.rwaId = w.rwaId
  /\ label # "snapshot" => w.result.transition # "none" /\ <<s, w.rwaId>> \in stored
  /\ label = "allocate" => w.id = 0
  /\ label \in {"event"} \cup Recording => w.id # 0
  /\ label \in {"snapshot"} \cup Recording /\ w.id # 0 => w.id \in DOMAIN table
  /\ w.id \in DOMAIN table => /\ w.result.transition # "none"
                              /\ SameIdentity(table[w.id], w.result.event)

WorksFit ==
  \A s \in Scans :
    pc[s] \in Processing => WorkFits(s, pc[s], work[s], events, eventSeq, DOMAIN snapshots)

\* A number handed out and not yet used is known to one scan only.
NumbersUnshared ==
  \A s, t \in Scans :
    /\ s # t /\ pc[s] \in Processing /\ pc[t] \in Processing
    /\ work[s].id # 0 /\ work[s].id = work[t].id
    => work[s].id \in DOMAIN events

IdentityInv == TypeOK /\ WorksFit /\ NumbersUnshared

-----------------------------------------------------------------------------
(***************************************************************************)
(* What the tables and the lifecycle contribute.                           *)
(***************************************************************************)

LEMMA RowWritten ==
  ASSUME NEW table, NEW key, NEW row
  PROVE  /\ DOMAIN WithRow(table, key, row) = DOMAIN table \cup {key}
         /\ WithRow(table, key, row)[key] = row
         /\ \A k \in DOMAIN table \ {key} : WithRow(table, key, row)[k] = table[k]
  BY DEF WithRow

\* processEntry finds an open event of its asset, or none.
LEMMA FoundEvent ==
  ASSUME NEW a, NEW id \in ExistingIds(a)
  PROVE  \/ id = 0
         \/ id \in DOMAIN events /\ events[id].rwaId = a /\ IsOpen(events[id])
<1>1. \A kind : MostRecent(OpenIds(a, kind)) \subseteq OpenIds(a, kind)
  BY DEF MostRecent
<1>2. \/ id = 0
      \/ id \in OpenIds(a, "parity_gap") \/ id \in OpenIds(a, "cross_wrapper_dispersion")
  BY <1>1 DEF ExistingIds
<1>3. QED
  BY <1>2 DEF OpenIds

\* It finds none only if there is none.
LEMMA NothingFound ==
  ASSUME TypeOK, NEW a, 0 \in ExistingIds(a)
  PROVE  \A i \in DOMAIN events : ~(IsOpen(events[i]) /\ events[i].rwaId = a)
<1>1. 0 \notin DOMAIN events
  BY DEF TypeOK
<1>5. \A kind : 0 \notin MostRecent(OpenIds(a, kind))
  BY <1>1 DEF MostRecent, OpenIds
<1>2. OpenIds(a, "parity_gap") = {} /\ OpenIds(a, "cross_wrapper_dispersion") = {}
  BY <1>5 DEF ExistingIds
<1>3. \A i \in DOMAIN events : events[i].kind \in EventKinds
  BY DEF TypeOK, Row, EventRow
<1>4. QED
  BY <1>2, <1>3 DEF OpenIds, EventKinds

\* What a scan knows stays true while events keep their identity.
LEMMA WorkStillFits ==
  ASSUME NEW s, NEW label, NEW w, NEW t1, NEW t2, NEW n1 \in Nat, NEW n2 \in Nat,
         NEW d1, NEW d2, WorkFits(s, label, w, t1, n1, d1),
         n1 <= n2, d1 \subseteq d2, DOMAIN t1 \subseteq DOMAIN t2,
         \A i \in DOMAIN t1 : SameIdentity(t2[i], t1[i]),
         w.id \in DOMAIN t2 => w.id \in DOMAIN t1
  PROVE  WorkFits(s, label, w, t2, n2, d2)
<1>1. w.id \in Nat /\ w.id <= n2
  BY DEF WorkFits
<1>2. w.id \in DOMAIN t2 => SameIdentity(t2[w.id], w.result.event)
  BY DEF WorkFits, SameIdentity
<1>3. QED
  BY <1>1, <1>2 DEF WorkFits

\* LookUp: what the lifecycle decided about the entry.
LEMMA LookUpDecides ==
  ASSUME TypeOK, NEW s \in Scans, LookUp(s)
  PROVE  \E w : /\ pc[s] = "entries"
                /\ pc' = [pc EXCEPT ![s] = "snapshot"]
                /\ work' = [work EXCEPT ![s] = w]
                /\ todo' = [todo EXCEPT ![s] = @ \ {w.rwaId}]
                /\ w.rwaId \in todo[s]
                /\ w.verdict \in Verdicts
                /\ w.id \in ExistingIds(w.rwaId)
                /\ w.result = ApplyScanToEvent(IF w.id = 0 THEN NoEvent ELSE events[w.id],
                                               w.rwaId, w.verdict, <<s, w.rwaId>>, s)
                /\ WorkFits(s, "snapshot", w, events, eventSeq, DOMAIN snapshots)
<1>1. PICK a \in todo[s], v \in Verdicts : \E id \in ExistingIds(a) :
        /\ todo' = [todo EXCEPT ![s] = @ \ {a}]
        /\ work' = [work EXCEPT ![s] =
             [rwaId |-> a, verdict |-> v, id |-> id,
              result |-> ApplyScanToEvent(IF id = 0 THEN NoEvent ELSE events[id],
                                          a, v, <<s, a>>, s)]]
  BY DEF LookUp
<1>2. PICK id \in ExistingIds(a) :
        /\ todo' = [todo EXCEPT ![s] = @ \ {a}]
        /\ work' = [work EXCEPT ![s] =
             [rwaId |-> a, verdict |-> v, id |-> id,
              result |-> ApplyScanToEvent(IF id = 0 THEN NoEvent ELSE events[id],
                                          a, v, <<s, a>>, s)]]
  BY <1>1
<1> DEFINE e == IF id = 0 THEN NoEvent ELSE events[id]
           r == ApplyScanToEvent(e, a, v, <<s, a>>, s)
           w == [rwaId |-> a, verdict |-> v, id |-> id, result |-> r]
<1>3. a \in Assets /\ s \in Nat /\ <<s, a>> \in Scans \X Assets /\ WellFormed(v)
  BY VerdictsAssumption, BoundsAssumption DEF TypeOK, Scans
<1>4. \/ id = 0
      \/ id \in DOMAIN events /\ events[id].rwaId = a /\ IsOpen(events[id])
  BY FoundEvent
<1>5. /\ e = NoEvent \/ e \in Row
      /\ id # 0 => IsOpen(e) /\ e.rwaId = a
      /\ id = 0 => ~IsOpen(e)
      /\ id \in Nat /\ id <= eventSeq
  BY <1>4 DEF TypeOK, NoEvent, IsOpen, OpenStatuses
<1> HIDE DEF e
<1> DEFINE ids == Scans \X Assets
           snap == <<s, a>>
<1>6. snap \in ids
  BY <1>3
<1> HIDE DEF ids, snap
<1>7. r = ApplyScanToEvent(e, a, v, snap, s)
  BY DEF snap
<1> HIDE DEF r
<1>8. Row = EventRow(Assets, ids)
  BY DEF Row, ids
<1>9. /\ r.transition \in Transitions \cup {"none"}
      /\ r.transition = "none" <=> ~IsOpen(e) /\ ~Anomalous(v)
      /\ r.transition # "none" => r.event \in Row /\ r.event.latestSnapshot = snap
  BY <1>3, <1>5, <1>6, <1>7, <1>8, ScanResultFacts
<1>10. /\ ~IsOpen(e) /\ Anomalous(v) => r.event \in Row /\ r.event.rwaId = a
       /\ IsOpen(e) => r.event \in Row /\ SameIdentity(e, r.event)
  <2>1. CASE ~IsOpen(e) /\ Anomalous(v)
    BY <1>3, <1>6, <1>7, <1>8, <2>1, OpeningResult
  <2>2. CASE IsOpen(e) /\ Anomalous(v)
    BY <1>3, <1>5, <1>6, <1>7, <1>8, <2>2, ContinuingResult
       DEF SameIdentity, NoEvent, IsOpen, OpenStatuses
  <2>3. CASE IsOpen(e) /\ ~Anomalous(v)
    BY <1>3, <1>5, <1>6, <1>7, <1>8, <2>3, ClosingResult
       DEF SameIdentity, NoEvent, IsOpen, OpenStatuses
  <2>4. QED
    BY <2>1, <2>2, <2>3
<1>11. /\ r.transition # "none" => r.event.rwaId = a
       /\ id \in DOMAIN events => r.transition # "none" /\ SameIdentity(events[id], r.event)
  BY <1>4, <1>5, <1>9, <1>10 DEF e, TypeOK, SameIdentity
<1>12. WorkFits(s, "snapshot", w, events, eventSeq, DOMAIN snapshots)
  <2>1. id # 0 => id \in DOMAIN events
    BY <1>4
  <2>2. r.transition # "none" => r.event.latestSnapshot = <<s, a>>
    BY <1>9 DEF snap
  <2>3. QED
    BY <1>3, <1>5, <1>9, <1>11, <2>1, <2>2 DEF WorkFits, Recording
<1>13. pc[s] = "entries" /\ pc' = [pc EXCEPT ![s] = "snapshot"]
  BY DEF LookUp, Goto
<1>14. QED
  BY <1>2, <1>12, <1>13 DEF r, e

-----------------------------------------------------------------------------
(***************************************************************************)
(* The steps, by what they do to the tables.                               *)
(***************************************************************************)

tables == <<snapshots, eventSeq, events, transitions, investigations, receipts>>

\* A step outside processEntry: scans begin, wait, finish, fail or die.
Quiet ==
  /\ UNCHANGED <<tables, work>>
  /\ pc' \in [Scans -> Labels] /\ todo' \in [Scans -> SUBSET Assets]
  /\ \A s \in Scans : pc'[s] = pc[s] \/ pc'[s] \notin Processing

EntryStep(s) ==
  \/ LookUp(s) \/ PersistSnapshot(s) \/ AllocateId(s) \/ UpsertEvent(s)
  \/ RecordTransition(s) \/ InsertInvestigation(s) \/ InsertReceipt(s)

LEMMA LabelsApart ==
  /\ Processing \subseteq Labels
  /\ {"fetching", "entries", "complete", "failing", "settling", "done", "dead"}
       \subseteq Labels \ Processing
  BY DEF Labels, Processing, Recording

LEMMA StepKinds ==
  ASSUME TypeOK, [Next]_vars
  PROVE  Quiet \/ \E s \in Scans : EntryStep(s)
<1>1. ASSUME NEW s \in Scans, NEW label \in Labels \ Processing, Goto(s, label),
             UNCHANGED <<tables, work, todo>>
      PROVE  Quiet
  BY <1>1 DEF Goto, Quiet, TypeOK
<1>2. ASSUME NEW s \in Scans, \/ SourceFails(s) \/ Prune(s) \/ CompleteScan(s)
                              \/ FailScan(s) \/ AlertsSettle(s)
      PROVE  Quiet
  BY <1>1, <1>2, LabelsApart DEF SourceFails, Prune, CompleteScan, FailScan, AlertsSettle,
                                 database, tables
<1>3. ASSUME NEW s \in Scans, QuotesArrive(s)
      PROVE  Quiet
  <2>1. PICK entries \in SUBSET Assets : todo' = [todo EXCEPT ![s] = entries]
    BY <1>3 DEF QuotesArrive
  <2>2. pc' = [pc EXCEPT ![s] = "entries"] /\ UNCHANGED <<tables, work>>
    BY <1>3 DEF QuotesArrive, Goto, database, tables
  <2>3. QED
    BY <2>1, <2>2, LabelsApart DEF Quiet, TypeOK
<1>4. ASSUME NEW s \in Scans, StoreThrows(s)
      PROVE  Quiet
  BY <1>1, <1>4, LabelsApart DEF StoreThrows, database, tables
<1>5. ASSUME NEW p \in Procs, BeginScan(p)
      PROVE  Quiet
  <2>1. PICK s \in Scans : Goto(s, "fetching")
    BY <1>5 DEF BeginScan
  <2>2. UNCHANGED <<tables, work, todo>>
    BY <1>5 DEF BeginScan, tables
  <2>3. QED
    BY <1>1, <2>1, <2>2, LabelsApart
<1>6. ASSUME NEW p \in Procs, Crash(p)
      PROVE  Quiet
  BY <1>6, LabelsApart DEF Crash, Quiet, TypeOK, database, tables
<1>7. ASSUME UNCHANGED vars
      PROVE  Quiet
  BY <1>7 DEF vars, database, tables, Quiet, TypeOK
<1>8. QED
  BY <1>2, <1>3, <1>4, <1>5, <1>6, <1>7 DEF Next, ScanStep, EntryStep

-----------------------------------------------------------------------------
(***************************************************************************)
(* Every step preserves the invariant.                                     *)
(***************************************************************************)

\* A step of s in processEntry leaves the other scans what they know, if it
\* changes no event's identity and uses no number but its own.
LEMMA EntryStepKeeps ==
  ASSUME IdentityInv, NEW s \in Scans, NEW label \in Labels, NEW w,
         pc' = [pc EXCEPT ![s] = label], work' = [work EXCEPT ![s] = w],
         todo' \in [Scans -> SUBSET Assets],
         transitions' \in Seq(TransitionRow),
         eventSeq' \in Nat, eventSeq <= eventSeq',
         DOMAIN snapshots \subseteq DOMAIN snapshots',
         DOMAIN events \subseteq DOMAIN events',
         \A i \in DOMAIN events : SameIdentity(events'[i], events[i]),
         \A i \in DOMAIN events' : i \in Nat \ {0} /\ i <= eventSeq' /\ events'[i] \in Row,
         \A i \in DOMAIN events' \ DOMAIN events : pc[s] \in Processing /\ i = work[s].id,
         label \in Processing =>
           /\ WorkFits(s, label, w, events', eventSeq', DOMAIN snapshots')
           /\ \/ w.id \in {0} \cup DOMAIN events'
              \/ w.id > eventSeq
              \/ pc[s] \in Processing /\ w.id = work[s].id
  PROVE  IdentityInv'
<1>1. TypeOK'
  BY DEF IdentityInv, TypeOK
<1>2. /\ pc'[s] = label /\ work'[s] = w
      /\ \A t \in Scans \ {s} : pc'[t] = pc[t] /\ work'[t] = work[t]
  BY DEF IdentityInv, TypeOK
<1>3. ASSUME NEW t \in Scans \ {s}, pc[t] \in Processing
      PROVE  /\ WorkFits(t, pc[t], work[t], events', eventSeq', DOMAIN snapshots')
             /\ work[t].id \in Nat /\ work[t].id <= eventSeq
             /\ work[t].id \in DOMAIN events' => work[t].id \in DOMAIN events
  <2>1. WorkFits(t, pc[t], work[t], events, eventSeq, DOMAIN snapshots)
    BY <1>3 DEF IdentityInv, WorksFit
  <2>2. work[t].id \in Nat /\ work[t].id <= eventSeq
    BY <2>1 DEF WorkFits
  <2>3. work[t].id \in DOMAIN events' => work[t].id \in DOMAIN events
    BY <1>3, <2>2 DEF IdentityInv, NumbersUnshared
  <2>4. eventSeq \in Nat
    BY DEF IdentityInv, TypeOK
  <2>5. QED
    BY <2>1, <2>2, <2>3, <2>4, WorkStillFits
<1>4. WorksFit'
  BY <1>2, <1>3 DEF WorksFit
<1>5. ASSUME NEW t \in Scans \ {s}, label \in Processing, pc[t] \in Processing,
             w.id # 0, w.id = work[t].id
      PROVE  w.id \in DOMAIN events'
  <2>1. eventSeq \in Nat /\ ~(w.id > eventSeq)
    BY <1>3, <1>5 DEF IdentityInv, TypeOK
  <2>2. QED
    BY <1>5, <2>1 DEF IdentityInv, NumbersUnshared
<1>6. NumbersUnshared'
  <2> SUFFICES ASSUME NEW t \in Scans, NEW u \in Scans, t # u,
                      pc'[t] \in Processing, pc'[u] \in Processing,
                      work'[t].id # 0, work'[t].id = work'[u].id
               PROVE  work'[t].id \in DOMAIN events'
    BY DEF NumbersUnshared
  <2>1. CASE t # s /\ u # s
    BY <1>2, <2>1 DEF IdentityInv, NumbersUnshared
  <2>2. CASE t = s
    BY <1>2, <1>5, <2>2
  <2>3. CASE u = s
    BY <1>2, <1>5, <2>3
  <2>4. QED
    BY <2>1, <2>2, <2>3
<1>7. QED
  BY <1>1, <1>4, <1>6 DEF IdentityInv

LEMMA QuietKeepsIdentity ==
  ASSUME IdentityInv, Quiet
  PROVE  IdentityInv'
<1>1. TypeOK'
  BY DEF IdentityInv, TypeOK, Quiet, tables
<1>2. \A s \in Scans : pc'[s] \in Processing => pc'[s] = pc[s]
  BY DEF Quiet
<1>3. UNCHANGED <<snapshots, eventSeq, events, work>>
  BY DEF Quiet, tables
<1>4. WorksFit'
  BY <1>2, <1>3 DEF IdentityInv, WorksFit
<1>5. NumbersUnshared'
  BY <1>2, <1>3 DEF IdentityInv, NumbersUnshared
<1>6. QED
  BY <1>1, <1>4, <1>5 DEF IdentityInv

LEMMA TransitionsGrow ==
  ASSUME IdentityInv, NEW s \in Scans, pc[s] = "transition",
         transitions' = transitions \o RowsOfEntry(s)
  PROVE  /\ transitions' \in Seq(TransitionRow)
         /\ \E row \in TransitionRow :
              /\ row = [eventId |-> work[s].id, transition |-> work[s].result.transition,
                        scan |-> s, rwaId |-> work[s].rwaId]
              /\ transitions' = Append(transitions, row)
<1> DEFINE row == [eventId |-> work[s].id, transition |-> work[s].result.transition,
                   scan |-> s, rwaId |-> work[s].rwaId]
<1>1. WorkFits(s, "transition", work[s], events, eventSeq, DOMAIN snapshots)
  BY DEF IdentityInv, WorksFit, Processing, Recording
<1>2. row \in TransitionRow
  BY <1>1 DEF WorkFits, TransitionRow
<1>3. transitions \in Seq(TransitionRow)
  BY DEF IdentityInv, TypeOK
<1>4. transitions' = transitions \o <<row>>
  BY DEF RowsOfEntry
<1> HIDE DEF row
<1>5. transitions' = Append(transitions, row) /\ transitions' \in Seq(TransitionRow)
  BY <1>2, <1>3, <1>4
<1>6. QED
  BY <1>2, <1>5 DEF row

LEMMA EntryStepKeepsIdentity ==
  ASSUME IdentityInv, NEW s \in Scans, EntryStep(s)
  PROVE  IdentityInv'
<1>1. /\ pc \in [Scans -> Labels] /\ todo \in [Scans -> SUBSET Assets]
      /\ work = [t \in Scans |-> work[t]]
      /\ eventSeq \in Nat /\ transitions \in Seq(TransitionRow)
      /\ \A i \in DOMAIN events : i \in Nat \ {0} /\ i <= eventSeq /\ events[i] \in Row
      /\ \A i \in DOMAIN events : SameIdentity(events[i], events[i])
  BY DEF IdentityInv, TypeOK, SameIdentity
<1>2. pc[s] \in Processing =>
        WorkFits(s, pc[s], work[s], events, eventSeq, DOMAIN snapshots)
  BY DEF IdentityInv, WorksFit
<1>3. /\ \A l \in {"snapshot", "allocate", "event", "transition", "investigation",
                   "receipt"} : l \in Processing /\ l \in Labels
      /\ \A l \in {"entries", "failing"} : l \in Labels /\ l \notin Processing
  BY DEF Processing, Labels, Recording
\* Steps that write neither an event nor a number.
<1>4. ASSUME NEW label \in Labels, NEW w,
             pc' = [pc EXCEPT ![s] = label], work' = [work EXCEPT ![s] = w],
             todo' \in [Scans -> SUBSET Assets],
             transitions' \in Seq(TransitionRow),
             UNCHANGED <<eventSeq, events>>, DOMAIN snapshots \subseteq DOMAIN snapshots',
             label \in Processing =>
               /\ WorkFits(s, label, w, events, eventSeq, DOMAIN snapshots')
               /\ w.id \in {0} \cup DOMAIN events \/ (pc[s] \in Processing /\ w.id = work[s].id)
      PROVE  IdentityInv'
  <2>1. /\ eventSeq' \in Nat /\ eventSeq <= eventSeq'
        /\ DOMAIN events \subseteq DOMAIN events'
        /\ \A i \in DOMAIN events : SameIdentity(events'[i], events[i])
        /\ \A i \in DOMAIN events' : i \in Nat \ {0} /\ i <= eventSeq' /\ events'[i] \in Row
        /\ DOMAIN events' \ DOMAIN events = {}
    BY <1>1, <1>4
  <2>2. label \in Processing =>
          /\ WorkFits(s, label, w, events', eventSeq', DOMAIN snapshots')
          /\ \/ w.id \in {0} \cup DOMAIN events'
             \/ w.id > eventSeq
             \/ pc[s] \in Processing /\ w.id = work[s].id
    BY <1>4
  <2>3. QED
    BY <1>4, <2>1, <2>2, EntryStepKeeps
<1>5. CASE LookUp(s)
  <2>1. PICK w : /\ pc' = [pc EXCEPT ![s] = "snapshot"]
                 /\ work' = [work EXCEPT ![s] = w]
                 /\ todo' = [todo EXCEPT ![s] = @ \ {w.rwaId}]
                 /\ w.id \in ExistingIds(w.rwaId)
                 /\ WorkFits(s, "snapshot", w, events, eventSeq, DOMAIN snapshots)
    BY <1>5, LookUpDecides DEF IdentityInv
  <2>2. w.id \in {0} \cup DOMAIN events
    BY <2>1 DEF WorkFits
  <2>3. todo' \in [Scans -> SUBSET Assets]
    BY <1>1, <2>1
  <2>4. UNCHANGED <<eventSeq, events, snapshots, transitions>>
    BY <1>5 DEF LookUp, database
  <2>5. QED
    BY <1>1, <1>3, <1>4, <2>1, <2>2, <2>3, <2>4
<1>6. CASE PersistSnapshot(s)
  <2> DEFINE w == work[s]
             none == w.result.transition = "none"
             label == IF none THEN "entries" ELSE IF w.id = 0 THEN "allocate" ELSE "event"
  <2>1. /\ pc[s] = "snapshot" /\ pc' = [pc EXCEPT ![s] = label]
        /\ work' = [work EXCEPT ![s] = IF none THEN NoWork ELSE w]
        /\ snapshots' = WithRow(snapshots, <<s, w.rwaId>>, w.verdict)
        /\ UNCHANGED <<eventSeq, events, transitions, todo>>
    BY <1>1, <1>6 DEF PersistSnapshot, Goto
  <2>2. DOMAIN snapshots' = DOMAIN snapshots \cup {<<s, w.rwaId>>}
    BY <2>1, RowWritten
  <2>3. ~none => WorkFits(s, label, w, events, eventSeq, DOMAIN snapshots')
    BY <1>2, <1>3, <2>1, <2>2 DEF WorkFits, Recording
  <2>4. label \in Labels /\ (label \in Processing => ~none)
    BY <1>3
  <2> HIDE DEF label, none, w
  <2>5. label \in Processing =>
          /\ WorkFits(s, label, IF none THEN NoWork ELSE w, events, eventSeq,
                      DOMAIN snapshots')
          /\ (IF none THEN NoWork ELSE w).id = work[s].id
    BY <2>3, <2>4 DEF w
  <2>6. QED
    BY <1>1, <1>3, <1>4, <2>1, <2>2, <2>4, <2>5
<1>7. CASE AllocateId(s)
  <2> DEFINE w == [work[s] EXCEPT !.id = eventSeq + 1]
  <2>1. /\ pc[s] = "allocate" /\ pc' = [pc EXCEPT ![s] = "event"]
        /\ work' = [work EXCEPT ![s] = w] /\ eventSeq' = eventSeq + 1
        /\ UNCHANGED <<snapshots, events, transitions, todo>>
    BY <1>1, <1>7 DEF AllocateId, Goto
  <2>2. WorkFits(s, "allocate", work[s], events, eventSeq, DOMAIN snapshots)
    BY <1>2, <1>3, <2>1
  <2>3. /\ w = [rwaId |-> w.rwaId, verdict |-> w.verdict, id |-> w.id, result |-> w.result]
        /\ w.rwaId = work[s].rwaId /\ w.result = work[s].result /\ w.id = eventSeq + 1
    BY <2>2 DEF WorkFits
  <2> HIDE DEF w
  <2>4. eventSeq + 1 \in Nat /\ eventSeq + 1 # 0 /\ eventSeq + 1 \notin DOMAIN events
    BY <1>1
  <2>5. WorkFits(s, "event", w, events, eventSeq', DOMAIN snapshots)
    BY <2>1, <2>2, <2>3, <2>4 DEF WorkFits, Recording
  <2>6. /\ eventSeq' \in Nat /\ eventSeq <= eventSeq'
        /\ w.id > eventSeq
        /\ \A i \in DOMAIN events : i <= eventSeq'
    BY <1>1, <2>1, <2>3
  <2>7. QED
    BY <1>1, <1>3, <2>1, <2>5, <2>6, EntryStepKeeps
<1>8. CASE UpsertEvent(s)
  <2> DEFINE w == work[s]
  <2>1. /\ pc[s] = "event" /\ pc' = [pc EXCEPT ![s] = "transition"]
        /\ work' = [work EXCEPT ![s] = w]
        /\ events' = WithRow(events, w.id, w.result.event)
        /\ UNCHANGED <<eventSeq, snapshots, transitions, todo>>
    BY <1>1, <1>8 DEF UpsertEvent, Goto, Stored
  <2>2. WorkFits(s, "event", w, events, eventSeq, DOMAIN snapshots)
    BY <1>2, <1>3, <2>1
  <2>3. /\ DOMAIN events' = DOMAIN events \cup {w.id}
        /\ events'[w.id] = w.result.event
        /\ \A i \in DOMAIN events \ {w.id} : events'[i] = events[i]
    BY <2>1 DEF WithRow
  <2>4. /\ w.result.event \in Row /\ w.id \in Nat \ {0} /\ w.id <= eventSeq
        /\ w.id \in DOMAIN events => SameIdentity(w.result.event, events[w.id])
    BY <2>2 DEF WorkFits, SameIdentity
  <2>5. WorkFits(s, "transition", w, events', eventSeq, DOMAIN snapshots)
    BY <2>2, <2>3 DEF WorkFits, Recording, SameIdentity
  <2> HIDE DEF w
  <2>6. /\ \A i \in DOMAIN events : SameIdentity(events'[i], events[i])
        /\ \A i \in DOMAIN events' : i \in Nat \ {0} /\ i <= eventSeq /\ events'[i] \in Row
        /\ \A i \in DOMAIN events' \ DOMAIN events : i = w.id
    BY <1>1, <2>3, <2>4
  <2>7. pc[s] \in Processing /\ "transition" \in Labels
    BY <1>3, <2>1
  <2>8. w.id \in DOMAIN events' /\ w.id = work[s].id
    BY <2>3 DEF w
  <2>9. QED
    <3>1. /\ eventSeq' \in Nat /\ eventSeq <= eventSeq'
          /\ DOMAIN events \subseteq DOMAIN events'
          /\ DOMAIN snapshots \subseteq DOMAIN snapshots'
          /\ todo' \in [Scans -> SUBSET Assets] /\ transitions' \in Seq(TransitionRow)
          /\ \A i \in DOMAIN events' : i \in Nat \ {0} /\ i <= eventSeq' /\ events'[i] \in Row
          /\ \A i \in DOMAIN events' \ DOMAIN events : pc[s] \in Processing /\ i = work[s].id
          /\ WorkFits(s, "transition", w, events', eventSeq', DOMAIN snapshots')
      BY <1>1, <2>1, <2>3, <2>5, <2>6, <2>7, <2>8
    <3>2. QED
      BY <2>1, <2>6, <2>7, <2>8, <3>1, EntryStepKeeps
<1>9. CASE RecordTransition(s)
  <2> DEFINE confirmed == work[s].result.transition = "confirmed"
             label == IF confirmed THEN "investigation" ELSE "entries"
             w == IF confirmed THEN work[s] ELSE NoWork
  <2>1. /\ pc[s] = "transition" /\ pc' = [pc EXCEPT ![s] = label]
        /\ work' = [work EXCEPT ![s] = w]
        /\ transitions' = transitions \o RowsOfEntry(s)
        /\ UNCHANGED <<eventSeq, snapshots, events, todo>>
    BY <1>1, <1>9 DEF RecordTransition, EntryDone, Goto
  <2>2. transitions' \in Seq(TransitionRow)
    BY <2>1, TransitionsGrow
  <2>3. confirmed => WorkFits(s, "investigation", work[s], events, eventSeq, DOMAIN snapshots)
    BY <1>2, <1>3, <2>1 DEF WorkFits, Recording
  <2>4. label \in Labels /\ (label \in Processing => confirmed /\ label = "investigation")
    BY <1>3
  <2>5. label \in Processing =>
          /\ WorkFits(s, label, w, events, eventSeq, DOMAIN snapshots)
          /\ w.id = work[s].id
    BY <2>3, <2>4
  <2> HIDE DEF label, w
  <2>6. QED
    BY <1>1, <1>3, <1>4, <2>1, <2>2, <2>4, <2>5
<1>10. CASE InsertInvestigation(s)
  <2>1. PICK label \in {"failing", "receipt"} :
           /\ pc[s] = "investigation" /\ pc' = [pc EXCEPT ![s] = label]
           /\ UNCHANGED <<work, eventSeq, snapshots, events, transitions, todo>>
    BY <1>10 DEF InsertInvestigation, Goto
  <2>2. WorkFits(s, "receipt", work[s], events, eventSeq, DOMAIN snapshots)
    BY <1>2, <1>3, <2>1 DEF WorkFits, Recording
  <2>3. work' = [work EXCEPT ![s] = work[s]]
    BY <1>1, <2>1
  <2>4. QED
    BY <1>1, <1>3, <1>4, <2>1, <2>2, <2>3
<1>11. CASE InsertReceipt(s)
  <2>1. CASE work[s].id \in receipts
    <3>1. /\ pc' = [pc EXCEPT ![s] = "failing"] /\ work' = [work EXCEPT ![s] = work[s]]
          /\ UNCHANGED <<eventSeq, snapshots, events, transitions, todo>>
      BY <1>1, <1>11, <2>1 DEF InsertReceipt, Goto
    <3>2. QED
      BY <1>1, <1>3, <1>4, <3>1
  <2>2. CASE work[s].id \notin receipts
    <3>1. /\ pc' = [pc EXCEPT ![s] = "entries"] /\ work' = [work EXCEPT ![s] = NoWork]
          /\ UNCHANGED <<eventSeq, snapshots, events, transitions, todo>>
      BY <1>11, <2>2 DEF InsertReceipt, EntryDone, Goto
    <3>2. QED
      BY <1>1, <1>3, <1>4, <3>1
  <2>3. QED
    BY <2>1, <2>2
<1>12. QED
  BY <1>5, <1>6, <1>7, <1>8, <1>9, <1>10, <1>11 DEF EntryStep

LEMMA InitIdentity == Init => IdentityInv
<1> SUFFICES ASSUME Init PROVE IdentityInv
  OBVIOUS
<1>1. /\ events = <<>> /\ DOMAIN events = {} /\ transitions = <<>> /\ eventSeq = 0
      /\ \A s \in Scans : pc[s] = "idle"
  BY DEF Init
<1>2. "idle" \in Labels \ Processing
  BY DEF Labels, Processing, Recording
<1>3. TypeOK
  BY <1>1, <1>2 DEF Init, TypeOK
<1>4. QED
  BY <1>1, <1>2, <1>3 DEF IdentityInv, WorksFit, NumbersUnshared

LEMMA IdentityStep ==
  ASSUME IdentityInv, [Next]_vars
  PROVE  IdentityInv'
  BY StepKinds, QuietKeepsIdentity, EntryStepKeepsIdentity DEF IdentityInv

\* What a step does to the events table: nothing, or one row is written,
\* under a number that is new or to the event of the same identity.
LEMMA EventsStep ==
  ASSUME IdentityInv, [Next]_vars
  PROVE  \/ events' = events
         \/ \E s \in Scans :
              /\ pc[s] = "event" /\ UpsertEvent(s)
              /\ events' = WithRow(events, work[s].id, work[s].result.event)
              /\ WorkFits(s, "event", work[s], events, eventSeq, DOMAIN snapshots)
<1>1. CASE Quiet
  BY <1>1 DEF Quiet, tables
<1>2. ASSUME NEW s \in Scans, EntryStep(s), ~UpsertEvent(s)
      PROVE  events' = events
  BY <1>2 DEF EntryStep, LookUp, PersistSnapshot, AllocateId, RecordTransition,
              InsertInvestigation, InsertReceipt, database
<1>3. ASSUME NEW s \in Scans, UpsertEvent(s)
      PROVE  /\ pc[s] = "event" /\ pc[s] \in Processing
             /\ events' = WithRow(events, work[s].id, work[s].result.event)
             /\ WorkFits(s, "event", work[s], events, eventSeq, DOMAIN snapshots)
  BY <1>3 DEF UpsertEvent, Stored, Processing, IdentityInv, WorksFit
<1>4. QED
  BY <1>1, <1>2, <1>3, StepKinds DEF IdentityInv

\* An event keeps the asset, the kind and the opening time it was given
\* (EventIdentityStable): nextEventSeq hands out no number twice, and an
\* update is computed from the event it replaces.
THEOREM IdentityIsStable == Spec => EventIdentityStable
<1> DEFINE Stable == \A i \in DOMAIN events :
                       /\ events'[i].rwaId = events[i].rwaId
                       /\ events'[i].kind = events[i].kind
                       /\ events'[i].firstSeenAt = events[i].firstSeenAt
<1>1. IdentityInv /\ [Next]_vars => IdentityInv'
  BY IdentityStep
<1>2. IdentityInv /\ [Next]_vars => [Stable]_vars
  <2> SUFFICES ASSUME IdentityInv, [Next]_vars PROVE Stable
    OBVIOUS
  <2>1. CASE events' = events
    BY <2>1
  <2>2. ASSUME NEW s \in Scans,
               events' = WithRow(events, work[s].id, work[s].result.event),
               WorkFits(s, "event", work[s], events, eventSeq, DOMAIN snapshots)
        PROVE  Stable
    BY <2>2 DEF WithRow, WorkFits, SameIdentity
  <2>3. QED
    BY <2>1, <2>2, EventsStep
<1>3. QED
  BY InitIdentity, <1>1, <1>2, PTL DEF Spec, EventIdentityStable

-----------------------------------------------------------------------------
(***************************************************************************)
(* The evidence of what the database claims.                               *)
(***************************************************************************)

\* EvidenceBeforeClaim but for retention.
ClaimsBacked ==
  /\ \A i \in DOMAIN events : events[i].latestSnapshot \in DOMAIN snapshots
  /\ \A k \in DOMAIN transitions :
       LET t == transitions[k] IN
       /\ t.eventId \in DOMAIN events
       /\ events[t.eventId].rwaId = t.rwaId
       /\ <<t.scan, t.rwaId>> \in DOMAIN snapshots
  /\ \A inv \in investigations : RowsOf(inv[1], {"confirmed"}) # {}
  /\ \A r \in receipts : \E inv \in investigations : inv[1] = r

\* A scan about to store an investigation has recorded the confirmation it
\* is about, and one about to store a receipt the investigation.
ClaimsPrepared ==
  \A s \in Scans :
    /\ pc[s] = "investigation" => RowsOf(work[s].id, {"confirmed"}) # {}
    /\ pc[s] = "receipt" => \E inv \in investigations : inv[1] = work[s].id

EvidenceInv == IdentityInv /\ ClaimsBacked /\ ClaimsPrepared

LEMMA RowAppended ==
  ASSUME NEW rows \in Seq(TransitionRow), NEW row \in TransitionRow
  PROVE  /\ Len(rows) + 1 \in Nat /\ Len(rows) + 1 \notin DOMAIN rows
         /\ DOMAIN Append(rows, row) = DOMAIN rows \cup {Len(rows) + 1}
         /\ Append(rows, row)[Len(rows) + 1] = row
         /\ \A k \in DOMAIN rows : Append(rows, row)[k] = rows[k] /\ k < Len(rows) + 1
  OBVIOUS

LEMMA OthersWait ==
  ASSUME TypeOK, NEW s \in Scans, EntryStep(s)
  PROVE  \A t \in Scans \ {s} : pc'[t] = pc[t] /\ work'[t] = work[t]
<1>1. ASSUME NEW label PROVE Goto(s, label) => \A t \in Scans \ {s} : pc'[t] = pc[t]
  BY DEF Goto, TypeOK
<1>2. \A t \in Scans \ {s} : pc'[t] = pc[t]
  BY <1>1 DEF EntryStep, LookUp, PersistSnapshot, AllocateId, UpsertEvent, RecordTransition,
              EntryDone, InsertInvestigation, InsertReceipt
<1>3. ASSUME NEW w PROVE work' = [work EXCEPT ![s] = w]
                         => \A t \in Scans \ {s} : work'[t] = work[t]
  BY DEF TypeOK
<1>4. \/ work' = work
      \/ \E w : work' = [work EXCEPT ![s] = w]
  <2>1. CASE LookUp(s)
    BY <2>1, LookUpDecides
  <2>2. CASE PersistSnapshot(s) \/ AllocateId(s) \/ UpsertEvent(s)
    BY <2>2 DEF PersistSnapshot, AllocateId, UpsertEvent, TypeOK
  <2>3. CASE RecordTransition(s) \/ InsertInvestigation(s) \/ InsertReceipt(s)
    BY <2>3 DEF RecordTransition, EntryDone, InsertInvestigation, InsertReceipt
  <2>4. QED
    BY <2>1, <2>2, <2>3 DEF EntryStep
<1>5. \A t \in Scans \ {s} : work'[t] = work[t]
  BY <1>3, <1>4
<1>6. QED
  BY <1>2, <1>5

LEMMA EvidenceStep ==
  ASSUME EvidenceInv, [Next]_vars
  PROVE  EvidenceInv'
<1> USE DEF EvidenceInv
<1>1. IdentityInv'
  BY IdentityStep
<1>2. transitions \in Seq(TransitionRow)
  BY DEF IdentityInv, TypeOK
<1>3. CASE Quiet
  <2>1. UNCHANGED <<tables, work>> /\ \A s \in Scans : pc'[s] \in Recording => pc'[s] = pc[s]
    BY <1>3 DEF Quiet, Processing
  <2>2. ClaimsBacked'
    BY <2>1 DEF tables, ClaimsBacked, RowsOf
  <2>3. ClaimsPrepared'
    BY <2>1 DEF tables, ClaimsPrepared, RowsOf, Recording
  <2>4. QED
    BY <1>1, <2>2, <2>3
<1>4. ASSUME NEW s \in Scans, EntryStep(s)
      PROVE  EvidenceInv'
  <2>1. \A t \in Scans \ {s} : pc'[t] = pc[t] /\ work'[t] = work[t]
    BY <1>4, OthersWait DEF IdentityInv
  <2>2. pc[s] \in Processing =>
          WorkFits(s, pc[s], work[s], events, eventSeq, DOMAIN snapshots)
    BY DEF IdentityInv, WorksFit
  \* A step that only adds snapshots, and prepares no claim.
  <2>3. ASSUME DOMAIN snapshots \subseteq DOMAIN snapshots',
               UNCHANGED <<events, transitions, investigations, receipts>>,
               pc'[s] \notin {"investigation", "receipt"}
        PROVE  EvidenceInv'
    <3>1. ClaimsBacked'
      BY <2>3 DEF ClaimsBacked, RowsOf
    <3>2. ClaimsPrepared'
      BY <2>1, <2>3 DEF ClaimsPrepared, RowsOf
    <3>3. QED
      BY <1>1, <3>1, <3>2
  <2>4. pc \in [Scans -> Labels]
    BY DEF IdentityInv, TypeOK
  <2>5. CASE LookUp(s) \/ AllocateId(s)
    BY <2>3, <2>4, <2>5 DEF LookUp, AllocateId, Goto, database
  <2>6. CASE PersistSnapshot(s)
    <3>1. snapshots' = WithRow(snapshots, <<s, work[s].rwaId>>, work[s].verdict)
      BY <2>6 DEF PersistSnapshot
    <3>2. DOMAIN snapshots \subseteq DOMAIN snapshots'
      BY <3>1 DEF WithRow
    <3>3. /\ UNCHANGED <<events, transitions, investigations, receipts>>
          /\ pc'[s] \in {"entries", "allocate", "event"}
      BY <2>4, <2>6 DEF PersistSnapshot, Goto
    <3>4. QED
      BY <2>3, <3>2, <3>3
  <2>7. CASE UpsertEvent(s)
    <3>1. /\ pc[s] = "event" /\ pc'[s] = "transition"
          /\ events' = WithRow(events, work[s].id, work[s].result.event)
          /\ UNCHANGED <<snapshots, transitions, investigations, receipts>>
      BY <2>4, <2>7 DEF UpsertEvent, Stored, Goto
    <3>2. WorkFits(s, "event", work[s], events, eventSeq, DOMAIN snapshots)
      BY <2>2, <3>1 DEF Processing
    <3>3. /\ DOMAIN events \subseteq DOMAIN events'
          /\ \A i \in DOMAIN events : events'[i].rwaId = events[i].rwaId
          /\ \A i \in DOMAIN events' : \/ i \in DOMAIN events /\ events'[i] = events[i]
                                       \/ events'[i].latestSnapshot = <<s, work[s].rwaId>>
      BY <3>1, <3>2 DEF WithRow, WorkFits, SameIdentity
    <3>4. <<s, work[s].rwaId>> \in DOMAIN snapshots
      BY <3>2 DEF WorkFits
    <3>5. ClaimsBacked'
      <4>1. \A i \in DOMAIN events' : events'[i].latestSnapshot \in DOMAIN snapshots'
        BY <3>1, <3>3, <3>4 DEF ClaimsBacked
      <4>2. ASSUME NEW k \in DOMAIN transitions'
            PROVE  LET t == transitions'[k] IN
                   /\ t.eventId \in DOMAIN events'
                   /\ events'[t.eventId].rwaId = t.rwaId
                   /\ <<t.scan, t.rwaId>> \in DOMAIN snapshots'
        BY <3>1, <3>3 DEF ClaimsBacked
      <4>3. QED
        BY <3>1, <4>1, <4>2 DEF ClaimsBacked, RowsOf
    <3>6. ClaimsPrepared'
      BY <2>1, <3>1 DEF ClaimsPrepared, RowsOf
    <3>7. QED
      BY <1>1, <3>5, <3>6
  <2>8. CASE RecordTransition(s)
    <3>1. pc[s] = "transition" /\ transitions' = transitions \o RowsOfEntry(s)
      BY <2>8 DEF RecordTransition
    <3>2. PICK row \in TransitionRow :
            /\ row = [eventId |-> work[s].id, transition |-> work[s].result.transition,
                      scan |-> s, rwaId |-> work[s].rwaId]
            /\ transitions' = Append(transitions, row)
      BY <3>1, TransitionsGrow
    <3>3. /\ UNCHANGED <<events, snapshots, investigations, receipts>>
          /\ \/ pc'[s] = "entries"
             \/ /\ pc'[s] = "investigation" /\ work'[s] = work[s]
                /\ row.transition = "confirmed"
      BY <2>4, <2>8, <3>2 DEF RecordTransition, EntryDone, Goto
    <3>4. WorkFits(s, "transition", work[s], events, eventSeq, DOMAIN snapshots)
      BY <2>2, <3>1 DEF Processing, Recording
    <3>5. /\ row.eventId = work[s].id /\ row.scan = s /\ row.rwaId = work[s].rwaId
          /\ row.eventId \in DOMAIN events
          /\ events[row.eventId].rwaId = row.rwaId
          /\ <<row.scan, row.rwaId>> \in DOMAIN snapshots
      BY <3>2, <3>4 DEF WorkFits, Recording, SameIdentity
    <3> DEFINE n == Len(transitions) + 1
    <3>6. /\ DOMAIN transitions' = DOMAIN transitions \cup {n}
          /\ transitions'[n] = row
          /\ \A k \in DOMAIN transitions : transitions'[k] = transitions[k]
      BY <1>2, <3>2, RowAppended
    <3> HIDE DEF n
    <3>7. \A i, kinds : RowsOf(i, kinds) \subseteq RowsOf(i, kinds)'
      BY <3>6 DEF RowsOf
    <3>8. ClaimsBacked'
      <4>1. ASSUME NEW k \in DOMAIN transitions'
            PROVE  LET t == transitions'[k] IN
                   /\ t.eventId \in DOMAIN events
                   /\ events[t.eventId].rwaId = t.rwaId
                   /\ <<t.scan, t.rwaId>> \in DOMAIN snapshots
        BY <3>5, <3>6 DEF ClaimsBacked
      <4>2. \A inv \in investigations : RowsOf(inv[1], {"confirmed"})' # {}
        BY <3>7 DEF ClaimsBacked
      <4>3. QED
        BY <3>3, <4>1, <4>2 DEF ClaimsBacked, RowsOf
    <3>9. ASSUME NEW t \in Scans, pc'[t] = "investigation"
          PROVE  RowsOf(work[t].id, {"confirmed"})' # {}
      <4>1. CASE t = s
        BY <3>3, <3>5, <3>6, <3>9, <4>1 DEF RowsOf
      <4>2. CASE t # s
        BY <2>1, <3>6, <3>9, <4>2 DEF ClaimsPrepared, RowsOf
      <4>3. QED
        BY <4>1, <4>2
    <3>10. ASSUME NEW t \in Scans, pc'[t] = "receipt"
           PROVE  \E inv \in investigations' : inv[1] = work'[t].id
      BY <2>1, <3>3, <3>10 DEF ClaimsPrepared
    <3>11. QED
      BY <1>1, <3>8, <3>9, <3>10 DEF ClaimsPrepared
  <2>9. CASE InsertInvestigation(s)
    <3>1. /\ pc[s] = "investigation"
          /\ UNCHANGED <<work, snapshots, events, transitions, receipts>>
          /\ \/ UNCHANGED investigations /\ pc'[s] = "failing"
             \/ /\ pc'[s] = "receipt"
                /\ \E c : investigations' = investigations \cup {<<work[s].id, c>>}
      BY <2>4, <2>9 DEF InsertInvestigation, Goto
    <3>2. RowsOf(work[s].id, {"confirmed"}) # {}
      BY <3>1 DEF ClaimsPrepared
    <3>3. CASE UNCHANGED investigations /\ pc'[s] = "failing"
      BY <2>3, <3>1, <3>3
    <3>4. ASSUME NEW c, investigations' = investigations \cup {<<work[s].id, c>>}
          PROVE  EvidenceInv'
      <4>1. ClaimsBacked'
        BY <3>1, <3>2, <3>4 DEF ClaimsBacked, RowsOf
      <4>2. ClaimsPrepared'
        <5>1. \E inv \in investigations' : inv[1] = work'[s].id
          <6>1. <<work[s].id, c>> \in investigations' /\ <<work[s].id, c>>[1] = work[s].id
            BY <3>4
          <6>2. QED
            BY <3>1, <6>1
        <5>2. \A t \in Scans \ {s} : pc'[t] = "receipt" =>
                \E inv \in investigations' : inv[1] = work'[t].id
          BY <2>1, <3>4 DEF ClaimsPrepared
        <5>3. \A t \in Scans : pc'[t] = "investigation" =>
                RowsOf(work[t].id, {"confirmed"})' # {}
          BY <2>1, <3>1 DEF ClaimsPrepared, RowsOf
        <5>4. QED
          BY <5>1, <5>2, <5>3 DEF ClaimsPrepared
      <4>3. QED
        BY <1>1, <4>1, <4>2
    <3>5. QED
      BY <3>1, <3>3, <3>4
  <2>10. CASE InsertReceipt(s)
    <3>1. /\ pc[s] = "receipt" /\ pc'[s] \in {"failing", "entries"}
          /\ UNCHANGED <<snapshots, events, transitions, investigations>>
          /\ receipts' \subseteq receipts \cup {work[s].id}
      BY <2>4, <2>10 DEF InsertReceipt, EntryDone, Goto
    <3>2. \E inv \in investigations : inv[1] = work[s].id
      BY <3>1 DEF ClaimsPrepared
    <3>3. ClaimsBacked'
      BY <3>1, <3>2 DEF ClaimsBacked, RowsOf
    <3>4. ClaimsPrepared'
      BY <2>1, <3>1 DEF ClaimsPrepared, RowsOf
    <3>5. QED
      BY <1>1, <3>3, <3>4
  <2>11. QED
    BY <1>4, <2>5, <2>6, <2>7, <2>8, <2>9, <2>10 DEF EntryStep
<1>5. QED
  BY <1>3, <1>4, StepKinds DEF IdentityInv

LEMMA EvidenceBegins == Init => EvidenceInv
<1> SUFFICES ASSUME Init PROVE EvidenceInv
  OBVIOUS
<1>1. /\ DOMAIN events = {} /\ DOMAIN transitions = {}
      /\ investigations = {} /\ receipts = {}
      /\ \A s \in Scans : pc[s] = "idle"
  BY DEF Init
<1>2. QED
  BY <1>1, InitIdentity DEF EvidenceInv, ClaimsBacked, ClaimsPrepared

-----------------------------------------------------------------------------
(***************************************************************************)
(* One process: the loop over the entries is not interrupted.              *)
(***************************************************************************)

InLoop == Processing \cup {"entries", "complete", "failing"}

\* A scan inside its synchronous part has the CPU of its process.
CpuInv ==
  /\ pc \in [Scans -> Labels]
  /\ proc \in [Scans -> Procs]
  /\ cpu = [p \in Procs |-> cpu[p]]
  /\ \A s \in Scans : pc[s] \in InLoop => cpu[proc[s]] = s

LEMMA CpuStep ==
  ASSUME CpuInv, [Next]_vars
  PROVE  CpuInv'
<1>1. 0 \notin Scans
  BY DEF Scans
<1>2. /\ Processing \subseteq InLoop \cap Labels
      /\ {"entries", "complete", "failing"} \subseteq InLoop \cap Labels
      /\ {"fetching", "settling", "done", "dead", "idle"} \subseteq Labels \ InLoop
  BY DEF InLoop, Labels, Processing, Recording
\* A step of a scan that has the CPU and keeps it.
<1>3. ASSUME NEW s \in Scans, NEW label \in Labels, pc' = [pc EXCEPT ![s] = label],
             UNCHANGED <<proc, cpu>>, label \in InLoop => pc[s] \in InLoop
      PROVE  CpuInv'
  BY <1>3 DEF CpuInv
\* A step of a scan that takes the CPU.
<1>4. ASSUME NEW s \in Scans, NEW label \in Labels, pc' = [pc EXCEPT ![s] = label],
             cpu' = [cpu EXCEPT ![proc[s]] = s], UNCHANGED proc, CanRun(s)
      PROVE  CpuInv'
  <2>1. ASSUME NEW t \in Scans, pc'[t] \in InLoop
        PROVE  cpu'[proc'[t]] = t
    BY <1>1, <1>4, <2>1 DEF CpuInv, CanRun
  <2>2. QED
    BY <1>4, <2>1 DEF CpuInv
\* A step of a scan that has the CPU and gives it up.
<1>5. ASSUME NEW s \in Scans, NEW label \in Labels \ InLoop,
             pc[s] \in InLoop, pc' = [pc EXCEPT ![s] = label],
             cpu' = [cpu EXCEPT ![proc[s]] = 0], UNCHANGED proc
      PROVE  CpuInv'
  <2>1. ASSUME NEW t \in Scans, pc'[t] \in InLoop
        PROVE  cpu'[proc'[t]] = t
    BY <1>5, <2>1 DEF CpuInv
  <2>2. QED
    BY <1>5, <2>1 DEF CpuInv
<1>6. ASSUME NEW s \in Scans, QuotesArrive(s) \/ SourceFails(s)
      PROVE  CpuInv'
  BY <1>2, <1>4, <1>6 DEF QuotesArrive, SourceFails, Goto
<1>7. ASSUME NEW s \in Scans, CompleteScan(s) \/ FailScan(s)
      PROVE  CpuInv'
  BY <1>2, <1>5, <1>7 DEF CompleteScan, FailScan, Goto
<1>8. ASSUME NEW s \in Scans, AlertsSettle(s)
      PROVE  CpuInv'
  BY <1>2, <1>3, <1>8 DEF AlertsSettle, Goto
<1>16. ASSUME NEW s \in Scans, Prune(s)
       PROVE  CpuInv'
  BY <1>2, <1>3, <1>16 DEF Prune, Goto
<1>9. ASSUME NEW s \in Scans, StoreThrows(s)
      PROVE  CpuInv'
  <2>1. CASE pc[s] = "failing" /\ Goto(s, "done") /\ cpu' = [cpu EXCEPT ![proc[s]] = 0]
    BY <1>2, <1>5, <1>9, <2>1 DEF StoreThrows, Goto
  <2>2. CASE pc[s] \in InLoop /\ Goto(s, "failing") /\ UNCHANGED cpu
    BY <1>2, <1>3, <1>9, <2>2 DEF StoreThrows, Goto
  <2>3. CASE pc[s] = "entries" /\ Goto(s, "complete") /\ UNCHANGED cpu
    BY <1>2, <1>3, <1>9, <2>3 DEF StoreThrows, Goto
  <2>4. QED
    BY <1>9, <2>1, <2>2, <2>3 DEF StoreThrows, InLoop, Processing, Recording
<1>10. ASSUME NEW s \in Scans, LookUp(s) \/ PersistSnapshot(s) \/ AllocateId(s)
       PROVE  CpuInv'
  <2>1. PICK label \in {"snapshot", "entries", "allocate", "event"} : Goto(s, label)
    BY <1>10 DEF LookUp, PersistSnapshot, AllocateId
  <2>2. pc[s] \in InLoop /\ UNCHANGED <<proc, cpu>>
    BY <1>10 DEF LookUp, PersistSnapshot, AllocateId, InLoop, Processing
  <2>3. label \in Labels
    BY <2>1 DEF Labels, Processing
  <2>4. QED
    BY <1>3, <2>1, <2>2, <2>3 DEF Goto
<1>11. ASSUME NEW s \in Scans, \/ UpsertEvent(s) \/ RecordTransition(s)
                               \/ InsertInvestigation(s) \/ InsertReceipt(s)
       PROVE  CpuInv'
  <2>1. PICK label \in {"transition", "investigation", "receipt", "entries", "failing"} :
           Goto(s, label)
    BY <1>11 DEF UpsertEvent, RecordTransition, EntryDone, InsertInvestigation, InsertReceipt
  <2>2. pc[s] \in InLoop /\ UNCHANGED <<proc, cpu>>
    BY <1>11 DEF UpsertEvent, RecordTransition, InsertInvestigation, InsertReceipt, InLoop,
                 Processing, Recording
  <2>3. label \in Labels
    BY <2>1 DEF Labels, Processing, Recording
  <2>4. QED
    BY <1>3, <2>1, <2>2, <2>3 DEF Goto
<1>12. ASSUME NEW p \in Procs, BeginScan(p)
       PROVE  CpuInv'
  <2>1. PICK s \in Scans : /\ proc' = [proc EXCEPT ![s] = p]
                           /\ pc' = [pc EXCEPT ![s] = "fetching"]
                           /\ UNCHANGED cpu
    BY <1>12 DEF BeginScan, Goto
  <2>2. QED
    BY <1>2, <2>1 DEF CpuInv
<1>13. ASSUME NEW p \in Procs, Crash(p)
       PROVE  CpuInv'
  <2>1. /\ pc' = [s \in Scans |-> IF s \in Begun /\ proc[s] = p /\ pc[s] # "done"
                                  THEN "dead" ELSE pc[s]]
        /\ cpu' = [cpu EXCEPT ![p] = 0] /\ UNCHANGED proc
    BY <1>13 DEF Crash
  <2>2. pc' \in [Scans -> Labels]
    BY <1>2, <2>1 DEF CpuInv
  <2>3. ASSUME NEW t \in Scans, pc'[t] \in InLoop
        PROVE  cpu'[proc'[t]] = t
    <3>1. pc'[t] = pc[t] /\ t \in Begun /\ proc[t] # p
      BY <1>2, <2>1, <2>3 DEF Begun
    <3>2. QED
      BY <2>1, <2>3, <3>1 DEF CpuInv
  <2>4. QED
    BY <2>1, <2>2, <2>3 DEF CpuInv
<1>14. CASE UNCHANGED vars
  BY <1>14 DEF vars, CpuInv
<1>15. QED
  BY <1>6, <1>7, <1>8, <1>9, <1>10, <1>11, <1>12, <1>13, <1>14, <1>16
     DEF Next, ScanStep

\* With one process, one scan at a time is in the loop over its entries.
LEMMA OneInLoop ==
  ASSUME CpuInv, NEW p, Procs = {p}, NEW s \in Scans, NEW t \in Scans,
         pc[s] \in InLoop, pc[t] \in InLoop
  PROVE  s = t
<1>1. proc[s] = p /\ proc[t] = p
  BY DEF CpuInv
<1>2. QED
  BY <1>1 DEF CpuInv

\* What processEntry found open for its asset is still all there is, up to
\* the moment it writes.
NothingElseOpen ==
  \A s \in Scans : pc[s] \in {"snapshot", "allocate", "event"} =>
    \A i \in DOMAIN events :
      IsOpen(events[i]) /\ events[i].rwaId = work[s].rwaId => i = work[s].id

OneOpenInv == IdentityInv /\ CpuInv /\ OneOpenEvent /\ NothingElseOpen

LEMMA OneOpenStep ==
  ASSUME NEW p, Procs = {p}, OneOpenInv, [Next]_vars
  PROVE  OneOpenInv'
<1> USE DEF OneOpenInv
<1>1. IdentityInv' /\ CpuInv'
  BY IdentityStep, CpuStep
<1>2. CASE Quiet
  <2>1. /\ UNCHANGED <<events, work>>
        /\ \A s \in Scans : pc'[s] \in {"snapshot", "allocate", "event"} => pc'[s] = pc[s]
    BY <1>2 DEF Quiet, tables, Processing
  <2>2. QED
    BY <1>1, <2>1 DEF OneOpenEvent, NothingElseOpen
<1>3. ASSUME NEW s \in Scans, EntryStep(s)
      PROVE  OneOpenInv'
  <2>1. pc[s] \in InLoop
    BY <1>3 DEF EntryStep, LookUp, PersistSnapshot, AllocateId, UpsertEvent,
                RecordTransition, InsertInvestigation, InsertReceipt, InLoop, Processing,
                Recording
  <2>2. \A t \in Scans \ {s} : pc[t] \notin InLoop /\ pc'[t] = pc[t]
    BY <1>3, <2>1, OneInLoop, OthersWait DEF IdentityInv
  <2>3. \A t \in Scans \ {s} : pc'[t] \notin {"snapshot", "allocate", "event"}
    BY <2>2 DEF InLoop, Processing
  <2>4. pc \in [Scans -> Labels] /\ work = [t \in Scans |-> work[t]]
    BY DEF IdentityInv, TypeOK
  \* A step that writes no event, and after which the scan still knows.
  <2>5. ASSUME events' = events,
               pc'[s] \in {"snapshot", "allocate", "event"} =>
                 \A i \in DOMAIN events :
                   IsOpen(events[i]) /\ events[i].rwaId = work'[s].rwaId => i = work'[s].id
        PROVE  OneOpenInv'
    BY <1>1, <2>3, <2>5 DEF OneOpenEvent, NothingElseOpen
  <2>6. pc[s] \in Processing =>
          WorkFits(s, pc[s], work[s], events, eventSeq, DOMAIN snapshots)
    BY DEF IdentityInv, WorksFit
  <2>7. CASE LookUp(s)
    <3>1. PICK w : /\ work' = [work EXCEPT ![s] = w]
                   /\ w.id \in ExistingIds(w.rwaId)
      BY <2>7, LookUpDecides DEF IdentityInv
    <3>2. w.id = 0 \/ (w.id \in DOMAIN events /\ events[w.id].rwaId = w.rwaId
                       /\ IsOpen(events[w.id]))
      BY <3>1, FoundEvent
    <3>3. \A i \in DOMAIN events : IsOpen(events[i]) /\ events[i].rwaId = w.rwaId => i = w.id
      BY <3>1, <3>2, NothingFound DEF IdentityInv, OneOpenEvent
    <3>4. work'[s] = w /\ events' = events
      BY <2>4, <2>7, <3>1 DEF LookUp, database
    <3>5. QED
      BY <2>5, <3>3, <3>4
  <2>8. CASE PersistSnapshot(s)
    <3>1. /\ pc[s] = "snapshot" /\ events' = events
          /\ pc'[s] \in {"allocate", "event"} => work' = work
      BY <2>4, <2>8 DEF PersistSnapshot, Goto
    <3>2. pc'[s] # "snapshot"
      BY <2>4, <2>8 DEF PersistSnapshot, Goto
    <3>3. QED
      BY <2>5, <3>1, <3>2 DEF NothingElseOpen
  <2>9. CASE AllocateId(s)
    <3>1. pc[s] = "allocate" /\ events' = events
      BY <2>9 DEF AllocateId
    <3>2. WorkFits(s, "allocate", work[s], events, eventSeq, DOMAIN snapshots)
      BY <2>6, <3>1 DEF Processing
    <3>3. work[s].id = 0 /\ 0 \notin DOMAIN events
      BY <3>2 DEF WorkFits, IdentityInv, TypeOK
    <3>4. \A i \in DOMAIN events : ~(IsOpen(events[i]) /\ events[i].rwaId = work[s].rwaId)
      BY <3>1, <3>3 DEF NothingElseOpen
    <3>5. work'[s].rwaId = work[s].rwaId
      <4>1. work' = [work EXCEPT ![s] = [work[s] EXCEPT !.id = eventSeq + 1]]
        BY <2>9 DEF AllocateId
      <4>2. work'[s] = [work[s] EXCEPT !.id = eventSeq + 1]
        BY <2>4, <4>1
      <4>3. work[s] = [rwaId |-> work[s].rwaId, verdict |-> work[s].verdict,
                       id |-> work[s].id, result |-> work[s].result]
        BY <3>2 DEF WorkFits
      <4>4. QED
        BY <4>2, <4>3
    <3>6. QED
      BY <2>5, <3>1, <3>4, <3>5
  <2>10. CASE UpsertEvent(s)
    <3>1. /\ pc[s] = "event" /\ pc'[s] = "transition"
          /\ events' = WithRow(events, work[s].id, work[s].result.event)
      BY <2>4, <2>10 DEF UpsertEvent, Stored, Goto
    <3>2. WorkFits(s, "event", work[s], events, eventSeq, DOMAIN snapshots)
      BY <2>6, <3>1 DEF Processing
    <3>3. \A i \in DOMAIN events :
            IsOpen(events[i]) /\ events[i].rwaId = work[s].rwaId => i = work[s].id
      BY <3>1 DEF NothingElseOpen
    <3>4. work[s].result.event.rwaId = work[s].rwaId
      BY <3>2 DEF WorkFits
    <3>5. \A i \in DOMAIN events' : \/ i \in DOMAIN events /\ events'[i] = events[i]
                                    \/ i = work[s].id /\ events'[i].rwaId = work[s].rwaId
      BY <3>1, <3>4 DEF WithRow
    <3>6. OneOpenEvent'
      BY <3>3, <3>5 DEF OneOpenEvent
    <3>7. NothingElseOpen'
      BY <2>3, <3>1 DEF NothingElseOpen
    <3>8. QED
      BY <1>1, <3>6, <3>7
  <2>11. CASE RecordTransition(s) \/ InsertInvestigation(s) \/ InsertReceipt(s)
    <3>1. /\ events' = events
          /\ pc'[s] \in {"entries", "investigation", "failing", "receipt"}
      BY <2>4, <2>11 DEF RecordTransition, EntryDone, InsertInvestigation, InsertReceipt, Goto
    <3>2. QED
      BY <2>5, <3>1
  <2>12. QED
    BY <1>3, <2>7, <2>8, <2>9, <2>10, <2>11 DEF EntryStep
<1>4. QED
  BY <1>2, <1>3, StepKinds DEF IdentityInv

LEMMA InitCpu == Procs # {} /\ Init => CpuInv
<1> SUFFICES ASSUME Procs # {}, Init PROVE CpuInv
  OBVIOUS
<1>1. "idle" \in Labels \ InLoop
  BY DEF Labels, InLoop, Processing, Recording
<1>2. (CHOOSE p \in Procs : TRUE) \in Procs
  OBVIOUS
<1>3. QED
  BY <1>1, <1>2 DEF Init, CpuInv

\* In one process no asset ever has two open events (OneOpenEvent), however
\* its scans overlap, fail or are killed: from the look-up of the open event
\* to its update nothing else of the process runs.
THEOREM OneEventOpen == (\E p : Procs = {p}) => (Spec => []OneOpenEvent)
<1> SUFFICES ASSUME NEW p, Procs = {p} PROVE Spec => []OneOpenEvent
  OBVIOUS
<1>1. Init => OneOpenInv
  <2> SUFFICES ASSUME Init PROVE OneOpenInv
    OBVIOUS
  <2>1. DOMAIN events = {} /\ \A s \in Scans : pc[s] = "idle"
    BY DEF Init
  <2>2. QED
    BY <2>1, InitIdentity, InitCpu DEF OneOpenInv, OneOpenEvent, NothingElseOpen
<1>2. OneOpenInv /\ [Next]_vars => OneOpenInv'
  BY OneOpenStep
<1>3. OneOpenInv => OneOpenEvent
  BY DEF OneOpenInv
<1>4. QED
  BY <1>1, <1>2, <1>3, PTL DEF Spec

-----------------------------------------------------------------------------
(***************************************************************************)
(* One process: the transition log never runs ahead of the events.         *)
(***************************************************************************)

Confirming == Transitions \ ClosedStatuses

StatusFits(e) == e.status = "confirmed" <=> IsOpen(e) /\ e.confirmations >= ConfirmScans

\* What the lifecycle decided, relative to the row it read, or wrote.
DecisionFits(label, w, table) ==
  w.result.transition # "none" =>
    /\ StatusFits(w.result.event)
    /\ w.result.transition = "confirmed" => w.result.event.confirmations >= ConfirmScans
    /\ label \in {"snapshot", "event"} /\ w.id \in DOMAIN table =>
         /\ table[w.id].confirmations <= w.result.event.confirmations
         /\ w.result.transition \in Confirming =>
              table[w.id].confirmations < w.result.event.confirmations
         /\ w.result.transition = "confirmed" => table[w.id].confirmations < ConfirmScans
    /\ label = "transition" => table[w.id] = w.result.event

DecisionsFit == \A s \in Scans : pc[s] \in Processing => DecisionFits(pc[s], work[s], events)

\* The row a scan is about to record is not recorded yet.
RowMissing(s) ==
  /\ work[s].result.transition \in Confirming =>
       Cardinality(RowsOf(work[s].id, Confirming)) < events[work[s].id].confirmations
  /\ work[s].result.transition = "confirmed" => RowsOf(work[s].id, {"confirmed"}) = {}

RowsMissing == \A s \in Scans : pc[s] = "transition" => RowMissing(s)

LogInv == EvidenceInv /\ OneOpenInv /\ LogNeverAhead /\ DecisionsFit /\ RowsMissing

\* The lifecycle's decision fits the row it was given.
LEMMA LifecycleDecides ==
  ASSUME NEW e, e = NoEvent \/ (e \in Row /\ IsOpen(e) /\ StatusFits(e)),
         NEW a \in Assets, NEW snap \in Scans \X Assets, NEW now \in Nat,
         NEW v, WellFormed(v)
  PROVE  LET r == ApplyScanToEvent(e, a, v, snap, now) IN
         r.transition # "none" =>
           /\ StatusFits(r.event)
           /\ r.transition = "confirmed" => r.event.confirmations >= ConfirmScans
           /\ e # NoEvent =>
                /\ e.confirmations <= r.event.confirmations
                /\ r.transition \in Confirming => e.confirmations < r.event.confirmations
                /\ r.transition = "confirmed" => e.confirmations < ConfirmScans
<1> DEFINE r == ApplyScanToEvent(e, a, v, snap, now)
           ids == Scans \X Assets
<1>1. snap \in ids
  OBVIOUS
<1>2. e = NoEvent \/ (e \in EventRow(Assets, ids) /\ e # NoEvent /\ e.confirmations \in Nat)
  BY DEF Row, EventRow, NoEvent, EventStatuses, OpenStatuses, ClosedStatuses
<1>3. e = NoEvent => ~IsOpen(e)
  BY DEF NoEvent, IsOpen, OpenStatuses
<1>4. ConfirmScans \in Nat \ {0}
  BY ConfirmScansAssumption
<1>0. r = ApplyScanToEvent(e, a, v, snap, now)
  OBVIOUS
<1> HIDE DEF ids, r
<1>5. CASE e = NoEvent /\ Anomalous(v)
  <2>1. r = [event      |-> CreatedEvent(a, v, snap, now),
             transition |-> IF ConfirmScans <= 1 THEN "confirmed" ELSE "created"]
    BY <1>0, <1>3, <1>5 DEF ApplyScanToEvent
  <2>2. /\ r.event.confirmations = 1
        /\ r.event.status = IF ConfirmScans <= 1 THEN "confirmed" ELSE "candidate"
        /\ r.transition = IF ConfirmScans <= 1 THEN "confirmed" ELSE "created"
    BY <2>1 DEF CreatedEvent
  <2>3. IsOpen(r.event)
    BY <2>2 DEF IsOpen, OpenStatuses
  <2>4. QED
    BY <1>4, <1>5, <2>2, <2>3 DEF StatusFits, r
<1>6. CASE e # NoEvent /\ Anomalous(v)
  <2>1. /\ r.transition = IF e.status = "candidate" /\ r.event.status = "confirmed"
                          THEN "confirmed" ELSE "updated"
        /\ r.event \in EventRow(Assets, ids) /\ IsOpen(r.event)
        /\ r.event.confirmations = e.confirmations + 1
        /\ r.event.status = ContinuedStatus(e)
    BY <1>0, <1>1, <1>2, <1>6, ContinuingResult
  <2>2. e.confirmations \in Nat /\ (e.status = "confirmed" <=> e.confirmations >= ConfirmScans)
    BY <1>2, <1>6 DEF StatusFits
  <2>3. r.event.status = "confirmed" <=> e.confirmations + 1 >= ConfirmScans
    BY <1>4, <2>1, <2>2 DEF ContinuedStatus
  <2>4. r.transition = "confirmed" =>
          e.confirmations < ConfirmScans /\ e.confirmations + 1 >= ConfirmScans
    BY <1>4, <2>1, <2>2, <2>3
  <2>5. QED
    BY <1>4, <2>1, <2>2, <2>3, <2>4 DEF StatusFits, r
<1>7. CASE e # NoEvent /\ ~Anomalous(v)
  <2>1. /\ r.transition \in ClosedStatuses
        /\ r.event \in EventRow(Assets, ids) /\ ~IsOpen(r.event)
        /\ r.event.confirmations = e.confirmations
    BY <1>0, <1>1, <1>2, <1>7, ClosingResult
  <2>2. r.event.status # "confirmed"
    BY <2>1 DEF IsOpen, OpenStatuses
  <2>3. r.transition \notin Confirming /\ r.transition # "confirmed"
    BY <2>1 DEF Confirming, ClosedStatuses
  <2>4. QED
    BY <1>2, <1>7, <2>1, <2>2, <2>3 DEF StatusFits, r
<1>8. CASE e = NoEvent /\ ~Anomalous(v)
  BY <1>0, <1>3, <1>8, NoResult DEF r
<1>9. QED
  BY <1>5, <1>6, <1>7, <1>8

\* The log has finitely many rows, and so has each event; one more row adds
\* at most one to its count.
LEMMA LogFinite ==
  ASSUME transitions \in Seq(TransitionRow)
  PROVE  IsFiniteSet(DOMAIN transitions)
<1>1. DOMAIN transitions = 1 .. Len(transitions) /\ Len(transitions) \in Nat
  OBVIOUS
<1>2. IsFiniteSet(1 .. Len(transitions))
  BY <1>1, FS_Interval
<1>3. QED
  BY <1>1, <1>2

LEMMA RowsCounted ==
  ASSUME transitions \in Seq(TransitionRow), NEW i, NEW kinds
  PROVE  IsFiniteSet(RowsOf(i, kinds)) /\ Cardinality(RowsOf(i, kinds)) \in Nat
<1>1. RowsOf(i, kinds) \subseteq DOMAIN transitions
  BY DEF RowsOf
<1>2. QED
  BY <1>1, LogFinite, FS_Subset, FS_CardinalityType

LEMMA RowsAfter ==
  ASSUME transitions \in Seq(TransitionRow), NEW row \in TransitionRow,
         transitions' = Append(transitions, row), NEW i, NEW kinds
  PROVE  IF row.eventId = i /\ row.transition \in kinds
         THEN /\ RowsOf(i, kinds)' = RowsOf(i, kinds) \cup {Len(transitions) + 1}
              /\ Cardinality(RowsOf(i, kinds)') = Cardinality(RowsOf(i, kinds)) + 1
         ELSE RowsOf(i, kinds)' = RowsOf(i, kinds)
<1> DEFINE n == Len(transitions) + 1
<1>1. /\ n \notin DOMAIN transitions
      /\ DOMAIN transitions' = DOMAIN transitions \cup {n}
      /\ transitions'[n] = row
      /\ \A k \in DOMAIN transitions : transitions'[k] = transitions[k]
  BY RowAppended
<1> HIDE DEF n
<1>2. RowsOf(i, kinds)' = IF row.eventId = i /\ row.transition \in kinds
                          THEN RowsOf(i, kinds) \cup {n} ELSE RowsOf(i, kinds)
  BY <1>1 DEF RowsOf
<1>3. n \notin RowsOf(i, kinds) /\ IsFiniteSet(RowsOf(i, kinds))
  BY <1>1, RowsCounted DEF RowsOf
<1>4. Cardinality(RowsOf(i, kinds) \cup {n}) = Cardinality(RowsOf(i, kinds)) + 1
  BY <1>3, FS_AddElement
<1>5. QED
  BY <1>2, <1>4 DEF n

LEMMA LogStep ==
  ASSUME NEW p, Procs = {p}, LogInv, [Next]_vars
  PROVE  LogInv'
<1> USE DEF LogInv
<1>1. EvidenceInv' /\ OneOpenInv'
  BY EvidenceStep, OneOpenStep
<1>2. IdentityInv /\ CpuInv /\ transitions \in Seq(TransitionRow)
      /\ pc \in [Scans -> Labels] /\ work = [t \in Scans |-> work[t]]
  BY DEF OneOpenInv, IdentityInv, TypeOK
<1>3. CASE Quiet
  <2>1. UNCHANGED <<events, transitions, work>>
        /\ \A s \in Scans : pc'[s] \in Processing => pc'[s] = pc[s]
    BY <1>3 DEF Quiet, tables
  <2>2. LogNeverAhead' /\ DecisionsFit'
    BY <2>1 DEF LogNeverAhead, RowsOf, DecisionsFit
  <2>3. RowsMissing'
    BY <2>1 DEF RowsMissing, RowMissing, RowsOf, Processing, Recording
  <2>4. QED
    BY <1>1, <2>2, <2>3
<1>4. ASSUME NEW s \in Scans, EntryStep(s)
      PROVE  LogInv'
  <2>1. pc[s] \in InLoop
    BY <1>4 DEF EntryStep, LookUp, PersistSnapshot, AllocateId, UpsertEvent,
                RecordTransition, InsertInvestigation, InsertReceipt, InLoop, Processing,
                Recording
  <2>2. \A t \in Scans \ {s} : pc'[t] \notin Processing
    BY <1>2, <1>4, <2>1, OneInLoop, OthersWait DEF IdentityInv, InLoop
  <2>3. pc[s] \in Processing =>
          /\ WorkFits(s, pc[s], work[s], events, eventSeq, DOMAIN snapshots)
          /\ DecisionFits(pc[s], work[s], events)
    BY <1>2 DEF IdentityInv, WorksFit, DecisionsFit
  \* A step that neither writes an event nor records a transition.
  <2>4. ASSUME UNCHANGED <<events, transitions>>, pc'[s] # "transition",
               pc'[s] \in Processing => DecisionFits(pc'[s], work'[s], events)
        PROVE  LogInv'
    <3>1. LogNeverAhead'
      BY <2>4 DEF LogNeverAhead, RowsOf
    <3>2. DecisionsFit'
      BY <2>2, <2>4 DEF DecisionsFit
    <3>3. RowsMissing'
      BY <2>2, <2>4 DEF RowsMissing, Processing, Recording
    <3>4. QED
      BY <1>1, <3>1, <3>2, <3>3
  <2>5. CASE LookUp(s)
    <3>1. PICK w : /\ pc' = [pc EXCEPT ![s] = "snapshot"]
                   /\ work' = [work EXCEPT ![s] = w]
                   /\ w.rwaId \in todo[s]
                   /\ w.verdict \in Verdicts
                   /\ w.id \in ExistingIds(w.rwaId)
                   /\ w.result = ApplyScanToEvent(IF w.id = 0 THEN NoEvent ELSE events[w.id],
                                                  w.rwaId, w.verdict, <<s, w.rwaId>>, s)
      BY <1>2, <2>5, LookUpDecides DEF IdentityInv
    <3>2. /\ w.rwaId \in Assets /\ s \in Nat /\ WellFormed(w.verdict)
          /\ <<s, w.rwaId>> \in Scans \X Assets
      BY <1>2, <3>1, VerdictsAssumption, BoundsAssumption DEF IdentityInv, TypeOK, Scans
    <3>3. /\ \/ w.id = 0
             \/ w.id \in DOMAIN events /\ IsOpen(events[w.id])
          /\ 0 \notin DOMAIN events
      BY <1>2, <3>1, FoundEvent DEF IdentityInv, TypeOK
    <3> DEFINE e == IF w.id = 0 THEN NoEvent ELSE events[w.id]
    <3>4. e = NoEvent \/ (e \in Row /\ IsOpen(e) /\ StatusFits(e))
      BY <1>2, <3>3 DEF IdentityInv, TypeOK, LogNeverAhead, StatusFits
    <3>5. w.id \in DOMAIN events => e = events[w.id] /\ e # NoEvent
      BY <3>3 DEF NoEvent, IsOpen, OpenStatuses
    <3> HIDE DEF e
    <3>6. w.result = ApplyScanToEvent(e, w.rwaId, w.verdict, <<s, w.rwaId>>, s)
      BY <3>1 DEF e
    <3>7. DecisionFits("snapshot", w, events)
      BY <3>2, <3>4, <3>5, <3>6, LifecycleDecides DEF DecisionFits
    <3>8. pc'[s] = "snapshot" /\ work'[s] = w /\ UNCHANGED <<events, transitions>>
      BY <1>2, <2>5, <3>1 DEF LookUp, database
    <3>9. QED
      BY <2>4, <3>7, <3>8
  <2>6. CASE PersistSnapshot(s)
    <3>1. /\ pc[s] = "snapshot" /\ UNCHANGED <<events, transitions>>
          /\ pc'[s] \in {"entries", "allocate", "event"}
          /\ pc'[s] \in {"allocate", "event"} => work' = work
      BY <1>2, <2>6 DEF PersistSnapshot, Goto
    <3>2. DecisionFits("snapshot", work[s], events)
      BY <2>3, <3>1 DEF Processing
    <3>3. DecisionFits("event", work[s], events) /\ DecisionFits("allocate", work[s], events)
      BY <3>2 DEF DecisionFits
    <3>4. QED
      BY <2>4, <3>1, <3>3 DEF Processing, Recording
  <2>7. CASE AllocateId(s)
    <3>1. /\ pc[s] = "allocate" /\ pc'[s] = "event" /\ UNCHANGED <<events, transitions>>
          /\ work' = [work EXCEPT ![s] = [work[s] EXCEPT !.id = eventSeq + 1]]
      BY <1>2, <2>7 DEF AllocateId, Goto
    <3>2. /\ WorkFits(s, "allocate", work[s], events, eventSeq, DOMAIN snapshots)
          /\ DecisionFits("allocate", work[s], events)
      BY <2>3, <3>1 DEF Processing
    <3>3. work'[s].result = work[s].result /\ work'[s].id = eventSeq + 1
      <4>1. work'[s] = [work[s] EXCEPT !.id = eventSeq + 1]
        BY <1>2, <3>1
      <4>2. work[s] = [rwaId |-> work[s].rwaId, verdict |-> work[s].verdict,
                       id |-> work[s].id, result |-> work[s].result]
        BY <3>2 DEF WorkFits
      <4>3. QED
        BY <4>1, <4>2
    <3>4. eventSeq + 1 \notin DOMAIN events
      BY <1>2 DEF IdentityInv, TypeOK
    <3>5. DecisionFits("event", work'[s], events)
      BY <3>2, <3>3, <3>4 DEF DecisionFits
    <3>6. QED
      BY <2>4, <3>1, <3>5
  <2>8. CASE UpsertEvent(s)
    <3> DEFINE id == work[s].id
               e == work[s].result.event
    <3>1. /\ pc[s] = "event" /\ pc'[s] = "transition"
          /\ events' = WithRow(events, id, e) /\ UNCHANGED <<transitions, work>>
      BY <1>2, <2>8 DEF UpsertEvent, Stored, Goto
    <3>2. /\ WorkFits(s, "event", work[s], events, eventSeq, DOMAIN snapshots)
          /\ DecisionFits("event", work[s], events)
      BY <2>3, <3>1 DEF Processing
    <3>3. e \in Row /\ e.confirmations \in Nat \ {0} /\ StatusFits(e)
      BY <3>2 DEF WorkFits, DecisionFits, Row, EventRow
    <3>4. /\ DOMAIN events' = DOMAIN events \cup {id}
          /\ events'[id] = e
          /\ \A i \in DOMAIN events \ {id} : events'[i] = events[i]
      BY <3>1 DEF WithRow
    <3>5. \A i, kinds : RowsOf(i, kinds)' = RowsOf(i, kinds)
      BY <3>1 DEF RowsOf
    <3>6. /\ Cardinality(RowsOf(id, Confirming)) <= e.confirmations
          /\ Cardinality(RowsOf(id, {"confirmed"})) <= 1
          /\ RowsOf(id, {"confirmed"}) # {} => e.confirmations >= ConfirmScans
          /\ work[s].result.transition \in Confirming =>
               Cardinality(RowsOf(id, Confirming)) < e.confirmations
          /\ work[s].result.transition = "confirmed" => RowsOf(id, {"confirmed"}) = {}
      <4>1. CASE id \in DOMAIN events
        <5>1. /\ events[id].confirmations \in Nat
              /\ events[id].confirmations <= e.confirmations
              /\ work[s].result.transition \in Confirming =>
                   events[id].confirmations < e.confirmations
              /\ work[s].result.transition = "confirmed" =>
                   events[id].confirmations < ConfirmScans
          BY <1>2, <3>2, <4>1 DEF DecisionFits, WorkFits, IdentityInv, TypeOK, Row, EventRow
        <5>2. /\ Cardinality(RowsOf(id, Confirming)) <= events[id].confirmations
              /\ Cardinality(RowsOf(id, Confirming)) \in Nat
              /\ RowsOf(id, {"confirmed"}) # {} => events[id].confirmations >= ConfirmScans
              /\ Cardinality(RowsOf(id, {"confirmed"})) <= 1
          BY <1>2, <4>1, RowsCounted DEF LogNeverAhead, Confirming
        <5>3. ConfirmScans \in Nat /\ e.confirmations \in Nat
          BY <3>3, ConfirmScansAssumption
        <5> HIDE DEF e, id
        <5>4. QED
          BY <5>1, <5>2, <5>3
      <4>2. CASE id \notin DOMAIN events
        <5>1. \A kinds : RowsOf(id, kinds) = {}
          BY <4>2 DEF EvidenceInv, ClaimsBacked, RowsOf
        <5>2. Cardinality({}) = 0
          BY FS_EmptySet
        <5>3. RowsOf(id, Confirming) = {} /\ RowsOf(id, {"confirmed"}) = {}
          BY <5>1
        <5>4. QED
          BY <3>3, <5>2, <5>3
      <4>3. QED
        BY <4>1, <4>2
    <3>7. LogNeverAhead'
      <4>1. ASSUME NEW i \in DOMAIN events'
            PROVE  /\ Cardinality(RowsOf(i, Confirming)) <= events'[i].confirmations
                   /\ Cardinality(RowsOf(i, {"confirmed"})) <= 1
                   /\ RowsOf(i, {"confirmed"}) # {} => events'[i].confirmations >= ConfirmScans
                   /\ StatusFits(events'[i])
        <5>1. CASE i = id
          BY <3>3, <3>4, <3>6, <5>1
        <5>2. CASE i # id
          <6>1. i \in DOMAIN events /\ events'[i] = events[i]
            BY <3>4, <4>1, <5>2
          <6>2. QED
            BY <6>1 DEF LogNeverAhead, Confirming, StatusFits
        <5>3. QED
          BY <5>1, <5>2
      <4>2. QED
        BY <3>5, <4>1 DEF LogNeverAhead, Confirming, StatusFits
    <3>8. DecisionsFit'
      <4>1. DecisionFits("transition", work[s], events')
        BY <3>2, <3>4 DEF DecisionFits
      <4>2. QED
        BY <2>2, <3>1, <4>1 DEF DecisionsFit
    <3>9. RowsMissing'
      <4>1. RowMissing(s)'
        BY <3>1, <3>4, <3>5, <3>6 DEF RowMissing
      <4>2. QED
        BY <2>2, <4>1 DEF RowsMissing, Processing, Recording
    <3>10. QED
      BY <1>1, <3>7, <3>8, <3>9
  <2>9. CASE RecordTransition(s)
    <3>1. /\ pc[s] = "transition" /\ events' = events
          /\ transitions' = transitions \o RowsOfEntry(s)
          /\ \/ pc'[s] = "entries"
             \/ pc'[s] = "investigation" /\ work'[s] = work[s]
      BY <1>2, <2>9 DEF RecordTransition, EntryDone, Goto
    <3>2. PICK row \in TransitionRow :
            /\ row = [eventId |-> work[s].id, transition |-> work[s].result.transition,
                      scan |-> s, rwaId |-> work[s].rwaId]
            /\ transitions' = Append(transitions, row)
      BY <1>2, <3>1, TransitionsGrow
    <3>3. /\ WorkFits(s, "transition", work[s], events, eventSeq, DOMAIN snapshots)
          /\ DecisionFits("transition", work[s], events)
          /\ RowMissing(s)
      BY <2>3, <3>1 DEF Processing, Recording, RowsMissing
    <3>4. /\ row.eventId = work[s].id /\ row.transition = work[s].result.transition
          /\ work[s].id \in DOMAIN events
          /\ events[work[s].id] = work[s].result.event
      BY <3>2, <3>3 DEF WorkFits, DecisionFits, Recording
    <3>5. row.transition = "confirmed" => events[row.eventId].confirmations >= ConfirmScans
      BY <3>3, <3>4 DEF DecisionFits, WorkFits
    <3>6. ASSUME NEW i \in DOMAIN events
          PROVE  /\ Cardinality(RowsOf(i, Confirming)') <= events[i].confirmations
                 /\ Cardinality(RowsOf(i, {"confirmed"})') <= 1
                 /\ RowsOf(i, {"confirmed"})' # {} => events[i].confirmations >= ConfirmScans
                 /\ StatusFits(events[i])
      <4>1. /\ Cardinality(RowsOf(i, Confirming)) <= events[i].confirmations
            /\ Cardinality(RowsOf(i, {"confirmed"})) <= 1
            /\ RowsOf(i, {"confirmed"}) # {} => events[i].confirmations >= ConfirmScans
            /\ StatusFits(events[i])
        BY DEF LogNeverAhead, Confirming, StatusFits
      <4>2. /\ Cardinality(RowsOf(i, Confirming)) \in Nat
            /\ events[i].confirmations \in Nat
        BY <1>2, RowsCounted DEF IdentityInv, TypeOK, Row, EventRow
      <4>3. Cardinality(RowsOf(i, Confirming)') <= events[i].confirmations
        <5>1. CASE row.eventId = i /\ row.transition \in Confirming
          <6>1. Cardinality(RowsOf(i, Confirming)') = Cardinality(RowsOf(i, Confirming)) + 1
            BY <1>2, <3>2, <5>1, RowsAfter
          <6>2. Cardinality(RowsOf(i, Confirming)) < events[i].confirmations
            BY <3>3, <3>4, <5>1 DEF RowMissing
          <6>3. QED
            BY <4>2, <6>1, <6>2
        <5>2. CASE ~(row.eventId = i /\ row.transition \in Confirming)
          <6>1. RowsOf(i, Confirming)' = RowsOf(i, Confirming)
            BY <1>2, <3>2, <5>2, RowsAfter
          <6>2. QED
            BY <4>1, <6>1
        <5>3. QED
          BY <5>1, <5>2
      <4>4. /\ Cardinality(RowsOf(i, {"confirmed"})') <= 1
            /\ RowsOf(i, {"confirmed"})' # {} => events[i].confirmations >= ConfirmScans
        <5>1. CASE row.eventId = i /\ row.transition \in {"confirmed"}
          <6>1. /\ Cardinality(RowsOf(i, {"confirmed"})')
                     = Cardinality(RowsOf(i, {"confirmed"})) + 1
            BY <1>2, <3>2, <5>1, RowsAfter
          <6>2. RowsOf(i, {"confirmed"}) = {}
            BY <3>3, <3>4, <5>1 DEF RowMissing
          <6>3. Cardinality(RowsOf(i, {"confirmed"})') = 1
            BY <6>1, <6>2, FS_EmptySet
          <6>4. QED
            BY <3>5, <5>1, <6>3
        <5>2. CASE ~(row.eventId = i /\ row.transition \in {"confirmed"})
          <6>1. RowsOf(i, {"confirmed"})' = RowsOf(i, {"confirmed"})
            BY <1>2, <3>2, <5>2, RowsAfter
          <6>2. QED
            BY <4>1, <6>1
        <5>3. QED
          BY <5>1, <5>2
      <4>5. QED
        BY <4>1, <4>3, <4>4
    <3>7. LogNeverAhead'
      BY <3>1, <3>6 DEF LogNeverAhead, Confirming, StatusFits
    <3>8. DecisionsFit'
      <4>1. DecisionFits("investigation", work[s], events)
        BY <3>3 DEF DecisionFits
      <4>2. pc'[s] \in Processing => DecisionFits(pc'[s], work'[s], events')
        BY <3>1, <4>1 DEF Processing, Recording
      <4>3. QED
        BY <2>2, <4>2 DEF DecisionsFit
    <3>9. RowsMissing'
      BY <2>2, <3>1 DEF RowsMissing, Processing, Recording
    <3>10. QED
      BY <1>1, <3>7, <3>8, <3>9
  <2>10. CASE InsertInvestigation(s) \/ InsertReceipt(s)
    <3>1. /\ pc[s] \in {"investigation", "receipt"} /\ UNCHANGED <<events, transitions>>
          /\ pc'[s] \in {"entries", "failing", "receipt"}
          /\ pc'[s] = "receipt" => work' = work
      BY <1>2, <2>10 DEF InsertInvestigation, InsertReceipt, EntryDone, Goto
    <3>2. DecisionFits(pc[s], work[s], events)
      BY <2>3, <3>1 DEF Processing, Recording
    <3>3. DecisionFits("receipt", work[s], events)
      BY <3>1, <3>2 DEF DecisionFits
    <3>4. QED
      BY <2>4, <3>1, <3>3 DEF Processing, Recording
  <2>11. QED
    BY <1>4, <2>5, <2>6, <2>7, <2>8, <2>9, <2>10 DEF EntryStep
<1>5. QED
  BY <1>2, <1>3, <1>4, StepKinds DEF IdentityInv

\* The log invariant where nothing has happened yet.
LEMMA LogBegins == Procs # {} /\ Init => LogInv
<1> SUFFICES ASSUME Procs # {}, Init PROVE LogInv
  OBVIOUS
<1>1. /\ DOMAIN events = {} /\ DOMAIN transitions = {}
      /\ investigations = {} /\ receipts = {}
      /\ \A s \in Scans : pc[s] = "idle"
  BY DEF Init
<1>2. EvidenceInv
  BY EvidenceBegins
<1>3. OneOpenInv
  BY <1>1, InitIdentity, InitCpu DEF OneOpenInv, OneOpenEvent, NothingElseOpen
<1>4. LogNeverAhead /\ DecisionsFit /\ RowsMissing
  BY <1>1 DEF LogNeverAhead, DecisionsFit, RowsMissing, Processing, Recording
<1>5. QED
  BY <1>2, <1>3, <1>4 DEF LogInv

\* In one process the log of an event never counts more confirmations than
\* the event and confirms it once at most (LogNeverAhead), wherever a scan
\* is cut short: the event is written before its transition is recorded,
\* and the lifecycle confirms an event it read below the count only.
THEOREM LogStaysBehind == (\E p : Procs = {p}) => (Spec => []LogNeverAhead)
<1> SUFFICES ASSUME NEW p, Procs = {p} PROVE Spec => []LogNeverAhead
  OBVIOUS
<1>1. Init => LogInv
  BY LogBegins
<1>2. LogInv /\ [Next]_vars => LogInv'
  BY LogStep
<1>3. LogInv => LogNeverAhead
  BY DEF LogInv
<1>4. QED
  BY <1>1, <1>2, <1>3, PTL DEF Spec

-----------------------------------------------------------------------------
(***************************************************************************)
(* The books of a scan: what its tally says of the rows it has written.    *)
(***************************************************************************)

Mine(stored, s) == {a \in Assets : <<s, a>> \in DOMAIN stored}

AnomalousOf(stored, s, S) == {a \in S : Anomalous(stored[<<s, a>>])}

RowsBy(log, s) == {k \in DOMAIN log : log[k].scan = s}

ConfirmedBy(log, s) == {k \in RowsBy(log, s) : log[k].transition = "confirmed"}

Reported(found) == {k \in DOMAIN found : found[k] = "confirmed"}

\* The assets whose entry s is done with.
Past(s) == IF pc[s] \in Processing THEN Mine(snapshots, s) \ {work[s].rwaId}
                                   ELSE Mine(snapshots, s)

Unfinished == Processing \cup {"idle", "fetching", "entries", "complete"}
Ended      == {"settling", "done", "dead"}

\* A confirmation that is recorded and has no receipt yet.
Claiming == {"investigation", "receipt"}
Claims(s) == IF pc[s] \in Claiming THEN 1 ELSE 0

\* What the lifecycle decided about a verdict.
DecisionSound(w) ==
  /\ w.result.transition = "none" => ~Anomalous(w.verdict)
  /\ w.result.transition # "none" /\ w.result.event.status = "confirmed"
       => Anomalous(w.verdict)
  /\ w.result.transition = "confirmed" => w.result.event.status = "confirmed"

TallyTyped == tally \in [Scans -> [snapshots : Nat, found : Seq(EventStatuses)]]

\* Each entry is processed once, and what is known of it is stored.
EntriesApart(s) ==
  /\ pc[s] \in {"idle", "fetching"} => Mine(snapshots, s) = {}
  /\ pc[s] \in Processing \cup {"entries"} => todo[s] \cap Mine(snapshots, s) = {}
  /\ pc[s] \in Processing => DecisionSound(work[s]) /\ work[s].rwaId \notin todo[s]
  /\ pc[s] = "snapshot" => work[s].rwaId \notin Mine(snapshots, s)
  /\ pc[s] \in Processing \ {"snapshot"} =>
       /\ work[s].rwaId \in Mine(snapshots, s)
       /\ snapshots[<<s, work[s].rwaId>>] = work[s].verdict
  /\ pc[s] \in Claiming =>
       /\ work[s].result.transition = "confirmed"
       /\ \E k \in RowsBy(transitions, s) : transitions[k].rwaId = work[s].rwaId

\* No more confirmations are recorded than reported, but for the one under
\* way, and no more reported than anomalous snapshots taken.
Counted(s) ==
  /\ IsFiniteSet(Mine(snapshots, s)) /\ Cardinality(Past(s)) = tally[s].snapshots
  /\ Cardinality(ConfirmedBy(transitions, s))
       <= Cardinality(Reported(tally[s].found)) + Claims(s)
  /\ Cardinality(Reported(tally[s].found))
       <= Cardinality(AnomalousOf(snapshots, s, Past(s)))

Recorded(s) ==
  /\ \A a \in AnomalousOf(snapshots, s, Past(s)) :
       \E k \in RowsBy(transitions, s) : transitions[k].rwaId = a
  /\ \A k \in ConfirmedBy(transitions, s) :
       \/ transitions[k].eventId \in receipts
       \/ pc[s] \in Claiming /\ transitions[k].eventId = work[s].id

Books(s) == pc[s] \in Unfinished => EntriesApart(s) /\ Counted(s) /\ Recorded(s)

Whole(s) ==
  /\ scanRuns[s].assets = Cardinality(Mine(snapshots, s))
  /\ \A a \in AnomalousOf(snapshots, s, Mine(snapshots, s)) :
       \E k \in RowsBy(transitions, s) : transitions[k].rwaId = a
  /\ \A k \in ConfirmedBy(transitions, s) : transitions[k].eventId \in receipts
  /\ Cardinality(ConfirmedBy(transitions, s)) <= scanRuns[s].anomalies
  /\ scanRuns[s].anomalies
       <= Cardinality(AnomalousOf(snapshots, s, Mine(snapshots, s)))

\* Scans begin in order, and a run is completed only at the end of its scan.
RunsKept ==
  /\ DOMAIN scanRuns = Begun
  /\ \E n \in Nat : Begun = 1 .. n
  /\ \A s \in Begun : scanRuns[s].status = "completed" => pc[s] \in Ended /\ Whole(s)

WholeInv == IdentityInv /\ TallyTyped /\ RunsKept /\ \A s \in Scans : Books(s)

\* The footprint of a step: it leaves alone what t has written.
SameTables(t) ==
  /\ \A a \in Assets : <<t, a>> \in DOMAIN snapshots' <=> <<t, a>> \in DOMAIN snapshots
  /\ \A a \in Mine(snapshots, t) : snapshots'[<<t, a>>] = snapshots[<<t, a>>]
  /\ RowsBy(transitions', t) = RowsBy(transitions, t)
  /\ \A k \in RowsBy(transitions, t) : transitions'[k] = transitions[k]
  /\ receipts \subseteq receipts'

LEMMA SameBooks ==
  ASSUME NEW t, SameTables(t)
  PROVE  /\ Mine(snapshots', t) = Mine(snapshots, t)
         /\ ConfirmedBy(transitions', t) = ConfirmedBy(transitions, t)
         /\ \A S \in SUBSET Mine(snapshots, t) :
              AnomalousOf(snapshots', t, S) = AnomalousOf(snapshots, t, S)
<1>1. Mine(snapshots', t) = Mine(snapshots, t)
  BY DEF SameTables, Mine
<1>2. ConfirmedBy(transitions', t) = ConfirmedBy(transitions, t)
  BY DEF SameTables, ConfirmedBy
<1>3. ASSUME NEW S \in SUBSET Mine(snapshots, t)
      PROVE  AnomalousOf(snapshots', t, S) = AnomalousOf(snapshots, t, S)
  BY DEF SameTables, AnomalousOf
<1>4. QED
  BY <1>1, <1>2, <1>3

LEMMA BooksStay ==
  ASSUME NEW t, Books(t), SameTables(t), pc'[t] = pc[t], work'[t] = work[t],
         todo'[t] = todo[t], tally'[t] = tally[t]
  PROVE  Books(t)'
<1>1. Past(t)' = Past(t) /\ Past(t) \in SUBSET Mine(snapshots, t)
  BY SameBooks DEF Past
<1>2. AnomalousOf(snapshots', t, Past(t)') = AnomalousOf(snapshots, t, Past(t))
  BY <1>1, SameBooks
<1>3. EntriesApart(t) => EntriesApart(t)'
  BY SameBooks DEF EntriesApart, SameTables
<1>4. Counted(t) => Counted(t)'
  BY <1>1, <1>2, SameBooks DEF Counted, Claims
<1>5. Recorded(t) => Recorded(t)'
  BY <1>1, <1>2, SameBooks DEF Recorded, SameTables, ConfirmedBy
<1>6. QED
  BY <1>3, <1>4, <1>5 DEF Books

LEMMA WholeStays ==
  ASSUME NEW t, Whole(t), SameTables(t), scanRuns'[t] = scanRuns[t]
  PROVE  Whole(t)'
<1>1. AnomalousOf(snapshots', t, Mine(snapshots', t)) = AnomalousOf(snapshots, t, Mine(snapshots, t))
  BY SameBooks
<1>2. QED
  BY <1>1, SameBooks DEF Whole, SameTables, ConfirmedBy

\* The lifecycle reports an open event for an anomalous verdict only.
LEMMA ResultSound ==
  ASSUME NEW e, e = NoEvent \/ (e \in Row /\ IsOpen(e)),
         NEW a \in Assets, NEW snap \in Scans \X Assets, NEW now \in Nat,
         NEW v, WellFormed(v)
  PROVE  LET r == ApplyScanToEvent(e, a, v, snap, now) IN
         /\ r.transition = "none" => ~Anomalous(v)
         /\ r.transition # "none" /\ r.event.status = "confirmed" => Anomalous(v)
         /\ r.transition = "confirmed" => r.event.status = "confirmed"
<1> DEFINE r == ApplyScanToEvent(e, a, v, snap, now)
           ids == Scans \X Assets
<1>1. snap \in ids
  OBVIOUS
<1>2. /\ e = NoEvent \/ e \in EventRow(Assets, ids)
      /\ e = NoEvent <=> ~IsOpen(e)
  BY DEF Row, NoEvent, IsOpen, OpenStatuses
<1>3. r = ApplyScanToEvent(e, a, v, snap, now)
  OBVIOUS
<1> HIDE DEF ids, r
<1>4. r.event.status = "confirmed" => IsOpen(r.event)
  BY DEF IsOpen, OpenStatuses
<1>5. CASE e = NoEvent /\ Anomalous(v)
  <2>1. r = [event      |-> CreatedEvent(a, v, snap, now),
             transition |-> IF ConfirmScans <= 1 THEN "confirmed" ELSE "created"]
    BY <1>2, <1>3, <1>5 DEF ApplyScanToEvent
  <2>2. /\ r.event.status = IF ConfirmScans <= 1 THEN "confirmed" ELSE "candidate"
        /\ r.transition = IF ConfirmScans <= 1 THEN "confirmed" ELSE "created"
    BY <2>1 DEF CreatedEvent
  <2>3. QED
    BY <1>5, <2>2 DEF r
<1>6. CASE e # NoEvent /\ Anomalous(v)
  <2>1. r.transition = IF e.status = "candidate" /\ r.event.status = "confirmed"
                       THEN "confirmed" ELSE "updated"
    BY <1>1, <1>2, <1>3, <1>6, ContinuingResult
  <2>2. QED
    BY <1>6, <2>1 DEF r
<1>7. CASE e # NoEvent /\ ~Anomalous(v)
  <2>1. r.transition \in ClosedStatuses /\ ~IsOpen(r.event)
    BY <1>1, <1>2, <1>3, <1>7, ClosingResult
  <2>2. QED
    BY <1>4, <1>7, <2>1 DEF r, ClosedStatuses
<1>8. CASE e = NoEvent /\ ~Anomalous(v)
  BY <1>2, <1>3, <1>8, NoResult DEF r
<1>9. QED
  BY <1>5, <1>6, <1>7, <1>8

LEMMA DecisionMade ==
  ASSUME TypeOK, NEW s \in Scans, NEW w, w.rwaId \in Assets, w.verdict \in Verdicts,
         w.id \in ExistingIds(w.rwaId),
         w.result = ApplyScanToEvent(IF w.id = 0 THEN NoEvent ELSE events[w.id],
                                     w.rwaId, w.verdict, <<s, w.rwaId>>, s)
  PROVE  DecisionSound(w)
<1> DEFINE e == IF w.id = 0 THEN NoEvent ELSE events[w.id]
<1>1. s \in Nat /\ <<s, w.rwaId>> \in Scans \X Assets /\ WellFormed(w.verdict)
  BY VerdictsAssumption, BoundsAssumption DEF Scans
<1>2. e = NoEvent \/ (e \in Row /\ IsOpen(e))
  BY FoundEvent DEF TypeOK
<1>3. w.result = ApplyScanToEvent(e, w.rwaId, w.verdict, <<s, w.rwaId>>, s)
  OBVIOUS
<1> HIDE DEF e
<1>4. QED
  BY <1>1, <1>2, <1>3, ResultSound DEF DecisionSound

LEMMA LookUpBooks ==
  ASSUME WholeInv, NEW s \in Scans, LookUp(s)
  PROVE  Books(s)'
<1>1. TypeOK
  BY DEF WholeInv, IdentityInv
<1>2. PICK w : /\ pc[s] = "entries"
               /\ pc' = [pc EXCEPT ![s] = "snapshot"]
               /\ work' = [work EXCEPT ![s] = w]
               /\ todo' = [todo EXCEPT ![s] = @ \ {w.rwaId}]
               /\ w.rwaId \in todo[s]
               /\ w.verdict \in Verdicts
               /\ w.id \in ExistingIds(w.rwaId)
               /\ w.result = ApplyScanToEvent(IF w.id = 0 THEN NoEvent ELSE events[w.id],
                                              w.rwaId, w.verdict, <<s, w.rwaId>>, s)
  BY <1>1, LookUpDecides
<1>3. /\ pc'[s] = "snapshot" /\ work'[s] = w /\ todo'[s] = todo[s] \ {w.rwaId}
      /\ UNCHANGED <<snapshots, transitions, receipts, tally>>
  BY <1>1, <1>2 DEF LookUp, database, TypeOK
<1>4. DecisionSound(w)
  <2>1. w.rwaId \in Assets
    BY <1>1, <1>2 DEF TypeOK
  <2>2. QED
    BY <1>1, <1>2, <2>1, DecisionMade
<1>5. /\ "entries" \in Unfinished \ Processing /\ "snapshot" \in Processing
      /\ "entries" \notin Claiming /\ "snapshot" \notin Claiming
  BY DEF Unfinished, Processing, Recording, Claiming
<1>6. EntriesApart(s) /\ Counted(s) /\ Recorded(s)
  BY <1>2, <1>5 DEF WholeInv, Books
<1>7. w.rwaId \notin Mine(snapshots, s)
  BY <1>2, <1>6 DEF EntriesApart
<1>8. Past(s)' = Past(s)
  BY <1>2, <1>3, <1>5, <1>7 DEF Past
<1>9. EntriesApart(s)'
  BY <1>2, <1>3, <1>4, <1>5, <1>6, <1>7 DEF EntriesApart
<1>10. Counted(s)'
  BY <1>2, <1>3, <1>5, <1>6, <1>8 DEF Counted, Claims
<1>11. Recorded(s)'
  BY <1>2, <1>3, <1>5, <1>6, <1>8 DEF Recorded
<1>12. QED
  BY <1>9, <1>10, <1>11 DEF Books

\* The entry's snapshot is stored; an entry without a result is done with.
LEMMA PersistBooks ==
  ASSUME WholeInv, NEW s \in Scans, PersistSnapshot(s)
  PROVE  Books(s)'
<1> DEFINE w == work[s]
           a == work[s].rwaId
<1>1. TypeOK /\ TallyTyped
  BY DEF WholeInv, IdentityInv
<1>2. /\ pc[s] = "snapshot"
      /\ snapshots' = WithRow(snapshots, <<s, a>>, w.verdict)
      /\ UNCHANGED <<transitions, receipts, todo>>
      /\ IF w.result.transition = "none"
         THEN /\ pc'[s] = "entries"
              /\ tally'[s] = [tally[s] EXCEPT !.snapshots = @ + 1]
         ELSE pc'[s] \in {"allocate", "event"} /\ UNCHANGED <<tally, work>>
  BY <1>1 DEF PersistSnapshot, Goto, TypeOK, TallyTyped
<1>3. /\ {"snapshot", "allocate", "event"} \subseteq Processing \ Claiming
      /\ Processing \subseteq Unfinished /\ "entries" \notin Processing \cup Claiming
  BY DEF Unfinished, Processing, Recording, Claiming
<1>4. EntriesApart(s) /\ Counted(s) /\ Recorded(s)
  BY <1>2, <1>3 DEF WholeInv, Books
<1>5. WorkFits(s, "snapshot", w, events, eventSeq, DOMAIN snapshots)
  BY <1>2, <1>3 DEF WholeInv, IdentityInv, WorksFit
<1>6. a \in Assets /\ a \notin Mine(snapshots, s) /\ DecisionSound(w) /\ a \notin todo[s]
  BY <1>2, <1>3, <1>4, <1>5 DEF EntriesApart, WorkFits
<1>7. /\ DOMAIN snapshots' = DOMAIN snapshots \cup {<<s, a>>}
      /\ snapshots'[<<s, a>>] = w.verdict
      /\ \A k \in DOMAIN snapshots \ {<<s, a>>} : snapshots'[k] = snapshots[k]
  BY <1>2 DEF WithRow
<1>8. Mine(snapshots', s) = Mine(snapshots, s) \cup {a}
  BY <1>6, <1>7 DEF Mine
<1>9. Past(s) = Mine(snapshots, s) /\ a \notin Past(s)
  BY <1>2, <1>3, <1>6 DEF Past
<1>10. \A b \in Past(s) : snapshots'[<<s, b>>] = snapshots[<<s, b>>]
  BY <1>6, <1>7, <1>9 DEF Mine
<1>11. IsFiniteSet(Past(s)) /\ Cardinality(Past(s)) = tally[s].snapshots
  BY <1>4, <1>9 DEF Counted
<1>12. /\ IsFiniteSet(Past(s) \cup {a})
       /\ Cardinality(Past(s) \cup {a}) = tally[s].snapshots + 1
  BY <1>9, <1>11, FS_AddElement
<1>13. AnomalousOf(snapshots', s, Past(s)) = AnomalousOf(snapshots, s, Past(s))
  BY <1>10 DEF AnomalousOf
<1>14. IsFiniteSet(Mine(snapshots', s))
  BY <1>8, <1>9, <1>12
<1>15. todo'[s] \cap Mine(snapshots', s) = {}
  BY <1>2, <1>3, <1>4, <1>6, <1>8 DEF EntriesApart
<1>16. CASE w.result.transition = "none"
  <2>1. /\ pc'[s] = "entries"
        /\ tally'[s].snapshots = tally[s].snapshots + 1 /\ tally'[s].found = tally[s].found
    BY <1>1, <1>2, <1>16 DEF TallyTyped
  <2>2. Past(s)' = Past(s) \cup {a}
    BY <1>3, <1>8, <1>9, <2>1 DEF Past
  <2>3. ~Anomalous(w.verdict)
    BY <1>6, <1>16 DEF DecisionSound
  <2>4. AnomalousOf(snapshots', s, Past(s)') = AnomalousOf(snapshots, s, Past(s))
    BY <1>7, <1>13, <2>2, <2>3 DEF AnomalousOf
  <2>5. EntriesApart(s)'
    BY <1>3, <1>15, <2>1 DEF EntriesApart
  <2>6. Counted(s)'
    BY <1>2, <1>3, <1>4, <1>12, <1>14, <2>1, <2>2, <2>4 DEF Counted, Claims
  <2>7. Recorded(s)'
    BY <1>2, <1>3, <1>4, <2>4 DEF Recorded
  <2>8. QED
    BY <2>5, <2>6, <2>7 DEF Books
<1>17. CASE w.result.transition # "none"
  <2>1. pc'[s] \in {"allocate", "event"} /\ UNCHANGED <<tally, work>>
    BY <1>2, <1>17
  <2>2. Past(s)' = Past(s)
    BY <1>3, <1>8, <1>9, <2>1 DEF Past
  <2>3. EntriesApart(s)'
    BY <1>2, <1>3, <1>6, <1>7, <1>8, <1>15, <2>1 DEF EntriesApart
  <2>4. Counted(s)'
    BY <1>2, <1>3, <1>4, <1>13, <1>14, <2>1, <2>2 DEF Counted, Claims
  <2>5. Recorded(s)'
    BY <1>2, <1>3, <1>4, <1>13, <2>1, <2>2 DEF Recorded
  <2>6. QED
    BY <2>3, <2>4, <2>5 DEF Books
<1>18. QED
  BY <1>16, <1>17

\* A step that only moves on within the entry, or gives it up.
LEMMA MovingBooks ==
  ASSUME WholeInv, NEW s \in Scans, AllocateId(s) \/ UpsertEvent(s) \/ InsertInvestigation(s)
  PROVE  Books(s)'
<1>1. TypeOK
  BY DEF WholeInv, IdentityInv
<1>2. /\ \/ pc[s] = "allocate" /\ pc'[s] = "event"
         \/ pc[s] = "event" /\ pc'[s] = "transition" /\ work'[s] = work[s]
         \/ pc[s] = "investigation" /\ pc'[s] \in {"receipt", "failing"} /\ work'[s] = work[s]
      /\ UNCHANGED <<snapshots, transitions, receipts, todo, tally>>
  BY <1>1 DEF AllocateId, UpsertEvent, InsertInvestigation, Goto, TypeOK
<1>3. /\ {"allocate", "event", "transition"} \subseteq Processing \ Claiming
      /\ Claiming \subseteq Processing /\ "failing" \notin Unfinished
      /\ Processing \subseteq Unfinished
      /\ "receipt" \in Claiming /\ "investigation" \in Claiming
  BY DEF Unfinished, Processing, Recording, Claiming
<1>4. pc[s] \in Processing
  BY <1>2, <1>3
<1>5. EntriesApart(s) /\ Counted(s) /\ Recorded(s)
  BY <1>3, <1>4 DEF WholeInv, Books
<1>6. WorkFits(s, pc[s], work[s], events, eventSeq, DOMAIN snapshots)
  BY <1>4 DEF WholeInv, IdentityInv, WorksFit
<1>7. /\ work'[s].rwaId = work[s].rwaId /\ work'[s].verdict = work[s].verdict
      /\ work'[s].result = work[s].result
      /\ pc[s] # "allocate" => work'[s] = work[s]
  <2>1. CASE pc[s] = "allocate"
    <3>1. work'[s] = [work[s] EXCEPT !.id = eventSeq + 1]
      BY <1>1, <1>2, <2>1 DEF AllocateId, UpsertEvent, InsertInvestigation, TypeOK
    <3>2. work[s] = [rwaId |-> work[s].rwaId, verdict |-> work[s].verdict,
                     id |-> work[s].id, result |-> work[s].result]
      BY <1>6 DEF WorkFits
    <3>3. QED
      BY <2>1, <3>1, <3>2
  <2>2. CASE pc[s] # "allocate"
    BY <1>2, <2>2
  <2>3. QED
    BY <2>1, <2>2
<1>8. CASE pc'[s] = "failing"
  BY <1>3, <1>8 DEF Books
<1>9. CASE pc'[s] # "failing"
  <2>1. /\ pc'[s] \in Processing \ {"snapshot"} /\ pc[s] \in Processing \ {"snapshot"}
        /\ pc'[s] \in Claiming <=> pc[s] \in Claiming
        /\ pc[s] \in Claiming => work'[s] = work[s]
    BY <1>2, <1>3, <1>7, <1>9 DEF Claiming
  <2>2. Past(s)' = Past(s)
    BY <1>2, <1>7, <2>1 DEF Past
  <2>3. DecisionSound(work[s])'
    BY <1>5, <1>7, <2>1 DEF EntriesApart, DecisionSound
  <2>4. EntriesApart(s)'
    BY <1>2, <1>3, <1>5, <1>7, <2>1, <2>3 DEF EntriesApart
  <2>5. Counted(s)'
    BY <1>2, <1>5, <2>1, <2>2 DEF Counted, Claims
  <2>6. Recorded(s)'
    BY <1>2, <1>5, <2>1, <2>2 DEF Recorded
  <2>7. QED
    BY <2>4, <2>5, <2>6 DEF Books
<1>10. QED
  BY <1>8, <1>9

\* One more event is reported, and counts if it is a confirmed one.
LEMMA ReportedOneMore ==
  ASSUME NEW found \in Seq(EventStatuses), NEW status \in EventStatuses
  PROVE  /\ Cardinality(Reported(found)) \in Nat
         /\ Cardinality(Reported(Append(found, status)))
              = Cardinality(Reported(found)) + (IF status = "confirmed" THEN 1 ELSE 0)
<1> DEFINE n == Len(found) + 1
           longer == Append(found, status)
<1>1. /\ n \notin DOMAIN found /\ DOMAIN longer = DOMAIN found \cup {n}
      /\ longer[n] = status /\ \A k \in DOMAIN found : longer[k] = found[k]
      /\ DOMAIN found = 1 .. Len(found) /\ Len(found) \in Nat
  OBVIOUS
<1>2. IsFiniteSet(Reported(found)) /\ Cardinality(Reported(found)) \in Nat
  <2>1. IsFiniteSet(DOMAIN found) /\ Reported(found) \in SUBSET DOMAIN found
    BY <1>1, FS_Interval DEF Reported
  <2>2. QED
    BY <2>1, FS_Subset, FS_CardinalityType
<1> HIDE DEF n, longer
<1>3. /\ n \notin Reported(found)
      /\ Reported(longer) = IF status = "confirmed" THEN Reported(found) \cup {n}
                                                    ELSE Reported(found)
  BY <1>1 DEF Reported
<1>4. Cardinality(Reported(found) \cup {n}) = Cardinality(Reported(found)) + 1
  BY <1>2, <1>3, FS_AddElement
<1>5. QED
  BY <1>2, <1>3, <1>4 DEF longer

\* The entry is done: it leaves a row and, if it was confirmed, a receipt.
LEMMA DoneBooks ==
  ASSUME WholeInv, NEW s \in Scans, pc[s] \in {"transition", "receipt"}, EntryDone(s),
         UNCHANGED <<snapshots, todo>>,
         RowsBy(transitions, s) \subseteq RowsBy(transitions', s),
         \A k \in RowsBy(transitions, s) : transitions'[k] = transitions[k],
         \E k \in RowsBy(transitions', s) : transitions'[k].rwaId = work[s].rwaId,
         ConfirmedBy(transitions', s) = ConfirmedBy(transitions, s),
         receipts \subseteq receipts', pc[s] = "receipt" => work[s].id \in receipts'
  PROVE  Books(s)'
<1> DEFINE w == work[s]
           a == work[s].rwaId
           status == work[s].result.event.status
<1>1. /\ TypeOK /\ tally[s] \in [snapshots : Nat, found : Seq(EventStatuses)]
      /\ tally \in [Scans -> [snapshots : Nat, found : Seq(EventStatuses)]]
  BY DEF WholeInv, IdentityInv, TallyTyped
<1>2. /\ pc'[s] = "entries"
      /\ tally'[s].snapshots = tally[s].snapshots + 1
      /\ tally'[s].found = Append(tally[s].found, status)
  BY <1>1 DEF EntryDone, Goto, TypeOK
<1>3. /\ pc[s] \in Processing \ {"snapshot"} /\ pc[s] \in Unfinished
      /\ pc[s] \in Claiming <=> pc[s] = "receipt"
      /\ "entries" \notin Processing \cup Claiming
  BY DEF Unfinished, Processing, Recording, Claiming
<1>4. EntriesApart(s) /\ Counted(s) /\ Recorded(s)
  BY <1>3 DEF WholeInv, Books
<1>5. WorkFits(s, pc[s], w, events, eventSeq, DOMAIN snapshots)
  BY <1>3 DEF WholeInv, IdentityInv, WorksFit
<1>6. /\ a \in Mine(snapshots, s) /\ snapshots[<<s, a>>] = w.verdict
      /\ todo[s] \cap Mine(snapshots, s) = {}
      /\ status = "confirmed" => Anomalous(w.verdict)
      /\ pc[s] = "receipt" => status = "confirmed"
      /\ status \in EventStatuses
  <2>1. w.result.transition # "none" /\ w.result.event \in Row
    BY <1>3, <1>5 DEF WorkFits
  <2>2. status \in EventStatuses
    BY <2>1 DEF Row, EventRow
  <2>3. DecisionSound(w)
    BY <1>3, <1>4 DEF EntriesApart
  <2>4. QED
    BY <1>3, <1>4, <2>1, <2>2, <2>3 DEF EntriesApart, DecisionSound
<1>7. Past(s) = Mine(snapshots, s) \ {a} /\ Past(s)' = Mine(snapshots, s)
  BY <1>2, <1>3 DEF Past
<1>8. /\ IsFiniteSet(Mine(snapshots, s)) /\ IsFiniteSet(Past(s))
      /\ Cardinality(Past(s)) \in Nat
      /\ Cardinality(Mine(snapshots, s)) = Cardinality(Past(s)) + 1
  <2>1. IsFiniteSet(Mine(snapshots, s)) /\ IsFiniteSet(Past(s)) /\ a \notin Past(s)
    BY <1>4, <1>7, FS_RemoveElement DEF Counted
  <2>2. Mine(snapshots, s) = Past(s) \cup {a}
    BY <1>6, <1>7
  <2>3. QED
    BY <2>1, <2>2, FS_AddElement, FS_CardinalityType
<1> DEFINE before == AnomalousOf(snapshots, s, Past(s))
           after  == AnomalousOf(snapshots, s, Mine(snapshots, s))
<1>9. /\ a \notin before
      /\ after = IF Anomalous(w.verdict) THEN before \cup {a} ELSE before
  BY <1>6, <1>7 DEF AnomalousOf
<1>10. IsFiniteSet(before) /\ Cardinality(before) \in Nat
  <2>1. before \in SUBSET Past(s)
    BY DEF AnomalousOf
  <2>2. QED
    BY <1>8, <2>1, FS_Subset, FS_CardinalityType
<1>11. Cardinality(after) = Cardinality(before) + (IF Anomalous(w.verdict) THEN 1 ELSE 0)
  <2> HIDE DEF before, after
  <2>1. Cardinality(before \cup {a}) = Cardinality(before) + 1
    BY <1>9, <1>10, FS_AddElement
  <2>2. QED
    BY <1>9, <1>10, <2>1
<1>12. /\ Cardinality(Reported(tally[s].found)) \in Nat
       /\ Cardinality(Reported(tally'[s].found))
            = Cardinality(Reported(tally[s].found)) + (IF status = "confirmed" THEN 1 ELSE 0)
  BY <1>1, <1>2, <1>6, ReportedOneMore
<1>13. IsFiniteSet(ConfirmedBy(transitions, s)) /\ Cardinality(ConfirmedBy(transitions, s)) \in Nat
  <2>1. transitions \in Seq(TransitionRow)
    BY <1>1 DEF TypeOK
  <2>2. IsFiniteSet(DOMAIN transitions)
    BY <2>1, LogFinite
  <2>3. ConfirmedBy(transitions, s) \in SUBSET DOMAIN transitions
    BY DEF ConfirmedBy, RowsBy
  <2>4. QED
    BY <2>2, <2>3, FS_Subset, FS_CardinalityType
<1>14. EntriesApart(s)'
  BY <1>2, <1>3, <1>6 DEF EntriesApart
<1>15. Counted(s)'
  <2>1. Cardinality(Past(s)') = tally'[s].snapshots
    BY <1>2, <1>4, <1>7, <1>8 DEF Counted
  <2>2. Cardinality(ConfirmedBy(transitions, s))
          <= Cardinality(Reported(tally[s].found)) + (IF pc[s] = "receipt" THEN 1 ELSE 0)
    BY <1>3, <1>4 DEF Counted, Claims
  <2>3. Cardinality(ConfirmedBy(transitions', s)) <= Cardinality(Reported(tally'[s].found))
    BY <1>6, <1>12, <1>13, <2>2
  <2>4. Cardinality(Reported(tally'[s].found)) <= Cardinality(after)
    BY <1>4, <1>6, <1>10, <1>11, <1>12 DEF Counted
  <2>5. Claims(s)' = 0 /\ Cardinality(Reported(tally'[s].found)) \in Nat
    BY <1>2, <1>3, <1>12 DEF Claims
  <2>6. QED
    BY <1>7, <1>8, <2>1, <2>3, <2>4, <2>5 DEF Counted
<1>16. Recorded(s)'
  <2>1. \A b \in after : \E k \in RowsBy(transitions', s) : transitions'[k].rwaId = b
    BY <1>4, <1>9 DEF Recorded
  <2>2. \A k \in ConfirmedBy(transitions', s) : transitions'[k].eventId \in receipts'
    BY <1>3, <1>4 DEF Recorded, ConfirmedBy
  <2>3. QED
    BY <1>7, <2>1, <2>2 DEF Recorded
<1>17. QED
  BY <1>14, <1>15, <1>16 DEF Books

\* The transition is recorded; a confirmation has its claims to store yet.
LEMMA RecordBooks ==
  ASSUME WholeInv, NEW s \in Scans, RecordTransition(s)
  PROVE  Books(s)'
<1>1. IdentityInv /\ TypeOK
  BY DEF WholeInv, IdentityInv
<1>2. /\ pc[s] = "transition" /\ transitions' = transitions \o RowsOfEntry(s)
      /\ UNCHANGED <<snapshots, todo, receipts>>
  BY DEF RecordTransition
<1>3. PICK row \in TransitionRow :
        /\ row = [eventId |-> work[s].id, transition |-> work[s].result.transition,
                  scan |-> s, rwaId |-> work[s].rwaId]
        /\ transitions' = Append(transitions, row)
  BY <1>1, <1>2, TransitionsGrow
<1> DEFINE n == Len(transitions) + 1
<1>4. /\ n \notin DOMAIN transitions
      /\ DOMAIN transitions' = DOMAIN transitions \cup {n}
      /\ transitions'[n] = row
      /\ \A k \in DOMAIN transitions : transitions'[k] = transitions[k]
  BY <1>1, <1>3, RowAppended DEF TypeOK
<1> HIDE DEF n
<1>5. /\ row.scan = s /\ row.rwaId = work[s].rwaId /\ row.eventId = work[s].id
      /\ row.transition = work[s].result.transition
  BY <1>3
<1>6. /\ RowsBy(transitions', s) = RowsBy(transitions, s) \cup {n}
      /\ n \notin RowsBy(transitions, s)
      /\ \A k \in RowsBy(transitions, s) : transitions'[k] = transitions[k]
  BY <1>4, <1>5 DEF RowsBy
<1>7. ConfirmedBy(transitions', s) = IF row.transition = "confirmed"
                                     THEN ConfirmedBy(transitions, s) \cup {n}
                                     ELSE ConfirmedBy(transitions, s)
  BY <1>4, <1>6 DEF ConfirmedBy
<1>8. CASE work[s].result.transition # "confirmed"
  <2>1. EntryDone(s)
    BY <1>8 DEF RecordTransition
  <2>2. \E k \in RowsBy(transitions', s) : transitions'[k].rwaId = work[s].rwaId
    BY <1>4, <1>5, <1>6
  <2>3. QED
    BY <1>2, <1>5, <1>6, <1>7, <1>8, <2>1, <2>2, DoneBooks
<1>9. CASE work[s].result.transition = "confirmed"
  <2>1. pc'[s] = "investigation" /\ UNCHANGED <<tally, work>>
    BY <1>1, <1>9 DEF RecordTransition, Goto, TypeOK
  <2>2. /\ "transition" \in Processing \ Claiming /\ "investigation" \in Claiming
        /\ "investigation" \in Processing \ {"snapshot"} /\ Processing \subseteq Unfinished
    BY DEF Unfinished, Processing, Recording, Claiming
  <2>3. EntriesApart(s) /\ Counted(s) /\ Recorded(s)
    BY <1>2, <2>2 DEF WholeInv, Books
  <2>4. Past(s)' = Past(s)
    BY <1>2, <2>1, <2>2 DEF Past
  <2>5. EntriesApart(s)'
    <3>1. \E k \in RowsBy(transitions', s) : transitions'[k].rwaId = work[s].rwaId
      BY <1>4, <1>5, <1>6
    <3>2. QED
      BY <1>2, <1>9, <2>1, <2>2, <2>3, <3>1 DEF EntriesApart
  <2>6. Counted(s)'
    <3>1. IsFiniteSet(ConfirmedBy(transitions, s)) /\ n \notin ConfirmedBy(transitions, s)
      <4>1. transitions \in Seq(TransitionRow)
        BY <1>1 DEF TypeOK
      <4>2. IsFiniteSet(DOMAIN transitions)
        BY <4>1, LogFinite
      <4>3. ConfirmedBy(transitions, s) \in SUBSET DOMAIN transitions
        BY DEF ConfirmedBy, RowsBy
      <4>4. QED
        BY <1>4, <4>2, <4>3, FS_Subset
    <3>2. Cardinality(ConfirmedBy(transitions', s)) = Cardinality(ConfirmedBy(transitions, s)) + 1
      BY <1>5, <1>7, <1>9, <3>1, FS_AddElement
    <3>3. Cardinality(ConfirmedBy(transitions, s)) \in Nat
      BY <3>1, FS_CardinalityType
    <3>4. Claims(s) = 0 /\ Claims(s)' = 1
      BY <1>2, <2>1, <2>2 DEF Claims
    <3>5. Cardinality(Reported(tally[s].found)) \in Nat
      BY ReportedOneMore DEF WholeInv, TallyTyped, EventStatuses, OpenStatuses
    <3>6. Cardinality(ConfirmedBy(transitions', s))
            <= Cardinality(Reported(tally[s].found)) + Claims(s)'
      BY <2>3, <3>2, <3>3, <3>4, <3>5 DEF Counted
    <3>7. QED
      BY <1>2, <2>1, <2>3, <2>4, <3>6 DEF Counted
  <2>7. Recorded(s)'
    <3>1. \A a \in AnomalousOf(snapshots, s, Past(s)) :
            \E k \in RowsBy(transitions', s) : transitions'[k].rwaId = a
      BY <1>6, <2>3 DEF Recorded
    <3>2. \A k \in ConfirmedBy(transitions', s) :
            \/ transitions'[k].eventId \in receipts
            \/ transitions'[k].eventId = work[s].id
      BY <1>2, <1>4, <1>5, <1>6, <1>7, <2>2, <2>3 DEF Recorded, ConfirmedBy
    <3>3. QED
      BY <1>2, <2>1, <2>2, <2>4, <3>1, <3>2 DEF Recorded
  <2>8. QED
    BY <2>5, <2>6, <2>7 DEF Books
<1>10. QED
  BY <1>8, <1>9

\* The receipt is stored, or the scan fails on one that is there.
LEMMA ReceiptBooks ==
  ASSUME WholeInv, NEW s \in Scans, InsertReceipt(s)
  PROVE  Books(s)'
<1>1. TypeOK
  BY DEF WholeInv, IdentityInv
<1>2. /\ pc[s] = "receipt" /\ UNCHANGED <<snapshots, todo, transitions>>
      /\ \/ pc'[s] = "failing"
         \/ receipts' = receipts \cup {work[s].id} /\ EntryDone(s)
  BY <1>1 DEF InsertReceipt, Goto, TypeOK
<1>3. CASE pc'[s] = "failing"
  BY <1>3 DEF Books, Unfinished, Processing, Recording
<1>4. CASE receipts' = receipts \cup {work[s].id} /\ EntryDone(s)
  <2>1. pc[s] \in Unfinished /\ pc[s] \in Claiming
    BY <1>2 DEF Unfinished, Processing, Recording, Claiming
  <2>2. \E k \in RowsBy(transitions', s) : transitions'[k].rwaId = work[s].rwaId
    BY <1>2, <2>1 DEF WholeInv, Books, EntriesApart
  <2>3. /\ RowsBy(transitions', s) = RowsBy(transitions, s)
        /\ ConfirmedBy(transitions', s) = ConfirmedBy(transitions, s)
        /\ \A k \in RowsBy(transitions, s) : transitions'[k] = transitions[k]
    BY <1>2
  <2>4. receipts \subseteq receipts' /\ work[s].id \in receipts'
    BY <1>4
  <2>5. QED
    BY <1>2, <1>4, <2>2, <2>3, <2>4, DoneBooks
<1>5. QED
  BY <1>2, <1>3, <1>4

\* A scan writes under its own number only.
LEMMA EntryStepSpares ==
  ASSUME TypeOK, TallyTyped, NEW s \in Scans, EntryStep(s), NEW t \in Scans \ {s}
  PROVE  SameTables(t) /\ tally'[t] = tally[t] /\ todo'[t] = todo[t]
<1>1. tally'[t] = tally[t] /\ todo'[t] = todo[t]
  <2>1. \/ todo' = todo
        \/ \E x : todo' = [todo EXCEPT ![s] = x]
    BY DEF EntryStep, LookUp, PersistSnapshot, AllocateId, UpsertEvent, RecordTransition,
           EntryDone, InsertInvestigation, InsertReceipt
  <2>2. \/ tally' = tally
        \/ \E x : tally' = [tally EXCEPT ![s] = x]
    <3>1. CASE PersistSnapshot(s)
      BY <3>1 DEF PersistSnapshot
    <3>2. CASE RecordTransition(s) \/ InsertReceipt(s)
      BY <3>2 DEF RecordTransition, EntryDone, InsertReceipt
    <3>3. CASE LookUp(s) \/ AllocateId(s) \/ UpsertEvent(s) \/ InsertInvestigation(s)
      BY <3>3 DEF LookUp, AllocateId, UpsertEvent, InsertInvestigation
    <3>4. QED
      BY <3>1, <3>2, <3>3 DEF EntryStep
  <2>3. QED
    BY <2>1, <2>2 DEF TypeOK, TallyTyped
<1>2. CASE PersistSnapshot(s)
  <2>1. /\ snapshots' = WithRow(snapshots, <<s, work[s].rwaId>>, work[s].verdict)
        /\ UNCHANGED <<transitions, receipts>>
    BY <1>2 DEF PersistSnapshot
  <2>2. \A a : <<t, a>> # <<s, work[s].rwaId>>
    OBVIOUS
  <2>3. QED
    BY <1>1, <2>1, <2>2 DEF SameTables, WithRow, Mine
<1>3. CASE RecordTransition(s)
  <2>1. /\ pc[s] = "transition" /\ transitions' = transitions \o RowsOfEntry(s)
        /\ UNCHANGED <<snapshots, receipts>>
    BY <1>3 DEF RecordTransition
  <2> DEFINE row == [eventId |-> work[s].id, transition |-> work[s].result.transition,
                     scan |-> s, rwaId |-> work[s].rwaId]
             n == Len(transitions) + 1
  <2>2. transitions' = Append(transitions, row) /\ row.scan = s
    BY <2>1 DEF TypeOK, RowsOfEntry
  <2> HIDE DEF row
  <2>3. /\ n \notin DOMAIN transitions
        /\ DOMAIN transitions' = DOMAIN transitions \cup {n}
        /\ transitions'[n] = row
        /\ \A k \in DOMAIN transitions : transitions'[k] = transitions[k]
    BY <2>2 DEF TypeOK
  <2> HIDE DEF n
  <2>4. RowsBy(transitions', t) = RowsBy(transitions, t)
    BY <2>2, <2>3 DEF RowsBy
  <2>5. QED
    BY <1>1, <2>1, <2>3, <2>4 DEF SameTables, RowsBy
<1>4. CASE ~PersistSnapshot(s) /\ ~RecordTransition(s)
  <2>1. UNCHANGED <<snapshots, transitions>> /\ receipts \subseteq receipts'
    BY <1>4 DEF EntryStep, LookUp, AllocateId, UpsertEvent, InsertInvestigation,
                InsertReceipt, database
  <2>2. QED
    BY <1>1, <2>1 DEF SameTables
<1>5. QED
  BY <1>2, <1>3, <1>4

\* A step that begins or ends no run.
LEMMA RunsStay ==
  ASSUME RunsKept, UNCHANGED scanRuns,
         \A t \in Scans : /\ pc'[t] = "idle" <=> pc[t] = "idle"
                          /\ pc[t] \in Ended => pc'[t] \in Ended /\ SameTables(t)
  PROVE  RunsKept'
<1>1. Begun' = Begun
  BY DEF Begun
<1>2. ASSUME NEW t \in Begun, scanRuns[t].status = "completed"
      PROVE  pc'[t] \in Ended /\ Whole(t)'
  BY <1>2, WholeStays DEF RunsKept, Begun
<1>3. QED
  BY <1>1, <1>2 DEF RunsKept

\* The last entry is done: the run is recorded as completed, and it is whole.
LEMMA CompletionIsWhole ==
  ASSUME WholeInv, NEW s \in Scans, CompleteScan(s)
  PROVE  /\ scanRuns'[s].status = "completed" /\ Whole(s)'
         /\ \A t \in Begun \ {s} : scanRuns'[t] = scanRuns[t]
<1> DEFINE run == [status |-> "completed", assets |-> tally[s].snapshots,
                   anomalies |-> Cardinality(Reported(tally[s].found))]
<1>1. scanRuns' = [scanRuns EXCEPT ![s] = run]
  BY DEF CompleteScan, FinishRun, Reported
<1>2. /\ pc[s] = "complete" /\ s \in Begun /\ DOMAIN scanRuns = Begun
      /\ UNCHANGED <<snapshots, transitions, receipts>>
  BY DEF CompleteScan, WholeInv, RunsKept, Begun
<1> HIDE DEF run
<1>3. scanRuns'[s] = run /\ \A t \in Begun \ {s} : scanRuns'[t] = scanRuns[t]
  BY <1>1, <1>2
<1>4. /\ "complete" \in Unfinished /\ "complete" \notin Processing \cup Claiming
  BY DEF Unfinished, Processing, Recording, Claiming
<1>5. Counted(s) /\ Recorded(s)
  BY <1>2, <1>4 DEF WholeInv, Books
<1>6. Past(s) = Mine(snapshots, s) /\ Claims(s) = 0
  BY <1>2, <1>4 DEF Past, Claims
<1>7. Cardinality(Reported(tally[s].found)) \in Nat
  BY ReportedOneMore DEF WholeInv, TallyTyped, EventStatuses, OpenStatuses
<1>8. /\ run.assets = Cardinality(Mine(snapshots, s))
      /\ Cardinality(ConfirmedBy(transitions, s)) <= run.anomalies
      /\ run.anomalies <= Cardinality(AnomalousOf(snapshots, s, Mine(snapshots, s)))
  BY <1>5, <1>6, <1>7 DEF Counted, run
<1>9. /\ \A a \in AnomalousOf(snapshots, s, Mine(snapshots, s)) :
           \E k \in RowsBy(transitions, s) : transitions[k].rwaId = a
      /\ \A k \in ConfirmedBy(transitions, s) : transitions[k].eventId \in receipts
  BY <1>2, <1>4, <1>5, <1>6 DEF Recorded
<1>10. Whole(s)'
  BY <1>2, <1>3, <1>8, <1>9 DEF Whole
<1>11. QED
  BY <1>3, <1>10 DEF run

LEMMA WholeStep ==
  ASSUME WholeInv, [Next]_vars
  PROVE  WholeInv'
<1>1. /\ IdentityInv /\ TypeOK /\ TallyTyped /\ RunsKept
      /\ \A t \in Scans : Books(t)
  BY DEF WholeInv, IdentityInv
<1>2. IdentityInv'
  BY <1>1, IdentityStep
<1>3. /\ pc \in [Scans -> Labels] /\ todo \in [Scans -> SUBSET Assets]
      /\ tally \in [Scans -> [snapshots : Nat, found : Seq(EventStatuses)]]
  BY <1>1 DEF TypeOK, TallyTyped
<1>4. /\ {"failing", "settling", "done", "dead"} \cap Unfinished = {}
      /\ Unfinished \cap Ended = {} /\ "failing" \notin Ended /\ "idle" \notin Ended
      /\ Processing \subseteq Unfinished \ {"idle", "fetching", "entries", "complete"}
      /\ {"idle", "fetching", "entries", "complete"} \subseteq Unfinished
      /\ {"settling", "done", "dead"} = Ended
  BY DEF Unfinished, Processing, Recording, Ended
\* A step that writes no table: each scan waits, or has its books closed.
<1>5. ASSUME UNCHANGED <<tables, work, tally>>,
             \A t \in Scans : \/ pc'[t] = pc[t] /\ todo'[t] = todo[t]
                              \/ pc'[t] \notin Unfinished
      PROVE  TallyTyped' /\ \A t \in Scans : SameTables(t) /\ Books(t)'
  <2>1. \A t \in Scans : SameTables(t)
    BY <1>5 DEF tables, SameTables
  <2>2. ASSUME NEW t \in Scans, pc'[t] = pc[t], todo'[t] = todo[t]
        PROVE  Books(t)'
    BY <1>1, <1>5, <2>1, <2>2, BooksStay
  <2>3. ASSUME NEW t \in Scans, pc'[t] \notin Unfinished
        PROVE  Books(t)'
    BY <2>3 DEF Books
  <2>4. QED
    BY <1>1, <1>5, <2>1, <2>2, <2>3 DEF TallyTyped
<1>6. ASSUME NEW s \in Scans, EntryStep(s)
      PROVE  WholeInv'
  <2>1. Books(s)'
    BY <1>6, LookUpBooks, PersistBooks, MovingBooks, RecordBooks, ReceiptBooks DEF EntryStep
  <2>2. \A t \in Scans \ {s} : pc'[t] = pc[t] /\ work'[t] = work[t]
    BY <1>1, <1>6, OthersWait
  <2>3. \A t \in Scans \ {s} : SameTables(t) /\ tally'[t] = tally[t] /\ todo'[t] = todo[t]
    BY <1>1, <1>6, EntryStepSpares
  <2>4. \A t \in Scans : Books(t)'
    BY <1>1, <2>1, <2>2, <2>3, BooksStay
  <2>5. pc[s] \in Processing \cup {"entries"} /\ pc'[s] \in Processing \cup {"entries", "failing"}
    <3>1. pc[s] \in Processing \cup {"entries"}
      BY <1>6 DEF EntryStep, LookUp, PersistSnapshot, AllocateId, UpsertEvent, RecordTransition,
                  InsertInvestigation, InsertReceipt, Processing, Recording
    <3>2. \E label \in Processing \cup {"entries", "failing"} : Goto(s, label)
      <4>1. CASE LookUp(s) \/ PersistSnapshot(s) \/ AllocateId(s) \/ UpsertEvent(s)
        BY <4>1 DEF LookUp, PersistSnapshot, AllocateId, UpsertEvent, Processing, Recording
      <4>2. CASE RecordTransition(s) \/ InsertInvestigation(s) \/ InsertReceipt(s)
        BY <4>2 DEF RecordTransition, EntryDone, InsertInvestigation, InsertReceipt,
                    Processing, Recording
      <4>3. QED
        BY <1>6, <4>1, <4>2 DEF EntryStep
    <3>3. QED
      BY <1>3, <3>1, <3>2 DEF Goto
  <2>6. UNCHANGED scanRuns
    BY <1>6 DEF EntryStep, LookUp, PersistSnapshot, AllocateId, UpsertEvent, RecordTransition,
                InsertInvestigation, InsertReceipt, database
  <2>7. \A t \in Scans : /\ pc'[t] = "idle" <=> pc[t] = "idle"
                         /\ pc[t] \in Ended => pc'[t] \in Ended /\ SameTables(t)
    BY <1>4, <2>2, <2>3, <2>5
  <2>8. RunsKept'
    BY <1>1, <2>6, <2>7, RunsStay
  <2>9. TallyTyped'
    <3>1. /\ todo[s] \in SUBSET Assets
          /\ tally[s].snapshots + 1 \in Nat
          /\ pc[s] \in {"transition", "receipt"} =>
               Append(tally[s].found, work[s].result.event.status) \in Seq(EventStatuses)
      <4>1. ASSUME pc[s] \in {"transition", "receipt"}
            PROVE  work[s].result.event.status \in EventStatuses
        <5>1. WorkFits(s, pc[s], work[s], events, eventSeq, DOMAIN snapshots)
          BY <1>1, <4>1 DEF IdentityInv, WorksFit, Processing, Recording
        <5>2. work[s].result.event \in Row
          BY <4>1, <5>1 DEF WorkFits
        <5>3. QED
          BY <5>2 DEF Row, EventRow
      <4>2. QED
        BY <1>3, <4>1
    <3>2. \/ UNCHANGED tally
          \/ tally' = [tally EXCEPT ![s].snapshots = @ + 1]
          \/ /\ pc[s] \in {"transition", "receipt"}
             /\ tally' = [tally EXCEPT ![s] =
                            [snapshots |-> @.snapshots + 1,
                             found     |-> Append(@.found, work[s].result.event.status)]]
      <4>1. CASE PersistSnapshot(s)
        BY <4>1 DEF PersistSnapshot
      <4>2. CASE RecordTransition(s) \/ InsertReceipt(s)
        BY <4>2 DEF RecordTransition, EntryDone, InsertReceipt
      <4>3. CASE LookUp(s) \/ AllocateId(s) \/ UpsertEvent(s) \/ InsertInvestigation(s)
        BY <4>3 DEF LookUp, AllocateId, UpsertEvent, InsertInvestigation
      <4>4. QED
        BY <1>6, <4>1, <4>2, <4>3 DEF EntryStep
    <3>3. tally[s] \in [snapshots : Nat, found : Seq(EventStatuses)]
      BY <1>3 DEF TallyTyped
    <3>4. ASSUME NEW entry \in [snapshots : Nat, found : Seq(EventStatuses)],
                 tally' = [tally EXCEPT ![s] = entry]
          PROVE  TallyTyped'
      BY <1>1, <3>4 DEF TallyTyped
    <3>5. CASE UNCHANGED tally
      BY <1>1, <3>5 DEF TallyTyped
    <3>6. CASE tally' = [tally EXCEPT ![s].snapshots = @ + 1]
      <4> DEFINE entry == [tally[s] EXCEPT !.snapshots = @ + 1]
      <4>1. entry \in [snapshots : Nat, found : Seq(EventStatuses)]
        BY <3>1, <3>3
      <4>2. tally' = [tally EXCEPT ![s] = entry]
        BY <3>6
      <4>3. QED
        BY <3>4, <4>1, <4>2
    <3>7. CASE /\ pc[s] \in {"transition", "receipt"}
               /\ tally' = [tally EXCEPT ![s] =
                              [snapshots |-> @.snapshots + 1,
                               found     |-> Append(@.found, work[s].result.event.status)]]
      <4> DEFINE entry == [snapshots |-> tally[s].snapshots + 1,
                           found     |-> Append(tally[s].found, work[s].result.event.status)]
      <4>1. entry \in [snapshots : Nat, found : Seq(EventStatuses)]
        BY <3>1, <3>7
      <4>2. tally' = [tally EXCEPT ![s] = entry]
        BY <3>7
      <4>3. QED
        BY <3>4, <4>1, <4>2
    <3>8. QED
      BY <3>2, <3>5, <3>6, <3>7
  <2>10. QED
    BY <1>2, <2>4, <2>8, <2>9 DEF WholeInv
<1>7. ASSUME NEW s \in Scans, QuotesArrive(s)
      PROVE  WholeInv'
  <2>1. PICK entries \in SUBSET Assets : todo' = [todo EXCEPT ![s] = entries]
    BY <1>7 DEF QuotesArrive
  <2>2. /\ pc[s] = "fetching" /\ pc' = [pc EXCEPT ![s] = "entries"]
        /\ UNCHANGED <<scanRuns, tables, work, tally>>
    BY <1>7 DEF QuotesArrive, Goto, database, tables
  <2>3. \A t \in Scans : SameTables(t)
    BY <2>2 DEF tables, SameTables
  <2>4. Books(s)'
    <3>1. EntriesApart(s) /\ Counted(s) /\ Recorded(s) /\ Mine(snapshots, s) = {}
      BY <1>1, <1>4, <2>2 DEF Books, EntriesApart
    <3>2. pc'[s] = "entries" /\ UNCHANGED <<snapshots, transitions, receipts>>
      BY <1>3, <2>2 DEF tables
    <3>3. /\ pc[s] \notin Processing \cup Claiming /\ pc'[s] \notin Processing \cup Claiming
      BY <2>2, <3>2 DEF Processing, Recording, Claiming
    <3>4. Past(s)' = Past(s)
      BY <3>2, <3>3 DEF Past
    <3>5. EntriesApart(s)'
      BY <3>1, <3>2, <3>3 DEF EntriesApart
    <3>6. Counted(s)'
      BY <2>2, <3>1, <3>2, <3>3, <3>4 DEF Counted, Claims
    <3>7. Recorded(s)'
      BY <3>1, <3>2, <3>3, <3>4 DEF Recorded
    <3>8. QED
      BY <3>5, <3>6, <3>7 DEF Books
  <2>5. ASSUME NEW t \in Scans \ {s} PROVE Books(t)'
    BY <1>1, <1>3, <2>1, <2>2, <2>3, BooksStay
  <2>6. RunsKept'
    <3>1. \A t \in Scans : /\ pc'[t] = "idle" <=> pc[t] = "idle"
                           /\ pc[t] \in Ended => pc'[t] \in Ended
      BY <1>3, <1>4, <2>2
    <3>2. QED
      BY <1>1, <2>2, <2>3, <3>1, RunsStay
  <2>7. QED
    BY <1>1, <1>2, <2>2, <2>4, <2>5, <2>6 DEF WholeInv, TallyTyped
\* Retention succeeds or fails: the entries are done.
<1>14. ASSUME NEW s \in Scans, Prune(s) \/ (StoreThrows(s) /\ pc'[s] = "complete")
       PROVE  WholeInv'
  <2>1. /\ pc[s] = "entries" /\ pc' = [pc EXCEPT ![s] = "complete"]
        /\ UNCHANGED <<scanRuns, tables, work, tally, todo>>
    <3>1. CASE Prune(s)
      BY <3>1 DEF Prune, Goto, tables
    <3>2. CASE StoreThrows(s) /\ pc'[s] = "complete"
      BY <1>3, <3>2 DEF StoreThrows, Goto, database, tables
    <3>3. QED
      BY <1>14, <3>1, <3>2
  <2>2. \A t \in Scans : SameTables(t)
    BY <2>1 DEF tables, SameTables
  <2>3. Books(s)'
    <3>1. EntriesApart(s) /\ Counted(s) /\ Recorded(s)
      BY <1>1, <1>4, <2>1 DEF Books
    <3>2. pc'[s] = "complete" /\ UNCHANGED <<snapshots, transitions, receipts>>
      BY <1>3, <2>1 DEF tables
    <3>3. /\ pc[s] \notin Processing \cup Claiming /\ pc'[s] \notin Processing \cup Claiming
      BY <2>1, <3>2 DEF Processing, Recording, Claiming
    <3>4. Past(s)' = Past(s)
      BY <3>2, <3>3 DEF Past
    <3>5. EntriesApart(s)'
      BY <3>1, <3>2, <3>3 DEF EntriesApart
    <3>6. Counted(s)'
      BY <2>1, <3>1, <3>2, <3>3, <3>4 DEF Counted, Claims
    <3>7. Recorded(s)'
      BY <3>1, <3>2, <3>3, <3>4 DEF Recorded
    <3>8. QED
      BY <3>5, <3>6, <3>7 DEF Books
  <2>4. ASSUME NEW t \in Scans \ {s} PROVE Books(t)'
    BY <1>1, <1>3, <2>1, <2>2, BooksStay
  <2>5. \A t \in Scans : /\ pc'[t] = "idle" <=> pc[t] = "idle"
                         /\ pc[t] \in Ended => pc'[t] \in Ended
    BY <1>3, <1>4, <2>1
  <2>6. RunsKept'
    BY <1>1, <2>1, <2>2, <2>5, RunsStay
  <2>7. QED
    BY <1>1, <1>2, <2>1, <2>3, <2>4, <2>6 DEF WholeInv, TallyTyped
\* The steps that end a scan or leave its loop.
<1>8. ASSUME NEW s \in Scans, \/ SourceFails(s) \/ AlertsSettle(s)
                              \/ (StoreThrows(s) /\ pc'[s] # "complete")
      PROVE  WholeInv'
  <2>1. /\ UNCHANGED <<scanRuns, tables, work, tally, todo>>
        /\ \E label \in {"failing", "done"} :
             /\ pc' = [pc EXCEPT ![s] = label]
             /\ pc[s] # "idle" /\ (pc[s] \in Ended => label = "done")
    <3>1. CASE SourceFails(s)
      BY <1>4, <3>1 DEF SourceFails, Goto, database, tables
    <3>2. CASE AlertsSettle(s)
      BY <1>4, <3>2 DEF AlertsSettle, Goto, database, tables
    <3>3. CASE StoreThrows(s) /\ pc'[s] # "complete"
      BY <1>3, <1>4, <3>3 DEF StoreThrows, Goto, database, tables, Ended
    <3>4. QED
      BY <1>8, <3>1, <3>2, <3>3
  <2>2. \A t \in Scans : \/ pc'[t] = pc[t] /\ todo'[t] = todo[t]
                         \/ pc'[t] \notin Unfinished
    BY <1>3, <1>4, <2>1
  <2>3. TallyTyped' /\ \A t \in Scans : SameTables(t) /\ Books(t)'
    BY <1>5, <2>1, <2>2
  <2>4. \A t \in Scans : /\ pc'[t] = "idle" <=> pc[t] = "idle"
                         /\ pc[t] \in Ended => pc'[t] \in Ended
    BY <1>3, <1>4, <2>1
  <2>5. RunsKept'
    BY <1>1, <2>1, <2>3, <2>4, RunsStay
  <2>6. QED
    BY <1>2, <2>3, <2>5 DEF WholeInv
<1>9. ASSUME NEW s \in Scans, CompleteScan(s) \/ FailScan(s)
      PROVE  WholeInv'
  <2>1. /\ UNCHANGED <<tables, work, tally, todo>>
        /\ pc[s] \in {"complete", "failing"} /\ pc' = [pc EXCEPT ![s] = "settling"]
    BY <1>9 DEF CompleteScan, FailScan, Goto, tables
  <2>2. \A t \in Scans : \/ pc'[t] = pc[t] /\ todo'[t] = todo[t]
                         \/ pc'[t] \notin Unfinished
    BY <1>3, <1>4, <2>1
  <2>3. TallyTyped' /\ \A t \in Scans : SameTables(t) /\ Books(t)'
    BY <1>5, <2>1, <2>2
  <2>4. Begun' = Begun /\ s \in Begun
    BY <1>3, <2>1 DEF Begun
  <2>5. DOMAIN scanRuns' = DOMAIN scanRuns
    BY <1>9 DEF CompleteScan, FailScan, FinishRun
  <2>6. /\ \A t \in Begun \ {s} : scanRuns'[t] = scanRuns[t]
        /\ scanRuns'[s].status = "completed" => Whole(s)'
    <3>1. CASE CompleteScan(s)
      BY <3>1, CompletionIsWhole
    <3>2. CASE FailScan(s)
      <4>1. scanRuns' = [scanRuns EXCEPT ![s] =
                           [status |-> "failed", assets |-> tally[s].snapshots,
                            anomalies |-> Len(tally[s].found)]]
        BY <3>2 DEF FailScan, FinishRun
      <4>2. s \in DOMAIN scanRuns
        BY <1>1, <2>4 DEF RunsKept
      <4>3. scanRuns'[s].status = "failed"
        BY <4>1, <4>2
      <4>4. QED
        BY <4>1, <4>3
    <3>3. QED
      BY <1>9, <3>1, <3>2
  <2>7. ASSUME NEW t \in Begun, scanRuns'[t].status = "completed"
        PROVE  pc'[t] \in Ended /\ Whole(t)'
    <3>1. CASE t = s
      BY <1>3, <1>4, <2>1, <2>6, <2>7, <3>1
    <3>2. CASE t # s
      BY <1>1, <1>3, <2>1, <2>3, <2>6, <2>7, <3>2, WholeStays DEF RunsKept, Begun
    <3>3. QED
      BY <3>1, <3>2
  <2>8. RunsKept'
    BY <1>1, <2>4, <2>5, <2>7 DEF RunsKept
  <2>9. QED
    BY <1>2, <2>3, <2>8 DEF WholeInv
<1>10. ASSUME NEW p \in Procs, BeginScan(p)
       PROVE  WholeInv'
  <2> DEFINE run == [status |-> "running", assets |-> 0, anomalies |-> 0]
  <2>1. PICK n \in Nat : Begun = 1 .. n
    BY <1>1 DEF RunsKept
  <2>2. Cardinality(Begun) = n
    BY <2>1, FS_Interval
  <2>3. PICK s \in Scans : /\ s = n + 1 /\ s = Cardinality(Begun) + 1
                          /\ s \notin Begun /\ pc[s] = "idle"
    <3>1. Cardinality(Begun) + 1 \in Scans
      BY <1>10 DEF BeginScan
    <3>2. n + 1 \in Scans /\ n + 1 \notin Begun
      BY <2>1, <2>2, <3>1
    <3>3. pc[n + 1] = "idle"
      BY <3>2 DEF Begun
    <3>4. QED
      BY <2>2, <3>2, <3>3
  <2>4. /\ scanRuns' = WithRow(scanRuns, s, run)
        /\ pc' = [pc EXCEPT ![s] = "fetching"]
        /\ UNCHANGED <<tables, work, tally, todo>>
    BY <1>10, <2>3 DEF BeginScan, Goto, tables
  <2>5. Begun' = 1 .. (n + 1) /\ Begun' = Begun \cup {s}
    <3>1. Begun' = Begun \cup {s}
      BY <1>3, <2>3, <2>4 DEF Begun
    <3>2. QED
      BY <2>1, <2>3, <3>1
  <2>6. \A t \in Scans : SameTables(t)
    BY <2>4 DEF tables, SameTables
  <2>7. Books(s)'
    <3>1. EntriesApart(s) /\ Counted(s) /\ Recorded(s) /\ Mine(snapshots, s) = {}
      BY <1>1, <1>4, <2>3 DEF Books, EntriesApart
    <3>2. pc'[s] = "fetching" /\ UNCHANGED <<snapshots, transitions, receipts>>
      BY <1>3, <2>3, <2>4 DEF tables
    <3>3. /\ pc[s] \notin Processing \cup Claiming /\ pc'[s] \notin Processing \cup Claiming
      BY <2>3, <3>2 DEF Processing, Recording, Claiming
    <3>4. Past(s)' = Past(s)
      BY <3>2, <3>3 DEF Past
    <3>5. EntriesApart(s)'
      BY <3>1, <3>2, <3>3 DEF EntriesApart
    <3>6. Counted(s)'
      BY <2>4, <3>1, <3>2, <3>3, <3>4 DEF Counted, Claims
    <3>7. Recorded(s)'
      BY <3>1, <3>2, <3>3, <3>4 DEF Recorded
    <3>8. QED
      BY <3>5, <3>6, <3>7 DEF Books
  <2>8. ASSUME NEW t \in Scans \ {s} PROVE Books(t)'
    BY <1>1, <1>3, <2>4, <2>6, BooksStay
  <2>9. /\ DOMAIN scanRuns' = DOMAIN scanRuns \cup {s} /\ scanRuns'[s] = run
        /\ \A t \in DOMAIN scanRuns \ {s} : scanRuns'[t] = scanRuns[t]
    BY <2>4 DEF WithRow
  <2>10. ASSUME NEW t \in Begun', scanRuns'[t].status = "completed"
         PROVE  pc'[t] \in Ended /\ Whole(t)'
    <3>1. t # s
      BY <2>9, <2>10
    <3>2. t \in Begun /\ t \in Scans /\ scanRuns'[t] = scanRuns[t] /\ pc'[t] = pc[t]
      BY <1>1, <1>3, <2>4, <2>5, <2>9, <3>1 DEF RunsKept, Begun
    <3>3. QED
      BY <1>1, <2>6, <2>10, <3>2, WholeStays DEF RunsKept
  <2>11. RunsKept'
    BY <1>1, <2>5, <2>9, <2>10 DEF RunsKept
  <2>12. QED
    BY <1>1, <1>2, <2>4, <2>7, <2>8, <2>11 DEF WholeInv, TallyTyped
<1>11. ASSUME NEW p \in Procs, Crash(p)
       PROVE  WholeInv'
  <2>1. /\ UNCHANGED <<scanRuns, tables, work, tally, todo>>
        /\ \A t \in Scans : \/ pc'[t] = pc[t]
                            \/ pc'[t] = "dead" /\ pc[t] # "idle"
    BY <1>11 DEF Crash, database, tables, Begun
  <2>2. TallyTyped' /\ \A t \in Scans : SameTables(t) /\ Books(t)'
    BY <1>4, <1>5, <2>1
  <2>3. \A t \in Scans : /\ pc'[t] = "idle" <=> pc[t] = "idle"
                         /\ pc[t] \in Ended => pc'[t] \in Ended
    BY <1>4, <2>1
  <2>4. RunsKept'
    BY <1>1, <2>1, <2>2, <2>3, RunsStay
  <2>5. QED
    BY <1>2, <2>2, <2>4 DEF WholeInv
<1>12. CASE UNCHANGED vars
  <2>1. UNCHANGED <<scanRuns, tables, work, tally, todo, pc>>
    BY <1>12 DEF vars, database, tables
  <2>2. TallyTyped' /\ \A t \in Scans : SameTables(t) /\ Books(t)'
    BY <1>5, <2>1
  <2>3. RunsKept'
    BY <1>1, <2>1, <2>2, RunsStay
  <2>4. QED
    BY <1>2, <2>2, <2>3 DEF WholeInv
<1>15. ASSUME NEW s \in Scans, ScanStep(s) \/ StoreThrows(s)
       PROVE  WholeInv'
  BY <1>6, <1>7, <1>8, <1>9, <1>14, <1>15 DEF ScanStep, EntryStep
<1>13. QED
  BY <1>10, <1>11, <1>12, <1>15 DEF Next

\* The books of scans that have not begun.
LEMMA WholeBegins == Init => WholeInv
<1> SUFFICES ASSUME Init PROVE WholeInv
  OBVIOUS
<1>1. /\ scanRuns = <<>> /\ snapshots = <<>> /\ transitions = <<>>
      /\ tally = [s \in Scans |-> [snapshots |-> 0, found |-> <<>>]]
      /\ \A s \in Scans : pc[s] = "idle"
  BY DEF Init
<1>2. Begun = 1 .. 0 /\ DOMAIN scanRuns = {}
  BY <1>1 DEF Begun
<1>3. RunsKept
  BY <1>2 DEF RunsKept
<1>4. ASSUME NEW s \in Scans PROVE Books(s)
  <2>1. /\ Mine(snapshots, s) = {} /\ ConfirmedBy(transitions, s) = {}
        /\ Reported(tally[s].found) = {} /\ tally[s].snapshots = 0
    BY <1>1 DEF Mine, ConfirmedBy, RowsBy, Reported
  <2>2. /\ pc[s] = "idle" /\ "idle" \notin Processing \cup Claiming
    BY <1>1 DEF Processing, Recording, Claiming
  <2>3. Past(s) = {} /\ AnomalousOf(snapshots, s, Past(s)) = {} /\ Claims(s) = 0
    BY <2>1, <2>2 DEF Past, AnomalousOf, Claims
  <2>4. EntriesApart(s)
    BY <2>1, <2>2 DEF EntriesApart
  <2>5. Counted(s)
    BY <2>1, <2>3, FS_EmptySet DEF Counted
  <2>6. Recorded(s)
    BY <2>1, <2>3 DEF Recorded
  <2>7. QED
    BY <2>4, <2>5, <2>6 DEF Books
<1>5. TallyTyped
  BY <1>1 DEF TallyTyped
<1>6. QED
  BY <1>3, <1>4, <1>5, InitIdentity DEF WholeInv

-----------------------------------------------------------------------------
(***************************************************************************)
(* What retention takes away.                                              *)
(***************************************************************************)

\* Snapshot k is there, unless another process has begun a scan so late
\* that its retention reaches k.
Kept(k) == k \in Held \/ \E r \in Outliving(k[1]) : proc[r] # proc[k[1]]

SnapshotsBegun == \A k \in DOMAIN snapshots : k \in Begun \X Assets

PrunedExpired == \A k \in pruned : Outliving(k[1]) # {}

\* The latest snapshot of an event, and that of an entry on its way there.
LatestKept ==
  /\ \A i \in DOMAIN events : Kept(events[i].latestSnapshot)
  /\ \A s \in Scans : pc[s] \in {"allocate", "event"} => Kept(<<s, work[s].rwaId>>)

RetentionInv ==
  /\ EvidenceInv /\ CpuInv /\ WholeInv
  /\ SnapshotsBegun /\ PrunedExpired /\ LatestKept

LEMMA BegunStay ==
  ASSUME WholeInv, [Next]_vars
  PROVE  Begun \subseteq Begun' /\ \A s \in Begun : proc'[s] = proc[s]
<1>1. PICK n \in Nat : Begun = 1 .. n
  BY DEF WholeInv, RunsKept
<1>2. /\ pc \in [Scans -> Labels] /\ Begun \subseteq Scans
      /\ \A s \in Begun : pc[s] # "idle"
  BY DEF WholeInv, IdentityInv, TypeOK, Begun
<1>3. ASSUME NEW s \in Scans, NEW label \in Labels \ {"idle"}, Goto(s, label), UNCHANGED proc
      PROVE  Begun \subseteq Begun' /\ \A t \in Begun : proc'[t] = proc[t]
  BY <1>2, <1>3 DEF Goto, Begun
<1>4. /\ {"entries", "complete", "failing", "settling", "done"} \subseteq Labels \ {"idle"}
      /\ Processing \subseteq Labels \ {"idle"}
  BY DEF Labels, Processing, Recording
<1>5. ASSUME NEW s \in Scans, EntryStep(s)
      PROVE  Begun \subseteq Begun' /\ \A t \in Begun : proc'[t] = proc[t]
  <2>1. UNCHANGED proc
    BY <1>5 DEF EntryStep, LookUp, PersistSnapshot, AllocateId, UpsertEvent, RecordTransition,
                InsertInvestigation, InsertReceipt
  <2>2. \E label \in Processing \cup {"entries", "failing"} : Goto(s, label)
    <3>1. CASE LookUp(s) \/ PersistSnapshot(s) \/ AllocateId(s) \/ UpsertEvent(s)
      BY <3>1 DEF LookUp, PersistSnapshot, AllocateId, UpsertEvent, Processing, Recording
    <3>2. CASE RecordTransition(s) \/ InsertInvestigation(s) \/ InsertReceipt(s)
      BY <3>2 DEF RecordTransition, EntryDone, InsertInvestigation, InsertReceipt,
                  Processing, Recording
    <3>3. QED
      BY <1>5, <3>1, <3>2 DEF EntryStep
  <2>3. QED
    BY <1>3, <1>4, <2>1, <2>2
<1>6. ASSUME NEW s \in Scans, \/ QuotesArrive(s) \/ SourceFails(s) \/ Prune(s) \/ CompleteScan(s)
                              \/ FailScan(s) \/ AlertsSettle(s) \/ StoreThrows(s)
      PROVE  Begun \subseteq Begun' /\ \A t \in Begun : proc'[t] = proc[t]
  <2>1. UNCHANGED proc
    BY <1>6 DEF QuotesArrive, SourceFails, Prune, CompleteScan, FailScan, AlertsSettle,
                StoreThrows
  <2>2. \E label \in {"entries", "complete", "failing", "settling", "done"} : Goto(s, label)
    BY <1>6 DEF QuotesArrive, SourceFails, Prune, CompleteScan, FailScan, AlertsSettle,
                StoreThrows
  <2>3. QED
    BY <1>3, <1>4, <2>1, <2>2
<1>7. ASSUME NEW p \in Procs, BeginScan(p)
      PROVE  Begun \subseteq Begun' /\ \A t \in Begun : proc'[t] = proc[t]
  <2>1. Cardinality(Begun) = n
    BY <1>1, FS_Interval
  <2>2. /\ n + 1 \in Scans /\ n + 1 \notin Begun
        /\ proc' = [proc EXCEPT ![n + 1] = p]
        /\ Goto(n + 1, "fetching")
    <3>1. n + 1 \in Scans /\ n + 1 \notin Begun
      BY <1>1, <1>7, <2>1 DEF BeginScan
    <3>2. QED
      BY <1>7, <2>1, <3>1 DEF BeginScan
  <2>3. QED
    BY <1>2, <2>2 DEF Goto, Begun
<1>8. ASSUME NEW p \in Procs, Crash(p)
      PROVE  Begun \subseteq Begun' /\ \A t \in Begun : proc'[t] = proc[t]
  BY <1>2, <1>8 DEF Crash, Begun
<1>9. CASE UNCHANGED vars
  BY <1>9 DEF vars, Begun
<1>10. QED
  BY <1>5, <1>6, <1>7, <1>8, <1>9 DEF Next, ScanStep, EntryStep

\* A step leaves the snapshots alone, or a scan takes one, or takes out what
\* retention reaches.
LEMMA SnapshotSteps ==
  ASSUME [Next]_vars
  PROVE  \/ UNCHANGED <<snapshots, pruned>>
         \/ \E s \in Scans : PersistSnapshot(s) \/ Prune(s)
<1>1. ASSUME NEW s \in Scans, ScanStep(s) \/ StoreThrows(s), ~PersistSnapshot(s), ~Prune(s)
      PROVE  UNCHANGED <<snapshots, pruned>>
  <2>1. CASE \/ QuotesArrive(s) \/ SourceFails(s) \/ LookUp(s) \/ AllocateId(s) \/ UpsertEvent(s)
    BY <2>1 DEF QuotesArrive, SourceFails, LookUp, AllocateId, UpsertEvent, database
  <2>2. CASE RecordTransition(s) \/ InsertInvestigation(s) \/ InsertReceipt(s)
    BY <2>2 DEF RecordTransition, InsertInvestigation, InsertReceipt
  <2>3. CASE CompleteScan(s) \/ FailScan(s) \/ AlertsSettle(s) \/ StoreThrows(s)
    BY <2>3 DEF CompleteScan, FailScan, AlertsSettle, StoreThrows, database
  <2>4. QED
    BY <1>1, <2>1, <2>2, <2>3 DEF ScanStep
<1>2. ASSUME NEW p \in Procs, BeginScan(p) \/ Crash(p)
      PROVE  UNCHANGED <<snapshots, pruned>>
  BY <1>2 DEF BeginScan, Crash, database
<1>3. CASE UNCHANGED vars
  BY <1>3 DEF vars, database
<1>4. QED
  BY <1>1, <1>2, <1>3 DEF Next

\* What a scan takes out is outlived by that very scan.
LEMMA PruneReaches ==
  ASSUME TypeOK, SnapshotsBegun, NEW s \in Scans, Prune(s)
  PROVE  /\ s \in Begun /\ pc[s] = "entries"
         /\ UNCHANGED <<snapshots, events, work, proc>>
         /\ pruned \subseteq pruned'
         /\ \A k \in pruned' \ pruned :
              /\ k \in Held /\ s \in Outliving(k[1])
              /\ \A i \in DOMAIN events : events[i].latestSnapshot # k
<1>1. s \in Begun /\ pc[s] = "entries" /\ UNCHANGED <<snapshots, events, work, proc>>
  BY DEF Prune, Begun
<1>2. pruned' = pruned \/ (Retention > 0 /\ pruned' = pruned \cup Expired(s))
  BY DEF Prune
<1>3. ASSUME NEW k \in Expired(s), Retention > 0
      PROVE  /\ k \in Held /\ s \in Outliving(k[1])
             /\ \A i \in DOMAIN events : events[i].latestSnapshot # k
  BY <1>1, <1>3 DEF Expired, Outliving
<1>4. QED
  BY <1>1, <1>2, <1>3

LEMMA RetentionStep ==
  ASSUME RetentionInv, [Next]_vars
  PROVE  RetentionInv'
<1>1. /\ EvidenceInv /\ CpuInv /\ WholeInv /\ IdentityInv /\ TypeOK
      /\ SnapshotsBegun /\ PrunedExpired /\ LatestKept
      /\ pc \in [Scans -> Labels] /\ work = [t \in Scans |-> work[t]]
  BY DEF RetentionInv, WholeInv, IdentityInv, TypeOK
<1>2. EvidenceInv' /\ CpuInv' /\ WholeInv'
  BY <1>1, EvidenceStep, CpuStep, WholeStep
<1>3. /\ Begun \subseteq Begun' /\ \A s \in Begun : proc'[s] = proc[s]
      /\ \A s : Outliving(s) \subseteq Outliving(s)'
  <2>1. Begun \subseteq Begun' /\ \A s \in Begun : proc'[s] = proc[s]
    BY <1>1, BegunStay
  <2>2. QED
    BY <2>1 DEF Outliving
\* What is outlived stays so.
<1>4. ASSUME NEW k \in DOMAIN snapshots,
             \E r \in Outliving(k[1]) : proc[r] # proc[k[1]]
      PROVE  Kept(k)'
  <2>1. k[1] \in Begun /\ k[1] \in Scans
    BY <1>1 DEF SnapshotsBegun, Begun
  <2>2. PICK r \in Outliving(k[1]) : proc[r] # proc[k[1]]
    BY <1>4
  <2>3. r \in Begun /\ r \in Outliving(k[1])'
    BY <1>3, <2>1 DEF Outliving
  <2>4. proc'[r] # proc'[k[1]]
    BY <1>3, <2>1, <2>2, <2>3
  <2>5. QED
    BY <2>3, <2>4 DEF Kept
\* So is what stays in the table.
<1>5. ASSUME NEW k \in DOMAIN snapshots, Kept(k), k \in Held => k \in Held'
      PROVE  Kept(k)'
  BY <1>4, <1>5 DEF Kept
<1>6. /\ \A i \in DOMAIN events : events[i].latestSnapshot \in DOMAIN snapshots
      /\ \A s \in Scans : pc[s] \in {"allocate", "event"} =>
           <<s, work[s].rwaId>> \in DOMAIN snapshots
  <2>1. \A s \in Scans : pc[s] \in {"allocate", "event"} =>
          WorkFits(s, pc[s], work[s], events, eventSeq, DOMAIN snapshots)
    BY <1>1 DEF IdentityInv, WorksFit, Processing
  <2>2. QED
    BY <1>1, <2>1 DEF EvidenceInv, ClaimsBacked, WorkFits
\* Only the process that wrote a latest snapshot could not delete it.
<1>7. ASSUME NEW k \in DOMAIN snapshots, Kept(k),
             \/ \E i \in DOMAIN events : events[i].latestSnapshot = k
             \/ \E s \in Scans : pc[s] \in {"allocate", "event"} /\ k = <<s, work[s].rwaId>>
      PROVE  Kept(k)'
  <2>1. CASE UNCHANGED <<snapshots, pruned>>
    BY <1>5, <1>7, <2>1 DEF Held
  <2>2. ASSUME NEW s \in Scans, PersistSnapshot(s)
        PROVE  Kept(k)'
    <3>1. /\ snapshots' = WithRow(snapshots, <<s, work[s].rwaId>>, work[s].verdict)
          /\ pruned' = pruned \ {<<s, work[s].rwaId>>}
      BY <2>2 DEF PersistSnapshot
    <3>2. k \in Held => k \in Held'
      BY <3>1 DEF Held, WithRow
    <3>3. QED
      BY <1>5, <1>7, <3>2
  <2>3. ASSUME NEW r \in Scans, Prune(r)
        PROVE  Kept(k)'
    <3>1. /\ r \in Begun /\ pc[r] = "entries" /\ UNCHANGED <<snapshots, events, work, proc>>
          /\ k \in pruned' \ pruned => /\ r \in Outliving(k[1])
                                       /\ \A i \in DOMAIN events : events[i].latestSnapshot # k
      BY <1>1, <2>3, PruneReaches
    <3>2. CASE k \notin pruned' \ pruned
      <4>1. k \in Held => k \in Held'
        BY <3>1, <3>2 DEF Held
      <4>2. QED
        BY <1>5, <1>7, <4>1
    <3>3. CASE k \in pruned' \ pruned
      <4>1. PICK s \in Scans : pc[s] \in {"allocate", "event"} /\ k = <<s, work[s].rwaId>>
        BY <1>7, <3>1, <3>3
      <4>2. cpu[proc[s]] = s /\ cpu[proc[r]] = r
        BY <1>1, <3>1, <4>1 DEF CpuInv, InLoop, Processing
      <4>3. k[1] = s /\ s # r
        BY <3>1, <4>1
      <4>4. proc[r] # proc[k[1]]
        BY <4>2, <4>3
      <4>5. QED
        BY <1>4, <3>1, <3>3, <4>4
    <3>4. QED
      BY <3>2, <3>3
  <2>4. QED
    BY <2>1, <2>2, <2>3, SnapshotSteps
\* A snapshot just taken is there.
<1>8. ASSUME NEW s \in Scans, PersistSnapshot(s)
      PROVE  /\ pc[s] = "snapshot" /\ s \in Begun /\ work[s].rwaId \in Assets
             /\ DOMAIN snapshots' = DOMAIN snapshots \cup {<<s, work[s].rwaId>>}
             /\ <<s, work[s].rwaId>> \in Held' /\ pruned' \subseteq pruned
             /\ pc'[s] \in {"allocate", "event"} => work'[s] = work[s]
  <2>1. /\ pc[s] = "snapshot" /\ s \in Begun
        /\ snapshots' = WithRow(snapshots, <<s, work[s].rwaId>>, work[s].verdict)
        /\ pruned' = pruned \ {<<s, work[s].rwaId>>}
        /\ pc'[s] \in {"allocate", "event"} => work'[s] = work[s]
    BY <1>1, <1>8 DEF PersistSnapshot, Begun, Goto
  <2>2. work[s].rwaId \in Assets
    BY <1>1, <2>1 DEF IdentityInv, WorksFit, WorkFits, Processing
  <2>3. QED
    BY <2>1, <2>2 DEF WithRow, Held
<1>9. SnapshotsBegun'
  <2>1. CASE UNCHANGED <<snapshots, pruned>>
    BY <1>1, <1>3, <2>1 DEF SnapshotsBegun
  <2>2. ASSUME NEW s \in Scans, PersistSnapshot(s) PROVE SnapshotsBegun'
    <3>1. <<s, work[s].rwaId>> \in Begun' \X Assets
      BY <1>3, <1>8, <2>2
    <3>2. DOMAIN snapshots' = DOMAIN snapshots \cup {<<s, work[s].rwaId>>}
      BY <1>8, <2>2
    <3>3. \A k \in DOMAIN snapshots : k \in Begun' \X Assets
      BY <1>1, <1>3 DEF SnapshotsBegun
    <3>4. QED
      BY <3>1, <3>2, <3>3 DEF SnapshotsBegun
  <2>3. ASSUME NEW s \in Scans, Prune(s) PROVE SnapshotsBegun'
    BY <1>1, <1>3, <2>3, PruneReaches DEF SnapshotsBegun
  <2>4. QED
    BY <2>1, <2>2, <2>3, SnapshotSteps
<1>10. PrunedExpired'
  <2>1. ASSUME pruned' \subseteq pruned PROVE PrunedExpired'
    BY <1>1, <1>3, <2>1 DEF PrunedExpired
  <2>2. ASSUME NEW s \in Scans, Prune(s) PROVE PrunedExpired'
    <3>1. \A k \in pruned' : k \in pruned \/ s \in Outliving(k[1])
      BY <1>1, <2>2, PruneReaches
    <3>2. QED
      BY <1>1, <1>3, <3>1 DEF PrunedExpired
  <2>3. QED
    BY <1>8, <2>1, <2>2, SnapshotSteps
\* An event is written with the snapshot its scan has just taken.
<1>11. ASSUME NEW i \in DOMAIN events'
       PROVE  Kept(events[i].latestSnapshot)'
  <2>1. CASE events' = events
    <3>1. \A k : k = events[i].latestSnapshot => Kept(k)'
      BY <1>1, <1>6, <1>7, <2>1 DEF LatestKept
    <3>2. QED
      BY <2>1, <3>1
  <2>2. ASSUME NEW s \in Scans, pc[s] = "event",
               events' = WithRow(events, work[s].id, work[s].result.event),
               WorkFits(s, "event", work[s], events, eventSeq, DOMAIN snapshots)
        PROVE  Kept(events[i].latestSnapshot)'
    <3>1. work[s].result.event.latestSnapshot = <<s, work[s].rwaId>>
      BY <2>2 DEF WorkFits
    <3>2. \A k : k = <<s, work[s].rwaId>> => Kept(k)'
      BY <1>1, <1>6, <1>7, <2>2 DEF LatestKept
    <3>3. CASE i = work[s].id
      BY <2>2, <3>1, <3>2, <3>3 DEF WithRow
    <3>4. CASE i # work[s].id
      <4>1. i \in DOMAIN events /\ events'[i] = events[i]
        BY <2>2, <3>4 DEF WithRow
      <4>2. \A k : k = events[i].latestSnapshot => Kept(k)'
        BY <1>1, <1>6, <1>7, <4>1 DEF LatestKept
      <4>3. QED
        BY <4>1, <4>2
    <3>5. QED
      BY <3>3, <3>4
  <2>3. QED
    BY <1>1, <2>1, <2>2, EventsStep
<1>12. ASSUME NEW t \in Scans, pc'[t] \in {"allocate", "event"}
       PROVE  Kept(<<t, work[t].rwaId>>)'
  <2>1. CASE PersistSnapshot(t)
    <3>1. <<t, work[t].rwaId>> \in Held' /\ work'[t] = work[t]
      BY <1>8, <1>12, <2>1
    <3>2. QED
      BY <3>1 DEF Kept
  <2>2. CASE ~PersistSnapshot(t)
    <3>1. pc[t] \in {"allocate", "event"} /\ work'[t].rwaId = work[t].rwaId
      <4>1. CASE Quiet
        BY <1>12, <4>1 DEF Quiet, Processing
      <4>2. ASSUME NEW s \in Scans, EntryStep(s), s # t
            PROVE  pc[t] \in {"allocate", "event"} /\ work'[t].rwaId = work[t].rwaId
        BY <1>1, <1>12, <4>2, OthersWait
      <4>3. CASE EntryStep(t)
        <5>1. AllocateId(t)
          BY <1>1, <1>12, <2>2, <4>3 DEF EntryStep, LookUp, UpsertEvent, RecordTransition,
             EntryDone, InsertInvestigation, InsertReceipt, Goto
        <5>2. /\ pc[t] = "allocate"
              /\ work' = [work EXCEPT ![t] = [work[t] EXCEPT !.id = eventSeq + 1]]
          BY <5>1 DEF AllocateId
        <5>3. work[t] = [rwaId |-> work[t].rwaId, verdict |-> work[t].verdict,
                         id |-> work[t].id, result |-> work[t].result]
          BY <1>1, <5>2 DEF IdentityInv, WorksFit, WorkFits, Processing
        <5>4. work'[t] = [work[t] EXCEPT !.id = eventSeq + 1]
          BY <1>1, <5>2
        <5>5. QED
          BY <5>2, <5>3, <5>4
      <4>4. QED
        BY <1>1, <4>1, <4>2, <4>3, StepKinds
    <3>2. \A k : k = <<t, work[t].rwaId>> => Kept(k)'
      BY <1>1, <1>6, <1>7, <3>1 DEF LatestKept
    <3>3. QED
      BY <3>1, <3>2
  <2>3. QED
    BY <2>1, <2>2
<1>13. LatestKept'
  BY <1>11, <1>12 DEF LatestKept
<1>14. QED
  BY <1>2, <1>9, <1>10, <1>13 DEF RetentionInv

LEMMA RetentionBegins == Init => RetentionInv
<1> SUFFICES ASSUME Init PROVE RetentionInv
  OBVIOUS
<1>1. /\ DOMAIN events = {} /\ DOMAIN snapshots = {} /\ pruned = {}
      /\ \A s \in Scans : pc[s] = "idle"
  BY DEF Init
<1>2. SnapshotsBegun /\ PrunedExpired /\ LatestKept
  BY <1>1 DEF SnapshotsBegun, PrunedExpired, LatestKept
<1>3. CpuInv
  BY InitCpu, ProcsAssumption
<1>4. QED
  BY <1>2, <1>3, EvidenceBegins, WholeBegins DEF RetentionInv

\* Nothing in the database speaks of what was never written, whatever
\* processes share it and wherever a scan is cut short, and retention takes
\* from it only what a later scan has outlived, never the latest snapshot of
\* an event under the feet of the process that wrote it
\* (EvidenceBeforeClaim).
THEOREM EvidencePrecedes == Spec => []EvidenceBeforeClaim
<1>1. Init => RetentionInv
  BY RetentionBegins
<1>2. RetentionInv /\ [Next]_vars => RetentionInv'
  BY RetentionStep
<1>3. RetentionInv => EvidenceBeforeClaim
  <2> SUFFICES ASSUME RetentionInv PROVE EvidenceBeforeClaim
    OBVIOUS
  <2>1. ClaimsBacked /\ LatestKept /\ PrunedExpired
    BY DEF RetentionInv, EvidenceInv
  <2>2. ASSUME NEW i \in DOMAIN events
        PROVE  LET id == events[i].latestSnapshot IN
               /\ id \in DOMAIN snapshots
               /\ id \in Held \/ \E r \in Outliving(id[1]) : proc[r] # proc[id[1]]
    BY <2>1 DEF ClaimsBacked, LatestKept, Kept
  <2>3. ASSUME NEW k \in DOMAIN transitions
        PROVE  LET t == transitions[k] IN
               /\ t.eventId \in DOMAIN events
               /\ events[t.eventId].rwaId = t.rwaId
               /\ <<t.scan, t.rwaId>> \in DOMAIN snapshots
               /\ <<t.scan, t.rwaId>> \in Held \/ Outliving(t.scan) # {}
    BY <2>1 DEF ClaimsBacked, PrunedExpired, Held
  <2>4. QED
    BY <2>1, <2>2, <2>3 DEF EvidenceBeforeClaim, ClaimsBacked
<1>4. QED
  BY <1>1, <1>2, <1>3, PTL DEF Spec

\* A run recorded as completed is whole (CompletedScanIsWhole), whatever
\* processes share the database and wherever other scans are cut short:
\* completeScan is reached only when every entry has stored all it claims,
\* and until retention reaches the run nothing of that is deleted.
THEOREM CompletedIsWhole == Spec => []CompletedScanIsWhole
<1>1. Init => RetentionInv
  BY RetentionBegins
<1>2. RetentionInv /\ [Next]_vars => RetentionInv'
  BY RetentionStep
<1>3. RetentionInv => CompletedScanIsWhole
  <2> SUFFICES ASSUME RetentionInv, NEW s \in Begun, scanRuns[s].status = "completed"
               PROVE  LET mine == {a \in Assets : <<s, a>> \in DOMAIN snapshots}
                          rows == {k \in DOMAIN transitions : transitions[k].scan = s}
                      IN /\ scanRuns[s].assets = Cardinality(mine)
                         /\ Outliving(s) = {} => \A a \in mine : <<s, a>> \in Held
                         /\ \A a \in mine : Anomalous(snapshots[<<s, a>>]) =>
                              \E k \in rows : transitions[k].rwaId = a
                         /\ \A k \in rows : transitions[k].transition = "confirmed" =>
                              transitions[k].eventId \in receipts
                         /\ Cardinality({k \in rows : transitions[k].transition = "confirmed"})
                              <= scanRuns[s].anomalies
                         /\ scanRuns[s].anomalies <=
                              Cardinality({a \in mine : Anomalous(snapshots[<<s, a>>])})
    BY DEF CompletedScanIsWhole
  <2> DEFINE mine == Mine(snapshots, s)
             rows == RowsBy(transitions, s)
  <2>1. Whole(s)
    BY DEF RetentionInv, WholeInv, RunsKept
  <2>2. /\ mine = {a \in Assets : <<s, a>> \in DOMAIN snapshots}
        /\ rows = {k \in DOMAIN transitions : transitions[k].scan = s}
    BY DEF Mine, RowsBy
  <2>3. /\ {k \in rows : transitions[k].transition = "confirmed"} = ConfirmedBy(transitions, s)
        /\ {a \in mine : Anomalous(snapshots[<<s, a>>])}
             = AnomalousOf(snapshots, s, Mine(snapshots, s))
    BY DEF ConfirmedBy, AnomalousOf
  <2>4. \A a \in mine : Anomalous(snapshots[<<s, a>>]) =>
          \E k \in rows : transitions[k].rwaId = a
    BY <2>1 DEF Whole, AnomalousOf
  <2>5. \A k \in rows : transitions[k].transition = "confirmed" =>
          transitions[k].eventId \in receipts
    BY <2>1 DEF Whole, ConfirmedBy
  <2>6. Outliving(s) = {} => \A a \in mine : <<s, a>> \in Held
    BY DEF RetentionInv, PrunedExpired, Held, Mine
  <2> HIDE DEF mine, rows
  <2>7. QED
    BY <2>1, <2>2, <2>3, <2>4, <2>5, <2>6 DEF Whole, mine
<1>4. QED
  BY <1>1, <1>2, <1>3, PTL DEF Spec

-----------------------------------------------------------------------------
(***************************************************************************)
(* One process: only a scan cut short leaves a gap in an arc.              *)
(***************************************************************************)

RowsIn(log, i, kinds) ==
  {k \in DOMAIN log : log[k].eventId = i /\ log[k].transition \in kinds}

OneIf(b) == IF b THEN 1 ELSE 0

\* The log holds n confirmations of event i and after them so many closing
\* rows, and i has a receipt exactly when certified holds.
ArcIs(log, certs, i, n, closings, certified) ==
  /\ Cardinality(RowsIn(log, i, Confirming)) = n
  /\ Cardinality(RowsIn(log, i, ClosedStatuses)) = closings
  /\ \A k \in RowsIn(log, i, ClosedStatuses), j \in RowsIn(log, i, Confirming) : j < k
  /\ i \in certs <=> certified

ArcComplete(log, certs, i, e) ==
  ArcIs(log, certs, i, e.confirmations, OneIf(~IsOpen(e)), e.confirmations >= ConfirmScans)

\* The confirmations the lifecycle counted on: those of the event found.
Before(w, table) == IF w.id \in DOMAIN table THEN table[w.id].confirmations ELSE 0

\* What it made of them, until the event is written.
DecisionExact(label, w, table) ==
  label \in {"snapshot", "allocate", "event"} /\ w.result.transition # "none" =>
    /\ w.result.event.confirmations
         = Before(w, table) + OneIf(w.result.transition \in Confirming)
    /\ IsOpen(w.result.event) <=> w.result.transition \in Confirming
    /\ w.result.transition = "confirmed" <=>
         Before(w, table) < ConfirmScans /\ w.result.event.confirmations >= ConfirmScans
    /\ w.id \in DOMAIN table => IsOpen(table[w.id])

DecisionsExact ==
  \A s \in Scans : pc[s] \in Processing => DecisionExact(pc[s], work[s], events)

\* What the arc of the event e just written still lacks: its transition row,
\* or no more than the evidence of its confirmation.
Owed(label, w, e, log, certs) ==
  IF label = "transition"
  THEN /\ ArcIs(log, certs, w.id, e.confirmations - OneIf(w.result.transition \in Confirming), 0,
                e.confirmations >= ConfirmScans /\ w.result.transition # "confirmed")
       /\ IsOpen(e) <=> w.result.transition \in Confirming
  ELSE /\ ArcIs(log, certs, w.id, e.confirmations, 0, FALSE)
       /\ IsOpen(e) /\ e.confirmations >= ConfirmScans

\* A scan that ended, or is bound to end, without being completed.
CutShort(s) == pc[s] \in Ended \cup {"failing"} /\ scanRuns[s].status # "completed"

Excused(i) == \E s \in Begun : CutShort(s) /\ <<s, events[i].rwaId>> \in DOMAIN snapshots

RecordedBy(s, i) == pc[s] \in Recording /\ work[s].id = i

\* The arc of an event nothing excuses lacks what a scan is about to write,
\* if one is, and nothing else.
ArcKept(i) ==
  /\ \A s \in Scans : RecordedBy(s, i) =>
       Owed(pc[s], work[s], events[i], transitions, receipts)
  /\ (\A s \in Scans : ~RecordedBy(s, i)) =>
       ArcComplete(transitions, receipts, i, events[i])

GapsExcused == \A i \in DOMAIN events : Excused(i) \/ ArcKept(i)

GapInv == LogInv /\ WholeInv /\ DecisionsExact /\ GapsExcused

\* What the lifecycle adds to the event it was given.
LEMMA LifecycleAdds ==
  ASSUME NEW e, e = NoEvent \/ (e \in Row /\ IsOpen(e) /\ StatusFits(e)),
         NEW a \in Assets, NEW snap \in Scans \X Assets, NEW now \in Nat,
         NEW v, WellFormed(v), NEW n \in Nat, n = IF e = NoEvent THEN 0 ELSE e.confirmations
  PROVE  LET r == ApplyScanToEvent(e, a, v, snap, now) IN
         r.transition # "none" =>
           /\ r.event.confirmations = n + OneIf(r.transition \in Confirming)
           /\ IsOpen(r.event) <=> r.transition \in Confirming
           /\ r.transition = "confirmed" <=>
                n < ConfirmScans /\ r.event.confirmations >= ConfirmScans
<1> DEFINE r == ApplyScanToEvent(e, a, v, snap, now)
           ids == Scans \X Assets
<1>1. snap \in ids
  OBVIOUS
<1>2. e = NoEvent \/ (e \in EventRow(Assets, ids) /\ e # NoEvent /\ e.confirmations \in Nat)
  BY DEF Row, EventRow, NoEvent, EventStatuses, OpenStatuses, ClosedStatuses
<1>3. e = NoEvent => ~IsOpen(e)
  BY DEF NoEvent, IsOpen, OpenStatuses
<1>4. ConfirmScans \in Nat \ {0}
  BY ConfirmScansAssumption
<1>5. /\ {"created", "updated", "confirmed"} \subseteq Confirming
      /\ \A tr \in ClosedStatuses : tr \notin Confirming /\ tr # "confirmed"
  BY DEF Confirming, Transitions, ClosedStatuses
<1>6. r = ApplyScanToEvent(e, a, v, snap, now)
  OBVIOUS
<1> HIDE DEF ids, r
<1>7. CASE e = NoEvent /\ Anomalous(v)
  <2>1. r = [event      |-> CreatedEvent(a, v, snap, now),
             transition |-> IF ConfirmScans <= 1 THEN "confirmed" ELSE "created"]
    BY <1>3, <1>6, <1>7 DEF ApplyScanToEvent
  <2>2. /\ r.event.confirmations = 1
        /\ r.event.status = IF ConfirmScans <= 1 THEN "confirmed" ELSE "candidate"
        /\ r.transition = IF ConfirmScans <= 1 THEN "confirmed" ELSE "created"
    BY <2>1 DEF CreatedEvent
  <2>3. IsOpen(r.event) /\ r.transition \in Confirming
    BY <1>5, <2>2 DEF IsOpen, OpenStatuses
  <2>4. r.transition = "confirmed" <=> n < ConfirmScans /\ r.event.confirmations >= ConfirmScans
    BY <1>4, <1>7, <2>2
  <2>5. r.event.confirmations = n + OneIf(r.transition \in Confirming)
    BY <1>7, <2>2, <2>3 DEF OneIf
  <2>6. QED
    BY <2>3, <2>4, <2>5 DEF r
<1>8. CASE e # NoEvent /\ Anomalous(v)
  <2>1. /\ r.transition = IF e.status = "candidate" /\ r.event.status = "confirmed"
                          THEN "confirmed" ELSE "updated"
        /\ r.event \in EventRow(Assets, ids) /\ IsOpen(r.event)
        /\ r.event.confirmations = e.confirmations + 1
        /\ r.event.status = ContinuedStatus(e)
    BY <1>1, <1>2, <1>6, <1>8, ContinuingResult
  <2>2. /\ e.confirmations \in Nat /\ n = e.confirmations
        /\ e.status = "confirmed" <=> e.confirmations >= ConfirmScans
        /\ e.status \in {"candidate", "confirmed"}
    BY <1>2, <1>8 DEF StatusFits, IsOpen, OpenStatuses
  <2>3. r.event.status = "confirmed" <=> e.confirmations + 1 >= ConfirmScans
    BY <1>4, <2>1, <2>2 DEF ContinuedStatus
  <2>4. r.transition = "confirmed" <=> n < ConfirmScans /\ r.event.confirmations >= ConfirmScans
    BY <1>4, <2>1, <2>2, <2>3
  <2>5. r.transition \in Confirming
    BY <1>5, <2>1
  <2>6. r.event.confirmations = n + OneIf(r.transition \in Confirming)
    BY <2>1, <2>2, <2>5 DEF OneIf
  <2>7. QED
    BY <2>1, <2>4, <2>5, <2>6 DEF r
<1>9. CASE e # NoEvent /\ ~Anomalous(v)
  <2>1. /\ r.transition \in ClosedStatuses
        /\ r.event \in EventRow(Assets, ids) /\ ~IsOpen(r.event)
        /\ r.event.confirmations = e.confirmations
    BY <1>1, <1>2, <1>6, <1>9, ClosingResult
  <2>2. n = e.confirmations /\ e.confirmations \in Nat
    BY <1>2, <1>9
  <2>3. r.event.confirmations = n + OneIf(r.transition \in Confirming)
    BY <1>5, <2>1, <2>2 DEF OneIf
  <2>4. ~(n < ConfirmScans /\ r.event.confirmations >= ConfirmScans)
    BY <1>4, <2>1, <2>2
  <2>5. QED
    BY <1>5, <2>1, <2>3, <2>4 DEF r
<1>10. CASE e = NoEvent /\ ~Anomalous(v)
  BY <1>3, <1>6, <1>10, NoResult DEF r
<1>11. QED
  BY <1>7, <1>8, <1>9, <1>10

\* The log of an event after one more row of its own, or of another event.
LEMMA ArcGrows ==
  ASSUME transitions \in Seq(TransitionRow), NEW row \in TransitionRow,
         transitions' = Append(transitions, row), NEW n \in Nat, NEW b, NEW i
  PROVE  /\ row.eventId # i => \A m, c :
              ArcIs(transitions, receipts, i, m, c, b) => ArcIs(transitions', receipts, i, m, c, b)
         /\ row.eventId = i /\ ArcIs(transitions, receipts, i, n, 0, b) =>
              /\ row.transition \in Confirming => ArcIs(transitions', receipts, i, n + 1, 0, b)
              /\ row.transition \in ClosedStatuses => ArcIs(transitions', receipts, i, n, 1, b)
<1>1. \A kinds : /\ RowsIn(transitions, i, kinds) = RowsOf(i, kinds)
                 /\ RowsIn(transitions', i, kinds) = RowsOf(i, kinds)'
  BY DEF RowsIn, RowsOf
<1>2. \A kinds : IsFiniteSet(RowsOf(i, kinds)) /\ RowsOf(i, kinds) \subseteq DOMAIN transitions
  BY RowsCounted DEF RowsOf
<1>3. Confirming \cap ClosedStatuses = {}
  BY DEF Confirming
<1>4. \A kinds :
        IF row.eventId = i /\ row.transition \in kinds
        THEN /\ RowsOf(i, kinds)' = RowsOf(i, kinds) \cup {Len(transitions) + 1}
             /\ Cardinality(RowsOf(i, kinds)') = Cardinality(RowsOf(i, kinds)) + 1
        ELSE RowsOf(i, kinds)' = RowsOf(i, kinds)
  BY RowsAfter
<1>5. \A k \in DOMAIN transitions : k < Len(transitions) + 1
  OBVIOUS
<1>6. ASSUME row.eventId # i, NEW m, NEW c, ArcIs(transitions, receipts, i, m, c, b)
      PROVE  ArcIs(transitions', receipts, i, m, c, b)
  BY <1>1, <1>4, <1>6 DEF ArcIs
<1>7. ASSUME row.eventId = i, ArcIs(transitions, receipts, i, n, 0, b)
      PROVE  /\ RowsOf(i, ClosedStatuses) = {}
             /\ Cardinality(RowsOf(i, Confirming)) = n
             /\ i \in receipts <=> b
  BY <1>1, <1>2, <1>7, FS_EmptySet DEF ArcIs
<1>8. ASSUME row.eventId = i, ArcIs(transitions, receipts, i, n, 0, b),
             row.transition \in Confirming
      PROVE  ArcIs(transitions', receipts, i, n + 1, 0, b)
  <2>1. RowsOf(i, ClosedStatuses)' = {} /\ Cardinality(RowsOf(i, Confirming)') = n + 1
    BY <1>3, <1>4, <1>7, <1>8
  <2>2. QED
    BY <1>1, <1>7, <1>8, <2>1, FS_EmptySet DEF ArcIs
<1>9. ASSUME row.eventId = i, ArcIs(transitions, receipts, i, n, 0, b),
             row.transition \in ClosedStatuses
      PROVE  ArcIs(transitions', receipts, i, n, 1, b)
  <2>1. /\ RowsOf(i, ClosedStatuses)' = RowsOf(i, ClosedStatuses) \cup {Len(transitions) + 1}
        /\ Cardinality(RowsOf(i, ClosedStatuses)') = Cardinality(RowsOf(i, ClosedStatuses)) + 1
        /\ RowsOf(i, Confirming)' = RowsOf(i, Confirming)
    BY <1>3, <1>4, <1>9
  <2>2. Cardinality(RowsOf(i, ClosedStatuses)') = 1
    <3>1. Cardinality(RowsOf(i, ClosedStatuses)) = 0
      BY <1>7, <1>9, FS_EmptySet
    <3>2. QED
      BY <2>1, <3>1
  <2>3. \A k \in RowsOf(i, ClosedStatuses)', j \in RowsOf(i, Confirming)' : j < k
    BY <1>2, <1>5, <1>7, <1>9, <2>1
  <2>4. QED
    BY <1>1, <1>7, <1>9, <2>1, <2>2, <2>3 DEF ArcIs
<1>10. QED
  BY <1>6, <1>8, <1>9

\* An event keeps its asset and a snapshot is never removed.
LEMMA TablesGrow ==
  ASSUME IdentityInv, [Next]_vars
  PROVE  /\ \A i \in DOMAIN events : i \in DOMAIN events' /\ events'[i].rwaId = events[i].rwaId
         /\ DOMAIN snapshots \subseteq DOMAIN snapshots'
<1>1. \A i \in DOMAIN events : i \in DOMAIN events' /\ events'[i].rwaId = events[i].rwaId
  <2>1. CASE events' = events
    BY <2>1
  <2>2. ASSUME NEW s \in Scans,
               events' = WithRow(events, work[s].id, work[s].result.event),
               WorkFits(s, "event", work[s], events, eventSeq, DOMAIN snapshots)
        PROVE  \A i \in DOMAIN events : i \in DOMAIN events' /\ events'[i].rwaId = events[i].rwaId
    BY <2>2 DEF WithRow, WorkFits, SameIdentity
  <2>3. QED
    BY <2>1, <2>2, EventsStep
<1>2. DOMAIN snapshots \subseteq DOMAIN snapshots'
  <2>1. CASE Quiet
    BY <2>1 DEF Quiet, tables
  <2>2. ASSUME NEW s \in Scans, EntryStep(s)
        PROVE  DOMAIN snapshots \subseteq DOMAIN snapshots'
    <3>1. CASE PersistSnapshot(s)
      BY <3>1 DEF PersistSnapshot, WithRow
    <3>2. CASE ~PersistSnapshot(s)
      BY <2>2, <3>2 DEF EntryStep, LookUp, AllocateId, UpsertEvent, RecordTransition,
                        InsertInvestigation, InsertReceipt, database
    <3>3. QED
      BY <3>1, <3>2
  <2>3. QED
    BY <2>1, <2>2, StepKinds DEF IdentityInv
<1>3. QED
  BY <1>1, <1>2

\* How a scan that has begun and its run move on.
LEMMA RunMoves ==
  ASSUME WholeInv, [Next]_vars, NEW s \in Begun
  PROVE  /\ s \in Begun'
         /\ \/ pc'[s] = pc[s]
            \/ pc'[s] \in {"failing", "dead"} /\ pc[s] # "done"
            \/ pc[s] \in Ended \cup {"failing"} /\ pc'[s] \in Ended
            \/ pc[s] \in {"fetching", "entries", "complete"} \/ EntryStep(s)
         /\ \/ scanRuns'[s] = scanRuns[s]
            \/ pc[s] = "complete"
            \/ pc[s] = "failing" /\ scanRuns'[s].status = "failed"
<1> DEFINE Claim == /\ s \in Begun'
                    /\ \/ pc'[s] = pc[s]
                       \/ pc'[s] \in {"failing", "dead"} /\ pc[s] # "done"
                       \/ pc[s] \in Ended \cup {"failing"} /\ pc'[s] \in Ended
                       \/ pc[s] \in {"fetching", "entries", "complete"} \/ EntryStep(s)
                    /\ \/ scanRuns'[s] = scanRuns[s]
                       \/ pc[s] = "complete"
                       \/ pc[s] = "failing" /\ scanRuns'[s].status = "failed"
<1>1. /\ TypeOK /\ pc \in [Scans -> Labels] /\ s \in Scans /\ pc[s] # "idle"
      /\ s \in DOMAIN scanRuns /\ Begun \subseteq DOMAIN scanRuns
  BY DEF WholeInv, RunsKept, IdentityInv, TypeOK, Begun
<1>2. ASSUME pc'[s] = pc[s], scanRuns'[s] = scanRuns[s]
      PROVE  Claim
  BY <1>1, <1>2 DEF Begun
<1>3. ASSUME NEW t \in Scans, EntryStep(t)
      PROVE  Claim
  <2>1. UNCHANGED scanRuns
    BY <1>3 DEF EntryStep, LookUp, PersistSnapshot, AllocateId, UpsertEvent, RecordTransition,
                InsertInvestigation, InsertReceipt, database
  <2>2. CASE t = s
    <3>1. \E label \in Processing \cup {"entries", "failing"} : Goto(s, label)
      <4>1. CASE LookUp(s) \/ PersistSnapshot(s) \/ AllocateId(s) \/ UpsertEvent(s)
        BY <4>1 DEF LookUp, PersistSnapshot, AllocateId, UpsertEvent, Processing, Recording
      <4>2. CASE RecordTransition(s) \/ InsertInvestigation(s) \/ InsertReceipt(s)
        BY <4>2 DEF RecordTransition, EntryDone, InsertInvestigation, InsertReceipt,
                    Processing, Recording
      <4>3. QED
        BY <1>3, <2>2, <4>1, <4>2 DEF EntryStep
    <3>2. pc'[s] # "idle"
      BY <1>1, <3>1 DEF Goto, Processing, Recording
    <3>3. QED
      BY <1>1, <1>3, <2>1, <2>2, <3>2 DEF Begun
  <2>3. CASE t # s
    BY <1>1, <1>2, <1>3, <2>1, <2>3, OthersWait
  <2>4. QED
    BY <2>2, <2>3
<1>4. ASSUME NEW t \in Scans, NEW label \in Labels \ {"idle"}, Goto(t, label)
      PROVE  /\ s \in Begun'
             /\ IF t = s THEN pc'[s] = label ELSE pc'[s] = pc[s]
  BY <1>1, <1>4 DEF Goto, Begun
<1>5. {"fetching", "entries", "complete", "failing", "settling", "done", "dead"}
        \subseteq Labels \ {"idle"}
  BY DEF Labels
<1>6. ASSUME NEW t \in Scans, QuotesArrive(t) \/ SourceFails(t)
      PROVE  Claim
  <2>1. UNCHANGED scanRuns /\ pc[t] = "fetching"
        /\ \E label \in {"entries", "failing"} : Goto(t, label)
    BY <1>6 DEF QuotesArrive, SourceFails, database
  <2>2. QED
    BY <1>4, <1>5, <2>1
<1>7. ASSUME NEW t \in Scans, CompleteScan(t)
      PROVE  Claim
  <2>1. pc[t] = "complete" /\ Goto(t, "settling")
    BY <1>7 DEF CompleteScan
  <2>2. t # s => scanRuns'[s] = scanRuns[s]
    BY <1>1, <1>7 DEF CompleteScan, FinishRun
  <2>3. QED
    BY <1>4, <1>5, <2>1, <2>2
<1>8. ASSUME NEW t \in Scans, FailScan(t)
      PROVE  Claim
  <2>1. pc[t] = "failing" /\ Goto(t, "settling")
    BY <1>8 DEF FailScan
  <2>2. IF t # s THEN scanRuns'[s] = scanRuns[s] ELSE scanRuns'[s].status = "failed"
    BY <1>1, <1>8 DEF FailScan, FinishRun
  <2>3. QED
    BY <1>4, <1>5, <2>1, <2>2 DEF Ended
<1>9. ASSUME NEW t \in Scans, AlertsSettle(t)
      PROVE  Claim
  <2>1. pc[t] = "settling" /\ Goto(t, "done") /\ UNCHANGED scanRuns
    BY <1>9 DEF AlertsSettle, database
  <2>2. QED
    BY <1>4, <1>5, <2>1 DEF Ended
<1>10. ASSUME NEW t \in Scans, StoreThrows(t)
       PROVE  Claim
  <2>1. /\ UNCHANGED scanRuns
        /\ \/ pc[t] # "done" /\ Goto(t, "failing")
           \/ pc[t] = "failing" /\ Goto(t, "done")
           \/ pc[t] = "entries" /\ Goto(t, "complete")
    BY <1>10 DEF StoreThrows, database
  <2>2. QED
    BY <1>4, <1>5, <2>1 DEF Ended
<1>11. ASSUME NEW p \in Procs, BeginScan(p)
       PROVE  Claim
  <2>1. PICK t \in Scans :
          /\ t \notin Begun /\ Goto(t, "fetching")
          /\ scanRuns' = WithRow(scanRuns, t,
                                 [status |-> "running", assets |-> 0, anomalies |-> 0])
    <3>1. PICK n \in Nat : Begun = 1 .. n
      BY DEF WholeInv, RunsKept
    <3>2. Cardinality(Begun) = n
      BY <3>1, FS_Interval
    <3>3. n + 1 \in Scans /\ n + 1 \notin Begun
      BY <1>11, <3>1, <3>2 DEF BeginScan
    <3>4. QED
      BY <1>11, <3>2, <3>3 DEF BeginScan
  <2>2. scanRuns'[s] = scanRuns[s]
    BY <1>1, <2>1 DEF WithRow
  <2>3. QED
    BY <1>4, <1>5, <2>1, <2>2
<1>12. ASSUME NEW p \in Procs, Crash(p)
       PROVE  Claim
  <2>1. /\ UNCHANGED scanRuns
        /\ pc'[s] = pc[s] \/ (pc'[s] = "dead" /\ pc[s] # "done")
    BY <1>1, <1>12 DEF Crash, database
  <2>2. QED
    BY <1>1, <2>1 DEF Begun, Crash
<1>13. CASE UNCHANGED vars
  BY <1>2, <1>13 DEF vars, database
<1>15. ASSUME NEW t \in Scans, Prune(t)
       PROVE  Claim
  <2>1. pc[t] = "entries" /\ Goto(t, "complete") /\ UNCHANGED scanRuns
    BY <1>15 DEF Prune
  <2>2. QED
    BY <1>4, <1>5, <2>1
<1>14. QED
  BY <1>3, <1>6, <1>7, <1>8, <1>9, <1>10, <1>11, <1>12, <1>13, <1>15
     DEF Next, ScanStep, EntryStep

\* A scan cut short stays so: what excuses a gap does for good.
LEMMA ExcuseStays ==
  ASSUME WholeInv, [Next]_vars, NEW i \in DOMAIN events, Excused(i)
  PROVE  Excused(i)'
<1>1. PICK s \in Begun : CutShort(s) /\ <<s, events[i].rwaId>> \in DOMAIN snapshots
  BY DEF Excused
<1>2. /\ {"fetching", "entries", "complete"} \cap (Ended \cup {"failing"}) = {}
      /\ EntryStep(s) => pc[s] \notin Ended \cup {"failing"}
  BY DEF Ended, EntryStep, LookUp, PersistSnapshot, AllocateId, UpsertEvent, RecordTransition,
         InsertInvestigation, InsertReceipt
<1>3. pc[s] \in Ended \cup {"failing"} /\ scanRuns[s].status # "completed"
  BY <1>1 DEF CutShort
<1>4. s \in Begun' /\ pc'[s] \in Ended \cup {"failing"} /\ scanRuns'[s].status # "completed"
  BY <1>2, <1>3, RunMoves DEF Ended
<1>5. CutShort(s)'
  BY <1>4 DEF CutShort
<1>6. <<s, events'[i].rwaId>> \in DOMAIN snapshots'
  BY <1>1, TablesGrow DEF WholeInv
<1>7. QED
  BY <1>4, <1>5, <1>6 DEF Excused

\* A scan that fails or dies while it records an event excuses its gaps.
LEMMA StopExcuses ==
  ASSUME WholeInv, [Next]_vars, NEW s \in Scans, pc[s] \in Recording,
         pc'[s] \in {"failing", "dead"}
  PROVE  work[s].id \in DOMAIN events /\ \A i \in DOMAIN events : work[s].id = i => Excused(i)'
<1>1. WorkFits(s, pc[s], work[s], events, eventSeq, DOMAIN snapshots)
  BY DEF WholeInv, IdentityInv, WorksFit, Processing
<1>2. s \in Begun /\ pc[s] \notin Ended /\ pc[s] \notin {"entries", "complete", "failing"}
  BY DEF Begun, Recording, Ended
<1>3. scanRuns[s].status # "completed"
  BY <1>2 DEF WholeInv, RunsKept
<1>4. s \in Begun' /\ scanRuns'[s] = scanRuns[s]
  BY <1>2, RunMoves
<1>5. CutShort(s)'
  BY <1>3, <1>4 DEF CutShort, Ended
<1>6. /\ work[s].id \in DOMAIN events /\ <<s, work[s].rwaId>> \in DOMAIN snapshots
      /\ events[work[s].id].rwaId = work[s].rwaId
  BY <1>1 DEF WorkFits, SameIdentity, Recording
<1>7. ASSUME NEW i \in DOMAIN events, work[s].id = i PROVE Excused(i)'
  <2>1. <<s, events'[i].rwaId>> \in DOMAIN snapshots'
    BY <1>6, <1>7, TablesGrow DEF WholeInv
  <2>2. QED
    BY <1>4, <1>5, <2>1 DEF Excused
<1>8. QED
  BY <1>6, <1>7

\* What a scan has decided stays exact about the event until it is written:
\* with one process nobody else writes in between.
LEMMA ExactStep ==
  ASSUME NEW p, Procs = {p}, GapInv, [Next]_vars
  PROVE  DecisionsExact'
<1>1. /\ IdentityInv /\ CpuInv /\ TypeOK /\ DecisionsExact /\ LogNeverAhead
      /\ pc \in [Scans -> Labels] /\ work = [t \in Scans |-> work[t]]
  BY DEF GapInv, LogInv, OneOpenInv, IdentityInv, TypeOK
<1>2. CASE Quiet
  BY <1>1, <1>2 DEF Quiet, tables, DecisionsExact
<1>3. ASSUME NEW s \in Scans, EntryStep(s)
      PROVE  DecisionsExact'
  <2>1. pc[s] \in InLoop
    BY <1>3 DEF EntryStep, LookUp, PersistSnapshot, AllocateId, UpsertEvent,
                RecordTransition, InsertInvestigation, InsertReceipt, InLoop, Processing,
                Recording
  <2>2. \A t \in Scans \ {s} : pc'[t] \notin Processing
    BY <1>1, <1>3, <2>1, OneInLoop, OthersWait DEF InLoop
  <2>3. ASSUME DecisionExact(pc'[s], work'[s], events') PROVE DecisionsExact'
    BY <2>2, <2>3 DEF DecisionsExact
  <2>4. pc[s] \in Processing =>
          /\ WorkFits(s, pc[s], work[s], events, eventSeq, DOMAIN snapshots)
          /\ DecisionExact(pc[s], work[s], events)
    BY <1>1 DEF IdentityInv, WorksFit, DecisionsExact
  <2>5. CASE LookUp(s)
    <3>1. PICK w : /\ pc' = [pc EXCEPT ![s] = "snapshot"]
                   /\ work' = [work EXCEPT ![s] = w]
                   /\ w.rwaId \in todo[s]
                   /\ w.verdict \in Verdicts
                   /\ w.id \in ExistingIds(w.rwaId)
                   /\ w.result = ApplyScanToEvent(IF w.id = 0 THEN NoEvent ELSE events[w.id],
                                                  w.rwaId, w.verdict, <<s, w.rwaId>>, s)
      BY <1>1, <2>5, LookUpDecides DEF IdentityInv
    <3>2. /\ w.rwaId \in Assets /\ s \in Nat /\ WellFormed(w.verdict)
          /\ <<s, w.rwaId>> \in Scans \X Assets
      BY <1>1, <3>1, VerdictsAssumption, BoundsAssumption DEF TypeOK, Scans
    <3>3. /\ \/ w.id = 0
             \/ w.id \in DOMAIN events /\ IsOpen(events[w.id])
          /\ 0 \notin DOMAIN events
      BY <1>1, <3>1, FoundEvent DEF TypeOK
    <3> DEFINE e == IF w.id = 0 THEN NoEvent ELSE events[w.id]
    <3>4. e = NoEvent \/ (e \in Row /\ IsOpen(e) /\ StatusFits(e))
      BY <1>1, <3>3 DEF TypeOK, LogNeverAhead, StatusFits
    <3>5. /\ w.id \in DOMAIN events => e = events[w.id] /\ e # NoEvent /\ IsOpen(events[w.id])
          /\ w.id \notin DOMAIN events => e = NoEvent
      BY <3>3 DEF NoEvent, IsOpen, OpenStatuses
    <3>6. w.id \in DOMAIN events => events[w.id].confirmations \in Nat
      BY <1>1 DEF TypeOK, Row, EventRow
    <3> HIDE DEF e
    <3>7. w.result = ApplyScanToEvent(e, w.rwaId, w.verdict, <<s, w.rwaId>>, s)
      BY <3>1 DEF e
    <3>8. /\ Before(w, events) \in Nat
          /\ Before(w, events) = IF e = NoEvent THEN 0 ELSE e.confirmations
      BY <3>5, <3>6 DEF Before
    <3>9. PICK n \in Nat : n = Before(w, events) /\ n = IF e = NoEvent THEN 0 ELSE e.confirmations
      BY <3>8
    <3>10. w.result.transition # "none" =>
             /\ w.result.event.confirmations = n + OneIf(w.result.transition \in Confirming)
             /\ IsOpen(w.result.event) <=> w.result.transition \in Confirming
             /\ w.result.transition = "confirmed" <=>
                  n < ConfirmScans /\ w.result.event.confirmations >= ConfirmScans
      <4> DEFINE r == ApplyScanToEvent(e, w.rwaId, w.verdict, <<s, w.rwaId>>, s)
      <4>1. n \in Nat /\ n = IF e = NoEvent THEN 0 ELSE e.confirmations
        BY <3>8, <3>9
      <4>2. r.transition # "none" =>
              /\ r.event.confirmations = n + OneIf(r.transition \in Confirming)
              /\ IsOpen(r.event) <=> r.transition \in Confirming
              /\ r.transition = "confirmed" <=>
                   n < ConfirmScans /\ r.event.confirmations >= ConfirmScans
        BY <3>2, <3>4, <4>1, LifecycleAdds, SMTT(60)
      <4>3. w.result = r
        BY <3>7
      <4> HIDE DEF r
      <4>4. QED
        BY <4>2, <4>3
    <3>11. DecisionExact("snapshot", w, events)
      BY <3>5, <3>9, <3>10 DEF DecisionExact
    <3>12. pc'[s] = "snapshot" /\ work'[s] = w /\ UNCHANGED events
      BY <1>1, <2>5, <3>1 DEF LookUp, database
    <3>13. QED
      BY <2>3, <3>11, <3>12
  <2>6. CASE PersistSnapshot(s)
    <3>1. /\ pc[s] = "snapshot" /\ UNCHANGED events
          /\ pc'[s] \in {"entries", "allocate", "event"}
          /\ pc'[s] \in {"allocate", "event"} => work' = work
      BY <1>1, <2>6 DEF PersistSnapshot, Goto
    <3>2. DecisionExact("snapshot", work[s], events)
      BY <2>4, <3>1 DEF Processing
    <3>3. /\ DecisionExact("event", work[s], events)
          /\ DecisionExact("allocate", work[s], events)
      BY <3>2 DEF DecisionExact
    <3>4. DecisionExact("entries", work'[s], events)
      BY DEF DecisionExact
    <3>5. QED
      BY <2>3, <3>1, <3>3, <3>4
  <2>7. CASE AllocateId(s)
    <3>1. /\ pc[s] = "allocate" /\ pc'[s] = "event" /\ UNCHANGED events
          /\ work' = [work EXCEPT ![s] = [work[s] EXCEPT !.id = eventSeq + 1]]
      BY <1>1, <2>7 DEF AllocateId, Goto
    <3>2. /\ WorkFits(s, "allocate", work[s], events, eventSeq, DOMAIN snapshots)
          /\ DecisionExact("allocate", work[s], events)
      BY <2>4, <3>1 DEF Processing
    <3>3. work'[s].result = work[s].result /\ work'[s].id = eventSeq + 1
      <4>1. work'[s] = [work[s] EXCEPT !.id = eventSeq + 1]
        BY <1>1, <3>1
      <4>2. work[s] = [rwaId |-> work[s].rwaId, verdict |-> work[s].verdict,
                       id |-> work[s].id, result |-> work[s].result]
        BY <3>2 DEF WorkFits
      <4>3. QED
        BY <4>1, <4>2
    <3>4. eventSeq + 1 \notin DOMAIN events /\ work[s].id \notin DOMAIN events
      BY <1>1, <3>2 DEF TypeOK, WorkFits
    <3>5. Before(work'[s], events) = Before(work[s], events)
      BY <3>3, <3>4 DEF Before
    <3>6. DecisionExact("event", work'[s], events)
      BY <3>2, <3>3, <3>4, <3>5 DEF DecisionExact
    <3>7. QED
      BY <2>3, <3>1, <3>6
  <2>8. CASE ~LookUp(s) /\ ~PersistSnapshot(s) /\ ~AllocateId(s)
    <3>1. pc'[s] \notin {"snapshot", "allocate", "event"}
      BY <1>1, <1>3, <2>8 DEF EntryStep, UpsertEvent, RecordTransition, EntryDone,
                              InsertInvestigation, InsertReceipt, Goto
    <3>2. QED
      BY <2>3, <3>1 DEF DecisionExact
  <2>9. QED
    BY <2>5, <2>6, <2>7, <2>8
<1>4. QED
  BY <1>1, <1>2, <1>3, StepKinds

\* The event is written: its arc lacks what the scan goes on to record.
LEMMA WrittenOwes ==
  ASSUME NEW p, Procs = {p}, GapInv, NEW s \in Scans, UpsertEvent(s), NEW i, i = work[s].id,
         i \in DOMAIN events => ArcKept(i)
  PROVE  Owed("transition", work[s], events'[i], transitions, receipts)
<1> DEFINE e == work[s].result.event
           tr == work[s].result.transition
<1>1. /\ pc[s] = "event" /\ pc[s] \in Processing
      /\ events' = WithRow(events, i, e)
  BY DEF UpsertEvent, Stored, Processing
<1>2. /\ WorkFits(s, "event", work[s], events, eventSeq, DOMAIN snapshots)
      /\ DecisionExact("event", work[s], events)
      /\ EvidenceInv /\ TypeOK /\ WorksFit
  BY <1>1 DEF GapInv, LogInv, EvidenceInv, IdentityInv, WorksFit, DecisionsExact
<1>3. events'[i] = e /\ e \in Row /\ tr \in Transitions
  BY <1>1, <1>2 DEF WithRow, WorkFits
<1>4. PICK n \in Nat : n = Before(work[s], events)
  BY <1>2 DEF Before, TypeOK, Row, EventRow
<1>5. /\ e.confirmations = n + OneIf(tr \in Confirming)
      /\ IsOpen(e) <=> tr \in Confirming
      /\ tr = "confirmed" <=> n < ConfirmScans /\ e.confirmations >= ConfirmScans
      /\ i \in DOMAIN events => IsOpen(events[i])
  BY <1>2, <1>4 DEF DecisionExact, WorkFits
<1>6. ArcIs(transitions, receipts, i, n, 0, n >= ConfirmScans)
  <2>1. CASE i \in DOMAIN events
    <3>1. ASSUME NEW t \in Scans, RecordedBy(t, i) PROVE FALSE
      <4>1. t # s /\ pc[t] \in InLoop /\ pc[s] \in InLoop
        BY <1>1, <3>1 DEF RecordedBy, Recording, Processing, InLoop
      <4>2. QED
        BY <4>1, OneInLoop DEF GapInv, LogInv, OneOpenInv
    <3>2. ArcComplete(transitions, receipts, i, events[i])
      BY <2>1, <3>1 DEF ArcKept
    <3>3. n = events[i].confirmations /\ OneIf(~IsOpen(events[i])) = 0
      BY <1>4, <1>5, <2>1 DEF Before, OneIf
    <3>4. QED
      BY <3>2, <3>3 DEF ArcComplete
  <2>2. CASE i \notin DOMAIN events
    <3>1. n = 0 /\ ~(n >= ConfirmScans)
      BY <1>4, <2>2, ConfirmScansAssumption DEF Before
    <3>2. \A k \in DOMAIN transitions : transitions[k].eventId # i
      BY <1>2, <2>2 DEF EvidenceInv, ClaimsBacked
    <3>3. \A kinds : RowsIn(transitions, i, kinds) = {}
      BY <3>2 DEF RowsIn
    <3>4. i \notin receipts
      BY <1>2, <3>2 DEF EvidenceInv, ClaimsBacked, RowsOf
    <3>5. QED
      BY <3>1, <3>3, <3>4, FS_EmptySet DEF ArcIs
  <2>3. QED
    BY <2>1, <2>2
<1>7. e.confirmations - OneIf(tr \in Confirming) = n
  BY <1>4, <1>5 DEF OneIf
<1>8. n >= ConfirmScans <=> e.confirmations >= ConfirmScans /\ tr # "confirmed"
  <2>1. ConfirmScans \in Nat /\ e.confirmations \in Nat /\ e.confirmations >= n
    BY <1>4, <1>5, ConfirmScansAssumption DEF OneIf
  <2>2. QED
    BY <1>5, <2>1
<1> HIDE DEF e, tr
<1>9. ArcIs(transitions, receipts, i, n, 0, e.confirmations >= ConfirmScans /\ tr # "confirmed")
  BY <1>6, <1>8 DEF ArcIs
<1>10. QED
  BY <1>3, <1>5, <1>7, <1>9 DEF Owed, e, tr

\* The transition of the event is recorded: nothing is owed but, perhaps,
\* the evidence of its confirmation.
LEMMA RecordedOwes ==
  ASSUME GapInv, NEW s \in Scans, RecordTransition(s), NEW i, i = work[s].id,
         NEW row \in TransitionRow, row.eventId = i,
         row.transition = work[s].result.transition,
         transitions' = Append(transitions, row),
         Owed("transition", work[s], events[i], transitions, receipts)
  PROVE  IF work[s].result.transition = "confirmed"
         THEN Owed("investigation", work[s], events[i], transitions', receipts)
         ELSE ArcComplete(transitions', receipts, i, events[i])
<1> DEFINE e == events[i]
           tr == row.transition
<1>1. pc[s] = "transition" /\ pc[s] \in Processing
  BY DEF RecordTransition, Processing, Recording
<1>2. /\ WorkFits(s, "transition", work[s], events, eventSeq, DOMAIN snapshots)
      /\ DecisionFits("transition", work[s], events)
      /\ TypeOK /\ transitions \in Seq(TransitionRow)
  BY <1>1 DEF GapInv, LogInv, EvidenceInv, IdentityInv, WorksFit, DecisionsFit, TypeOK
<1>3. /\ i \in DOMAIN events /\ e.confirmations \in Nat \ {0}
      /\ tr = "confirmed" => e.confirmations >= ConfirmScans
  BY <1>2 DEF WorkFits, DecisionFits, TypeOK, Row, EventRow, Recording
<1>4. /\ tr \in Confirming \cup ClosedStatuses
      /\ tr \in ClosedStatuses <=> tr \notin Confirming
      /\ tr = "confirmed" => tr \in Confirming
  BY DEF TransitionRow, Confirming, Transitions, ClosedStatuses
<1>5. PICK b \in BOOLEAN : b = (e.confirmations >= ConfirmScans /\ tr # "confirmed")
  OBVIOUS
<1>6. /\ ArcIs(transitions, receipts, i, e.confirmations - OneIf(tr \in Confirming), 0, b)
      /\ IsOpen(e) <=> tr \in Confirming
  BY <1>5 DEF Owed
<1> HIDE DEF e, tr
<1>7. CASE tr \in Confirming
  <2>1. PICK n \in Nat : n = e.confirmations - OneIf(tr \in Confirming)
    BY <1>3, <1>7 DEF OneIf
  <2>2. n + 1 = e.confirmations
    BY <1>3, <1>7, <2>1 DEF OneIf
  <2>3. ArcIs(transitions', receipts, i, n + 1, 0, b)
    BY <1>2, <1>6, <1>7, <2>1, ArcGrows DEF tr
  <2>4. ArcIs(transitions', receipts, i, e.confirmations, 0, b)
    BY <2>2, <2>3
  <2>5. CASE tr = "confirmed"
    <3>1. ArcIs(transitions', receipts, i, e.confirmations, 0, FALSE)
      BY <1>5, <2>4, <2>5
    <3>2. IsOpen(e) /\ e.confirmations >= ConfirmScans
      BY <1>3, <1>6, <1>7, <2>5
    <3>3. QED
      BY <2>5, <3>1, <3>2 DEF Owed, e, tr
  <2>6. CASE tr # "confirmed"
    <3>1. OneIf(~IsOpen(e)) = 0
      BY <1>6, <1>7 DEF OneIf
    <3>2. ArcIs(transitions', receipts, i, e.confirmations, 0, e.confirmations >= ConfirmScans)
      BY <1>5, <2>4, <2>6 DEF ArcIs
    <3>3. QED
      BY <2>6, <3>1, <3>2 DEF ArcComplete, e, tr
  <2>7. QED
    BY <2>5, <2>6
<1>8. CASE tr \in ClosedStatuses
  <2>1. PICK n \in Nat : n = e.confirmations
    BY <1>3
  <2>2. e.confirmations - OneIf(tr \in Confirming) = n
    BY <1>4, <1>8, <2>1 DEF OneIf
  <2>3. ArcIs(transitions', receipts, i, n, 1, b)
    BY <1>2, <1>6, <1>8, <2>2, ArcGrows DEF tr
  <2>4. OneIf(~IsOpen(e)) = 1 /\ tr # "confirmed"
    BY <1>4, <1>6, <1>8 DEF OneIf
  <2>5. ArcIs(transitions', receipts, i, e.confirmations, 1, e.confirmations >= ConfirmScans)
    BY <1>5, <2>1, <2>3, <2>4 DEF ArcIs
  <2>6. QED
    BY <2>4, <2>5 DEF ArcComplete, e, tr
<1>9. QED
  BY <1>4, <1>7, <1>8

\* A step of s leaves the arcs of other events alone, and that of its own
\* unless it writes to it.
LEMMA OthersKept ==
  ASSUME NEW p, Procs = {p}, GapInv, NEW s \in Scans, EntryStep(s),
         NEW i \in DOMAIN events, ArcKept(i), events'[i] = events[i],
         i \in receipts' <=> i \in receipts,
         \A n, c, b : ArcIs(transitions, receipts, i, n, c, b)
                        => ArcIs(transitions', receipts, i, n, c, b),
         ~RecordedBy(s, i), ~RecordedBy(s, i)'
  PROVE  ArcKept(i)'
<1>1. TypeOK /\ CpuInv
  BY DEF GapInv, LogInv, OneOpenInv, IdentityInv
<1>2. pc[s] \in InLoop
  BY DEF EntryStep, LookUp, PersistSnapshot, AllocateId, UpsertEvent, RecordTransition,
         InsertInvestigation, InsertReceipt, InLoop, Processing, Recording
<1>3. \A t \in Scans \ {s} : pc[t] \notin Recording /\ pc'[t] = pc[t]
  BY <1>1, <1>2, OneInLoop, OthersWait DEF InLoop, Processing
<1>4. \A t \in Scans : ~RecordedBy(t, i) /\ ~RecordedBy(t, i)'
  BY <1>3 DEF RecordedBy
<1>5. ArcComplete(transitions, receipts, i, events[i])
  BY <1>4 DEF ArcKept
<1>6. ArcComplete(transitions', receipts, i, events[i])
  BY <1>5 DEF ArcComplete
<1>7. ArcComplete(transitions', receipts', i, events[i])
  BY <1>6 DEF ArcComplete, ArcIs
<1>8. QED
  BY <1>4, <1>7 DEF ArcKept

\* A step that leaves alone the arcs and what is being recorded.
LEMMA GapsWait ==
  ASSUME GapInv, [Next]_vars, UNCHANGED <<events, transitions, receipts, work>>,
         \A s \in Scans : \/ pc'[s] = pc[s]
                          \/ pc[s] \notin Recording /\ pc'[s] \notin Recording
                          \/ pc[s] \in Recording /\ pc'[s] \in {"failing", "dead"}
  PROVE  GapsExcused'
<1>1. ASSUME NEW i \in DOMAIN events PROVE Excused(i)' \/ ArcKept(i)'
  <2>1. CASE Excused(i)
    BY <2>1, ExcuseStays DEF GapInv
  <2>2. CASE \E s \in Scans : RecordedBy(s, i) /\ pc'[s] \in {"failing", "dead"}
    BY <2>2, StopExcuses DEF GapInv, RecordedBy
  <2>3. CASE /\ ~Excused(i)
             /\ \A s \in Scans : RecordedBy(s, i) => pc'[s] \notin {"failing", "dead"}
    <3>1. ArcKept(i)
      BY <2>3 DEF GapInv, GapsExcused
    <3>2. \A s \in Scans : /\ RecordedBy(s, i)' <=> RecordedBy(s, i)
                           /\ RecordedBy(s, i) => pc'[s] = pc[s]
      BY <2>3 DEF RecordedBy, Recording
    <3>3. QED
      BY <3>1, <3>2 DEF ArcKept
  <2>4. QED
    BY <2>1, <2>2, <2>3
<1>2. QED
  BY <1>1 DEF GapsExcused

\* A row an unexcused arc lacks is owed by the scan that records it; the step
\* that stops owing it either writes the row or cuts the scan short.
LEMMA GapStep ==
  ASSUME NEW p, Procs = {p}, GapInv, [Next]_vars
  PROVE  GapInv'
<1>1. LogInv' /\ WholeInv' /\ DecisionsExact'
  BY LogStep, WholeStep, ExactStep DEF GapInv
<1>2. /\ TypeOK /\ IdentityInv /\ WholeInv /\ CpuInv /\ GapsExcused
      /\ pc \in [Scans -> Labels] /\ work = [t \in Scans |-> work[t]]
      /\ transitions \in Seq(TransitionRow)
  BY DEF GapInv, LogInv, OneOpenInv, WholeInv, IdentityInv, TypeOK
<1>3. ASSUME NEW s \in Scans, EntryStep(s)
      PROVE  GapsExcused'
  <2>1. pc[s] \in InLoop
    BY <1>3 DEF EntryStep, LookUp, PersistSnapshot, AllocateId, UpsertEvent,
                RecordTransition, InsertInvestigation, InsertReceipt, InLoop, Processing,
                Recording
  <2>2. \A t \in Scans \ {s} : /\ pc'[t] = pc[t] /\ work'[t] = work[t]
                               /\ pc[t] \notin Recording
    BY <1>2, <1>3, <2>1, OneInLoop, OthersWait DEF InLoop, Processing
  \* Its own event: nothing but what s owes is missing, and it goes on.
  <2>3. ASSUME NEW i, RecordedBy(s, i)',
               Owed(pc'[s], work'[s], events'[i], transitions', receipts')
        PROVE  ArcKept(i)'
    BY <2>2, <2>3 DEF ArcKept, RecordedBy
  <2>4. ASSUME NEW i, ~RecordedBy(s, i)', ArcComplete(transitions', receipts', i, events'[i])
        PROVE  ArcKept(i)'
    BY <2>2, <2>4 DEF ArcKept, RecordedBy
  <2>5. ASSUME NEW i \in DOMAIN events, Excused(i) PROVE Excused(i)'
    BY <1>2, <2>5, ExcuseStays
  <2>6. ASSUME NEW i \in DOMAIN events, RecordedBy(s, i), ~Excused(i)
        PROVE  Owed(pc[s], work[s], events[i], transitions, receipts)
    BY <1>2, <2>6 DEF GapsExcused, ArcKept
  <2>7. CASE LookUp(s) \/ PersistSnapshot(s) \/ AllocateId(s)
    <3>1. /\ UNCHANGED <<events, transitions, receipts>>
          /\ pc[s] \notin Recording /\ pc'[s] \notin Recording
      BY <1>2, <2>7 DEF LookUp, PersistSnapshot, AllocateId, Goto, database, Recording
    <3>2. ASSUME NEW i \in DOMAIN events, ArcKept(i) PROVE ArcKept(i)'
      BY <1>3, <3>1, <3>2, OthersKept DEF RecordedBy
    <3>3. QED
      BY <1>2, <2>5, <3>1, <3>2 DEF GapsExcused
  <2>8. CASE UpsertEvent(s)
    <3>1. /\ pc[s] = "event" /\ pc'[s] = "transition"
          /\ events' = WithRow(events, work[s].id, work[s].result.event)
          /\ UNCHANGED <<transitions, receipts, work>>
      BY <1>2, <2>8 DEF UpsertEvent, Stored, Goto
    <3>2. PICK id : id = work[s].id /\ id = work'[s].id
      BY <3>1
    <3>3. /\ RecordedBy(s, id)'
          /\ \A i : i # id => ~RecordedBy(s, i)'
          /\ \A i : ~RecordedBy(s, i)
      BY <3>1, <3>2 DEF RecordedBy, Recording
    <3>4. ASSUME NEW i \in DOMAIN events', i # id
          PROVE  Excused(i)' \/ ArcKept(i)'
      <4>1. i \in DOMAIN events /\ events'[i] = events[i]
        BY <3>1, <3>2, <3>4 DEF WithRow
      <4>2. ASSUME ArcKept(i) PROVE ArcKept(i)'
        BY <1>3, <3>1, <3>3, <3>4, <4>1, <4>2, OthersKept
      <4>3. QED
        BY <1>2, <2>5, <4>1, <4>2 DEF GapsExcused
    <3>5. Excused(id)' \/ ArcKept(id)'
      <4>1. CASE id \in DOMAIN events /\ Excused(id)
        BY <2>5, <4>1
      <4>2. CASE id \in DOMAIN events => ~Excused(id)
        <5>1. id \in DOMAIN events => ArcKept(id)
          BY <1>2, <4>2 DEF GapsExcused
        <5>2. Owed("transition", work[s], events'[id], transitions, receipts)
          BY <2>8, <3>2, <5>1, WrittenOwes
        <5>3. QED
          BY <2>3, <3>1, <3>3, <5>2
      <4>3. QED
        BY <4>1, <4>2
    <3>6. QED
      BY <3>4, <3>5 DEF GapsExcused
  <2>9. CASE RecordTransition(s)
    <3>1. /\ pc[s] = "transition" /\ UNCHANGED <<events, receipts>>
          /\ transitions' = transitions \o RowsOfEntry(s)
          /\ IF work[s].result.transition = "confirmed"
             THEN pc'[s] = "investigation" /\ work' = work
             ELSE pc'[s] = "entries"
      BY <1>2, <2>9 DEF RecordTransition, EntryDone, Goto
    <3>2. PICK row \in TransitionRow :
            /\ row = [eventId |-> work[s].id, transition |-> work[s].result.transition,
                      scan |-> s, rwaId |-> work[s].rwaId]
            /\ transitions' = Append(transitions, row)
      BY <1>2, <3>1, TransitionsGrow
    <3>3. PICK id : id = work[s].id /\ id = row.eventId
      BY <3>2
    <3>4. /\ row.transition = work[s].result.transition
          /\ RecordedBy(s, id)
          /\ \A i : i # id => ~RecordedBy(s, i) /\ ~RecordedBy(s, i)'
      BY <3>1, <3>2, <3>3 DEF RecordedBy, Recording
    <3>5. ASSUME NEW i \in DOMAIN events, i # id
          PROVE  Excused(i)' \/ ArcKept(i)'
      <4>1. ASSUME NEW n, NEW c, NEW b, ArcIs(transitions, receipts, i, n, c, b)
            PROVE  ArcIs(transitions', receipts, i, n, c, b)
        <5>1. row.eventId # i
          BY <3>3, <3>5
        <5>2. 0 \in Nat
          OBVIOUS
        <5>3. QED
          BY <1>2, <3>2, <4>1, <5>1, <5>2, ArcGrows
      <4>2. ASSUME ArcKept(i) PROVE ArcKept(i)'
        BY <1>3, <3>1, <3>4, <3>5, <4>1, <4>2, OthersKept
      <4>3. QED
        BY <1>2, <2>5, <4>2 DEF GapsExcused
    <3>6. ASSUME id \in DOMAIN events
          PROVE  Excused(id)' \/ ArcKept(id)'
      <4>1. CASE Excused(id)
        BY <2>5, <3>6, <4>1
      <4>2. CASE ~Excused(id)
        <5>1. Owed("transition", work[s], events[id], transitions, receipts)
          BY <2>6, <3>1, <3>4, <3>6, <4>2
        <5>2. IF work[s].result.transition = "confirmed"
              THEN Owed("investigation", work[s], events[id], transitions', receipts)
              ELSE ArcComplete(transitions', receipts, id, events[id])
          BY <2>9, <3>2, <3>3, <3>4, <5>1, RecordedOwes DEF GapInv
        <5>3. CASE work[s].result.transition = "confirmed"
          <6>1. RecordedBy(s, id)'
            BY <3>1, <3>3, <5>3 DEF RecordedBy, Recording
          <6>2. QED
            BY <2>3, <3>1, <5>2, <5>3, <6>1
        <5>4. CASE work[s].result.transition # "confirmed"
          <6>1. ~RecordedBy(s, id)'
            BY <3>1, <5>4 DEF RecordedBy, Recording
          <6>2. QED
            BY <2>4, <3>1, <5>2, <5>4, <6>1
        <5>5. QED
          BY <5>3, <5>4
      <4>3. QED
        BY <4>1, <4>2
    <3>7. QED
      BY <3>1, <3>5, <3>6 DEF GapsExcused
  <2>10. CASE InsertInvestigation(s)
    <3>1. /\ pc[s] = "investigation" /\ pc'[s] \in {"failing", "receipt"}
          /\ UNCHANGED <<events, transitions, receipts, work>>
      BY <1>2, <2>10 DEF InsertInvestigation, Goto
    <3>2. CASE pc'[s] = "failing"
      <4>1. \A t \in Scans : \/ pc'[t] = pc[t]
                             \/ pc[t] \notin Recording /\ pc'[t] \notin Recording
                             \/ pc[t] \in Recording /\ pc'[t] \in {"failing", "dead"}
        BY <2>2, <3>1, <3>2 DEF Recording
      <4>2. QED
        BY <3>1, <4>1, GapsWait
    <3>3. CASE pc'[s] = "receipt"
      <4>1. \A i : RecordedBy(s, i)' <=> RecordedBy(s, i)
        BY <3>1, <3>3 DEF RecordedBy, Recording
      <4>2. ASSUME NEW i \in DOMAIN events PROVE Excused(i)' \/ ArcKept(i)'
        <5>1. CASE Excused(i)
          BY <2>5, <5>1
        <5>2. CASE ~Excused(i) /\ RecordedBy(s, i)
          <6>1. Owed("investigation", work[s], events[i], transitions, receipts)
            BY <2>6, <3>1, <5>2
          <6>2. Owed("receipt", work[s], events[i], transitions, receipts)
            BY <6>1 DEF Owed
          <6>3. QED
            BY <2>3, <3>1, <3>3, <4>1, <5>2, <6>2
        <5>3. CASE ~Excused(i) /\ ~RecordedBy(s, i)
          BY <1>2, <1>3, <3>1, <4>1, <5>3, OthersKept DEF GapsExcused
        <5>4. QED
          BY <5>1, <5>2, <5>3
      <4>3. QED
        BY <3>1, <4>2 DEF GapsExcused
    <3>4. QED
      BY <3>1, <3>2, <3>3
  <2>11. CASE InsertReceipt(s)
    <3>1. pc[s] = "receipt" /\ UNCHANGED <<events, transitions>>
      BY <2>11 DEF InsertReceipt
    <3>2. CASE work[s].id \in receipts
      <4>1. pc'[s] = "failing" /\ UNCHANGED <<receipts, work>>
        BY <1>2, <2>11, <3>2 DEF InsertReceipt, Goto
      <4>2. \A t \in Scans : \/ pc'[t] = pc[t]
                             \/ pc[t] \notin Recording /\ pc'[t] \notin Recording
                             \/ pc[t] \in Recording /\ pc'[t] \in {"failing", "dead"}
        BY <2>2, <3>1, <4>1 DEF Recording
      <4>3. QED
        BY <3>1, <4>1, <4>2, GapsWait
    <3>3. CASE work[s].id \notin receipts
      <4>1. pc'[s] = "entries" /\ receipts' = receipts \cup {work[s].id}
        BY <1>2, <2>11, <3>3 DEF InsertReceipt, EntryDone, Goto
      <4>2. \A i : ~RecordedBy(s, i)'
        BY <4>1 DEF RecordedBy, Recording
      <4>3. ASSUME NEW i \in DOMAIN events PROVE Excused(i)' \/ ArcKept(i)'
        <5>1. CASE Excused(i)
          BY <2>5, <5>1
        <5>2. CASE ~Excused(i) /\ RecordedBy(s, i)
          <6>1. work[s].id = i
            BY <5>2 DEF RecordedBy
          <6>2. Owed("receipt", work[s], events[i], transitions, receipts)
            BY <2>6, <3>1, <5>2
          <6>3. /\ ArcIs(transitions, receipts, i, events[i].confirmations, 0, FALSE)
                /\ OneIf(~IsOpen(events[i])) = 0 /\ events[i].confirmations >= ConfirmScans
            BY <6>1, <6>2 DEF Owed, OneIf
          <6>4. ArcComplete(transitions, receipts', i, events[i])
            BY <4>1, <6>1, <6>3 DEF ArcComplete, ArcIs
          <6>5. QED
            BY <2>4, <3>1, <4>2, <6>4
        <5>3. CASE ~Excused(i) /\ ~RecordedBy(s, i)
          <6>1. work[s].id # i
            BY <3>1, <5>3 DEF RecordedBy, Recording
          <6>2. i \in receipts' <=> i \in receipts
            BY <4>1, <6>1
          <6>3. QED
            BY <1>2, <1>3, <3>1, <4>2, <5>3, <6>2, OthersKept DEF GapsExcused
        <5>4. QED
          BY <5>1, <5>2, <5>3
      <4>4. QED
        BY <3>1, <4>3 DEF GapsExcused
    <3>4. QED
      BY <3>2, <3>3
  <2>12. QED
    BY <1>3, <2>7, <2>8, <2>9, <2>10, <2>11 DEF EntryStep
<1>4. ASSUME \A s \in Scans : ~EntryStep(s)
      PROVE  GapsExcused'
  <2>1. Quiet
    BY <1>2, <1>4, StepKinds
  <2>2. UNCHANGED <<events, transitions, receipts, work>>
    BY <2>1 DEF Quiet, tables
  <2>3. ASSUME NEW s \in Scans
        PROVE  \/ pc'[s] = pc[s]
               \/ pc[s] \notin Recording /\ pc'[s] \notin Recording
               \/ pc[s] \in Recording /\ pc'[s] \in {"failing", "dead"}
    <3>1. CASE pc[s] \in Recording
      <4>1. s \in Begun /\ pc[s] \notin Ended \cup {"failing", "fetching", "entries", "complete"}
        BY <3>1 DEF Begun, Recording, Ended
      <4>2. QED
        BY <1>2, <1>4, <3>1, <4>1, RunMoves
    <3>2. CASE pc[s] \notin Recording
      BY <2>1, <3>2 DEF Quiet, Processing
    <3>3. QED
      BY <3>1, <3>2
  <2>4. QED
    BY <2>2, <2>3, GapsWait
<1>5. GapsExcused'
  BY <1>3, <1>4
<1>6. QED
  BY <1>1, <1>5 DEF GapInv

\* In one process the arc of an event is whole unless a scan that took a
\* snapshot of its asset did not come to its end (GapOnlyAfterFailure):
\* what an arc lacks is under way in the one scan inside its loop, or was
\* when that scan was cut short.
THEOREM GapsAreExplained == (\E p : Procs = {p}) => (Spec => []GapOnlyAfterFailure)
<1> SUFFICES ASSUME NEW p, Procs = {p} PROVE Spec => []GapOnlyAfterFailure
  OBVIOUS
<1>1. Init => GapInv
  <2> SUFFICES ASSUME Init PROVE GapInv
    OBVIOUS
  <2>1. DOMAIN events = {} /\ \A s \in Scans : pc[s] = "idle"
    BY DEF Init
  <2>2. DecisionsExact /\ GapsExcused
    BY <2>1 DEF DecisionsExact, GapsExcused, Processing, Recording
  <2>3. QED
    BY <2>2, LogBegins, WholeBegins DEF GapInv
<1>2. GapInv /\ [Next]_vars => GapInv'
  BY GapStep
<1>3. GapInv => GapOnlyAfterFailure
  <2> SUFFICES ASSUME GapInv, NEW i \in DOMAIN events,
                      \A s \in Begun : <<s, events[i].rwaId>> \in DOMAIN snapshots
                                         => scanRuns[s].status = "completed"
               PROVE  ArcWhole(i)
    BY DEF GapOnlyAfterFailure
  <2>1. ~Excused(i)
    BY DEF Excused, CutShort
  <2>2. ASSUME NEW s \in Scans, RecordedBy(s, i) PROVE FALSE
    <3>1. WorkFits(s, pc[s], work[s], events, eventSeq, DOMAIN snapshots)
      BY <2>2 DEF GapInv, WholeInv, IdentityInv, WorksFit, RecordedBy, Processing
    <3>2. <<s, events[i].rwaId>> \in DOMAIN snapshots
      BY <2>2, <3>1 DEF WorkFits, SameIdentity, RecordedBy, Recording
    <3>3. s \in Begun /\ pc[s] \notin Ended
      BY <2>2 DEF RecordedBy, Recording, Begun, Ended
    <3>4. QED
      BY <3>2, <3>3 DEF GapInv, WholeInv, RunsKept
  <2>3. ArcComplete(transitions, receipts, i, events[i])
    BY <2>1, <2>2 DEF GapInv, GapsExcused, ArcKept
  <2>4. \A kinds : RowsIn(transitions, i, kinds) = RowsOf(i, kinds)
    BY DEF RowsIn, RowsOf
  <2>5. QED
    BY <2>3, <2>4 DEF ArcWhole, ArcComplete, ArcIs, OneIf, Confirming
<1>4. QED
  BY <1>1, <1>2, <1>3, PTL DEF Spec
=============================================================================

-------------------------- MODULE LifecycleProofs --------------------------
(***************************************************************************)
(* Theorems about the lifecycle and about what is read of it (charts,      *)
(* timelines, statistics, the answers of the three surfaces), for every    *)
(* set of assets, every set of well-formed verdicts, every ConfirmScans    *)
(* and every length of history.                                            *)
(***************************************************************************)
EXTENDS Surfaces, FiniteSetTheorems, TLAPS

-----------------------------------------------------------------------------
(***************************************************************************)
(* The lookup.                                                             *)
(***************************************************************************)

\* openEventFor finds the asset's open event, if it has one: with at most
\* one open event per asset, "the most recent of several" is that one.
LEMMA LookupFindsOpen ==
  ASSUME TypeOK, OneOpenEvent, NEW a \in Assets
  PROVE  \/ /\ ExistingId(a) = 0
            /\ \A i \in DOMAIN events : events[i].rwaId = a => ~IsOpen(events[i])
         \/ /\ ExistingId(a) \in DOMAIN events
            /\ events[ExistingId(a)].rwaId = a
            /\ IsOpen(events[ExistingId(a)])
<1> DEFINE P == OpenIds(a, "parity_gap")
           D == OpenIds(a, "cross_wrapper_dispersion")
<1>0. \A i \in DOMAIN events : events[i] \in Event /\ i \in Nat \ {0}
  BY DEF TypeOK
<1>1. \A i \in DOMAIN events :
         events[i].kind \in EventKinds /\ events[i].lastSeenAt \in Nat
  BY <1>0 DEF Event
<1>2. ASSUME NEW k \in EventKinds, OpenIds(a, k) # {}
      PROVE  MostRecent(OpenIds(a, k)) \in OpenIds(a, k)
  <2>1. PICK i \in OpenIds(a, k) : TRUE
    BY <1>2
  <2>2. \A j \in OpenIds(a, k) : j = i
    BY <2>1 DEF OpenIds, OneOpenEvent
  <2>3. \A j \in OpenIds(a, k) : events[j].lastSeenAt <= events[i].lastSeenAt
    BY <1>1, <2>2 DEF OpenIds
  <2>4. QED
    BY <2>1, <2>3 DEF MostRecent
<1>3. CASE P # {}
  <2>1. ExistingId(a) \in P
    BY <1>2, <1>3 DEF ExistingId, EventKinds
  <2>2. QED
    BY <1>0, <2>1 DEF OpenIds
<1>4. CASE P = {} /\ D # {}
  <2>1. ExistingId(a) \in D
    BY <1>2, <1>4 DEF ExistingId, EventKinds
  <2>2. QED
    BY <1>0, <2>1 DEF OpenIds
<1>5. CASE P = {} /\ D = {}
  <2>1. ExistingId(a) = 0
    BY <1>5 DEF ExistingId
  <2>2. \A i \in DOMAIN events : events[i].rwaId = a => ~IsOpen(events[i])
    BY <1>1, <1>5 DEF OpenIds, EventKinds
  <2>3. QED
    BY <2>1, <2>2
<1>6. QED
  BY <1>3, <1>4, <1>5

-----------------------------------------------------------------------------
(***************************************************************************)
(* The rules, one lemma per branch of applyScanToEvent.                    *)
(***************************************************************************)

\* A first anomalous scan produces an open event with one confirmation.
LEMMA CreatedEventFacts ==
  ASSUME NEW a \in Assets, NEW v \in Verdicts, NEW now \in Nat \ {0}, Anomalous(v)
  PROVE  /\ CreatedEvent(a, v, now, now) \in Event
         /\ IsOpen(CreatedEvent(a, v, now, now))
         /\ CreatedEvent(a, v, now, now).rwaId = a
         /\ CreatedEvent(a, v, now, now).confirmations = 1
         /\ CreatedEvent(a, v, now, now).status = "confirmed" <=> 1 >= ConfirmScans
<1>1. v \in Verdict
  BY VerdictsAssumption DEF WellFormed
<1>2. /\ v.severity \in Severities \ {"none"}
      /\ v.kind \in EventKinds
      /\ v.deviation \in Int
  BY <1>1 DEF Verdict, Anomalous
<1>3. Classification(v) \in Classifications
  BY DEF Classification, Classifications
<1>4. QED
  BY <1>2, <1>3, ConfirmScansAssumption
     DEF CreatedEvent, Event, IsOpen, OpenStatuses, EventStatuses, ClosedStatuses

\* A further anomalous scan keeps the event open and counts once more.
LEMMA ContinuedEventFacts ==
  ASSUME NEW e \in Event, NEW v \in Verdicts, NEW now \in Nat \ {0},
         Anomalous(v), IsOpen(e)
  PROVE  LET c == ContinuedEvent(e, v, now, now) IN
         /\ c \in Event
         /\ IsOpen(c)
         /\ c.rwaId = e.rwaId /\ c.kind = e.kind /\ c.firstSeenAt = e.firstSeenAt
         /\ c.confirmations = e.confirmations + 1
         /\ Abs(c.maxDeviation) >= Abs(e.maxDeviation)
         /\ c.status = "confirmed" <=>
              e.status = "confirmed" \/ e.confirmations + 1 >= ConfirmScans
<1>1. v \in Verdict
  BY VerdictsAssumption DEF WellFormed
<1>2. /\ v.severity \in Severities \ {"none"}
      /\ v.deviation \in Int
  BY <1>1 DEF Verdict, Anomalous
<1>3. Classification(v) \in Classifications
  BY DEF Classification, Classifications
<1>4. /\ e.maxDeviation \in Int
      /\ e.confirmations \in Nat \ {0}
  BY DEF Event
<1> DEFINE c == ContinuedEvent(e, v, now, now)
           status == ContinuedStatus(e)
           peak == Peak(v.deviation, e.maxDeviation)
<1>5. /\ status \in EventStatuses /\ status \in OpenStatuses
      /\ peak \in Int
      /\ e.confirmations + 1 \in Nat \ {0}
  BY <1>2, <1>4 DEF EventStatuses, OpenStatuses, ContinuedStatus, Peak
<1>6. c \in Event
  BY <1>2, <1>3, <1>5, Zenon DEF ContinuedEvent, Event
<1>7. /\ c.rwaId = e.rwaId /\ c.kind = e.kind /\ c.firstSeenAt = e.firstSeenAt
      /\ c.confirmations = e.confirmations + 1
      /\ c.status = status
      /\ c.maxDeviation = peak
  BY Zenon DEF ContinuedEvent, Event
<1>8. Abs(c.maxDeviation) >= Abs(e.maxDeviation)
  BY <1>2, <1>4, <1>7 DEF Abs, Peak
<1>9. QED
  BY <1>5, <1>6, <1>7, <1>8 DEF IsOpen, ContinuedStatus

\* A scan that finds nothing closes the event and keeps its history.
LEMMA ClosedEventFacts ==
  ASSUME NEW e \in Event, NEW now \in Nat \ {0}
  PROVE  \A c \in {InvalidatedEvent(e, now, now), ResolvedEvent(e, now, now)} :
           /\ c \in Event
           /\ ~IsOpen(c)
           /\ c.rwaId = e.rwaId /\ c.kind = e.kind
           /\ c.firstSeenAt = e.firstSeenAt /\ c.lastSeenAt = e.lastSeenAt
           /\ c.confirmations = e.confirmations
           /\ c.maxDeviation = e.maxDeviation
           /\ c.resolvedAt = now
<1> DEFINE i == InvalidatedEvent(e, now, now)
           r == ResolvedEvent(e, now, now)
<1>1. /\ "invalidated" \in EventStatuses /\ "resolved" \in EventStatuses
      /\ now \in Nat /\ 0 \in Int
  BY DEF EventStatuses, ClosedStatuses
<1>2. /\ i \in Event
      /\ i.status = "invalidated"
      /\ i.rwaId = e.rwaId /\ i.kind = e.kind
      /\ i.firstSeenAt = e.firstSeenAt /\ i.lastSeenAt = e.lastSeenAt
      /\ i.confirmations = e.confirmations
      /\ i.maxDeviation = e.maxDeviation
      /\ i.resolvedAt = now
  BY <1>1, Zenon DEF InvalidatedEvent, Event
<1>3. /\ r \in Event
      /\ r.status = "resolved"
      /\ r.rwaId = e.rwaId /\ r.kind = e.kind
      /\ r.firstSeenAt = e.firstSeenAt /\ r.lastSeenAt = e.lastSeenAt
      /\ r.confirmations = e.confirmations
      /\ r.maxDeviation = e.maxDeviation
      /\ r.resolvedAt = now
  BY <1>1, Zenon DEF ResolvedEvent, Event
<1>4. QED
  BY <1>2, <1>3 DEF IsOpen, OpenStatuses
-----------------------------------------------------------------------------
(***************************************************************************)
(* The step: what ProcessEntry does to the four tables, by the branch of   *)
(* applyScanToEvent it takes.                                              *)
(***************************************************************************)
NothingOpen(a) == \A i \in DOMAIN events : events[i].rwaId = a => ~IsOpen(events[i])

OpenAt(i, a) == i \in DOMAIN events /\ events[i].rwaId = a /\ IsOpen(events[i])

Now == Len(snapshots) + 1

\* Event e is stored under id with transition tr for verdict v.
Stored(id, e, tr, v) ==
  /\ events' = IF id \in DOMAIN events THEN [events EXCEPT ![id] = e]
                                      ELSE Append(events, e)
  /\ transitions' = Append(transitions,
                           [eventId    |-> id,
                            transition |-> tr,
                            severity   |-> e.severity,
                            deviation  |-> IF Anomalous(v) THEN v.deviation ELSE 0,
                            snapshot   |-> Now])
  /\ receipts' = IF tr = "confirmed"
                 THEN Append(receipts, [eventId |-> id, snapshot |-> Now])
                 ELSE receipts

QuietStep(a, v) ==
  /\ ~Anomalous(v)
  /\ NothingOpen(a)
  /\ UNCHANGED <<events, transitions, receipts>>

OpeningStep(a, v) ==
  /\ Anomalous(v)
  /\ NothingOpen(a)
  /\ Stored(Len(events) + 1, CreatedEvent(a, v, Now, Now),
            IF ConfirmScans <= 1 THEN "confirmed" ELSE "created", v)

ContinuingStep(a, v, i) ==
  /\ Anomalous(v)
  /\ OpenAt(i, a)
  /\ Stored(i, ContinuedEvent(events[i], v, Now, Now),
            ContinuedTransition(events[i], ContinuedEvent(events[i], v, Now, Now)), v)

ClosingStep(a, v, i) ==
  /\ ~Anomalous(v)
  /\ OpenAt(i, a)
  /\ \/ Stored(i, InvalidatedEvent(events[i], Now, Now), "invalidated", v)
     \/ Stored(i, ResolvedEvent(events[i], Now, Now), "resolved", v)

\* processEntry has four outcomes and no other.
LEMMA ProcessEntryCases ==
  ASSUME TypeOK, OneOpenEvent, NEW a \in Assets, NEW v \in Verdicts,
         ProcessEntry(a, v)
  PROVE  /\ snapshots' = Append(snapshots, [rwaId |-> a, verdict |-> v])
         /\ Now \in Nat \ {0}
         /\ \/ QuietStep(a, v)
            \/ OpeningStep(a, v)
            \/ \E i \in DOMAIN events : ContinuingStep(a, v, i)
            \/ \E i \in DOMAIN events : ClosingStep(a, v, i)
<1> DEFINE id == ExistingId(a)
           result == ApplyScanToEvent(Existing(a), a, v, Now, Now)
           eventId == IF id = 0 THEN Len(events) + 1 ELSE id
<1>1. /\ snapshots' = Append(snapshots, [rwaId |-> a, verdict |-> v])
      /\ \/ /\ result.transition = "none"
            /\ UNCHANGED <<events, transitions, receipts>>
         \/ /\ result.transition # "none"
            /\ events' = Upsert(id, result.event)
            /\ transitions' =
                 Append(transitions, [eventId    |-> eventId,
                                      transition |-> result.transition,
                                      severity   |-> result.event.severity,
                                      deviation  |-> IF Anomalous(v) THEN v.deviation ELSE 0,
                                      snapshot   |-> Now])
            /\ receipts' = IF result.transition = "confirmed"
                           THEN Append(receipts, [eventId |-> eventId, snapshot |-> Now])
                           ELSE receipts
  BY DEF ProcessEntry, Now
<1>2. Now \in Nat \ {0} /\ Len(events) \in Nat /\ DOMAIN events = 1 .. Len(events)
  BY DEF TypeOK, Now
<1> HIDE DEF result
<1>3. CASE id = 0
  <2>1. NothingOpen(a) /\ Existing(a) = NoEvent
    BY <1>2, <1>3, LookupFindsOpen DEF NothingOpen, Existing
  <2>2. ~IsOpen(Existing(a))
    BY <2>1 DEF IsOpen, NoEvent, OpenStatuses
  <2>3. CASE Anomalous(v)
    <3>1. result = [event |-> CreatedEvent(a, v, Now, Now),
                    transition |-> IF ConfirmScans <= 1 THEN "confirmed" ELSE "created"]
      BY <2>2, <2>3 DEF result, ApplyScanToEvent
    <3> DEFINE c == CreatedEvent(a, v, Now, Now)
               tr == IF ConfirmScans <= 1 THEN "confirmed" ELSE "created"
    <3> HIDE DEF c
    <3>2. result.event = c /\ result.transition = tr /\ tr # "none"
      BY <3>1 DEF c
    <3>3. Len(events) + 1 \notin DOMAIN events
      BY <1>2
    <3>4. Stored(Len(events) + 1, c, tr, v)
      BY <1>1, <1>3, <3>2, <3>3 DEF Stored, Upsert
    <3>5. OpeningStep(a, v)
      BY <2>1, <2>3, <3>4 DEF OpeningStep, c
    <3>6. QED
      BY <1>1, <1>2, <3>5
  <2>4. CASE ~Anomalous(v)
    <3>1. result.transition = "none"
      BY <2>2, <2>4 DEF result, ApplyScanToEvent
    <3>2. QED
      BY <1>1, <1>2, <2>1, <2>4, <3>1 DEF QuietStep
  <2>5. QED
    BY <2>3, <2>4
<1>4. CASE id # 0
  <2>1. OpenAt(id, a) /\ Existing(a) = events[id]
    BY <1>4, LookupFindsOpen DEF OpenAt, Existing
  <2>2. IsOpen(Existing(a)) /\ id \in DOMAIN events /\ eventId = id
    BY <1>4, <2>1 DEF OpenAt
  <2>3. CASE Anomalous(v)
    <3> DEFINE c == ContinuedEvent(events[id], v, Now, Now)
               tr == ContinuedTransition(events[id], c)
    <3>1. result = [event |-> c, transition |-> tr]
      BY <2>1, <2>2, <2>3 DEF result, ApplyScanToEvent
    <3> HIDE DEF c
    <3>2. result.event = c /\ result.transition = tr /\ tr # "none"
      BY <3>1 DEF ContinuedTransition
    <3>3. Stored(id, c, tr, v)
      BY <1>1, <1>4, <2>2, <3>2 DEF Stored, Upsert
    <3>4. ContinuingStep(a, v, id)
      BY <2>1, <2>3, <3>3 DEF ContinuingStep, c
    <3>5. QED
      BY <1>1, <1>2, <2>2, <3>4
  <2>4. CASE ~Anomalous(v)
    <3>1. \/ result = [event |-> InvalidatedEvent(events[id], Now, Now),
                       transition |-> "invalidated"]
          \/ result = [event |-> ResolvedEvent(events[id], Now, Now),
                       transition |-> "resolved"]
      BY <2>1, <2>2, <2>4 DEF result, ApplyScanToEvent
    <3>2. \/ Stored(id, InvalidatedEvent(events[id], Now, Now), "invalidated", v)
          \/ Stored(id, ResolvedEvent(events[id], Now, Now), "resolved", v)
      BY <1>1, <1>4, <2>2, <3>1 DEF Stored, Upsert
    <3>3. ClosingStep(a, v, id)
      BY <2>1, <2>4, <3>2 DEF ClosingStep
    <3>4. QED
      BY <1>1, <1>2, <2>2, <3>3
  <2>5. QED
    BY <2>3, <2>4
<1>5. QED
  BY <1>3, <1>4

\* What storing one event does to the events table, and that it keeps types.
LEMMA StoredFacts ==
  ASSUME TypeOK, NEW a \in Assets, NEW v \in Verdicts,
         NEW id \in 1 .. Len(events) + 1, NEW e \in Event, NEW tr \in Transitions,
         Stored(id, e, tr, v),
         snapshots' = Append(snapshots, [rwaId |-> a, verdict |-> v])
  PROVE  /\ TypeOK'
         /\ DOMAIN events' = DOMAIN events \cup {id}
         /\ events'[id] = e
         /\ \A i \in DOMAIN events : i # id => events'[i] = events[i]
<1>1. /\ events \in Seq(Event) /\ Len(events) \in Nat
      /\ DOMAIN events = 1 .. Len(events)
      /\ Now \in Nat \ {0}
  BY DEF TypeOK, Now
<1>2. snapshots' \in Seq([rwaId : Assets, verdict : Verdicts])
  BY DEF TypeOK
<1>3. /\ events' \in Seq(Event)
      /\ DOMAIN events' = DOMAIN events \cup {id}
      /\ events'[id] = e
      /\ \A i \in DOMAIN events : i # id => events'[i] = events[i]
  <2>1. CASE id \in DOMAIN events
    <3>1. events' = [events EXCEPT ![id] = e]
      BY <2>1 DEF Stored
    <3>2. QED
      BY <1>1, <2>1, <3>1
  <2>2. CASE id \notin DOMAIN events
    <3>1. id = Len(events) + 1
      BY <1>1, <2>2
    <3>2. events' = Append(events, e)
      BY <2>2 DEF Stored
    <3>3. QED
      BY <1>1, <3>1, <3>2
  <2>3. QED
    BY <2>1, <2>2
<1>4. transitions' \in Seq(Transition)
  <2>1. v.deviation \in Int
    BY VerdictsAssumption DEF WellFormed, Verdict
  <2>2. /\ e.severity \in Severities \ {"none"}
        /\ (IF Anomalous(v) THEN v.deviation ELSE 0) \in Int
        /\ id \in Nat \ {0}
    BY <1>1, <2>1 DEF Event
  <2>3. [eventId    |-> id,
         transition |-> tr,
         severity   |-> e.severity,
         deviation  |-> IF Anomalous(v) THEN v.deviation ELSE 0,
         snapshot   |-> Now] \in Transition
    BY <1>1, <2>2 DEF Transition
  <2>4. QED
    BY <2>3 DEF TypeOK, Stored
<1>5. receipts' \in Seq([eventId : Nat \ {0}, snapshot : Nat \ {0}])
  <2> DEFINE Receipt == [eventId : Nat \ {0}, snapshot : Nat \ {0}]
             r == [eventId |-> id, snapshot |-> Now]
  <2>1. receipts \in Seq(Receipt)
    BY DEF TypeOK
  <2>2. r \in Receipt
    BY <1>1
  <2>3. receipts' = Append(receipts, r) \/ receipts' = receipts
    BY DEF Stored
  <2> HIDE DEF Receipt, r
  <2>4. receipts' \in Seq(Receipt)
    BY <2>1, <2>2, <2>3
  <2>5. QED
    BY <2>4 DEF Receipt
<1>6. QED
  BY <1>2, <1>3, <1>4, <1>5 DEF TypeOK

-----------------------------------------------------------------------------
(***************************************************************************)
(* Types, one open event per asset, and confirmation by count.  The three  *)
(* are inductive together: the lookup is only known to find the open event *)
(* when there is at most one, and only a lookup that finds it keeps a      *)
(* second from being opened.                                               *)
(***************************************************************************)
Inv == TypeOK /\ OneOpenEvent /\ ConfirmedByCount

\* The empty database satisfies the invariant.
LEMMA InitInv == Init => Inv
BY DEF Init, Inv, TypeOK, OneOpenEvent, ConfirmedByCount

\* Processing one entry preserves the invariant: one case per outcome.
LEMMA StepInv ==
  ASSUME Inv, NEW a \in Assets, NEW v \in Verdicts, ProcessEntry(a, v)
  PROVE  Inv'
<1>1. TypeOK /\ OneOpenEvent /\ ConfirmedByCount
  BY DEF Inv
<1>2. /\ snapshots' = Append(snapshots, [rwaId |-> a, verdict |-> v])
      /\ Now \in Nat \ {0}
      /\ \/ QuietStep(a, v)
         \/ OpeningStep(a, v)
         \/ \E i \in DOMAIN events : ContinuingStep(a, v, i)
         \/ \E i \in DOMAIN events : ClosingStep(a, v, i)
  BY <1>1, ProcessEntryCases
<1>3. /\ Len(events) \in Nat /\ DOMAIN events = 1 .. Len(events)
      /\ \A i \in DOMAIN events :
           /\ events[i] \in Event
           /\ events[i].confirmations \in Nat \ {0}
  <2>1. /\ Len(events) \in Nat /\ DOMAIN events = 1 .. Len(events)
        /\ \A i \in DOMAIN events : events[i] \in Event
    BY <1>1 DEF TypeOK
  <2>2. QED
    BY <2>1 DEF Event
<1>4. CASE QuietStep(a, v)
  <2>1. events' = events /\ transitions' = transitions /\ receipts' = receipts
    BY <1>4 DEF QuietStep
  <2>2. TypeOK'
    BY <1>1, <1>2, <2>1 DEF TypeOK
  <2>3. QED
    BY <1>1, <2>1, <2>2 DEF Inv, OneOpenEvent, ConfirmedByCount
<1>5. CASE OpeningStep(a, v)
  <2> DEFINE e == CreatedEvent(a, v, Now, Now)
             id == Len(events) + 1
             tr == IF ConfirmScans <= 1 THEN "confirmed" ELSE "created"
  <2>1. Anomalous(v) /\ NothingOpen(a) /\ Stored(id, e, tr, v)
    BY <1>5 DEF OpeningStep
  <2>2. /\ e \in Event /\ e.rwaId = a /\ e.confirmations = 1
        /\ e.status = "confirmed" <=> 1 >= ConfirmScans
    BY <1>2, <2>1, CreatedEventFacts
  <2>3. tr \in Transitions /\ id \in 1 .. Len(events) + 1 /\ id \notin DOMAIN events
    BY <1>3 DEF Transitions
  <2> HIDE DEF e, id, tr
  <2>4. /\ TypeOK'
        /\ DOMAIN events' = DOMAIN events \cup {id}
        /\ events'[id] = e
        /\ \A i \in DOMAIN events : i # id => events'[i] = events[i]
    BY <1>1, <1>2, <2>1, <2>2, <2>3, StoredFacts, ZenonT(60)
  <2>5. OneOpenEvent'
    BY <1>1, <2>1, <2>2, <2>3, <2>4 DEF OneOpenEvent, NothingOpen
  <2>6. ConfirmedByCount'
    BY <1>1, <2>2, <2>3, <2>4 DEF ConfirmedByCount
  <2>7. QED
    BY <2>4, <2>5, <2>6 DEF Inv
<1>6. ASSUME NEW id \in DOMAIN events, ContinuingStep(a, v, id)
      PROVE  Inv'
  <2> DEFINE e == ContinuedEvent(events[id], v, Now, Now)
             tr == ContinuedTransition(events[id], e)
  <2>1. Anomalous(v) /\ OpenAt(id, a) /\ Stored(id, e, tr, v)
    BY <1>6 DEF ContinuingStep
  <2>2. /\ e \in Event /\ e.rwaId = a
        /\ e.confirmations = events[id].confirmations + 1
        /\ e.status = "confirmed" <=>
             events[id].status = "confirmed" \/ events[id].confirmations + 1 >= ConfirmScans
    BY <1>2, <1>3, <2>1, ContinuedEventFacts DEF OpenAt
  <2>3. tr \in Transitions /\ id \in 1 .. Len(events) + 1
    BY <1>3 DEF Transitions, ContinuedTransition
  <2> HIDE DEF e, tr
  <2>4. /\ TypeOK'
        /\ DOMAIN events' = DOMAIN events \cup {id}
        /\ events'[id] = e
        /\ \A i \in DOMAIN events : i # id => events'[i] = events[i]
    BY <1>1, <1>2, <2>1, <2>2, <2>3, StoredFacts, ZenonT(60)
  <2>5. OneOpenEvent'
    BY <1>1, <2>1, <2>2, <2>4 DEF OneOpenEvent, OpenAt
  <2>6. e.status = "confirmed" <=> e.confirmations >= ConfirmScans
    BY <1>1, <1>3, <2>1, <2>2, ConfirmScansAssumption DEF ConfirmedByCount, OpenAt
  <2>7. ConfirmedByCount'
    BY <1>1, <2>4, <2>6 DEF ConfirmedByCount
  <2>8. QED
    BY <2>4, <2>5, <2>7 DEF Inv
<1>7. ASSUME NEW id \in DOMAIN events, ClosingStep(a, v, id)
      PROVE  Inv'
  <2>1. PICK e \in {InvalidatedEvent(events[id], Now, Now),
                    ResolvedEvent(events[id], Now, Now)},
             tr \in {"invalidated", "resolved"} : Stored(id, e, tr, v)
    BY <1>7 DEF ClosingStep
  <2>2. e \in Event /\ ~IsOpen(e)
    <3>1. events[id] \in Event
      BY <1>3
    <3>2. QED
      BY <1>2, <3>1, ClosedEventFacts
  <2>3. tr \in Transitions /\ id \in 1 .. Len(events) + 1
    BY <1>3 DEF Transitions
  <2>4. /\ TypeOK'
        /\ DOMAIN events' = DOMAIN events \cup {id}
        /\ events'[id] = e
        /\ \A i \in DOMAIN events : i # id => events'[i] = events[i]
    BY <1>1, <1>2, <2>1, <2>2, <2>3, StoredFacts, ZenonT(60)
  <2>5. QED
    BY <1>1, <2>2, <2>4 DEF Inv, OneOpenEvent, ConfirmedByCount
<1>8. QED
  BY <1>2, <1>4, <1>5, <1>6, <1>7

\* So does every step, the stuttering ones included.
LEMMA NextInv == Inv /\ [Next]_vars => Inv'
<1> SUFFICES ASSUME Inv, [Next]_vars PROVE Inv'
  OBVIOUS
<1>1. CASE Next
  BY <1>1, StepInv DEF Next
<1>2. CASE UNCHANGED vars
  BY <1>2 DEF vars, Inv, TypeOK, OneOpenEvent, ConfirmedByCount
<1>3. QED
  BY <1>1, <1>2

\* Hence it holds throughout every behaviour.
LEMMA SpecInv == Spec => []Inv
BY InitInv, NextInv, PTL DEF Spec

\* The tables always hold well-typed rows.
THEOREM TypeCorrect == Spec => []TypeOK
<1>1. Inv => TypeOK
  BY DEF Inv
<1>2. QED
  BY <1>1, SpecInv, PTL

\* Whatever the scans find and whichever kind of anomaly it is, no asset
\* ever has two open events.
THEOREM AtMostOneOpenEvent == Spec => []OneOpenEvent
<1>1. Inv => OneOpenEvent
  BY DEF Inv
<1>2. QED
  BY <1>1, SpecInv, PTL

\* An open event is confirmed exactly from its ConfirmScans-th confirmation.
THEOREM ConfirmationByCount == Spec => []ConfirmedByCount
<1>1. Inv => ConfirmedByCount
  BY DEF Inv
<1>2. QED
  BY <1>1, SpecInv, PTL

-----------------------------------------------------------------------------
(***************************************************************************)
(* History.  A step writes one row at most, and the row it replaces is     *)
(* that of an open event.                                                  *)
(***************************************************************************)

\* What the events that were there become in one scan: the closed ones stay
\* as they are, an open one keeps its identity and only moves forward.
LEMMA StepKeepsHistory ==
  ASSUME Inv, NEW a \in Assets, NEW v \in Verdicts, ProcessEntry(a, v),
         NEW i \in DOMAIN events
  PROVE  /\ ~IsOpen(events[i]) => events'[i] = events[i]
         /\ events'[i].rwaId = events[i].rwaId
         /\ events'[i].kind = events[i].kind
         /\ events'[i].firstSeenAt = events[i].firstSeenAt
         /\ events[i].status = "confirmed" => events'[i].status # "candidate"
         /\ events'[i].confirmations >= events[i].confirmations
         /\ Abs(events'[i].maxDeviation) >= Abs(events[i].maxDeviation)
<1>1. TypeOK /\ OneOpenEvent /\ ConfirmedByCount
  BY DEF Inv
<1>2. /\ snapshots' = Append(snapshots, [rwaId |-> a, verdict |-> v])
      /\ Now \in Nat \ {0}
      /\ \/ QuietStep(a, v)
         \/ OpeningStep(a, v)
         \/ \E id \in DOMAIN events : ContinuingStep(a, v, id)
         \/ \E id \in DOMAIN events : ClosingStep(a, v, id)
  BY <1>1, ProcessEntryCases
<1>3. Len(events) \in Nat /\ DOMAIN events = 1 .. Len(events) /\ events[i] \in Event
  BY <1>1 DEF TypeOK
<1>4. /\ events[i].confirmations >= events[i].confirmations
      /\ Abs(events[i].maxDeviation) >= Abs(events[i].maxDeviation)
  <2>1. events[i].confirmations \in Nat /\ events[i].maxDeviation \in Int
    BY <1>3 DEF Event
  <2>2. QED
    BY <2>1 DEF Abs
<1>5. CASE events'[i] = events[i]
  BY <1>4, <1>5
<1>6. CASE QuietStep(a, v)
  BY <1>5, <1>6 DEF QuietStep
<1>7. CASE OpeningStep(a, v)
  <2>1. Stored(Len(events) + 1, CreatedEvent(a, v, Now, Now),
               IF ConfirmScans <= 1 THEN "confirmed" ELSE "created", v)
    BY <1>7 DEF OpeningStep
  <2> DEFINE c == CreatedEvent(a, v, Now, Now)
  <2>2. Len(events) + 1 \notin DOMAIN events
    BY <1>3
  <2>3. events' = Append(events, c)
    BY <2>1, <2>2, Zenon DEF Stored
  <2>4. events \in Seq(Event) /\ i \in 1 .. Len(events)
    BY <1>1, <1>3 DEF TypeOK
  <2> HIDE DEF c
  <2>5. events'[i] = events[i]
    BY <2>3, <2>4
  <2>6. QED
    BY <1>5, <2>5
<1>8. ASSUME NEW id \in DOMAIN events, NEW e, NEW tr, Stored(id, e, tr, v), i # id
      PROVE  events'[i] = events[i]
  BY <1>8 DEF Stored
<1>9. ASSUME NEW id \in DOMAIN events, NEW e, NEW tr, Stored(id, e, tr, v), i = id
      PROVE  events'[i] = e
  BY <1>1, <1>9 DEF Stored, TypeOK
<1>10. ASSUME NEW id \in DOMAIN events, ContinuingStep(a, v, id), i = id
       PROVE  /\ IsOpen(events[i])
              /\ events'[i].rwaId = events[i].rwaId
              /\ events'[i].kind = events[i].kind
              /\ events'[i].firstSeenAt = events[i].firstSeenAt
              /\ events[i].status = "confirmed" => events'[i].status # "candidate"
              /\ events'[i].confirmations >= events[i].confirmations
              /\ Abs(events'[i].maxDeviation) >= Abs(events[i].maxDeviation)
  <2> DEFINE c == ContinuedEvent(events[i], v, Now, Now)
  <2>1. /\ Anomalous(v) /\ IsOpen(events[i])
        /\ Stored(id, c, ContinuedTransition(events[i], c), v)
    BY <1>10 DEF ContinuingStep, OpenAt
  <2>2. /\ c.rwaId = events[i].rwaId /\ c.kind = events[i].kind
        /\ c.firstSeenAt = events[i].firstSeenAt
        /\ c.confirmations = events[i].confirmations + 1
        /\ Abs(c.maxDeviation) >= Abs(events[i].maxDeviation)
        /\ c.status = "confirmed" <=>
             events[i].status = "confirmed" \/ events[i].confirmations + 1 >= ConfirmScans
    BY <1>2, <1>3, <2>1, ContinuedEventFacts
  <2> HIDE DEF c
  <2>3. events'[i] = c
    BY <1>9, <1>10, <2>1
  <2>4. events[i].confirmations \in Nat
    BY <1>3 DEF Event
  <2>5. QED
    BY <2>1, <2>2, <2>3, <2>4
<1>11. ASSUME NEW id \in DOMAIN events, ClosingStep(a, v, id), i = id
       PROVE  /\ IsOpen(events[i])
              /\ events'[i].rwaId = events[i].rwaId
              /\ events'[i].kind = events[i].kind
              /\ events'[i].firstSeenAt = events[i].firstSeenAt
              /\ events'[i].status # "candidate"
              /\ events'[i].confirmations = events[i].confirmations
              /\ events'[i].maxDeviation = events[i].maxDeviation
  <2>1. PICK e \in {InvalidatedEvent(events[i], Now, Now),
                    ResolvedEvent(events[i], Now, Now)},
             tr \in {"invalidated", "resolved"} : Stored(id, e, tr, v)
    BY <1>11 DEF ClosingStep
  <2>2. /\ ~IsOpen(e) /\ e.rwaId = events[i].rwaId /\ e.kind = events[i].kind
        /\ e.firstSeenAt = events[i].firstSeenAt
        /\ e.confirmations = events[i].confirmations
        /\ e.maxDeviation = events[i].maxDeviation
    <3>1. \A c \in {InvalidatedEvent(events[i], Now, Now), ResolvedEvent(events[i], Now, Now)} :
            /\ ~IsOpen(c) /\ c.rwaId = events[i].rwaId /\ c.kind = events[i].kind
            /\ c.firstSeenAt = events[i].firstSeenAt
            /\ c.confirmations = events[i].confirmations
            /\ c.maxDeviation = events[i].maxDeviation
      BY <1>2, <1>3, ClosedEventFacts, ZenonT(60)
    <3>2. QED
      BY <3>1
  <2>3. events'[i] = e /\ IsOpen(events[i])
    BY <1>9, <1>11, <2>1 DEF ClosingStep, OpenAt
  <2>4. QED
    BY <2>2, <2>3 DEF IsOpen, OpenStatuses
<1>12. ASSUME NEW id \in DOMAIN events,
              ContinuingStep(a, v, id) \/ ClosingStep(a, v, id), i # id
       PROVE  events'[i] = events[i]
  BY <1>8, <1>12 DEF ContinuingStep, ClosingStep
<1>13. QED
  BY <1>2, <1>4, <1>5, <1>6, <1>7, <1>10, <1>11, <1>12

\* No later scan changes an event that was closed.
THEOREM ClosedEventsAreFinal == Spec => ClosedIsFinal
<1>1. Inv /\ [Next]_vars =>
        [\A i \in DOMAIN events : ~IsOpen(events[i]) => events'[i] = events[i]]_vars
  BY StepKeepsHistory DEF Next
<1>2. QED
  BY <1>1, SpecInv, PTL DEF Spec, ClosedIsFinal

\* An event's asset, kind and opening time are fixed when it is opened, it
\* is never demoted to candidate, and its count and peak never shrink.
THEOREM EventsOnlyProgress == Spec => ProgressOnly
<1>1. Inv /\ [Next]_vars =>
        [\A i \in DOMAIN events :
           LET e == events[i]  f == events'[i] IN
           /\ f.rwaId = e.rwaId /\ f.kind = e.kind /\ f.firstSeenAt = e.firstSeenAt
           /\ e.status = "confirmed" => f.status # "candidate"
           /\ f.confirmations >= e.confirmations
           /\ Abs(f.maxDeviation) >= Abs(e.maxDeviation)]_vars
  BY StepKeepsHistory DEF Next
<1>2. QED
  BY <1>1, SpecInv, PTL DEF Spec, ProgressOnly

\* Over a whole history of scans an event only advances.
THEOREM EventsAdvance == Spec => EventsOnlyAdvance
BY ClosedEventsAreFinal, EventsOnlyProgress DEF EventsOnlyAdvance

-----------------------------------------------------------------------------
(***************************************************************************)
(* The three outcomes of processEntry that write, field by field.          *)
(***************************************************************************)

\* Row id of the events table becomes e, and the transition tr is logged
\* with what verdict v found (and a receipt, when it is the confirmation).
Wrote(id, e, tr, v) ==
  /\ DOMAIN events' = DOMAIN events \cup {id}
  /\ events'[id] = e
  /\ \A i \in DOMAIN events \ {id} : events'[i] = events[i]
  /\ \E row \in Transition : /\ row.eventId = id /\ row.transition = tr
                             /\ row.snapshot = Now
                             /\ row.deviation = IF Anomalous(v) THEN v.deviation ELSE 0
                             /\ transitions' = Append(transitions, row)
  /\ receipts' = IF tr = "confirmed"
                 THEN Append(receipts, [eventId |-> id, snapshot |-> Now])
                 ELSE receipts

\* An event that starts a run.
Opens(a, v, id, e, tr) ==
  /\ Anomalous(v) /\ NothingOpen(a) /\ id \notin DOMAIN events
  /\ Wrote(id, e, tr, v)
  /\ e.rwaId = a /\ IsOpen(e) /\ e.confirmations = 1
  /\ e.firstSeenAt = Now /\ e.lastSeenAt = Now /\ e.latestSnapshot = Now
  /\ e.maxDeviation = v.deviation /\ e.severity = v.severity /\ e.resolvedAt = 0
  /\ tr = IF ConfirmScans = 1 THEN "confirmed" ELSE "created"

\* An event that goes on with its run.
Continues(a, v, id, e, tr) ==
  /\ Anomalous(v) /\ OpenAt(id, a)
  /\ Wrote(id, e, tr, v)
  /\ e.rwaId = a /\ IsOpen(e) /\ e.confirmations = events[id].confirmations + 1
  /\ e.firstSeenAt = events[id].firstSeenAt
  /\ e.lastSeenAt = Now /\ e.latestSnapshot = Now
  /\ e.maxDeviation = Peak(v.deviation, events[id].maxDeviation)
  /\ e.severity = v.severity /\ e.resolvedAt = events[id].resolvedAt
  /\ tr \in {"confirmed", "updated"}
  /\ tr = "confirmed" <=> events[id].confirmations + 1 = ConfirmScans

\* An event whose run is over.
Closes(a, v, id, e, tr) ==
  /\ ~Anomalous(v) /\ OpenAt(id, a)
  /\ Wrote(id, e, tr, v)
  /\ e.rwaId = a /\ ~IsOpen(e) /\ e.confirmations = events[id].confirmations
  /\ e.firstSeenAt = events[id].firstSeenAt /\ e.lastSeenAt = events[id].lastSeenAt
  /\ e.maxDeviation = events[id].maxDeviation /\ e.resolvedAt = Now
  /\ tr \in ClosedStatuses /\ e.status = tr

LEMMA StoredWrote ==
  ASSUME TypeOK, NEW v \in Verdicts, NEW id \in 1 .. Len(events) + 1,
         NEW e \in Event, NEW tr \in Transitions, Stored(id, e, tr, v),
         NEW a \in Assets, snapshots' = Append(snapshots, [rwaId |-> a, verdict |-> v])
  PROVE  Wrote(id, e, tr, v)
<1>1. /\ DOMAIN events' = DOMAIN events \cup {id}
      /\ events'[id] = e
      /\ \A i \in DOMAIN events \ {id} : events'[i] = events[i]
  BY StoredFacts
<1> DEFINE row == [eventId    |-> id,
                   transition |-> tr,
                   severity   |-> e.severity,
                   deviation  |-> IF Anomalous(v) THEN v.deviation ELSE 0,
                   snapshot   |-> Now]
<1>2. row \in Transition
  <2>1. v.deviation \in Int
    BY VerdictsAssumption DEF WellFormed, Verdict
  <2>2. /\ e.severity \in Severities \ {"none"}
        /\ (IF Anomalous(v) THEN v.deviation ELSE 0) \in Int
        /\ id \in Nat \ {0} /\ Now \in Nat \ {0}
    BY <2>1 DEF Event, TypeOK, Now
  <2>3. QED
    BY <2>2 DEF Transition
<1>3. /\ row.eventId = id /\ row.transition = tr /\ row.snapshot = Now
      /\ row.deviation = IF Anomalous(v) THEN v.deviation ELSE 0
      /\ transitions' = Append(transitions, row)
  BY DEF Stored
<1>4. receipts' = IF tr = "confirmed"
                  THEN Append(receipts, [eventId |-> id, snapshot |-> Now])
                  ELSE receipts
  BY DEF Stored
<1> HIDE DEF row
<1>5. QED
  BY <1>1, <1>2, <1>3, <1>4 DEF Wrote

LEMMA Outcomes ==
  ASSUME Inv, NEW a \in Assets, NEW v \in Verdicts, ProcessEntry(a, v)
  PROVE  \/ QuietStep(a, v)
         \/ \E id \in Nat, e \in Event, tr \in Transitions :
               \/ Opens(a, v, id, e, tr)
               \/ Continues(a, v, id, e, tr)
               \/ Closes(a, v, id, e, tr)
<1>1. TypeOK /\ OneOpenEvent /\ ConfirmedByCount
  BY DEF Inv
<1>2. /\ snapshots' = Append(snapshots, [rwaId |-> a, verdict |-> v])
      /\ Now \in Nat \ {0}
      /\ \/ QuietStep(a, v)
         \/ OpeningStep(a, v)
         \/ \E i \in DOMAIN events : ContinuingStep(a, v, i)
         \/ \E i \in DOMAIN events : ClosingStep(a, v, i)
  BY <1>1, ProcessEntryCases
<1>3. /\ Len(events) \in Nat /\ DOMAIN events = 1 .. Len(events)
      /\ \A i \in DOMAIN events : events[i] \in Event
  BY <1>1 DEF TypeOK
<1>4. CASE OpeningStep(a, v)
  <2> DEFINE e == CreatedEvent(a, v, Now, Now)
             id == Len(events) + 1
             tr == IF ConfirmScans <= 1 THEN "confirmed" ELSE "created"
  <2>1. Anomalous(v) /\ NothingOpen(a) /\ Stored(id, e, tr, v)
    BY <1>4 DEF OpeningStep
  <2>2. e \in Event /\ e.rwaId = a /\ e.confirmations = 1 /\ IsOpen(e)
    BY <1>2, <2>1, CreatedEventFacts
  <2>3. /\ e.firstSeenAt = Now /\ e.lastSeenAt = Now /\ e.latestSnapshot = Now
        /\ e.maxDeviation = v.deviation /\ e.severity = v.severity /\ e.resolvedAt = 0
    BY DEF CreatedEvent
  <2>4. /\ tr \in Transitions /\ tr = (IF ConfirmScans = 1 THEN "confirmed" ELSE "created")
        /\ id \in 1 .. Len(events) + 1 /\ id \notin DOMAIN events /\ id \in Nat
    BY <1>3, ConfirmScansAssumption DEF Transitions
  <2> HIDE DEF e, id, tr
  <2>5. Wrote(id, e, tr, v)
    BY <1>1, <1>2, <2>1, <2>2, <2>4, StoredWrote
  <2>6. Opens(a, v, id, e, tr)
    BY <2>1, <2>2, <2>3, <2>4, <2>5 DEF Opens
  <2>7. QED
    BY <2>2, <2>4, <2>6
<1>5. ASSUME NEW id \in DOMAIN events, ContinuingStep(a, v, id)
      PROVE  \E e \in Event, tr \in Transitions : Continues(a, v, id, e, tr)
  <2> DEFINE e == ContinuedEvent(events[id], v, Now, Now)
             tr == ContinuedTransition(events[id], e)
  <2>1. Anomalous(v) /\ OpenAt(id, a) /\ Stored(id, e, tr, v)
    BY <1>5 DEF ContinuingStep
  <2>2. /\ e \in Event /\ e.rwaId = a /\ IsOpen(e)
        /\ e.firstSeenAt = events[id].firstSeenAt
        /\ e.confirmations = events[id].confirmations + 1
        /\ e.status = "confirmed" <=>
             events[id].status = "confirmed" \/ events[id].confirmations + 1 >= ConfirmScans
    BY <1>2, <1>3, <2>1, ContinuedEventFacts DEF OpenAt
  <2>3. /\ e.lastSeenAt = Now /\ e.latestSnapshot = Now
        /\ e.maxDeviation = Peak(v.deviation, events[id].maxDeviation)
        /\ e.severity = v.severity /\ e.resolvedAt = events[id].resolvedAt
    BY <1>3, Zenon DEF ContinuedEvent, Event
  <2>4. /\ tr \in Transitions /\ id \in 1 .. Len(events) + 1 /\ id \in Nat
        /\ tr \in {"confirmed", "updated"}
        /\ tr = "confirmed" <=> events[id].status = "candidate" /\ e.status = "confirmed"
    BY <1>3 DEF Transitions, ContinuedTransition
  <2> HIDE DEF e, tr
  <2>5. Wrote(id, e, tr, v)
    BY <1>1, <1>2, <2>1, <2>2, <2>4, StoredWrote
  <2>6. tr = "confirmed" <=> events[id].confirmations + 1 = ConfirmScans
    <3>1. /\ events[id].confirmations \in Nat /\ ConfirmScans \in Nat
          /\ events[id].status \in {"candidate", "confirmed"}
          /\ events[id].status = "confirmed" <=> events[id].confirmations >= ConfirmScans
      BY <1>1, <1>3, <2>1, ConfirmScansAssumption
         DEF Event, ConfirmedByCount, OpenAt, IsOpen, OpenStatuses
    <3>2. QED
      BY <2>2, <2>4, <3>1
  <2>7. Continues(a, v, id, e, tr)
    BY <2>1, <2>2, <2>3, <2>4, <2>5, <2>6 DEF Continues
  <2>8. QED
    BY <2>2, <2>4, <2>7
<1>6. ASSUME NEW id \in DOMAIN events, ClosingStep(a, v, id)
      PROVE  \E e \in Event, tr \in Transitions : Closes(a, v, id, e, tr)
  <2>. DEFINE i == InvalidatedEvent(events[id], Now, Now)
              r == ResolvedEvent(events[id], Now, Now)
  <2>1. /\ ~Anomalous(v) /\ OpenAt(id, a) /\ events[id] \in Event
        /\ Stored(id, i, "invalidated", v) \/ Stored(id, r, "resolved", v)
    BY <1>3, <1>6 DEF ClosingStep
  <2>2. \A c \in {i, r} :
          /\ c \in Event
          /\ ~IsOpen(c)
          /\ c.rwaId = events[id].rwaId /\ c.kind = events[id].kind
          /\ c.firstSeenAt = events[id].firstSeenAt /\ c.lastSeenAt = events[id].lastSeenAt
          /\ c.confirmations = events[id].confirmations
          /\ c.maxDeviation = events[id].maxDeviation
          /\ c.resolvedAt = Now
    <3>1. events[id] \in Event /\ Now \in Nat \ {0}
      BY <1>2, <2>1
    <3>. QED
      BY <3>1, ClosedEventFacts, ZenonT(30)
  <2>3. i.status = "invalidated" /\ r.status = "resolved"
    BY <2>1, Zenon DEF InvalidatedEvent, ResolvedEvent, Event
  <2>. HIDE DEF i, r
  <2>4. PICK e \in {i, r}, tr \in {"invalidated", "resolved"} :
          Stored(id, e, tr, v) /\ e.status = tr
    BY <2>1, <2>3
  <2>5. /\ e \in Event /\ ~IsOpen(e) /\ e.rwaId = events[id].rwaId
        /\ e.confirmations = events[id].confirmations
        /\ e.firstSeenAt = events[id].firstSeenAt /\ e.lastSeenAt = events[id].lastSeenAt
        /\ e.maxDeviation = events[id].maxDeviation /\ e.resolvedAt = Now
    BY <2>2, Zenon
  <2>6. tr \in Transitions /\ tr \in ClosedStatuses /\ id \in 1 .. Len(events) + 1
    BY <1>3 DEF Transitions, ClosedStatuses
  <2>7. Wrote(id, e, tr, v)
    BY <1>1, <1>2, <2>4, <2>5, <2>6, StoredWrote
  <2>8. Closes(a, v, id, e, tr)
    BY <2>1, <2>4, <2>5, <2>6, <2>7 DEF Closes, OpenAt
  <2>9. QED
    BY <2>5, <2>6, <2>8
<1>7. QED
  BY <1>2, <1>3, <1>4, <1>5, <1>6

-----------------------------------------------------------------------------
(***************************************************************************)
(* Certificates.  A receipt is written with the "confirmed" row, and the   *)
(* count passes ConfirmScans once: what the induction adds is that rows    *)
(* speak of events that exist, so that a new event starts without any.     *)
(***************************************************************************)
RowsRefer ==
  /\ \A k \in DOMAIN receipts : receipts[k].eventId \in DOMAIN events
  /\ \A k \in DOMAIN transitions : transitions[k].eventId \in DOMAIN events

CertInv == Inv /\ RowsRefer /\ CertifiedOnce

CertsOf(i) == {k \in DOMAIN receipts : receipts[k].eventId = i}
CertifiedAt(i) == {receipts[k].snapshot : k \in CertsOf(i)}
ConfirmedAt(i) == {transitions[t].snapshot : t \in TransitionsOf(i, {"confirmed"})}

LEMMA SequenceGrows ==
  ASSUME NEW S, NEW rows \in Seq(S), NEW row \in S
  PROVE  /\ Len(rows) + 1 \in Nat /\ Len(rows) + 1 \notin DOMAIN rows
         /\ DOMAIN Append(rows, row) = DOMAIN rows \cup {Len(rows) + 1}
         /\ Append(rows, row)[Len(rows) + 1] = row
         /\ \A k \in DOMAIN rows : Append(rows, row)[k] = rows[k] /\ k < Len(rows) + 1
  OBVIOUS

\* What Wrote adds to the two logs.
LEMMA LogsGrow ==
  ASSUME TypeOK, NEW id \in Nat \ {0}, NEW e, NEW tr, NEW v, Wrote(id, e, tr, v)
  PROVE  /\ IF tr = "confirmed"
            THEN /\ \A i : CertsOf(i)' = IF i = id THEN CertsOf(i) \cup {Len(receipts) + 1}
                                                   ELSE CertsOf(i)
                 /\ Len(receipts) + 1 \in Nat /\ Len(receipts) + 1 \notin DOMAIN receipts
                 /\ \A i : CertifiedAt(i)' = IF i = id THEN CertifiedAt(i) \cup {Now}
                                                       ELSE CertifiedAt(i)
                 /\ \A i : ConfirmedAt(i)' = IF i = id THEN ConfirmedAt(i) \cup {Now}
                                                       ELSE ConfirmedAt(i)
            ELSE \A i : /\ CertsOf(i)' = CertsOf(i)
                        /\ CertifiedAt(i)' = CertifiedAt(i)
                        /\ ConfirmedAt(i)' = ConfirmedAt(i)
         /\ RowsRefer => RowsRefer'
<1>1. PICK row \in Transition : /\ row.eventId = id /\ row.transition = tr
                                /\ row.snapshot = Now
                                /\ transitions' = Append(transitions, row)
  BY DEF Wrote
<1> DEFINE n == Len(transitions) + 1
           m == Len(receipts) + 1
           Receipt == [eventId : Nat \ {0}, snapshot : Nat \ {0}]
           r == [eventId |-> id, snapshot |-> Now]
<1>2. transitions \in Seq(Transition) /\ receipts \in Seq(Receipt) /\ r \in Receipt
  BY DEF TypeOK, Now
<1>3. r.eventId = id /\ r.snapshot = Now
  OBVIOUS
<1>4. /\ n \notin DOMAIN transitions
      /\ DOMAIN transitions' = DOMAIN transitions \cup {n}
      /\ transitions'[n] = row
      /\ \A k \in DOMAIN transitions : transitions'[k] = transitions[k]
  <2> HIDE DEF Receipt
  <2>1. QED
    BY <1>1, <1>2, SequenceGrows
<1>5. IF tr = "confirmed"
      THEN /\ m \notin DOMAIN receipts /\ m \in Nat
           /\ DOMAIN receipts' = DOMAIN receipts \cup {m}
           /\ receipts'[m] = r
           /\ \A k \in DOMAIN receipts : receipts'[k] = receipts[k]
      ELSE receipts' = receipts
  <2>1. receipts' = IF tr = "confirmed" THEN Append(receipts, r) ELSE receipts
    BY DEF Wrote
  <2> HIDE DEF Receipt, r
  <2>2. QED
    BY <1>2, <2>1, SequenceGrows
<1>6. id \in DOMAIN events' /\ DOMAIN events \subseteq DOMAIN events'
  BY DEF Wrote
<1> HIDE DEF n, m, r, Receipt
<1>7. RowsRefer => RowsRefer'
  BY <1>1, <1>3, <1>4, <1>5, <1>6 DEF RowsRefer
<1>8. \A i : TransitionsOf(i, {"confirmed"})' =
               IF i = id /\ tr = "confirmed" THEN TransitionsOf(i, {"confirmed"}) \cup {n}
                                             ELSE TransitionsOf(i, {"confirmed"})
  BY <1>1, <1>4 DEF TransitionsOf
<1>9. ASSUME NEW i
      PROVE  ConfirmedAt(i)' = IF i = id /\ tr = "confirmed" THEN ConfirmedAt(i) \cup {Now}
                                                             ELSE ConfirmedAt(i)
  <2>1. /\ TransitionsOf(i, {"confirmed"}) \subseteq DOMAIN transitions
        /\ transitions'[n].snapshot = Now
        /\ \A k \in TransitionsOf(i, {"confirmed"}) :
             transitions'[k].snapshot = transitions[k].snapshot
    BY <1>1, <1>4 DEF TransitionsOf
  <2>2. CASE i = id /\ tr = "confirmed"
    BY <1>8, <2>1, <2>2 DEF ConfirmedAt
  <2>3. CASE ~(i = id /\ tr = "confirmed")
    <3>1. TransitionsOf(i, {"confirmed"})' = TransitionsOf(i, {"confirmed"})
      BY <1>8, <2>3
    <3>2. ConfirmedAt(i)' = ConfirmedAt(i)
      BY <2>1, <3>1 DEF ConfirmedAt
    <3>3. QED
      BY <2>3, <3>2
  <2>4. QED
    BY <2>2, <2>3
<1>10. CASE tr = "confirmed"
  <2>1. \A i : CertsOf(i)' = IF i = id THEN CertsOf(i) \cup {m} ELSE CertsOf(i)
    BY <1>3, <1>5, <1>10 DEF CertsOf
  <2>2. ASSUME NEW i
        PROVE  CertifiedAt(i)' = IF i = id THEN CertifiedAt(i) \cup {Now} ELSE CertifiedAt(i)
    <3>1. /\ CertsOf(i) \subseteq DOMAIN receipts
          /\ receipts'[m].snapshot = Now
          /\ \A k \in CertsOf(i) : receipts'[k].snapshot = receipts[k].snapshot
      BY <1>3, <1>5, <1>10 DEF CertsOf
    <3>2. QED
      BY <2>1, <3>1 DEF CertifiedAt
  <2>3. QED
    BY <1>5, <1>7, <1>9, <1>10, <2>1, <2>2 DEF m
<1>11. CASE tr # "confirmed"
  BY <1>5, <1>7, <1>9, <1>11 DEF CertsOf, CertifiedAt
<1>12. QED
  BY <1>10, <1>11

LEMMA CertStep ==
  ASSUME CertInv, NEW a \in Assets, NEW v \in Verdicts, ProcessEntry(a, v)
  PROVE  CertInv'
<1>1. Inv /\ RowsRefer /\ CertifiedOnce /\ TypeOK
  BY DEF CertInv, Inv
<1>2. Inv'
  BY <1>1, StepInv
<1> DEFINE Once(i, n) == /\ (CertsOf(i) # {}) <=> (n >= ConfirmScans)
                         /\ \A k, m \in CertsOf(i) : k = m
                         /\ CertifiedAt(i) = ConfirmedAt(i)
<1>3. \A i \in DOMAIN events : Once(i, events[i].confirmations)
  BY <1>1 DEF CertifiedOnce, CertsOf, CertifiedAt, ConfirmedAt
<1>4. \A i : i \notin DOMAIN events => /\ CertsOf(i) = {}
                                       /\ CertifiedAt(i) = {} /\ ConfirmedAt(i) = {}
  BY <1>1 DEF RowsRefer, CertsOf, CertifiedAt, ConfirmedAt, TransitionsOf
<1>5. CASE QuietStep(a, v)
  BY <1>1, <1>2, <1>5 DEF QuietStep, CertInv, RowsRefer, CertifiedOnce, TransitionsOf
<1>6. ASSUME NEW id \in Nat, NEW e \in Event, NEW tr \in Transitions,
             \/ Opens(a, v, id, e, tr)
             \/ Continues(a, v, id, e, tr)
             \/ Closes(a, v, id, e, tr)
      PROVE  CertInv'
  <2>1. Wrote(id, e, tr, v)
    BY <1>6 DEF Opens, Continues, Closes
  <2>2. /\ DOMAIN events' = DOMAIN events \cup {id}
        /\ events'[id] = e
        /\ \A i \in DOMAIN events \ {id} : events'[i] = events[i]
    BY <2>1 DEF Wrote
  <2>3. /\ id \in Nat \ {0}
        /\ \A i \in DOMAIN events : events[i].confirmations \in Nat
    <3>1. events' \in Seq(Event) /\ events \in Seq(Event)
      BY <1>1, <1>2 DEF Inv, TypeOK
    <3>2. DOMAIN events' = 1 .. Len(events') /\ id \in DOMAIN events'
      BY <2>2, <3>1
    <3>3. id \in Nat \ {0} /\ \A i \in DOMAIN events : events[i] \in Event
      BY <3>1, <3>2
    <3>4. QED
      BY <3>3 DEF Event
  <2>4. /\ ConfirmScans \in Nat \ {0} /\ e.confirmations \in Nat
    BY ConfirmScansAssumption DEF Event
  <2>5. RowsRefer'
    BY <1>1, <2>1, <2>3, LogsGrow
  \* The confirmation is the step at which the count is reached, or none is.
  <2>6. IF tr = "confirmed"
        THEN /\ e.confirmations >= ConfirmScans
             /\ CertsOf(id) = {} /\ CertifiedAt(id) = ConfirmedAt(id)
        ELSE Once(id, e.confirmations)
    <3>1. CASE Opens(a, v, id, e, tr)
      <4>1. id \notin DOMAIN events /\ e.confirmations = 1
            /\ (tr = "confirmed" <=> ConfirmScans = 1)
        BY <3>1 DEF Opens
      <4>2. CertsOf(id) = {} /\ CertifiedAt(id) = ConfirmedAt(id)
        BY <1>4, <4>1
      <4>3. QED
        BY <2>4, <4>1, <4>2
    <3>2. CASE Continues(a, v, id, e, tr)
      <4>1. /\ id \in DOMAIN events /\ e.confirmations = events[id].confirmations + 1
            /\ tr = "confirmed" <=> events[id].confirmations + 1 = ConfirmScans
        BY <3>2 DEF Continues, OpenAt
      <4>2. Once(id, events[id].confirmations) /\ events[id].confirmations \in Nat
        BY <1>3, <2>3, <4>1
      <4>3. QED
        BY <2>4, <4>1, <4>2
    <3>3. CASE Closes(a, v, id, e, tr)
      <4>1. /\ id \in DOMAIN events /\ e.confirmations = events[id].confirmations
            /\ tr # "confirmed"
        BY <3>3 DEF Closes, OpenAt, ClosedStatuses
      <4>2. Once(id, events[id].confirmations)
        BY <1>3, <4>1
      <4>3. QED
        BY <4>1, <4>2
    <3>4. QED
      BY <1>6, <3>1, <3>2, <3>3
  <2>7. ASSUME NEW i \in DOMAIN events'
        PROVE  /\ (CertsOf(i)' # {}) <=> (events'[i].confirmations >= ConfirmScans)
               /\ \A k, m \in CertsOf(i)' : k = m
               /\ CertifiedAt(i)' = ConfirmedAt(i)'
    <3>1. CASE i = id /\ tr = "confirmed"
      <4>1. /\ CertsOf(i)' = {} \cup {Len(receipts) + 1}
            /\ CertifiedAt(i)' = CertifiedAt(i) \cup {Now}
            /\ ConfirmedAt(i)' = ConfirmedAt(i) \cup {Now}
        BY <1>1, <2>1, <2>3, <2>6, <3>1, LogsGrow
      <4>2. QED
        BY <2>2, <2>6, <3>1, <4>1
    <3>2. CASE ~(i = id /\ tr = "confirmed")
      <4>1. /\ CertsOf(i)' = CertsOf(i)
            /\ CertifiedAt(i)' = CertifiedAt(i) /\ ConfirmedAt(i)' = ConfirmedAt(i)
        BY <1>1, <2>1, <2>3, <3>2, LogsGrow
      <4>2. Once(i, events'[i].confirmations)
        <5>1. CASE i = id
          BY <2>2, <2>6, <3>2, <5>1
        <5>2. CASE i # id
          BY <1>3, <2>2, <2>7, <5>2
        <5>3. QED
          BY <5>1, <5>2
      <4>3. QED
        BY <4>1, <4>2
    <3>3. QED
      BY <3>1, <3>2
  <2>8. CertifiedOnce'
    BY <2>7 DEF CertifiedOnce, CertsOf, CertifiedAt, ConfirmedAt
  <2>9. QED
    BY <1>2, <2>5, <2>8 DEF CertInv
<1>7. QED
  BY <1>1, <1>5, <1>6, Outcomes

\* The certificates stay what they are from the first scan to the last.
LEMMA SpecCertInv == Spec => []CertInv
<1>1. Init => CertInv
  BY InitInv DEF Init, CertInv, RowsRefer, CertifiedOnce
<1>2. CertInv /\ [Next]_vars => CertInv'
  <2> SUFFICES ASSUME CertInv, [Next]_vars PROVE CertInv'
    OBVIOUS
  <2>1. CASE Next
    BY <2>1, CertStep DEF Next
  <2>2. CASE UNCHANGED vars
    <3>1. Inv'
      BY <2>2, NextInv DEF CertInv
    <3>2. RowsRefer' /\ CertifiedOnce'
      BY <2>2 DEF vars, CertInv, RowsRefer, CertifiedOnce, TransitionsOf
    <3>3. QED
      BY <3>1, <3>2 DEF CertInv
  <2>3. QED
    BY <2>1, <2>2
<1>3. QED
  BY <1>1, <1>2, PTL DEF Spec

\* An event earns its investigation and receipt once, with the snapshot
\* that confirmed it, exactly when it reaches ConfirmScans confirmations.
THEOREM CertificateEarnedOnce == Spec => []CertifiedOnce
<1>1. CertInv => CertifiedOnce
  BY DEF CertInv
<1>2. QED
  BY <1>1, SpecCertInv, PTL

-----------------------------------------------------------------------------
(***************************************************************************)
(* The run.  Each scan of an asset extends its run by one snapshot or ends *)
(* it, and the event of the run, if there is one, is its summary.          *)
(***************************************************************************)

\* Event e is what the run R says.
Summary(e, R) ==
  /\ e.confirmations = Cardinality(R)
  /\ e.firstSeenAt \in R
  /\ e.lastSeenAt \in R
  /\ e.latestSnapshot = e.lastSeenAt
  /\ \A k \in R : /\ e.firstSeenAt <= k
                  /\ k <= e.lastSeenAt
                  /\ Abs(snapshots[k].verdict.deviation) <= Abs(e.maxDeviation)
  /\ \E k \in R : e.maxDeviation = snapshots[k].verdict.deviation

RunsSummarised ==
  \A a \in Assets :
    \/ Run(a) = {} /\ NothingOpen(a)
    \/ Run(a) # {} /\ \E i \in DOMAIN events : OpenAt(i, a) /\ Summary(events[i], Run(a))

RunInv == Inv /\ RunsSummarised

\* openEventFor finds exactly the open event.
LEMMA ExistingIs ==
  ASSUME TypeOK, OneOpenEvent, NEW a \in Assets
  PROVE  /\ NothingOpen(a) => ExistingId(a) = 0
         /\ \A i \in DOMAIN events : OpenAt(i, a) =>
              ExistingId(a) = i /\ i # 0 /\ Existing(a) = events[i]
<1>1. \A i \in DOMAIN events : i # 0
  BY DEF TypeOK
<1>2. QED
  BY <1>1, LookupFindsOpen DEF NothingOpen, OpenAt, OneOpenEvent, Existing

LEMMA RunAfter ==
  ASSUME TypeOK, NEW a \in Assets, NEW v,
         snapshots' = Append(snapshots, [rwaId |-> a, verdict |-> v]),
         [rwaId |-> a, verdict |-> v] \in [rwaId : Assets, verdict : Verdicts],
         NEW b \in Assets
  PROVE  /\ Run(b)' = IF b # a THEN Run(b)
                      ELSE IF Anomalous(v) THEN Run(b) \cup {Now} ELSE {}
         /\ Now \in Nat /\ Now \notin Run(b)
         /\ IsFiniteSet(Run(b)) /\ Cardinality(Run(b)) \in Nat
         /\ \A k \in Run(b) : k \in Nat /\ k < Now /\ snapshots'[k] = snapshots[k]
                              /\ snapshots[k].verdict \in Verdicts
         /\ snapshots'[Now].verdict = v
<1> DEFINE Snapshot == [rwaId : Assets, verdict : Verdicts]
           row == [rwaId |-> a, verdict |-> v]
<1>1. snapshots \in Seq(Snapshot) /\ row \in Snapshot /\ snapshots' = Append(snapshots, row)
  BY DEF TypeOK
<1>2. row.rwaId = a /\ row.verdict = v
  OBVIOUS
<1>3. \A s \in Snapshot : s.verdict \in Verdicts
  OBVIOUS
<1> HIDE DEF Snapshot, row
<1>4. /\ Len(snapshots) \in Nat /\ DOMAIN snapshots = 1 .. Len(snapshots)
      /\ Len(snapshots') = Now /\ DOMAIN snapshots' = 1 .. Now
      /\ snapshots'[Now] = row
      /\ \A k \in 1 .. Len(snapshots) : snapshots'[k] = snapshots[k]
      /\ \A k \in 1 .. Len(snapshots) : snapshots[k] \in Snapshot
  BY <1>1 DEF Now
<1>5. Now \in Nat /\ Now = Len(snapshots) + 1
  BY <1>4 DEF Now
<1>6. Run(b) \subseteq 1 .. Len(snapshots)
  BY <1>4 DEF Run
<1>7. IsFiniteSet(Run(b)) /\ Cardinality(Run(b)) \in Nat
  <2>1. IsFiniteSet(1 .. Len(snapshots))
    BY <1>4, FS_Interval
  <2>2. QED
    BY <1>6, <2>1, FS_Subset, FS_CardinalityType
<1>8. \A k \in Run(b) : k \in Nat /\ k < Now /\ snapshots'[k] = snapshots[k]
                        /\ snapshots[k].verdict \in Verdicts
  BY <1>3, <1>4, <1>5, <1>6
<1>9. Run(b)' = {k \in 1 .. Now :
                   /\ snapshots'[k].rwaId = b
                   /\ \A j \in k .. Now :
                        snapshots'[j].rwaId = b => Anomalous(snapshots'[j].verdict)}
  BY <1>4 DEF Run
<1>10. Run(b) = {k \in 1 .. Len(snapshots) :
                   /\ snapshots[k].rwaId = b
                   /\ \A j \in k .. Len(snapshots) :
                        snapshots[j].rwaId = b => Anomalous(snapshots[j].verdict)}
  BY <1>4 DEF Run
<1>11. ASSUME NEW k \in 1 .. Len(snapshots)
       PROVE  k \in Run(b)' <=> k \in Run(b) /\ (b = a => Anomalous(v))
  <2>1. /\ k \in 1 .. Now /\ snapshots'[k] = snapshots[k]
        /\ Now \in k .. Now
        /\ \A j \in k .. Now : j = Now \/ (j \in k .. Len(snapshots)
                                           /\ snapshots'[j] = snapshots[j])
        /\ k .. Len(snapshots) \subseteq k .. Now
    BY <1>4, <1>5
  <2>2. (\A j \in k .. Now : snapshots'[j].rwaId = b => Anomalous(snapshots'[j].verdict))
        <=> /\ \A j \in k .. Len(snapshots) :
                 snapshots[j].rwaId = b => Anomalous(snapshots[j].verdict)
            /\ b = a => Anomalous(v)
    BY <1>2, <1>4, <1>5, <2>1
  <2>3. QED
    BY <1>9, <1>10, <2>1, <2>2
<1>12. Now \in Run(b)' <=> b = a /\ Anomalous(v)
  <2>1. Now \in 1 .. Now /\ \A j \in Now .. Now : j = Now
    BY <1>4, <1>5
  <2>2. QED
    BY <1>2, <1>4, <1>9, <2>1
<1>13. Run(b)' \subseteq 1 .. Len(snapshots) \cup {Now}
  BY <1>4, <1>5, <1>9
<1>14. Run(b)' = IF b # a THEN Run(b)
                 ELSE IF Anomalous(v) THEN Run(b) \cup {Now} ELSE {}
  <2>1. CASE b # a
    <3>1. \A k \in 1 .. Len(snapshots) : k \in Run(b)' <=> k \in Run(b)
      BY <1>11, <2>1
    <3>2. Run(b)' \subseteq 1 .. Len(snapshots)
      BY <1>12, <1>13, <2>1
    <3>3. Run(b)' = Run(b)
      BY <1>6, <3>1, <3>2
    <3>4. QED
      BY <2>1, <3>3
  <2>2. CASE b = a /\ Anomalous(v)
    BY <1>6, <1>11, <1>12, <1>13, <2>2
  <2>3. CASE b = a /\ ~Anomalous(v)
    BY <1>11, <1>12, <1>13, <2>3
  <2>4. QED
    BY <2>1, <2>2, <2>3
<1>15. Now \notin Run(b) /\ snapshots'[Now].verdict = v
  <2>1. Now \notin 1 .. Len(snapshots)
    BY <1>4, <1>5
  <2>2. QED
    BY <1>2, <1>4, <1>6, <2>1
<1>16. QED
  BY <1>5, <1>7, <1>8, <1>14, <1>15

LEMMA RunStep ==
  ASSUME RunInv, NEW a \in Assets, NEW v \in Verdicts, ProcessEntry(a, v)
  PROVE  RunInv'
<1>1. Inv /\ Inv' /\ TypeOK /\ OneOpenEvent /\ RunsSummarised
  BY StepInv DEF RunInv, Inv
<1>2. snapshots' = Append(snapshots, [rwaId |-> a, verdict |-> v])
  BY <1>1, ProcessEntryCases
<1>3. [rwaId |-> a, verdict |-> v] \in [rwaId : Assets, verdict : Verdicts]
  OBVIOUS
<1>4. ASSUME NEW b \in Assets
      PROVE  /\ Run(b)' = IF b # a THEN Run(b)
                          ELSE IF Anomalous(v) THEN Run(b) \cup {Now} ELSE {}
             /\ Now \in Nat /\ Now \notin Run(b)
             /\ IsFiniteSet(Run(b)) /\ Cardinality(Run(b)) \in Nat
             /\ \A k \in Run(b) : k \in Nat /\ k < Now /\ snapshots'[k] = snapshots[k]
                                  /\ snapshots[k].verdict \in Verdicts
             /\ snapshots'[Now].verdict = v
  BY <1>1, <1>2, <1>3, RunAfter
<1>5. \A w \in Verdicts : w.deviation \in Int
  BY VerdictsAssumption DEF WellFormed, Verdict
<1>6. \A i \in DOMAIN events :
        events[i].confirmations \in Nat /\ events[i].maxDeviation \in Int
  <2>1. \A i \in DOMAIN events : events[i] \in Event
    BY <1>1 DEF TypeOK
  <2>2. QED
    BY <2>1 DEF Event
\* The other assets do not notice.
<1>7. ASSUME NEW b \in Assets, b # a,
             NothingOpen(b) => NothingOpen(b)',
             \A i \in DOMAIN events : OpenAt(i, b) => OpenAt(i, b)' /\ events'[i] = events[i]
      PROVE  \/ Run(b)' = {} /\ NothingOpen(b)'
             \/ Run(b)' # {} /\ \E i \in DOMAIN events' : OpenAt(i, b)' /\ Summary(events[i], Run(b))'
  <2>1. Run(b)' = Run(b) /\ \A k \in Run(b) : snapshots'[k] = snapshots[k]
    BY <1>4, <1>7
  <2>2. CASE Run(b) = {} /\ NothingOpen(b)
    BY <1>7, <2>1, <2>2
  <2>3. ASSUME NEW i \in DOMAIN events, OpenAt(i, b), Summary(events[i], Run(b))
        PROVE  i \in DOMAIN events' /\ OpenAt(i, b)' /\ Summary(events[i], Run(b))'
    <3>1. OpenAt(i, b)' /\ events'[i] = events[i]
      BY <1>7, <2>3
    <3>2. Summary(events[i], Run(b))'
      BY <2>1, <2>3, <3>1 DEF Summary
    <3>3. QED
      BY <3>1, <3>2 DEF OpenAt
  <2>4. QED
    BY <1>1, <2>1, <2>2, <2>3 DEF RunsSummarised
<1>8. CASE QuietStep(a, v)
  <2>1. events' = events /\ ~Anomalous(v) /\ NothingOpen(a)
    BY <1>8 DEF QuietStep
  <2>2. /\ \A b : NothingOpen(b)' <=> NothingOpen(b)
        /\ \A b, i : OpenAt(i, b)' <=> OpenAt(i, b)
    BY <2>1 DEF NothingOpen, OpenAt
  <2>3. Run(a)' = {}
    BY <1>4, <2>1
  <2>4. RunsSummarised'
    BY <1>7, <2>1, <2>2, <2>3 DEF RunsSummarised
  <2>5. QED
    BY <1>1, <2>4 DEF RunInv
<1>9. ASSUME NEW id \in Nat, NEW e \in Event, NEW tr \in Transitions,
             \/ Opens(a, v, id, e, tr)
             \/ Continues(a, v, id, e, tr)
             \/ Closes(a, v, id, e, tr)
      PROVE  RunInv'
  <2>1. /\ DOMAIN events' = DOMAIN events \cup {id}
        /\ events'[id] = e /\ e.rwaId = a
        /\ \A i \in DOMAIN events \ {id} : events'[i] = events[i]
        /\ id \in DOMAIN events => events[id].rwaId = a
    BY <1>9 DEF Opens, Continues, Closes, Wrote, OpenAt
  <2>2. ASSUME NEW b \in Assets, b # a
        PROVE  /\ NothingOpen(b) => NothingOpen(b)'
               /\ \A i \in DOMAIN events : OpenAt(i, b) => OpenAt(i, b)' /\ events'[i] = events[i]
    BY <2>1, <2>2 DEF NothingOpen, OpenAt
  <2>3. \/ Run(a)' = {} /\ NothingOpen(a)'
        \/ Run(a)' # {} /\ OpenAt(id, a)' /\ Summary(e, Run(a))'
    <3>1. CASE Opens(a, v, id, e, tr)
      <4>1. /\ Anomalous(v) /\ NothingOpen(a) /\ IsOpen(e) /\ e.confirmations = 1
            /\ e.firstSeenAt = Now /\ e.lastSeenAt = Now /\ e.latestSnapshot = Now
            /\ e.maxDeviation = v.deviation
        BY <3>1 DEF Opens
      <4>2. Run(a) = {}
        BY <1>1, <4>1 DEF RunsSummarised, NothingOpen, OpenAt
      <4>3. Run(a)' = {Now} /\ Now \in Nat /\ snapshots'[Now].verdict = v
        BY <1>4, <4>1, <4>2
      <4>4. Cardinality({Now}) = 1
        BY FS_Singleton
      <4>5. v.deviation \in Int /\ Abs(v.deviation) <= Abs(v.deviation)
        BY <1>5 DEF Abs
      <4>6. Summary(e, Run(a))'
        BY <4>1, <4>3, <4>4, <4>5 DEF Summary
      <4>7. QED
        BY <2>1, <4>1, <4>3, <4>6 DEF OpenAt
    <3>2. CASE Continues(a, v, id, e, tr)
      <4>1. /\ Anomalous(v) /\ OpenAt(id, a) /\ IsOpen(e)
            /\ e.confirmations = events[id].confirmations + 1
            /\ e.firstSeenAt = events[id].firstSeenAt
            /\ e.lastSeenAt = Now /\ e.latestSnapshot = Now
            /\ e.maxDeviation = Peak(v.deviation, events[id].maxDeviation)
        BY <3>2 DEF Continues
      <4>2. Run(a) # {} /\ Summary(events[id], Run(a))
        BY <1>1, <4>1 DEF RunsSummarised, NothingOpen, OpenAt, OneOpenEvent
      <4>3. /\ Run(a)' = Run(a) \cup {Now} /\ Now \in Nat /\ Now \notin Run(a)
            /\ IsFiniteSet(Run(a)) /\ snapshots'[Now].verdict = v
            /\ \A k \in Run(a) : k \in Nat /\ k < Now /\ snapshots'[k] = snapshots[k]
                                 /\ snapshots[k].verdict \in Verdicts
        BY <1>4, <4>1
      <4>4. Cardinality(Run(a)') = Cardinality(Run(a)) + 1
        BY <4>3, FS_AddElement
      <4>5. /\ v.deviation \in Int /\ events[id].maxDeviation \in Int
            /\ Abs(v.deviation) <= Abs(e.maxDeviation)
            /\ Abs(events[id].maxDeviation) <= Abs(e.maxDeviation)
            /\ e.maxDeviation \in {v.deviation, events[id].maxDeviation}
        BY <1>5, <1>6, <4>1 DEF OpenAt, Peak, Abs
      <4>6. ASSUME NEW k \in Run(a)'
            PROVE  /\ e.firstSeenAt <= k
                   /\ k <= e.lastSeenAt
                   /\ Abs(snapshots'[k].verdict.deviation) <= Abs(e.maxDeviation)
        <5>1. CASE k = Now
          <6>1. events[id].firstSeenAt \in Run(a)
            BY <4>2 DEF Summary
          <6>2. QED
            BY <4>1, <4>3, <4>5, <5>1, <6>1
        <5>2. CASE k \in Run(a)
          <6>1. /\ events[id].firstSeenAt <= k
                /\ Abs(snapshots[k].verdict.deviation) <= Abs(events[id].maxDeviation)
            BY <4>2, <5>2 DEF Summary
          <6>2. /\ snapshots'[k] = snapshots[k] /\ k <= Now
                /\ snapshots[k].verdict.deviation \in Int
            BY <1>5, <4>3, <5>2
          <6>3. /\ Abs(snapshots[k].verdict.deviation) \in Int
                /\ Abs(events[id].maxDeviation) \in Int /\ Abs(e.maxDeviation) \in Int
            BY <4>5, <6>2 DEF Abs
          <6>4. Abs(snapshots[k].verdict.deviation) <= Abs(e.maxDeviation)
            BY <4>5, <6>1, <6>3
          <6>5. QED
            BY <4>1, <6>1, <6>2, <6>4
        <5>3. QED
          BY <4>3, <5>1, <5>2
      <4>7. \E k \in Run(a)' : e.maxDeviation = snapshots'[k].verdict.deviation
        <5>1. PICK k \in Run(a) : events[id].maxDeviation = snapshots[k].verdict.deviation
          BY <4>2 DEF Summary
        <5>2. k \in Run(a)' /\ Now \in Run(a)' /\ snapshots'[k] = snapshots[k]
          BY <4>3
        <5>3. QED
          BY <4>3, <4>5, <5>1, <5>2
      <4>8. /\ e.confirmations = Cardinality(Run(a)')
            /\ e.firstSeenAt \in Run(a)' /\ e.lastSeenAt \in Run(a)'
            /\ e.latestSnapshot = e.lastSeenAt
        BY <4>1, <4>2, <4>3, <4>4 DEF Summary
      <4>9. Summary(e, Run(a))'
        BY <4>6, <4>7, <4>8 DEF Summary
      <4>10. QED
        BY <2>1, <4>1, <4>3, <4>9 DEF OpenAt
    <3>3. CASE Closes(a, v, id, e, tr)
      <4>1. ~Anomalous(v) /\ OpenAt(id, a) /\ ~IsOpen(e)
        BY <3>3 DEF Closes
      <4>2. Run(a)' = {}
        BY <1>4, <4>1
      <4>3. NothingOpen(a)'
        BY <1>1, <2>1, <4>1 DEF NothingOpen, OpenAt, OneOpenEvent
      <4>4. QED
        BY <4>2, <4>3
    <3>4. QED
      BY <1>9, <3>1, <3>2, <3>3
  <2>4. RunsSummarised'
    <3>1. \/ Run(a)' = {} /\ NothingOpen(a)'
          \/ Run(a)' # {} /\ \E i \in DOMAIN events' : OpenAt(i, a)' /\ Summary(events[i], Run(a))'
      BY <2>1, <2>3
    <3>2. QED
      BY <1>7, <2>2, <3>1 DEF RunsSummarised
  <2>5. QED
    BY <1>1, <2>4 DEF RunInv
<1>10. QED
  BY <1>1, <1>8, <1>9, Outcomes

LEMMA SpecRunInv == Spec => []RunInv
<1>1. Init => RunInv
  BY InitInv DEF Init, RunInv, RunsSummarised, Run, NothingOpen
<1>2. RunInv /\ [Next]_vars => RunInv'
  <2> SUFFICES ASSUME RunInv, [Next]_vars PROVE RunInv'
    OBVIOUS
  <2>1. CASE Next
    BY <2>1, RunStep DEF Next
  <2>2. CASE UNCHANGED vars
    <3>1. Inv'
      BY <2>2, NextInv DEF RunInv
    <3>2. /\ events' = events
          /\ \A a : Run(a)' = Run(a) /\ (NothingOpen(a)' <=> NothingOpen(a))
          /\ \A a, i : OpenAt(i, a)' <=> OpenAt(i, a)
          /\ \A a, i : Summary(events[i], Run(a))' <=> Summary(events[i], Run(a))
      BY <2>2 DEF vars, Run, NothingOpen, OpenAt, Summary
    <3>3. RunsSummarised'
      BY <3>2 DEF RunInv, RunsSummarised
    <3>4. QED
      BY <3>1, <3>3 DEF RunInv
  <2>3. QED
    BY <2>1, <2>2
<1>3. QED
  BY <1>1, <1>2, PTL DEF Spec

\* An asset has an open event exactly while its run is non-empty, and the
\* event counts the run, dates its ends and holds its peak.
THEOREM EventIsItsRun == Spec => []EventSummarisesRun
<1>1. RunInv => EventSummarisesRun
  <2> SUFFICES ASSUME RunInv, NEW a \in Assets
               PROVE  /\ (Run(a) # {}) <=> (ExistingId(a) # 0)
                      /\ Run(a) # {} => Summary(Existing(a), Run(a))
    BY DEF EventSummarisesRun, Summary
  <2>1. TypeOK /\ OneOpenEvent
    BY DEF RunInv, Inv
  <2>2. CASE Run(a) = {} /\ NothingOpen(a)
    BY <2>1, <2>2, ExistingIs
  <2>3. ASSUME Run(a) # {}, NEW i \in DOMAIN events, OpenAt(i, a), Summary(events[i], Run(a))
        PROVE  ExistingId(a) # 0 /\ Summary(Existing(a), Run(a))
    BY <2>1, <2>3, ExistingIs
  <2>4. QED
    BY <2>2, <2>3 DEF RunInv, RunsSummarised
<1>2. QED
  BY <1>1, SpecRunInv, PTL

-----------------------------------------------------------------------------
(***************************************************************************)
(* The lifecycle implements Incident: a scan of an asset is an anomalous   *)
(* or a clean scan of it there, and nothing for the other assets.          *)
(***************************************************************************)
RunOf(a)   == IF ExistingId(a) = 0 THEN 0 ELSE Existing(a).confirmations
PhaseNow(a) == IF ExistingId(a) = 0 THEN "quiet" ELSE Existing(a).status
EarnedBy(a) == {k \in DOMAIN receipts : events[receipts[k].eventId].rwaId = a}

\* What the refinement mapping sees of an asset.
MappingReads ==
  TypeOK /\ OneOpenEvent =>
    \A a \in Assets :
      /\ NothingOpen(a) => RunOf(a) = 0 /\ PhaseNow(a) = "quiet"
      /\ \A i \in DOMAIN events : OpenAt(i, a) =>
           RunOf(a) = events[i].confirmations /\ PhaseNow(a) = events[i].status
      /\ NothingOpen(a) \/ \E i \in DOMAIN events : OpenAt(i, a)

LEMMA Reads == MappingReads
<1> SUFFICES ASSUME TypeOK, OneOpenEvent, NEW a \in Assets
             PROVE  /\ NothingOpen(a) => RunOf(a) = 0 /\ PhaseNow(a) = "quiet"
                    /\ \A i \in DOMAIN events : OpenAt(i, a) =>
                         RunOf(a) = events[i].confirmations /\ PhaseNow(a) = events[i].status
                    /\ NothingOpen(a) \/ \E i \in DOMAIN events : OpenAt(i, a)
  BY DEF MappingReads
<1>1. QED
  BY ExistingIs DEF RunOf, PhaseNow, NothingOpen, OpenAt

LEMMA ReadsNext == MappingReads'
BY Reads, PTL

\* The receipts of each asset, before and after the step.
LEMMA EarnedAfter ==
  ASSUME TypeOK, RowsRefer, NEW a \in Assets, NEW id \in Nat \ {0}, NEW e, NEW tr, NEW v,
         Wrote(id, e, tr, v), e.rwaId = a,
         id \in DOMAIN events => events[id].rwaId = a, NEW b \in Assets
  PROVE  Cardinality(EarnedBy(b)') =
           IF b = a /\ tr = "confirmed" THEN Cardinality(EarnedBy(b)) + 1
                                        ELSE Cardinality(EarnedBy(b))
<1> DEFINE m == Len(receipts) + 1
           Receipt == [eventId : Nat \ {0}, snapshot : Nat \ {0}]
           r == [eventId |-> id, snapshot |-> Now]
<1>1. receipts \in Seq(Receipt) /\ r \in Receipt /\ r.eventId = id
  BY DEF TypeOK, Now
<1>2. receipts' = IF tr = "confirmed" THEN Append(receipts, r) ELSE receipts
  BY DEF Wrote
<1> HIDE DEF Receipt, r
<1>3. \A i \in DOMAIN events : events'[i].rwaId = events[i].rwaId
  BY DEF Wrote
<1>4. events'[id].rwaId = a
  BY DEF Wrote
<1>5. EarnedBy(b) \subseteq DOMAIN receipts /\ IsFiniteSet(EarnedBy(b))
  <2>1. DOMAIN receipts = 1 .. Len(receipts) /\ Len(receipts) \in Nat
    BY <1>1
  <2>2. IsFiniteSet(1 .. Len(receipts))
    BY <2>1, FS_Interval
  <2>3. QED
    BY <2>1, <2>2, FS_Subset DEF EarnedBy
<1>6. \A k \in DOMAIN receipts :
        events'[receipts[k].eventId].rwaId = events[receipts[k].eventId].rwaId
  BY <1>3 DEF RowsRefer
<1>7. CASE tr = "confirmed"
  <2>1. /\ m \notin DOMAIN receipts
        /\ DOMAIN receipts' = DOMAIN receipts \cup {m}
        /\ receipts'[m] = r
        /\ \A k \in DOMAIN receipts : receipts'[k] = receipts[k]
    BY <1>1, <1>2, <1>7, SequenceGrows
  <2> HIDE DEF m
  <2>2. EarnedBy(b)' = IF b = a THEN EarnedBy(b) \cup {m} ELSE EarnedBy(b)
    BY <1>1, <1>4, <1>6, <2>1 DEF EarnedBy
  <2>3. Cardinality(EarnedBy(b) \cup {m}) = Cardinality(EarnedBy(b)) + 1
    BY <1>5, <2>1, FS_AddElement
  <2>4. QED
    BY <1>7, <2>2, <2>3
<1>8. CASE tr # "confirmed"
  <2>1. EarnedBy(b)' = EarnedBy(b)
    BY <1>2, <1>6, <1>8 DEF EarnedBy
  <2>2. QED
    BY <1>8, <2>1
<1>9. QED
  BY <1>7, <1>8

LEMMA StepRefines ==
  ASSUME CertInv, NEW a \in Assets, NEW v \in Verdicts, ProcessEntry(a, v)
  PROVE  IF Anomalous(v) THEN Promise!AnomalousScan(a) ELSE Promise!CleanScan(a)
<1>1. /\ TypeOK /\ OneOpenEvent /\ ConfirmedByCount /\ RowsRefer /\ Inv
      /\ TypeOK' /\ OneOpenEvent' /\ ConfirmedByCount'
  BY CertStep DEF CertInv, Inv
<1>2. \A b \in Assets :
        /\ NothingOpen(b) => RunOf(b) = 0 /\ PhaseNow(b) = "quiet"
        /\ \A i \in DOMAIN events : OpenAt(i, b) =>
             RunOf(b) = events[i].confirmations /\ PhaseNow(b) = events[i].status
        /\ NothingOpen(b) \/ \E i \in DOMAIN events : OpenAt(i, b)
  BY <1>1, Reads DEF MappingReads
<1>3. \A b \in Assets :
        /\ NothingOpen(b)' => RunOf(b)' = 0 /\ PhaseNow(b)' = "quiet"
        /\ \A i \in DOMAIN events' : OpenAt(i, b)' =>
             RunOf(b)' = events'[i].confirmations /\ PhaseNow(b)' = events'[i].status
  BY <1>1, ReadsNext DEF MappingReads
<1> DEFINE run == [b \in Assets |-> RunOf(b)]
           phase == [b \in Assets |-> PhaseNow(b)]
           earned == [b \in Assets |-> Cardinality(EarnedBy(b))]
<1>4. CASE QuietStep(a, v)
  <2>1. ~Anomalous(v) /\ NothingOpen(a) /\ events' = events /\ receipts' = receipts
    BY <1>4 DEF QuietStep
  <2>2. \A b \in Assets : /\ RunOf(b)' = RunOf(b) /\ PhaseNow(b)' = PhaseNow(b)
                          /\ EarnedBy(b)' = EarnedBy(b)
    BY <2>1 DEF RunOf, PhaseNow, EarnedBy, ExistingId, Existing, OpenIds, MostRecent
  <2>3. RunOf(a) = 0 /\ PhaseNow(a) = "quiet"
    BY <1>2, <2>1
  <2>4. /\ run' = [run EXCEPT ![a] = 0]
        /\ phase' = [phase EXCEPT ![a] = "quiet"]
        /\ earned' = earned
    BY <2>2, <2>3
  <2>5. Promise!CleanScan(a)
    BY <2>4 DEF Promise!CleanScan, RunOf, PhaseNow, EarnedBy
  <2>6. QED
    BY <2>1, <2>5
<1>5. ASSUME NEW id \in Nat, NEW e \in Event, NEW tr \in Transitions,
             \/ Opens(a, v, id, e, tr)
             \/ Continues(a, v, id, e, tr)
             \/ Closes(a, v, id, e, tr)
      PROVE  IF Anomalous(v) THEN Promise!AnomalousScan(a) ELSE Promise!CleanScan(a)
  <2>1. /\ Wrote(id, e, tr, v)
        /\ DOMAIN events' = DOMAIN events \cup {id}
        /\ events'[id] = e /\ e.rwaId = a
        /\ \A i \in DOMAIN events \ {id} : events'[i] = events[i]
        /\ id \in DOMAIN events => events[id].rwaId = a
    BY <1>5 DEF Opens, Continues, Closes, Wrote, OpenAt
  <2>2. id \in Nat \ {0}
    <3>1. events' \in Seq(Event)
      BY <1>1 DEF TypeOK
    <3>2. DOMAIN events' = 1 .. Len(events') /\ id \in DOMAIN events'
      BY <2>1, <3>1
    <3>3. QED
      BY <3>1, <3>2
  <2>3. ASSUME NEW b \in Assets, b # a
        PROVE  RunOf(b)' = RunOf(b) /\ PhaseNow(b)' = PhaseNow(b)
    <3>1. CASE NothingOpen(b)
      <4>1. NothingOpen(b)'
        BY <2>1, <2>3, <3>1 DEF NothingOpen
      <4>2. QED
        BY <1>2, <1>3, <3>1, <4>1
    <3>2. ASSUME NEW i \in DOMAIN events, OpenAt(i, b)
          PROVE  RunOf(b)' = RunOf(b) /\ PhaseNow(b)' = PhaseNow(b)
      <4>1. i \in DOMAIN events' /\ events'[i] = events[i] /\ OpenAt(i, b)'
        BY <2>1, <2>3, <3>2 DEF OpenAt
      <4>2. QED
        BY <1>2, <1>3, <3>2, <4>1
    <3>3. QED
      BY <1>2, <3>1, <3>2
  <2>4. \A b \in Assets : Cardinality(EarnedBy(b)') =
           IF b = a /\ tr = "confirmed" THEN Cardinality(EarnedBy(b)) + 1
                                        ELSE Cardinality(EarnedBy(b))
    BY <1>1, <2>1, <2>2, EarnedAfter
  <2>5. CASE Anomalous(v)
    <3>1. /\ e.confirmations = RunOf(a) + 1 /\ IsOpen(e) /\ RunOf(a) \in Nat
          /\ tr = "confirmed" <=> RunOf(a) + 1 = ConfirmScans
      <4>1. CASE Opens(a, v, id, e, tr)
        BY <1>2, <4>1, ConfirmScansAssumption DEF Opens
      <4>2. CASE Continues(a, v, id, e, tr)
        <5>1. id \in DOMAIN events /\ OpenAt(id, a) /\ events[id] \in Event
          BY <1>1, <4>2 DEF Continues, OpenAt, TypeOK
        <5>2. events[id].confirmations \in Nat
          BY <5>1 DEF Event
        <5>3. QED
          BY <1>2, <4>2, <5>1, <5>2 DEF Continues
      <4>3. QED
        BY <1>5, <2>5, <4>1, <4>2 DEF Closes
    <3>2. OpenAt(id, a)'
      BY <2>1, <3>1 DEF OpenAt
    <3>3. RunOf(a)' = RunOf(a) + 1 /\ PhaseNow(a)' = e.status
      BY <1>3, <2>1, <3>1, <3>2 DEF OpenAt
    <3>4. e.status = IF RunOf(a) + 1 < ConfirmScans THEN "candidate" ELSE "confirmed"
      <4>1. e.status \in {"candidate", "confirmed"}
        BY <3>1 DEF IsOpen, OpenStatuses
      <4>2. e.status = "confirmed" <=> e.confirmations >= ConfirmScans
        BY <1>1, <2>1, <3>1 DEF ConfirmedByCount
      <4>3. ConfirmScans \in Nat
        BY ConfirmScansAssumption
      <4>4. QED
        BY <3>1, <4>1, <4>2, <4>3
    <3>5. Promise!PhaseOf(RunOf(a) + 1) = e.status
      BY <3>1, <3>4 DEF Promise!PhaseOf
    <3>6. /\ run' = [run EXCEPT ![a] = RunOf(a) + 1]
          /\ phase' = [phase EXCEPT ![a] = e.status]
          /\ earned' = [earned EXCEPT
                          ![a] = IF RunOf(a) + 1 = ConfirmScans
                                 THEN Cardinality(EarnedBy(a)) + 1
                                 ELSE Cardinality(EarnedBy(a))]
      BY <2>3, <2>4, <3>1, <3>3
    <3>7. Promise!AnomalousScan(a)
      BY <3>5, <3>6 DEF Promise!AnomalousScan, RunOf, PhaseNow, EarnedBy
    <3>8. QED
      BY <2>5, <3>7
  <2>6. CASE ~Anomalous(v)
    <3>1. ~IsOpen(e) /\ OpenAt(id, a) /\ tr # "confirmed"
      BY <1>5, <2>6 DEF Opens, Continues, Closes, ClosedStatuses
    <3>2. NothingOpen(a)'
      BY <1>1, <2>1, <3>1 DEF NothingOpen, OpenAt, OneOpenEvent
    <3>3. /\ run' = [run EXCEPT ![a] = 0]
          /\ phase' = [phase EXCEPT ![a] = "quiet"]
          /\ earned' = earned
      BY <1>3, <2>3, <2>4, <3>1, <3>2
    <3>4. Promise!CleanScan(a)
      BY <3>3 DEF Promise!CleanScan, RunOf, PhaseNow, EarnedBy
    <3>5. QED
      BY <2>6, <3>4
  <2>7. QED
    BY <2>5, <2>6
<1>6. QED
  BY <1>1, <1>4, <1>5, Outcomes

\* Every history of scans keeps the promise of Incident (ImplementsIncident),
\* which knows runs and certificates and neither events nor rows.
THEOREM LifecycleImplementsIncident == Spec => ImplementsIncident
<1>1. Init => Promise!Init
  <2> SUFFICES ASSUME Init PROVE Promise!Init
    OBVIOUS
  <2>1. \A a \in Assets : NothingOpen(a) /\ EarnedBy(a) = {}
    BY DEF Init, NothingOpen, EarnedBy
  <2>2. \A a \in Assets : RunOf(a) = 0 /\ PhaseNow(a) = "quiet"
    BY <2>1, InitInv, Reads DEF Inv, MappingReads
  <2>3. \A a \in Assets : Cardinality(EarnedBy(a)) = 0
    BY <2>1, FS_EmptySet
  <2>4. QED
    BY <2>2, <2>3 DEF Promise!Init, RunOf, PhaseNow, EarnedBy
<1>2. CertInv /\ [Next]_vars => [Promise!Next]_(Promise!vars)
  <2> SUFFICES ASSUME CertInv, [Next]_vars PROVE [Promise!Next]_(Promise!vars)
    OBVIOUS
  <2>1. CASE Next
    BY <2>1, StepRefines DEF Next, Promise!Next
  <2>2. CASE UNCHANGED vars
    BY <2>2 DEF vars, Promise!vars, ExistingId, Existing, OpenIds, MostRecent
  <2>3. QED
    BY <2>1, <2>2
<1>3. QED
  BY <1>1, <1>2, SpecCertInv, PTL DEF Spec, ImplementsIncident, Promise!Spec

-----------------------------------------------------------------------------
(***************************************************************************)
(* Lists in ascending order, and the greatest of a set.                    *)
(***************************************************************************)

\* R puts the members of S in one order.
OrdersAll(S, R) ==
  /\ \A s \in S : <<s, s>> \notin R
  /\ \A s, t, u \in S : <<s, t>> \in R /\ <<t, u>> \in R => <<s, u>> \in R
  /\ \A s, t \in S : s = t \/ <<s, t>> \in R \/ <<t, s>> \in R

\* f lists the members of S, each of them, in the order R.
ListsBy(f, S, R) ==
  /\ Cardinality(S) \in Nat
  /\ f \in [1 .. Cardinality(S) -> S]
  /\ \A s \in S : \E i \in 1 .. Cardinality(S) : f[i] = s
  /\ \A i, j \in 1 .. Cardinality(S) : i < j => <<f[i], f[j]>> \in R

\* f lists the numbers of S, each of them, in ascending order.
Lists(f, S) ==
  /\ Cardinality(S) \in Nat
  /\ f \in [1 .. Cardinality(S) -> S]
  /\ \A k \in S : \E i \in 1 .. Cardinality(S) : f[i] = k
  /\ \A i, j \in 1 .. Cardinality(S) : i < j => f[i] < f[j]

\* Those before a member of a finite set are as many as its place says, and
\* every place is taken.
LEMMA RankedLists ==
  ASSUME NEW S, IsFiniteSet(S), NEW R, OrdersAll(S, R)
  PROVE  ListsBy(Ranked(S, R), S, R)
  <1>. DEFINE n == Cardinality(S)
              Before(k) == {j \in S : <<j, k>> \in R}
              rank == [k \in S |-> Cardinality(Before(k)) + 1]
  <1>1. n \in Nat /\ IsFiniteSet(1 .. n) /\ Cardinality(1 .. n) = n
    <2>1. n \in Nat
      BY FS_CardinalityType
    <2>2. 1 \in Int /\ n \in Int
      BY <2>1
    <2>3. IsFiniteSet(1 .. n) /\ Cardinality(1 .. n) = IF 1 > n THEN 0 ELSE n - 1 + 1
      BY <2>2, FS_Interval
    <2>. QED
      BY <2>1, <2>3
  <1>2. \A k \in S : /\ IsFiniteSet(Before(k)) /\ Cardinality(Before(k)) \in Nat
                     /\ Cardinality(Before(k)) < n
    <2>. TAKE k \in S
    <2>1. Before(k) \in SUBSET S /\ Before(k) # S
      BY DEF OrdersAll
    <2>2. IsFiniteSet(Before(k)) /\ Cardinality(Before(k)) <= n /\ n # Cardinality(Before(k))
      BY <2>1, FS_Subset
    <2>. QED
      BY <1>1, <2>2, FS_CardinalityType
  <1>3. \A k, m \in S : <<k, m>> \in R => Cardinality(Before(k)) < Cardinality(Before(m))
    <2>. SUFFICES ASSUME NEW k \in S, NEW m \in S, <<k, m>> \in R
                  PROVE  Cardinality(Before(k)) < Cardinality(Before(m))
      OBVIOUS
    <2>1. Before(k) \in SUBSET Before(m)
      BY DEF OrdersAll
    <2>2. k \in Before(m) /\ k \notin Before(k)
      BY DEF OrdersAll
    <2>3. Before(k) # Before(m)
      BY <2>2
    <2>4. /\ Cardinality(Before(k)) <= Cardinality(Before(m))
          /\ Cardinality(Before(m)) # Cardinality(Before(k))
      BY <1>2, <2>1, <2>3, FS_Subset
    <2>. QED
      BY <1>2, <2>4
  <1>. HIDE DEF Before
  <1>4. \A k \in S : rank[k] \in 1 .. n /\ rank[k] = Cardinality(Before(k)) + 1
    BY <1>1, <1>2
  <1>5. \A k, m \in S : <<k, m>> \in R => rank[k] < rank[m]
    BY <1>2, <1>3
  <1>6. rank \in [S -> 1 .. n]
    BY <1>4
  <1>. DEFINE places == {<<rank[s], s>> : s \in S}
              f == Ranked(S, R)
  <1>7. f = [i \in 1 .. n |-> (CHOOSE p \in places : p[1] = i)[2]]
    BY DEF Ranked, Before
  <1>. HIDE DEF rank, f
  <1>8. \A k, m \in S : rank[k] = rank[m] => k = m
    <2>. SUFFICES ASSUME NEW k \in S, NEW m \in S, k # m PROVE rank[k] # rank[m]
      OBVIOUS
    <2>1. rank[k] \in Int /\ rank[m] \in Int
      BY <1>4
    <2>2. <<k, m>> \in R \/ <<m, k>> \in R
      BY DEF OrdersAll
    <2>. QED
      BY <1>5, <2>1, <2>2
  <1>9. \A i \in 1 .. n : \E k \in S : rank[k] = i
    <2>1. rank \in Injection(S, 1 .. n)
      BY <1>6, <1>8 DEF Injection, IsInjective
    <2>2. rank \in Surjection(S, 1 .. n)
      BY <1>1, <2>1, FS_Injection
    <2>. QED
      BY <2>2 DEF Surjection
  <1>10. \A i \in 1 .. n : f[i] \in S /\ rank[f[i]] = i
    <2>. TAKE i \in 1 .. n
    <2>. DEFINE p == CHOOSE q \in places : q[1] = i
    <2>1. \E q \in places : q[1] = i
      <3>1. PICK k \in S : rank[k] = i
        BY <1>9
      <3>2. <<rank[k], k>> \in places /\ <<rank[k], k>>[1] = i
        BY <3>1
      <3>. QED
        BY <3>2
    <2>2. p \in places /\ p[1] = i
      BY <2>1
    <2>3. f[i] = p[2]
      BY <1>7
    <2>4. PICK s \in S : p = <<rank[s], s>>
      BY <2>2
    <2>. HIDE DEF p
    <2>5. p[1] = rank[s] /\ p[2] = s
      BY <2>4
    <2>. QED
      BY <2>2, <2>3, <2>5
  <1>11. f \in [1 .. n -> S]
    BY <1>7, <1>10
  <1>12. \A k \in S : \E i \in 1 .. n : f[i] = k
    BY <1>4, <1>8, <1>10
  <1>13. \A i, j \in 1 .. n : i < j => <<f[i], f[j]>> \in R
    <2>. SUFFICES ASSUME NEW i \in 1 .. n, NEW j \in 1 .. n, i < j
                  PROVE  <<f[i], f[j]>> \in R
      OBVIOUS
    <2>1. f[i] \in S /\ f[j] \in S /\ rank[f[i]] = i /\ rank[f[j]] = j
      BY <1>10
    <2>2. i \in Int /\ j \in Int
      BY <1>1
    <2>3. f[j] # f[i] /\ ~(<<f[j], f[i]>> \in R)
      BY <1>5, <2>1, <2>2
    <2>. QED
      BY <2>1, <2>3 DEF OrdersAll
  <1>. QED
    BY <1>1, <1>11, <1>12, <1>13 DEF ListsBy, f

\* Numbers in ascending order.
LEMMA InOrderLists ==
  ASSUME NEW S, IsFiniteSet(S), S \subseteq Int
  PROVE  Lists(InOrder(S), S)
  <1>. DEFINE R == {p \in S \X S : p[1] < p[2]}
              f == InOrder(S)
  <1>1. \A s, t \in S : s \in Int /\ t \in Int /\ (<<s, t>> \in R <=> s < t)
    OBVIOUS
  <1>2. f = Ranked(S, R)
    BY DEF InOrder
  <1>. HIDE DEF R, f
  <1>3. OrdersAll(S, R)
    <2>1. \A s \in S : <<s, s>> \notin R
      BY <1>1
    <2>2. \A s, t, u \in S : <<s, t>> \in R /\ <<t, u>> \in R => <<s, u>> \in R
      BY <1>1
    <2>3. ASSUME NEW s \in S, NEW t \in S
          PROVE  s = t \/ <<s, t>> \in R \/ <<t, s>> \in R
      <3>1. s \in Int /\ t \in Int
        BY <1>1
      <3>2. s = t \/ s < t \/ t < s
        BY <3>1
      <3>. QED
        BY <1>1, <3>2
    <2>. QED
      BY <2>1, <2>2, <2>3 DEF OrdersAll
  <1>4. ListsBy(f, S, R)
    BY <1>2, <1>3, RankedLists
  <1>5. \A i, j \in 1 .. Cardinality(S) : i < j => f[i] < f[j]
    BY <1>1, <1>4 DEF ListsBy
  <1>. QED
    BY <1>4, <1>5 DEF Lists, ListsBy, f

\* A finite set of numbers has a greatest member: the last one listed.
LEMMA GreatestOf ==
  ASSUME NEW S, IsFiniteSet(S), S \subseteq Int, S # {}
  PROVE  Max(S) \in S /\ \A k \in S : k <= Max(S)
  <1>. DEFINE n == Cardinality(S)
              f == InOrder(S)
  <1>1. Lists(f, S)
    BY InOrderLists
  <1>. HIDE DEF f
  <1>2. n \in Nat /\ n # 0
    BY FS_EmptySet, FS_CardinalityType
  <1>3. f[n] \in S /\ \A k \in S : k <= f[n]
    <2>1. f[n] \in S /\ n \in 1 .. n
      BY <1>1, <1>2 DEF Lists
    <2>2. ASSUME NEW k \in S PROVE k <= f[n]
      <3>1. PICK i \in 1 .. n : f[i] = k
        BY <1>1 DEF Lists
      <3>2. i = n \/ f[i] < f[n]
        BY <1>1, <1>2, <2>1 DEF Lists
      <3>3. k \in Int /\ f[n] \in Int
        BY <2>1
      <3>. QED
        BY <3>1, <3>2, <3>3
    <2>. QED
      BY <2>1, <2>2
  <1>4. \E m \in S : \A k \in S : m >= k
    BY <1>3
  <1>5. Max(S) \in S /\ \A k \in S : Max(S) >= k
    BY <1>4, Zenon DEF Max
  <1>. QED
    BY <1>5

\* Of finitely many numbered things one has the greatest value, and of those
\* that have it one comes last.
LEMMA GreatestAndLast ==
  ASSUME NEW S, IsFiniteSet(S), S \subseteq Int, S # {},
         NEW value \in [S -> Int]
  PROVE  \E k \in S : \A j \in S :
           value[j] < value[k] \/ (value[j] = value[k] /\ j <= k)
  <1>. DEFINE values == {value[k] : k \in S}
              top == Max(values)
              best == {k \in S : value[k] = top}
  <1>1. IsFiniteSet(values)
    <2>1. value \in Surjection(S, values)
      BY DEF Surjection
    <2>. QED
      BY <2>1, FS_Surjection
  <1>2. values \subseteq Int /\ values # {}
    OBVIOUS
  <1>3. top \in values /\ \A v \in values : v <= top
    <2>. HIDE DEF values
    <2>. QED
      BY <1>1, <1>2, GreatestOf
  <1>4. \A j \in S : value[j] <= top
    BY <1>3
  <1>. HIDE DEF top
  <1>5. IsFiniteSet(best) /\ best \subseteq Int /\ best # {}
    BY <1>3, FS_Subset
  <1>6. Max(best) \in best /\ \A k \in best : k <= Max(best)
    <2>. HIDE DEF best
    <2>. QED
      BY <1>5, GreatestOf
  <1>7. ASSUME NEW j \in S
        PROVE  \/ value[j] < value[Max(best)]
               \/ value[j] = value[Max(best)] /\ j <= Max(best)
    <2>1. value[Max(best)] = top /\ value[j] <= top
      BY <1>4, <1>6
    <2>2. value[j] = top => j \in best
      OBVIOUS
    <2>3. top \in Int /\ value[j] \in Int
      BY <2>1, <1>6
    <2>. QED
      BY <2>1, <2>2, <2>3, <1>6
  <1>. QED
    BY <1>6, <1>7

\* Nothing of the set is above it.
LEMMA GreatestIs ==
  ASSUME NEW S, NEW m \in S, S \subseteq Int, \A x \in S : x <= m
  PROVE  Max(S) = m
  <1>1. \E x \in S : \A y \in S : x >= y
    OBVIOUS
  <1>2. Max(S) \in S /\ \A y \in S : Max(S) >= y
    BY <1>1, Zenon DEF Max
  <1>3. Max(S) >= m /\ Max(S) <= m /\ Max(S) \in Int /\ m \in Int
    BY <1>2
  <1>. QED
    BY <1>3

-----------------------------------------------------------------------------
(***************************************************************************)
(* Charts: downsamplePoints keeps the highest point of each bucket, so the *)
(* highest of all.                                                         *)
(***************************************************************************)

\* points are measurements in their order of time.
InTime(points) ==
  /\ Len(points) \in Nat /\ DOMAIN points = 1 .. Len(points)
  /\ \A k \in DOMAIN points : /\ points[k].at \in Nat
                              /\ points[k].gap \in Nat \cup {Null}
                              /\ points[k].spread \in Nat \cup {Null}
  /\ \A j, k \in DOMAIN points : j < k => points[j].at < points[k].at

\* shown are at most n of points in their order, and one with the highest score.
Keeps(shown, points, n) ==
  /\ Len(shown) <= n /\ DOMAIN shown = 1 .. Len(shown)
  /\ \A i \in DOMAIN shown : \E k \in DOMAIN points : shown[i] = points[k]
  /\ \A i, j \in DOMAIN shown : i < j => shown[i].at < shown[j].at
  /\ \E i \in DOMAIN shown : \A k \in DOMAIN points : Score(points[k]) <= Score(shown[i])

\* s are the values at the numbers of S, in the order f of those.
Takes(s, f, S, value) ==
  /\ Len(s) = Cardinality(S) /\ Len(s) \in Nat /\ DOMAIN s = 1 .. Len(s)
  /\ \A i \in DOMAIN s : f[i] \in S /\ s[i] = value[f[i]]
  /\ \A i, j \in DOMAIN s : i < j => f[i] < f[j]
  /\ \A k \in S : \E i \in DOMAIN s : f[i] = k

\* A sequence taken from the numbers of a set in their order.
LEMMA TakenInOrder ==
  ASSUME NEW S, IsFiniteSet(S), S \subseteq Int, NEW value,
         NEW s, s = [i \in DOMAIN InOrder(S) |-> value[InOrder(S)[i]]]
  PROVE  Takes(s, InOrder(S), S, value)
  <1>. DEFINE n == Cardinality(S)
              f == InOrder(S)
  <1>1. Lists(f, S)
    BY InOrderLists
  <1>. HIDE DEF f
  <1>2. n \in Nat /\ DOMAIN f = 1 .. n
    BY <1>1 DEF Lists
  <1>3. s = [i \in 1 .. n |-> value[f[i]]]
    BY <1>2 DEF f
  <1>4. Len(s) = n
    <2>. DEFINE T == {value[f[i]] : i \in 1 .. n}
    <2>1. s \in [1 .. n -> T]
      BY <1>3
    <2>. HIDE DEF T, n
    <2>2. s \in Seq(T)
      BY <1>2, <2>1
    <2>. QED
      BY <1>2, <2>1, <2>2
  <1>5. \A i \in 1 .. n : f[i] \in S
    BY <1>1 DEF Lists
  <1>6. \A i, j \in 1 .. n : i < j => f[i] < f[j]
    BY <1>1 DEF Lists
  <1>7. \A k \in S : \E i \in 1 .. n : f[i] = k
    BY <1>1 DEF Lists
  <1>. QED
    BY <1>2, <1>3, <1>4, <1>5, <1>6, <1>7 DEF f, Takes

\* The least of two.
LEMMA LesserOf ==
  ASSUME NEW x \in Int, NEW y \in Int
  PROVE  Min({x, y}) = IF x <= y THEN x ELSE y
  <1>. DEFINE m == IF x <= y THEN x ELSE y
  <1>1. m \in {x, y} /\ \A z \in {x, y} : m <= z
    OBVIOUS
  <1>2. \E z \in {x, y} : \A u \in {x, y} : z <= u
    BY <1>1
  <1>3. Min({x, y}) \in {x, y} /\ \A u \in {x, y} : Min({x, y}) <= u
    BY <1>2, Zenon DEF Min
  <1>4. \A z \in {x, y} : z \in Int
    OBVIOUS
  <1>5. Min({x, y}) <= m /\ m <= Min({x, y}) /\ Min({x, y}) \in Int /\ m \in Int
    BY <1>1, <1>3, <1>4
  <1>. QED
    BY <1>5

\* A list f of n items, what a limit leaves of so many, and a list g of the
\* first m items of f.
HasItems(f, n) == Len(f) = n /\ DOMAIN f = 1 .. n /\ f = [k \in 1 .. n |-> f[k]]

Limited(limit, n) == IF limit <= n THEN limit ELSE n

IsFirst(g, f, m) ==
  /\ Len(g) = m /\ DOMAIN g = 1 .. m
  /\ g = [k \in 1 .. m |-> f[k]]
  /\ \A k \in 1 .. m : g[k] = f[k]

\* What is taken of a list.
LEMMA TakeIs ==
  ASSUME NEW f, NEW n \in Nat, HasItems(f, n), NEW limit \in Nat
  PROVE  IsFirst(Take(f, limit), f, Limited(limit, n))
  <1>. DEFINE m == Limited(limit, n)
  <1>1. Min({limit, Len(f)}) = m
    BY LesserOf DEF HasItems, Limited
  <1>2. Take(f, limit) = SubSeq(f, 1, m)
    BY <1>1 DEF Take
  <1>3. m \in Nat /\ m <= n
    BY DEF Limited
  <1>. HIDE DEF m
  <1>4. SubSeq(f, 1, m) = [k \in 1 .. m |-> f[k]]
    BY <1>3 DEF HasItems
  <1>5. IsFirst(Take(f, limit), f, m)
    <2>. DEFINE g == Take(f, limit)
    <2>1. g = [k \in 1 .. m |-> f[k]]
      BY <1>2, <1>4
    <2>. HIDE DEF g
    <2>2. DOMAIN g = 1 .. m /\ \A k \in 1 .. m : g[k] = f[k]
      BY <2>1
    <2>3. Len(g) = m
      BY <1>3, <2>1
    <2>. QED
      BY <2>1, <2>2, <2>3 DEF g, IsFirst
  <1>. QED
    BY <1>5 DEF m

\* A member of S with fewer than L others before it is among the first L.
IsEarly(S, f, k, L) ==
  \/ Cardinality({j \in S : j < k}) >= L
  \/ \E i \in 1 .. Cardinality(S) : i <= L /\ f[i] = k

LEMMA AmongFirst ==
  ASSUME NEW S, IsFiniteSet(S), S \subseteq Int, NEW f, Lists(f, S), NEW k \in S,
         NEW L \in Nat
  PROVE  IsEarly(S, f, k, L)
  <1>. DEFINE n == Cardinality(S)
              T == {j \in S : j < k}
              g == [i \in 1 .. L |-> f[i]]
  <1>1. /\ n \in Nat /\ \A i \in 1 .. n : f[i] \in S
        /\ \A i, j \in 1 .. n : i < j => f[i] < f[j]
    BY DEF Lists
  <1>2. PICK i \in 1 .. n : f[i] = k
    BY DEF Lists
  <1>3. IsFiniteSet(T)
    BY FS_Subset
  <1>. HIDE DEF n
  <1>4. ASSUME i > L PROVE Cardinality(T) >= L
    <2>1. \A m \in 1 .. L : m \in 1 .. n /\ m < i
      BY <1>1, <1>2, <1>4
    <2>2. g \in [1 .. L -> T]
      <3>. SUFFICES ASSUME NEW m \in 1 .. L PROVE f[m] \in T
        OBVIOUS
      <3>. QED
        BY <1>1, <1>2, <2>1
    <2>3. ASSUME NEW x \in 1 .. L, NEW y \in 1 .. L, g[x] = g[y] PROVE x = y
      <3>1. f[x] = f[y] /\ f[x] \in Int
        BY <1>1, <2>1, <2>3
      <3>2. ~(x < y) /\ ~(y < x)
        BY <1>1, <2>1, <3>1
      <3>. QED
        BY <3>2
    <2>. HIDE DEF g, T
    <2>4. g \in Injection(1 .. L, T)
      BY <2>2, <2>3 DEF Injection, IsInjective
    <2>5. Cardinality(1 .. L) = L
      <3>1. 1 \in Int /\ L \in Int
        OBVIOUS
      <3>2. Cardinality(1 .. L) = IF 1 > L THEN 0 ELSE L - 1 + 1
        BY <3>1, FS_Interval
      <3>. QED
        BY <3>2
    <2>6. Cardinality(1 .. L) <= Cardinality(T) /\ Cardinality(T) \in Nat
      BY <1>3, <2>4, FS_Injection, FS_CardinalityType
    <2>. QED
      BY <2>5, <2>6
  <1>5. i > L \/ i <= L
    BY <1>1, <1>2
  <1>. QED
    BY <1>2, <1>4, <1>5 DEF n, T, IsEarly

\* points are in the order of time what was read of the snapshots S, which is
\* each but those with RowLimit others before them.
ReadFrom(points, S) ==
  /\ InTime(points)
  /\ Len(points) = 0 => points = <<>>
  /\ \A k \in S : \/ Cardinality({j \in S : j < k}) >= RowLimit
                  \/ \E i \in DOMAIN points : points[i] = SnapshotToPoint(k)

\* assetHistory reads the stored snapshots in their order of time.
LEMMA PointsRead ==
  ASSUME TypeOK, NEW a \in Assets, NEW w \in Windows
  PROVE  ReadFrom(PointsFor(a, w), InWindow(a, w))
  <1>. DEFINE S == InWindow(a, w)
              n == Cardinality(S)
              m == IF RowLimit <= n THEN RowLimit ELSE n
              f == InOrder(S)
              kept == Take(f, RowLimit)
              points == PointsFor(a, w)
              point == [k \in S |-> SnapshotToPoint(k)]
  <1>1. Len(snapshots) \in Nat /\ DOMAIN snapshots = 1 .. Len(snapshots)
    BY DEF TypeOK
  <1>2. IsFiniteSet(S) /\ S \subseteq Int /\ S \subseteq Nat
    <2>1. 1 \in Int /\ Len(snapshots) \in Int
      BY <1>1
    <2>2. IsFiniteSet(DOMAIN snapshots)
      BY <1>1, <2>1, FS_Interval
    <2>3. S \in SUBSET DOMAIN snapshots
      BY DEF InWindow
    <2>. QED
      BY <1>1, <2>2, <2>3, FS_Subset
  <1>3. \A k \in S : snapshots[k].verdict \in Verdicts
    <2>. DEFINE Snapshot == [rwaId : Assets, verdict : Verdicts]
    <2>1. snapshots \in Seq(Snapshot)
      BY DEF TypeOK
    <2>2. \A x \in Snapshot : x.verdict \in Verdicts
      OBVIOUS
    <2>. HIDE DEF Snapshot
    <2>3. \A k \in 1 .. Len(snapshots) : snapshots[k] \in Snapshot
      BY <2>1
    <2>. QED
      BY <1>1, <2>2, <2>3 DEF InWindow
  <1>4. \A k \in S : /\ point[k].at = k
                     /\ point[k].gap \in Nat \cup {Null}
                     /\ point[k].spread \in Nat \cup {Null}
    BY <1>3, MeasuredAssumption DEF SnapshotToPoint
  <1>5. points = [i \in DOMAIN kept |-> SnapshotToPoint(kept[i])]
    BY DEF PointsFor
  <1>6. RowLimit \in Nat
    BY ReadAssumption
  <1>. HIDE DEF S
  <1>7. Lists(f, S)
    BY <1>2, InOrderLists
  <1>. HIDE DEF f
  <1>8. /\ n \in Nat /\ f \in [1 .. n -> S]
        /\ \A i, j \in 1 .. n : i < j => f[i] < f[j]
    BY <1>7 DEF Lists
  <1>. HIDE DEF n
  <1>9. DOMAIN f = 1 .. n /\ Len(f) = n /\ f = [i \in 1 .. n |-> f[i]]
    BY <1>8
  <1>10. DOMAIN kept = 1 .. m /\ \A i \in 1 .. m : kept[i] = f[i]
    <2>1. HasItems(f, n)
      BY <1>9 DEF HasItems
    <2>2. IsFirst(Take(f, RowLimit), f, Limited(RowLimit, n))
      BY <1>6, <1>8, <2>1, TakeIs
    <2>3. Limited(RowLimit, n) = m
      BY DEF Limited
    <2>. HIDE DEF m
    <2>. QED
      BY <2>2, <2>3 DEF IsFirst
  <1>11. m \in Nat /\ m <= n
    BY <1>6, <1>8
  <1>12. \A i \in 1 .. m : i \in 1 .. n /\ f[i] \in S
    BY <1>8, <1>11
  <1>. HIDE DEF kept, m
  <1>13. points = [i \in 1 .. m |-> point[f[i]]]
    BY <1>5, <1>10, <1>12
  <1>. HIDE DEF points
  <1>14. DOMAIN points = 1 .. m /\ Len(points) = m
    BY <1>11, <1>13
  <1>15. \A k \in S : point[k] = SnapshotToPoint(k)
    OBVIOUS
  <1>. HIDE DEF point
  <1>16. \A i \in DOMAIN points : /\ points[i].at = f[i] /\ f[i] \in Nat
                                  /\ points[i].gap \in Nat \cup {Null}
                                  /\ points[i].spread \in Nat \cup {Null}
    BY <1>2, <1>4, <1>12, <1>13, <1>14
  <1>17. \A i, j \in DOMAIN points : i < j => points[i].at < points[j].at
    BY <1>8, <1>12, <1>14, <1>16
  <1>18. InTime(points)
    BY <1>11, <1>14, <1>16, <1>17 DEF InTime
  <1>19. Len(points) = 0 => points = <<>>
    BY <1>13, <1>14
  <1>20. ASSUME NEW k \in S, ~(Cardinality({j \in S : j < k}) >= RowLimit)
         PROVE  \E i \in DOMAIN points : points[i] = SnapshotToPoint(k)
    <2>1. \E i \in 1 .. Cardinality(S) : i <= RowLimit /\ f[i] = k
      <3>1. IsEarly(S, f, k, RowLimit)
        BY <1>2, <1>6, <1>7, AmongFirst
      <3>. QED
        BY <1>20, <3>1 DEF IsEarly
    <2>2. PICK i \in 1 .. n : i <= RowLimit /\ f[i] = k
      BY <2>1 DEF n
    <2>3. i \in 1 .. m
      BY <1>6, <1>8, <2>2 DEF m
    <2>. QED
      BY <1>13, <1>14, <1>15, <2>2, <2>3
  <1>21. ReadFrom(points, S)
    BY <1>18, <1>19, <1>20 DEF ReadFrom
  <1>. QED
    BY <1>21 DEF points, S

\* Every point falls into one of the n buckets.
LEMMA BucketInRange ==
  ASSUME NEW points, InTime(points), NEW n \in Nat \ {0}, NEW k \in DOMAIN points
  PROVE  Bucket(points, k, n) \in 0 .. n - 1
  <1>. DEFINE first == points[1].at
              gap   == points[Len(points)].at - first
              span  == Max({1, gap})
              since == points[k].at - first
              place == (since * n) \div span
  <1>1. k \in 1 .. Len(points) /\ 1 \in DOMAIN points /\ Len(points) \in DOMAIN points
    BY DEF InTime
  <1>2. first \in Nat /\ points[k].at \in Nat /\ points[Len(points)].at \in Nat
    BY <1>1 DEF InTime
  <1>3. since \in Nat
    <2>1. k = 1 \/ first < points[k].at
      BY <1>1 DEF InTime
    <2>. QED
      BY <1>2, <2>1
  <1>4. gap \in Int
    BY <1>2
  <1>5. Bucket(points, k, n) = Min({n - 1, place})
    BY DEF Bucket
  <1>. HIDE DEF since, gap
  <1>6. span \in Nat /\ span >= 1
    <2>1. IsFiniteSet({1, gap})
      <3>1. IsFiniteSet({1})
        BY FS_Singleton
      <3>2. IsFiniteSet({1} \cup {gap})
        BY <3>1, FS_AddElement
      <3>3. {1, gap} = {1} \cup {gap}
        OBVIOUS
      <3>. QED
        BY <3>2, <3>3
    <2>2. span \in {1, gap} /\ \A x \in {1, gap} : x <= span
      BY <1>4, <2>1, GreatestOf
    <2>. QED
      BY <1>4, <2>2
  <1>. HIDE DEF span
  <1>7. since * n \in Nat
    BY <1>3
  <1>8. place \in Nat
    <2>. DEFINE product == since * n
    <2>1. product \in Nat
      BY <1>7
    <2>2. place = product \div span
      OBVIOUS
    <2>. HIDE DEF product
    <2>. QED
      BY <1>6, <2>1, <2>2
  <1>. HIDE DEF place
  <1>9. Min({n - 1, place}) \in {n - 1, place} /\ Min({n - 1, place}) <= n - 1
    <2>1. \E x \in {n - 1, place} : \A y \in {n - 1, place} : x <= y
      BY <1>8
    <2>2. /\ Min({n - 1, place}) \in {n - 1, place}
          /\ \A y \in {n - 1, place} : Min({n - 1, place}) <= y
      BY <2>1, Zenon DEF Min
    <2>. QED
      BY <2>2
  <1>. QED
    BY <1>5, <1>8, <1>9

\* The scores are numbers.
LEMMA ScoreIsNumber ==
  ASSUME NEW points, InTime(points), NEW k \in DOMAIN points
  PROVE  Score(points[k]) \in Nat
  BY DEF InTime, Score, Null

\* downsamplePoints keeps at most one point of each bucket, and the highest.
LEMMA DownsampleKeeps ==
  ASSUME NEW points, InTime(points), Len(points) # 0, NEW n \in Nat \ {0}
  PROVE  Keeps(DownsamplePoints(points, n), points, n)
  <1>. DEFINE D == DOMAIN points
              score == [k \in D |-> Score(points[k])]
              bucket == [k \in D |-> Bucket(points, k, n)]
              S == {k \in D : ~Outdone(points, k, n)}
  <1>1. Len(points) \in Nat /\ D = 1 .. Len(points) /\ D # {}
    BY DEF InTime
  <1>2. IsFiniteSet(D) /\ D \subseteq Int
    <2>1. 1 \in Int /\ Len(points) \in Int
      BY <1>1
    <2>. QED
      BY <1>1, <2>1, FS_Interval
  <1>3. score \in [D -> Int]
    BY ScoreIsNumber
  <1>4. bucket \in [D -> 0 .. n - 1]
    BY BucketInRange
  <1>5. \A j, k \in D : j < k => points[j].at < points[k].at
    BY DEF InTime
  <1>6. \A k \in S : ~\E j \in D : /\ bucket[j] = bucket[k]
                                  /\ \/ score[j] > score[k]
                                     \/ score[j] = score[k] /\ j > k
    BY DEF Outdone
  <1>7. \A k \in D : k \notin S => \E j \in D : \/ score[j] > score[k]
                                                \/ score[j] = score[k] /\ j > k
    BY DEF Outdone
  <1>8. \A k \in D : score[k] = Score(points[k])
    OBVIOUS
  <1>9. DownsamplePoints(points, n) =
          IF Len(points) <= n THEN points
          ELSE [i \in DOMAIN InOrder(S) |-> points[InOrder(S)[i]]]
    BY DEF DownsamplePoints, Picked
  <1>10. IsFiniteSet(S) /\ S \subseteq Int /\ S \subseteq D
    BY <1>2, FS_Subset
  <1>. HIDE DEF score, bucket, S
  <1>11. PICK best \in D : \A j \in D :
           score[j] < score[best] \/ (score[j] = score[best] /\ j <= best)
    <2>. HIDE DEF D
    <2>. QED
      BY <1>1, <1>2, <1>3, GreatestAndLast
  <1>12. \A j \in D : score[j] <= score[best]
    BY <1>3, <1>11
  <1>13. CASE Len(points) <= n
    <2>1. DownsamplePoints(points, n) = points
      BY <1>9, <1>13
    <2>2. \A k \in D : Score(points[k]) <= Score(points[best])
      BY <1>8, <1>12
    <2>3. Keeps(points, points, n)
      BY <1>1, <1>5, <1>13, <2>2 DEF Keeps
    <2>. QED
      BY <2>1, <2>3
  <1>14. CASE ~(Len(points) <= n)
    <2>. DEFINE f == InOrder(S)
                shown == [i \in DOMAIN f |-> points[f[i]]]
    <2>9. Takes(shown, f, S, points)
      BY <1>10, TakenInOrder
    <2>1. /\ Len(shown) = Cardinality(S) /\ Len(shown) \in Nat
          /\ DOMAIN shown = 1 .. Len(shown)
          /\ \A i \in DOMAIN shown : f[i] \in S /\ shown[i] = points[f[i]]
          /\ \A i, j \in DOMAIN shown : i < j => f[i] < f[j]
          /\ \A k \in S : \E i \in DOMAIN shown : f[i] = k
      <3>. HIDE DEF f, shown
      <3>. QED
        BY <2>9 DEF Takes
    <2>2. DownsamplePoints(points, n) = shown
      BY <1>9, <1>14
    <2>. HIDE DEF f, shown
    <2>3. Cardinality(S) <= n
      <3>1. \A j, k \in S : bucket[j] = bucket[k] => j = k
        <4>. SUFFICES ASSUME NEW j \in S, NEW k \in S, bucket[j] = bucket[k], j # k
                      PROVE  FALSE
          OBVIOUS
        <4>1. j \in D /\ k \in D /\ score[j] \in Int /\ score[k] \in Int
          BY <1>3, <1>10
        <4>2. ~(score[j] > score[k]) /\ ~(score[k] > score[j])
          BY <4>1, <1>6
        <4>3. ~(j > k) /\ ~(k > j)
          BY <4>1, <4>2, <1>6
        <4>. QED
          BY <4>1, <4>3, <1>2
      <3>. DEFINE into == [k \in S |-> bucket[k]]
      <3>2. into \in Injection(S, 0 .. n - 1)
        <4>1. into \in [S -> 0 .. n - 1]
          BY <1>4, <1>10
        <4>. QED
          BY <4>1, <3>1 DEF Injection, IsInjective
      <3>3. IsFiniteSet(0 .. n - 1) /\ Cardinality(0 .. n - 1) = n
        <4>1. 0 \in Int /\ n - 1 \in Int /\ ~(0 > n - 1)
          OBVIOUS
        <4>2. /\ IsFiniteSet(0 .. n - 1)
              /\ Cardinality(0 .. n - 1) = IF 0 > n - 1 THEN 0 ELSE n - 1 - 0 + 1
          BY <4>1, FS_Interval
        <4>. QED
          BY <4>1, <4>2
      <3>. HIDE DEF into
      <3>. QED
        BY <3>2, <3>3, FS_Injection
    <2>4. best \in S
      <3>1. ~\E j \in D : \/ score[j] > score[best]
                          \/ score[j] = score[best] /\ j > best
        BY <1>2, <1>3, <1>11
      <3>. QED
        BY <3>1, <1>7
    <2>5. \E i \in DOMAIN shown : \A k \in D : Score(points[k]) <= Score(shown[i])
      <3>1. PICK i \in DOMAIN shown : f[i] = best
        BY <2>1, <2>4
      <3>2. Score(shown[i]) = score[best]
        BY <3>1, <2>1, <1>8
      <3>. QED
        BY <3>2, <1>8, <1>12
    <2>6. \A i \in DOMAIN shown : \E k \in D : shown[i] = points[k]
      BY <1>10, <2>1
    <2>7. \A i, j \in DOMAIN shown : i < j => shown[i].at < shown[j].at
      <3>. SUFFICES ASSUME NEW i \in DOMAIN shown, NEW j \in DOMAIN shown, i < j
                    PROVE  shown[i].at < shown[j].at
        OBVIOUS
      <3>1. f[i] \in D /\ f[j] \in D /\ f[i] < f[j]
        BY <1>10, <2>1
      <3>2. shown[i] = points[f[i]] /\ shown[j] = points[f[j]]
        BY <2>1
      <3>3. points[f[i]].at < points[f[j]].at
        BY <3>1, <1>5
      <3>. QED
        BY <3>2, <3>3
    <2>8. Keeps(shown, points, n)
      BY <2>1, <2>3, <2>5, <2>6, <2>7 DEF Keeps
    <2>. QED
      BY <2>2, <2>8
  <1>. QED
    BY <1>13, <1>14

\* The peak of the statistics is the greatest gap.
LEMMA PeakIsGreatest ==
  ASSUME NEW points, InTime(points), NEW k \in DOMAIN points,
         \A j \in DOMAIN points : points[j].gap \in Nat /\ points[j].gap <= points[k].gap
  PROVE  HistoryStats(points).peak = points[k].gap
  <1>. DEFINE gaps == {points[j].gap : j \in DOMAIN points} \cup {Null}
  <1>1. HistoryStats(points).peak = Max(gaps)
    BY DEF HistoryStats
  <1>2. \A x \in gaps : x \in Int /\ x <= points[k].gap
    BY DEF Null
  <1>3. points[k].gap \in gaps
    OBVIOUS
  <1>. HIDE DEF gaps
  <1>4. \E x \in gaps : \A y \in gaps : x >= y
    BY <1>2, <1>3
  <1>5. Max(gaps) \in gaps /\ \A y \in gaps : Max(gaps) >= y
    BY <1>4, Zenon DEF Max
  <1>6. Max(gaps) >= points[k].gap /\ Max(gaps) <= points[k].gap
    BY <1>2, <1>3, <1>5
  <1>. QED
    BY <1>1, <1>2, <1>3, <1>5, <1>6

LEMMA ChartIsFaithful ==
  ASSUME TypeOK
  PROVE  ChartKeepsPeaks
  <1>. SUFFICES ASSUME NEW a \in Assets, NEW w \in Windows, NEW n \in 1 .. MaxPoints,
                       PointsFor(a, w) # <<>>
                PROVE  LET all   == PointsFor(a, w)
                           h     == AssetHistory(a, w, n)
                           shown == {h.points[k] : k \in DOMAIN h.points}
                       IN /\ Len(h.points) <= n
                          /\ shown \subseteq {all[k] : k \in DOMAIN all}
                          /\ \A j, k \in DOMAIN h.points :
                               j < k => h.points[j].at < h.points[k].at
                          /\ \E p \in shown : \A k \in InWindow(a, w) :
                               \/ Score(SnapshotToPoint(k)) <= Score(p)
                               \/ Cardinality({j \in InWindow(a, w) : j < k}) >= RowLimit
                          /\ (\A k \in DOMAIN all : all[k].gap # Null)
                               => \E p \in shown : p.gap = h.stats.peak
    BY DEF ChartKeepsPeaks
  <1>. DEFINE all  == PointsFor(a, w)
              kept == DownsamplePoints(all, n)
              h    == AssetHistory(a, w, n)
              shown == {kept[k] : k \in DOMAIN kept}
              S == InWindow(a, w)
  <1>1. h.points = kept /\ h.stats = HistoryStats(all)
    BY DEF AssetHistory
  <1>2. ReadFrom(all, S)
    BY PointsRead
  <1>3. n \in Nat \ {0}
    BY WindowAssumption
  <1>. HIDE DEF all, S
  <1>4. /\ InTime(all) /\ Len(all) # 0
        /\ \A k \in S : \/ Cardinality({j \in S : j < k}) >= RowLimit
                        \/ \E i \in DOMAIN all : all[i] = SnapshotToPoint(k)
    BY <1>2 DEF ReadFrom, all
  <1>5. Keeps(kept, all, n)
    BY <1>3, <1>4, DownsampleKeeps
  <1>. HIDE DEF kept, h
  <1>6. shown \subseteq {all[k] : k \in DOMAIN all}
    BY <1>5 DEF Keeps
  <1>7. PICK i \in DOMAIN kept : \A k \in DOMAIN all : Score(all[k]) <= Score(kept[i])
    BY <1>5 DEF Keeps
  <1>8. ASSUME \A k \in DOMAIN all : all[k].gap # Null
        PROVE  kept[i].gap = HistoryStats(all).peak
    <2>1. PICK m \in DOMAIN all : kept[i] = all[m]
      BY <1>5 DEF Keeps
    <2>2. \A k \in DOMAIN all : all[k].gap \in Nat /\ Score(all[k]) = all[k].gap
      BY <1>4, <1>8 DEF InTime, Score
    <2>3. \A k \in DOMAIN all : all[k].gap \in Nat /\ all[k].gap <= all[m].gap
      BY <1>7, <2>1, <2>2
    <2>4. HistoryStats(all).peak = all[m].gap
      BY <1>4, <2>3, PeakIsGreatest
    <2>. QED
      BY <2>1, <2>4
  <1>9. Len(kept) <= n /\ \A j, k \in DOMAIN kept : j < k => kept[j].at < kept[k].at
    BY <1>5 DEF Keeps
  <1>10. \A k \in S : \/ Score(SnapshotToPoint(k)) <= Score(kept[i])
                      \/ Cardinality({j \in S : j < k}) >= RowLimit
    BY <1>4, <1>7
  <1>11. \E p \in shown : \A k \in S : \/ Score(SnapshotToPoint(k)) <= Score(p)
                                       \/ Cardinality({j \in S : j < k}) >= RowLimit
    BY <1>10
  <1>12. (\A k \in DOMAIN all : all[k].gap # Null)
           => \E p \in shown : p.gap = HistoryStats(all).peak
    BY <1>8
  <1>. QED
    BY <1>1, <1>6, <1>9, <1>11, <1>12 DEF all, h, S

\* However few points a chart may have, it keeps the highest of the window
\* but for those that RowLimit others of the window came before.
THEOREM PeaksAreKept == Spec => []ChartKeepsPeaks
  <1>1. TypeOK => ChartKeepsPeaks
    BY ChartIsFaithful
  <1>. QED
    BY <1>1, TypeCorrect, PTL

-----------------------------------------------------------------------------
(***************************************************************************)
(* The arc of an event.  Each event, closed ones included, stands for the  *)
(* snapshots of its asset between its first sighting and its last: it counts*)
(* them and holds their peak, and its rows tell what each of them found.   *)
(* Events of one asset do not overlap.  EventSummarisesRun says this only of*)
(* open events; the statistics are read off closed ones as well.           *)
(***************************************************************************)

\* The snapshots of event e's asset from its first sighting to its last.
ArcOf(snaps, e) ==
  {k \in DOMAIN snaps : /\ snaps[k].rwaId = e.rwaId
                        /\ e.firstSeenAt <= k /\ k <= e.lastSeenAt}

\* What snapshot k found.
DeviationAt(snaps, k) == snaps[k].verdict.deviation

\* The event is dated by its arc, counts it, and is closed after it.
Dates(snaps, e) ==
  /\ e.resolvedAt = 0 <=> IsOpen(e)
  /\ e.firstSeenAt \in ArcOf(snaps, e) /\ e.lastSeenAt \in ArcOf(snaps, e)
  /\ e.confirmations = Cardinality(ArcOf(snaps, e))
  /\ ~IsOpen(e) => e.lastSeenAt < e.resolvedAt /\ e.resolvedAt <= Len(snaps)

\* An open event is as severe as its asset's last snapshot.
Latest(snaps, e) ==
  IsOpen(e) =>
    /\ e.severity = snaps[e.lastSeenAt].verdict.severity
    /\ \A k \in DOMAIN snaps : snaps[k].rwaId = e.rwaId => k <= e.lastSeenAt

\* The arc is anomalous throughout, and its peak is the event's.
Peaks(snaps, e) ==
  /\ \A k \in ArcOf(snaps, e) :
       /\ Anomalous(snaps[k].verdict)
       /\ Abs(DeviationAt(snaps, k)) <= Abs(e.maxDeviation)
  /\ \E k \in ArcOf(snaps, e) : e.maxDeviation = DeviationAt(snaps, k)

RowsOf(trans, i) == {t \in DOMAIN trans : trans[t].eventId = i}
TimesOf(trans, i) == {trans[t].snapshot : t \in RowsOf(trans, i)}
ClosingOf(e) == IF IsOpen(e) THEN {} ELSE {e.resolvedAt}

\* Event i has a row for each snapshot of its arc, with what that found, and
\* one for what closed it; it is confirmed no sooner than it can be.
Tells(snaps, trans, i, e) ==
  /\ TimesOf(trans, i) = ArcOf(snaps, e) \cup ClosingOf(e)
  /\ \A t \in RowsOf(trans, i) :
       /\ trans[t].snapshot \in ArcOf(snaps, e) =>
            trans[t].deviation = DeviationAt(snaps, trans[t].snapshot)
       /\ trans[t].snapshot \notin ArcOf(snaps, e) =>
            trans[t].deviation = 0 /\ trans[t].transition # "confirmed"
       /\ trans[t].transition = "confirmed" =>
            trans[t].snapshot >= e.firstSeenAt + ConfirmScans - 1

\* What the rows of event i are called: it is created (or confirmed at once)
\* with its first sighting, and only what closed it comes after its last.
Named(trans, i, e) ==
  \A t \in RowsOf(trans, i) :
    /\ trans[t].transition = "created" =>
         trans[t].snapshot = e.firstSeenAt /\ ConfirmScans # 1
    /\ trans[t].snapshot = e.firstSeenAt =>
         trans[t].transition = IF ConfirmScans = 1 THEN "confirmed" ELSE "created"
    /\ trans[t].transition \in ClosedStatuses <=> trans[t].snapshot > e.lastSeenAt
    /\ trans[t].transition \in ClosedStatuses => trans[t].transition = e.status

ArcTold(snaps, trans, i, e) ==
  /\ Dates(snaps, e) /\ Latest(snaps, e) /\ Peaks(snaps, e)
  /\ Tells(snaps, trans, i, e) /\ Named(trans, i, e)

\* Snapshot s2 has one more than snaps, of asset a with verdict v.
Grown(snaps, s2, a, v) ==
  /\ Len(snaps) \in Nat /\ DOMAIN snaps = 1 .. Len(snaps)
  /\ Len(s2) = Len(snaps) + 1 /\ DOMAIN s2 = 1 .. Len(snaps) + 1
  /\ \A k \in 1 .. Len(snaps) : s2[k] = snaps[k]
  /\ s2[Len(snaps) + 1].rwaId = a /\ s2[Len(snaps) + 1].verdict = v
  /\ \A k \in 1 .. Len(snaps) + 1 : DeviationAt(s2, k) \in Int

\* The log t2 has one row more than trans, of event id.
Logged(trans, t2, id, tr, deviation, now) ==
  \E n : /\ n \notin DOMAIN trans /\ DOMAIN t2 = DOMAIN trans \cup {n}
         /\ \A t \in DOMAIN trans : t2[t] = trans[t]
         /\ t2[n].eventId = id /\ t2[n].transition = tr
         /\ t2[n].deviation = deviation /\ t2[n].snapshot = now

\* An arc that is not the scanned asset's open one stays as it is.
LEMMA ArcStays ==
  ASSUME NEW snaps, NEW s2, NEW a, NEW v, Grown(snaps, s2, a, v),
         NEW e \in Event, Dates(snaps, e)
  PROVE  /\ ArcOf(s2, e) = ArcOf(snaps, e)
         /\ \A k \in ArcOf(snaps, e) : k \in DOMAIN snaps /\ s2[k] = snaps[k]
  <1>1. e.firstSeenAt \in Nat /\ e.lastSeenAt \in Nat
    BY DEF Event
  <1>2. e.lastSeenAt \in 1 .. Len(snaps) /\ Len(snaps) \in Nat
    BY DEF Dates, ArcOf, Grown
  <1>3. /\ DOMAIN snaps = 1 .. Len(snaps) /\ DOMAIN s2 = 1 .. Len(snaps) + 1
        /\ \A k \in 1 .. Len(snaps) : s2[k] = snaps[k]
    BY DEF Grown
  <1>4. ASSUME NEW k PROVE k \in ArcOf(s2, e) <=> k \in ArcOf(snaps, e)
    BY <1>1, <1>2, <1>3 DEF ArcOf
  <1>. QED
    BY <1>3, <1>4 DEF ArcOf

LEMMA ToldStays ==
  ASSUME NEW snaps, NEW s2, NEW a, NEW v, Grown(snaps, s2, a, v),
         NEW e \in Event, IsOpen(e) => e.rwaId # a,
         NEW trans, NEW t2, NEW i,
         \/ t2 = trans
         \/ \E id, tr, deviation, now : id # i /\ Logged(trans, t2, id, tr, deviation, now),
         ArcTold(snaps, trans, i, e)
  PROVE  ArcTold(s2, t2, i, e)
  <1>. DEFINE A == ArcOf(snaps, e)
  <1>1. /\ Dates(snaps, e) /\ Latest(snaps, e) /\ Peaks(snaps, e)
        /\ Tells(snaps, trans, i, e) /\ Named(trans, i, e)
    BY DEF ArcTold
  <1>2. ArcOf(s2, e) = A /\ \A k \in A : k \in DOMAIN snaps /\ s2[k] = snaps[k]
    BY <1>1, ArcStays
  <1>3. /\ Len(snaps) \in Nat /\ Len(s2) = Len(snaps) + 1 /\ e.resolvedAt \in Nat
        /\ e.lastSeenAt \in A
    BY <1>1 DEF Grown, Event, Dates
  <1>4. /\ RowsOf(t2, i) = RowsOf(trans, i)
        /\ \A t \in RowsOf(trans, i) : t2[t] = trans[t]
    <2>1. CASE t2 = trans
      BY <2>1
    <2>2. CASE \E id, tr, deviation, now : id # i /\ Logged(trans, t2, id, tr, deviation, now)
      BY <2>2 DEF Logged, RowsOf
    <2>. QED
      BY <2>1, <2>2
  <1>5. TimesOf(t2, i) = TimesOf(trans, i)
    BY <1>4 DEF TimesOf
  <1>. HIDE DEF A
  <1>6. Dates(s2, e)
    BY <1>1, <1>2, <1>3 DEF Dates, A
  <1>7. Latest(s2, e)
    <2>. SUFFICES ASSUME IsOpen(e) PROVE Latest(s2, e)
      BY DEF Latest
    <2>1. e.rwaId # a
      OBVIOUS
    <2>2. e.severity = s2[e.lastSeenAt].verdict.severity
      BY <1>1, <1>2, <1>3 DEF Latest
    <2>3. \A k \in DOMAIN snaps : snaps[k].rwaId = e.rwaId => k <= e.lastSeenAt
      BY <1>1 DEF Latest
    <2>4. \A k \in DOMAIN s2 : s2[k].rwaId = e.rwaId => k <= e.lastSeenAt
      BY <2>1, <2>3 DEF Grown
    <2>. QED
      BY <2>2, <2>4 DEF Latest
  <1>8. Peaks(s2, e)
    <2>1. \A k \in A : DeviationAt(s2, k) = DeviationAt(snaps, k)
      BY <1>2 DEF DeviationAt
    <2>. QED
      BY <1>1, <1>2, <2>1 DEF Peaks, A
  <1>9. Tells(s2, t2, i, e)
    <2>1. \A k \in A : DeviationAt(s2, k) = DeviationAt(snaps, k)
      BY <1>2 DEF DeviationAt
    <2>. QED
      BY <1>1, <1>2, <1>4, <1>5, <2>1 DEF Tells, A
  <1>10. Named(t2, i, e)
    BY <1>1, <1>4 DEF Named
  <1>. QED
    BY <1>6, <1>7, <1>8, <1>9, <1>10 DEF ArcTold

\* The rows of the event that was scanned.
LEMMA RowsGrow ==
  ASSUME NEW trans, NEW t2, NEW id, NEW tr, NEW deviation, NEW now,
         Logged(trans, t2, id, tr, deviation, now)
  PROVE  /\ TimesOf(t2, id) = TimesOf(trans, id) \cup {now}
         /\ \A t \in RowsOf(t2, id) :
              \/ t \in RowsOf(trans, id) /\ t2[t] = trans[t]
              \/ /\ t2[t].transition = tr /\ t2[t].deviation = deviation
                 /\ t2[t].snapshot = now
  <1>1. PICK n : /\ n \notin DOMAIN trans /\ DOMAIN t2 = DOMAIN trans \cup {n}
                 /\ \A t \in DOMAIN trans : t2[t] = trans[t]
                 /\ t2[n].eventId = id /\ t2[n].transition = tr
                 /\ t2[n].deviation = deviation /\ t2[n].snapshot = now
    BY DEF Logged
  <1>2. RowsOf(t2, id) = RowsOf(trans, id) \cup {n}
    BY <1>1 DEF RowsOf
  <1>3. \A t \in RowsOf(trans, id) : t2[t] = trans[t]
    BY <1>1 DEF RowsOf
  <1>4. TimesOf(t2, id) = TimesOf(trans, id) \cup {now}
    BY <1>1, <1>2, <1>3 DEF TimesOf
  <1>. QED
    BY <1>1, <1>2, <1>3, <1>4

\* A first sighting is an arc of one snapshot.
LEMMA ToldOpened ==
  ASSUME NEW snaps, NEW s2, NEW a, NEW v, Grown(snaps, s2, a, v), Anomalous(v),
         NEW now, now = Len(snaps) + 1,
         NEW e \in Event, e.rwaId = a, IsOpen(e), e.confirmations = 1,
         e.firstSeenAt = now, e.lastSeenAt = now, e.maxDeviation = v.deviation,
         e.severity = v.severity, e.resolvedAt = 0,
         NEW tr, tr = IF ConfirmScans = 1 THEN "confirmed" ELSE "created",
         NEW trans, NEW t2, NEW id, Logged(trans, t2, id, tr, v.deviation, now),
         RowsOf(trans, id) = {}
  PROVE  ArcTold(s2, t2, id, e)
  <1>1. /\ now \in Nat /\ now \in DOMAIN s2 /\ DOMAIN s2 = 1 .. now
        /\ s2[now].rwaId = a /\ s2[now].verdict = v /\ v.deviation \in Int
    BY DEF Grown, DeviationAt
  <1>2. ArcOf(s2, e) = {now}
    BY <1>1 DEF ArcOf
  <1>3. TimesOf(t2, id) = {now} /\ \A t \in RowsOf(t2, id) : /\ t2[t].transition = tr
                                                            /\ t2[t].deviation = v.deviation
                                                            /\ t2[t].snapshot = now
    BY RowsGrow DEF TimesOf
  <1>4. Dates(s2, e)
    BY <1>1, <1>2, FS_Singleton DEF Dates
  <1>5. Latest(s2, e)
    BY <1>1 DEF Latest
  <1>6. Peaks(s2, e)
    BY <1>1, <1>2 DEF Peaks, DeviationAt, Abs
  <1>7. Tells(s2, t2, id, e)
    <2>1. TimesOf(t2, id) = ArcOf(s2, e) \cup ClosingOf(e)
      BY <1>2, <1>3 DEF ClosingOf
    <2>2. DeviationAt(s2, now) = v.deviation
      BY <1>1 DEF DeviationAt
    <2>3. tr = "confirmed" => now >= e.firstSeenAt + ConfirmScans - 1
      BY <1>1
    <2>. QED
      BY <1>2, <1>3, <2>1, <2>2, <2>3 DEF Tells
  <1>8. Named(t2, id, e)
    BY <1>1, <1>3 DEF Named, ClosedStatuses
  <1>. QED
    BY <1>4, <1>5, <1>6, <1>7, <1>8 DEF ArcTold

\* A further sighting adds its snapshot to the arc.
LEMMA ToldContinued ==
  ASSUME NEW snaps, NEW s2, NEW a, NEW v, Grown(snaps, s2, a, v), Anomalous(v),
         NEW now, now = Len(snaps) + 1,
         NEW e0 \in Event, e0.rwaId = a, IsOpen(e0),
         NEW e \in Event, e.rwaId = a, IsOpen(e),
         e.confirmations = e0.confirmations + 1,
         e.firstSeenAt = e0.firstSeenAt, e.lastSeenAt = now,
         e.maxDeviation = Peak(v.deviation, e0.maxDeviation),
         e.severity = v.severity, e.resolvedAt = e0.resolvedAt,
         NEW tr \in {"confirmed", "updated"},
         tr = "confirmed" <=> e0.confirmations + 1 = ConfirmScans,
         NEW trans, NEW t2, NEW id, Logged(trans, t2, id, tr, v.deviation, now),
         ArcTold(snaps, trans, id, e0)
  PROVE  ArcTold(s2, t2, id, e)
  <1>. DEFINE A == ArcOf(snaps, e0)
  <1>1. /\ Dates(snaps, e0) /\ Latest(snaps, e0) /\ Peaks(snaps, e0)
        /\ Tells(snaps, trans, id, e0) /\ Named(trans, id, e0)
    BY DEF ArcTold
  <1>2. /\ now \in Nat /\ now \in DOMAIN s2 /\ DOMAIN s2 = 1 .. now
        /\ s2[now].rwaId = a /\ s2[now].verdict = v /\ v.deviation \in Int
        /\ DOMAIN snaps = 1 .. now - 1
        /\ \A k \in DOMAIN snaps : s2[k] = snaps[k] /\ DeviationAt(snaps, k) \in Int
    BY DEF Grown, DeviationAt
  <1>3. /\ e0.firstSeenAt \in Nat /\ e0.lastSeenAt \in Nat /\ e0.maxDeviation \in Int
        /\ e0.confirmations \in Nat /\ ConfirmScans \in Nat
    BY ConfirmScansAssumption DEF Event
  <1>4. \A k \in DOMAIN snaps : snaps[k].rwaId = a => k <= e0.lastSeenAt
    BY <1>1 DEF Latest
  <1>5. e0.firstSeenAt \in A /\ e0.lastSeenAt \in A /\ A \subseteq DOMAIN snaps
    BY <1>1 DEF Dates, ArcOf
  <1>6. ArcOf(s2, e) = A \cup {now}
    <2>1. ASSUME NEW k \in DOMAIN snaps PROVE k \in ArcOf(s2, e) <=> k \in A
      BY <1>2, <1>3, <1>4, <2>1 DEF ArcOf
    <2>2. now \in ArcOf(s2, e)
      BY <1>2, <1>3, <1>5 DEF ArcOf
    <2>3. ArcOf(s2, e) \subseteq DOMAIN snaps \cup {now}
      BY <1>2 DEF ArcOf
    <2>. QED
      BY <1>5, <2>1, <2>2, <2>3
  <1>7. now \notin A /\ IsFiniteSet(A) /\ Cardinality(A \cup {now}) = Cardinality(A) + 1
    <2>1. 1 \in Int /\ now - 1 \in Int
      BY <1>2
    <2>2. IsFiniteSet(DOMAIN snaps)
      BY <1>2, <2>1, FS_Interval
    <2>3. IsFiniteSet(A)
      BY <1>5, <2>2, FS_Subset
    <2>4. now \notin A
      BY <1>2, <1>5
    <2>. QED
      BY <2>3, <2>4, FS_AddElement
  <1>. HIDE DEF A
  <1>8. \A k \in A : s2[k] = snaps[k] /\ DeviationAt(s2, k) = DeviationAt(snaps, k)
    BY <1>2, <1>5 DEF DeviationAt
  <1>9. Dates(s2, e)
    <2>1. e0.confirmations = Cardinality(A) /\ e0.resolvedAt = 0
      BY <1>1 DEF Dates, A
    <2>. QED
      BY <1>5, <1>6, <1>7, <2>1 DEF Dates
  <1>10. Latest(s2, e)
    BY <1>2 DEF Latest
  <1>11. Peaks(s2, e)
    <2>1. /\ Abs(v.deviation) <= Abs(e.maxDeviation)
          /\ Abs(e0.maxDeviation) <= Abs(e.maxDeviation)
          /\ e.maxDeviation \in {v.deviation, e0.maxDeviation}
          /\ Abs(e0.maxDeviation) \in Int /\ Abs(e.maxDeviation) \in Int
      BY <1>2, <1>3 DEF Peak, Abs
    <2>2. DeviationAt(s2, now) = v.deviation
      BY <1>2 DEF DeviationAt
    <2>3. ASSUME NEW k \in A
          PROVE  Anomalous(s2[k].verdict) /\ Abs(DeviationAt(s2, k)) <= Abs(e.maxDeviation)
      <3>1. /\ Anomalous(snaps[k].verdict)
            /\ Abs(DeviationAt(snaps, k)) <= Abs(e0.maxDeviation)
        BY <1>1 DEF Peaks, A
      <3>2. Abs(DeviationAt(snaps, k)) \in Int
        BY <1>2, <1>5 DEF Abs
      <3>. QED
        BY <1>8, <2>1, <3>1, <3>2
    <2>4. \E k \in A : e0.maxDeviation = DeviationAt(s2, k)
      BY <1>1, <1>8 DEF Peaks, A
    <2>5. \A k \in ArcOf(s2, e) : /\ Anomalous(s2[k].verdict)
                                 /\ Abs(DeviationAt(s2, k)) <= Abs(e.maxDeviation)
      BY <1>2, <1>6, <2>1, <2>2, <2>3
    <2>6. \E k \in ArcOf(s2, e) : e.maxDeviation = DeviationAt(s2, k)
      BY <1>6, <2>1, <2>2, <2>4
    <2>. QED
      BY <2>5, <2>6 DEF Peaks
  <1>12. Tells(s2, t2, id, e)
    <2>1. TimesOf(t2, id) = TimesOf(trans, id) \cup {now}
      BY RowsGrow
    <2>2. \A t \in RowsOf(t2, id) :
            \/ t \in RowsOf(trans, id) /\ t2[t] = trans[t]
            \/ /\ t2[t].transition = tr /\ t2[t].deviation = v.deviation
               /\ t2[t].snapshot = now
      BY RowsGrow
    <2>3. TimesOf(trans, id) = A
      BY <1>1 DEF Tells, ClosingOf, A
    <2>4. TimesOf(t2, id) = ArcOf(s2, e) \cup ClosingOf(e)
      BY <1>6, <2>1, <2>3 DEF ClosingOf
    <2>5. tr = "confirmed" => now >= e.firstSeenAt + ConfirmScans - 1
      <3>1. SUFFICES ASSUME tr = "confirmed" PROVE now >= e.firstSeenAt + ConfirmScans - 1
        OBVIOUS
      <3>2. Cardinality(A \cup {now}) = ConfirmScans
        BY <1>1, <1>3, <1>7, <3>1 DEF Dates, A
      <3>3. e0.firstSeenAt \in Int /\ now \in Int /\ e0.firstSeenAt <= now
        BY <1>2, <1>3, <1>5
      <3>4. A \cup {now} \subseteq e0.firstSeenAt .. now
        BY <1>2, <1>3, <1>5 DEF A, ArcOf
      <3>5. /\ IsFiniteSet(e0.firstSeenAt .. now)
            /\ Cardinality(e0.firstSeenAt .. now) = now - e0.firstSeenAt + 1
        BY <3>3, FS_Interval
      <3>6. Cardinality(A \cup {now}) <= Cardinality(e0.firstSeenAt .. now)
        BY <3>4, <3>5, FS_Subset
      <3>7. ConfirmScans <= now - e0.firstSeenAt + 1
        BY <3>2, <3>5, <3>6
      <3>. QED
        BY <1>3, <3>3, <3>7
    <2>6. ASSUME NEW t \in RowsOf(t2, id)
          PROVE  /\ t2[t].snapshot \in ArcOf(s2, e)
                 /\ t2[t].deviation = DeviationAt(s2, t2[t].snapshot)
                 /\ t2[t].transition = "confirmed" =>
                      t2[t].snapshot >= e.firstSeenAt + ConfirmScans - 1
      <3>1. CASE t \in RowsOf(trans, id) /\ t2[t] = trans[t]
        <4>1. trans[t].snapshot \in A
          BY <2>3, <3>1 DEF TimesOf
        <4>2. /\ trans[t].deviation = DeviationAt(snaps, trans[t].snapshot)
              /\ trans[t].transition = "confirmed" =>
                   trans[t].snapshot >= e0.firstSeenAt + ConfirmScans - 1
          BY <1>1, <3>1, <4>1 DEF Tells, A
        <4>. QED
          BY <1>6, <1>8, <3>1, <4>1, <4>2
      <3>2. CASE /\ t2[t].transition = tr /\ t2[t].deviation = v.deviation
                 /\ t2[t].snapshot = now
        BY <1>2, <1>6, <2>5, <3>2 DEF DeviationAt
      <3>. QED
        BY <2>2, <3>1, <3>2
    <2>. QED
      BY <2>4, <2>6 DEF Tells
  <1>13. Named(t2, id, e)
    <2>1. e0.firstSeenAt < now /\ e0.lastSeenAt < now
      BY <1>2, <1>5
    <2>2. ASSUME NEW t \in RowsOf(trans, id), t2[t] = trans[t]
          PROVE  /\ t2[t].transition = "created" =>
                      t2[t].snapshot = e.firstSeenAt /\ ConfirmScans # 1
                 /\ t2[t].snapshot = e.firstSeenAt =>
                      t2[t].transition = IF ConfirmScans = 1 THEN "confirmed" ELSE "created"
                 /\ t2[t].transition \notin ClosedStatuses /\ ~(t2[t].snapshot > e.lastSeenAt)
      <3>1. trans[t].snapshot \in A
        BY <1>1 DEF Tells, TimesOf, ClosingOf, A
      <3>2. trans[t].snapshot <= e0.lastSeenAt /\ trans[t].snapshot \in Int
        BY <1>2, <1>5, <3>1 DEF A, ArcOf
      <3>. QED
        BY <1>1, <1>2, <1>3, <2>1, <2>2, <3>2 DEF Named
    <2>3. ASSUME NEW t, t2[t].transition = tr, t2[t].snapshot = now
          PROVE  /\ t2[t].transition # "created" /\ t2[t].transition \notin ClosedStatuses
                 /\ t2[t].snapshot # e.firstSeenAt /\ ~(t2[t].snapshot > e.lastSeenAt)
      BY <1>2, <1>3, <2>1, <2>3 DEF ClosedStatuses
    <2>4. \A t \in RowsOf(t2, id) :
            \/ t \in RowsOf(trans, id) /\ t2[t] = trans[t]
            \/ t2[t].transition = tr /\ t2[t].snapshot = now
      BY RowsGrow
    <2>. QED
      BY <2>2, <2>3, <2>4 DEF Named
  <1>. QED
    BY <1>9, <1>10, <1>11, <1>12, <1>13 DEF ArcTold

\* What closes the event comes after its arc and adds nothing to it.
LEMMA ToldClosed ==
  ASSUME NEW snaps, NEW s2, NEW a, NEW v, Grown(snaps, s2, a, v),
         NEW now, now = Len(snaps) + 1,
         NEW e0 \in Event, IsOpen(e0),
         NEW e \in Event, e.rwaId = e0.rwaId, ~IsOpen(e),
         e.confirmations = e0.confirmations,
         e.firstSeenAt = e0.firstSeenAt, e.lastSeenAt = e0.lastSeenAt,
         e.maxDeviation = e0.maxDeviation, e.resolvedAt = now,
         NEW tr \in ClosedStatuses, e.status = tr,
         NEW trans, NEW t2, NEW id, Logged(trans, t2, id, tr, 0, now),
         ArcTold(snaps, trans, id, e0)
  PROVE  ArcTold(s2, t2, id, e)
  <1>. DEFINE A == ArcOf(snaps, e0)
  <1>1. /\ Dates(snaps, e0) /\ Peaks(snaps, e0)
        /\ Tells(snaps, trans, id, e0) /\ Named(trans, id, e0)
    BY DEF ArcTold
  <1>2. ArcOf(s2, e0) = A /\ \A k \in A : k \in DOMAIN snaps /\ s2[k] = snaps[k]
    BY <1>1, ArcStays
  <1>3. ArcOf(s2, e) = A
    BY <1>2 DEF ArcOf
  <1>4. /\ now \in Nat \ {0} /\ DOMAIN snaps = 1 .. now - 1 /\ Len(s2) = now
        /\ now \notin A
    BY <1>2 DEF Grown
  <1>. HIDE DEF A
  <1>5. e0.lastSeenAt \in A /\ e0.firstSeenAt \in A /\ e0.confirmations = Cardinality(A)
    BY <1>1 DEF Dates, A
  <1>6. \A k \in A : DeviationAt(s2, k) = DeviationAt(snaps, k)
    BY <1>2 DEF DeviationAt
  <1>7. Dates(s2, e)
    <2>1. e.lastSeenAt < now
      BY <1>2, <1>4, <1>5
    <2>. QED
      BY <1>3, <1>4, <1>5, <2>1 DEF Dates
  <1>8. Latest(s2, e)
    BY DEF Latest
  <1>9. Peaks(s2, e)
    BY <1>1, <1>2, <1>3, <1>6 DEF Peaks, A
  <1>10. Tells(s2, t2, id, e)
    <2>1. TimesOf(t2, id) = TimesOf(trans, id) \cup {now}
      BY RowsGrow
    <2>2. \A t \in RowsOf(t2, id) :
            \/ t \in RowsOf(trans, id) /\ t2[t] = trans[t]
            \/ /\ t2[t].transition = tr /\ t2[t].deviation = 0
               /\ t2[t].snapshot = now
      BY RowsGrow
    <2>3. TimesOf(trans, id) = A
      BY <1>1 DEF Tells, ClosingOf, A
    <2>4. TimesOf(t2, id) = ArcOf(s2, e) \cup ClosingOf(e)
      BY <1>3, <2>1, <2>3 DEF ClosingOf
    <2>5. ASSUME NEW t \in RowsOf(t2, id)
          PROVE  /\ t2[t].snapshot \in A =>
                      t2[t].deviation = DeviationAt(s2, t2[t].snapshot)
                 /\ t2[t].snapshot \notin A =>
                      t2[t].deviation = 0 /\ t2[t].transition # "confirmed"
                 /\ t2[t].transition = "confirmed" =>
                      t2[t].snapshot >= e.firstSeenAt + ConfirmScans - 1
      <3>1. CASE t \in RowsOf(trans, id) /\ t2[t] = trans[t]
        <4>1. trans[t].snapshot \in A
          BY <2>3, <3>1 DEF TimesOf
        <4>2. /\ trans[t].deviation = DeviationAt(snaps, trans[t].snapshot)
              /\ trans[t].transition = "confirmed" =>
                   trans[t].snapshot >= e0.firstSeenAt + ConfirmScans - 1
          BY <1>1, <3>1, <4>1 DEF Tells, A
        <4>. QED
          BY <1>6, <3>1, <4>1, <4>2
      <3>2. CASE /\ t2[t].transition = tr /\ t2[t].deviation = 0
                 /\ t2[t].snapshot = now
        BY <1>4, <3>2 DEF ClosedStatuses
      <3>. QED
        BY <2>2, <3>1, <3>2
    <2>. QED
      BY <1>3, <2>4, <2>5 DEF Tells
  <1>11. Named(t2, id, e)
    <2>1. /\ e0.firstSeenAt \in Nat /\ e0.lastSeenAt \in Nat
          /\ e0.firstSeenAt < now /\ e0.lastSeenAt < now
      BY <1>2, <1>4, <1>5 DEF Event
    <2>2. ASSUME NEW t \in RowsOf(trans, id), t2[t] = trans[t]
          PROVE  /\ t2[t].transition = "created" =>
                      t2[t].snapshot = e.firstSeenAt /\ ConfirmScans # 1
                 /\ t2[t].snapshot = e.firstSeenAt =>
                      t2[t].transition = IF ConfirmScans = 1 THEN "confirmed" ELSE "created"
                 /\ t2[t].transition \notin ClosedStatuses /\ ~(t2[t].snapshot > e.lastSeenAt)
      <3>1. trans[t].snapshot \in A
        BY <1>1 DEF Tells, TimesOf, ClosingOf, A
      <3>2. trans[t].snapshot <= e0.lastSeenAt /\ trans[t].snapshot \in Int
        BY <1>2, <1>4, <3>1 DEF A, ArcOf
      <3>. QED
        BY <1>1, <2>1, <2>2, <3>2 DEF Named
    <2>3. ASSUME NEW t, t2[t].transition = tr, t2[t].snapshot = now
          PROVE  /\ t2[t].transition # "created" /\ t2[t].transition \in ClosedStatuses
                 /\ t2[t].snapshot # e.firstSeenAt /\ t2[t].snapshot > e.lastSeenAt
                 /\ t2[t].transition = e.status
      BY <1>4, <2>1, <2>3 DEF ClosedStatuses
    <2>4. \A t \in RowsOf(t2, id) :
            \/ t \in RowsOf(trans, id) /\ t2[t] = trans[t]
            \/ t2[t].transition = tr /\ t2[t].snapshot = now
      BY RowsGrow
    <2>. QED
      BY <2>2, <2>3, <2>4 DEF Named
  <1>. QED
    BY <1>7, <1>8, <1>9, <1>10, <1>11 DEF ArcTold

\* Rows are written in the order of the scans.
RowsInOrder(snaps, trans) ==
  /\ \A t, u \in DOMAIN trans : t < u => trans[t].snapshot < trans[u].snapshot
  /\ \A t \in DOMAIN trans : trans[t].snapshot <= Len(snaps)

\* Of two events of an asset the earlier is closed before the later begins.
EventsApart(rows) ==
  \A i, j \in DOMAIN rows : i < j /\ rows[i].rwaId = rows[j].rwaId =>
    ~IsOpen(rows[i]) /\ rows[i].resolvedAt < rows[j].firstSeenAt

ArcInv ==
  /\ CertInv
  /\ RowsInOrder(snapshots, transitions)
  /\ EventsApart(events)
  /\ \A i \in DOMAIN events : ArcTold(snapshots, transitions, i, events[i])

LEMMA SnapshotsGrow ==
  ASSUME TypeOK, NEW a \in Assets, NEW v \in Verdicts,
         snapshots' = Append(snapshots, [rwaId |-> a, verdict |-> v])
  PROVE  Grown(snapshots, snapshots', a, v) /\ Now = Len(snapshots) + 1
  <1>. DEFINE Snapshot == [rwaId : Assets, verdict : Verdicts]
              row == [rwaId |-> a, verdict |-> v]
  <1>1. snapshots \in Seq(Snapshot) /\ row \in Snapshot /\ snapshots' = Append(snapshots, row)
    BY DEF TypeOK
  <1>2. row.rwaId = a /\ row.verdict = v /\ \A x \in Snapshot : x.verdict.deviation \in Int
    BY VerdictsAssumption DEF WellFormed, Verdict
  <1>. HIDE DEF Snapshot, row
  <1>3. /\ Len(snapshots) \in Nat /\ DOMAIN snapshots = 1 .. Len(snapshots)
        /\ Len(snapshots') = Len(snapshots) + 1
        /\ DOMAIN snapshots' = 1 .. Len(snapshots) + 1
        /\ \A k \in 1 .. Len(snapshots) : snapshots'[k] = snapshots[k]
        /\ snapshots'[Len(snapshots) + 1] = row
        /\ \A k \in 1 .. Len(snapshots) + 1 : snapshots'[k] \in Snapshot
    BY <1>1
  <1>. QED
    BY <1>2, <1>3 DEF Grown, DeviationAt, Now

LEMMA WroteLogged ==
  ASSUME TypeOK, NEW id, NEW e, NEW tr, NEW v, Wrote(id, e, tr, v),
         RowsInOrder(snapshots, transitions)
  PROVE  /\ Logged(transitions, transitions', id, tr,
                   IF Anomalous(v) THEN v.deviation ELSE 0, Now)
         /\ \A t, u \in DOMAIN transitions' :
              t < u => transitions'[t].snapshot < transitions'[u].snapshot
         /\ \A t \in DOMAIN transitions' : transitions'[t].snapshot <= Now
  <1>1. PICK row \in Transition : /\ row.eventId = id /\ row.transition = tr
                                  /\ row.snapshot = Now
                                  /\ row.deviation = IF Anomalous(v) THEN v.deviation ELSE 0
                                  /\ transitions' = Append(transitions, row)
    BY DEF Wrote
  <1>. DEFINE n == Len(transitions) + 1
  <1>2. transitions \in Seq(Transition)
    BY DEF TypeOK
  <1>3. /\ n \in Nat /\ n \notin DOMAIN transitions
        /\ DOMAIN transitions' = DOMAIN transitions \cup {n}
        /\ transitions'[n] = row
        /\ \A k \in DOMAIN transitions : transitions'[k] = transitions[k] /\ k < n /\ k \in Nat
    BY <1>1, <1>2, SequenceGrows
  <1>4. Now \in Nat /\ Now = Len(snapshots) + 1
    BY DEF TypeOK, Now
  <1>5. \A t \in DOMAIN transitions : /\ transitions[t].snapshot \in Nat
                                      /\ transitions[t].snapshot < Now
    <2>1. \A t \in DOMAIN transitions : transitions[t] \in Transition
      BY <1>2
    <2>2. \A t \in DOMAIN transitions : transitions[t].snapshot \in Nat
      BY <2>1 DEF Transition
    <2>. QED
      BY <1>4, <2>2 DEF RowsInOrder
  <1>. HIDE DEF n
  <1>6. Logged(transitions, transitions', id, tr, IF Anomalous(v) THEN v.deviation ELSE 0, Now)
    BY <1>1, <1>3 DEF Logged
  <1>7. ASSUME NEW t \in DOMAIN transitions', NEW u \in DOMAIN transitions', t < u
        PROVE  transitions'[t].snapshot < transitions'[u].snapshot
    <2>1. t \in DOMAIN transitions
      BY <1>3, <1>7
    <2>2. CASE u = n
      BY <1>1, <1>3, <1>5, <2>1, <2>2
    <2>3. CASE u \in DOMAIN transitions
      BY <1>3, <1>7, <2>1, <2>3 DEF RowsInOrder
    <2>. QED
      BY <1>3, <2>2, <2>3
  <1>8. \A t \in DOMAIN transitions' : transitions'[t].snapshot <= Now
    BY <1>1, <1>3, <1>4, <1>5
  <1>. QED
    BY <1>6, <1>7, <1>8

LEMMA ArcStep ==
  ASSUME ArcInv, NEW a \in Assets, NEW v \in Verdicts, ProcessEntry(a, v)
  PROVE  ArcInv'
  <1>1. /\ CertInv /\ CertInv' /\ Inv /\ TypeOK /\ TypeOK' /\ OneOpenEvent /\ RowsRefer
        /\ RowsInOrder(snapshots, transitions) /\ EventsApart(events)
        /\ \A i \in DOMAIN events : ArcTold(snapshots, transitions, i, events[i])
    BY CertStep DEF ArcInv, CertInv, Inv
  <1>2. snapshots' = Append(snapshots, [rwaId |-> a, verdict |-> v])
    BY <1>1, ProcessEntryCases
  <1>3. Grown(snapshots, snapshots', a, v) /\ Now = Len(snapshots) + 1
    BY <1>1, <1>2, SnapshotsGrow
  <1>4. Len(snapshots) \in Nat /\ Now \in Nat /\ Len(snapshots') = Now
    BY <1>3 DEF Grown
  <1>5. /\ DOMAIN events = 1 .. Len(events) /\ Len(events) \in Nat
        /\ DOMAIN events' = 1 .. Len(events')
        /\ \A i \in DOMAIN events : events[i] \in Event
    BY <1>1 DEF TypeOK
  <1>6. CASE QuietStep(a, v)
    <2>1. events' = events /\ transitions' = transitions /\ NothingOpen(a)
      BY <1>6 DEF QuietStep
    <2>2. ASSUME NEW i \in DOMAIN events
          PROVE  ArcTold(snapshots', transitions', i, events'[i])
      <3>1. events[i] \in Event /\ (IsOpen(events[i]) => events[i].rwaId # a)
        BY <1>5, <2>1 DEF NothingOpen
      <3>2. ArcTold(snapshots, transitions, i, events[i])
        BY <1>1
      <3>3. ArcTold(snapshots', transitions', i, events[i])
        BY <1>3, <2>1, <3>1, <3>2, ToldStays
      <3>. QED
        BY <2>1, <3>3
    <2>3. RowsInOrder(snapshots', transitions')
      <3>1. \A t \in DOMAIN transitions : transitions[t].snapshot \in Nat
        <4>1. \A t \in DOMAIN transitions : transitions[t] \in Transition
          BY <1>1 DEF TypeOK
        <4>. QED
          BY <4>1 DEF Transition
      <3>. QED
        BY <1>1, <1>3, <1>4, <2>1, <3>1 DEF RowsInOrder
    <2>. QED
      BY <1>1, <2>1, <2>2, <2>3 DEF ArcInv
  <1>7. ASSUME NEW id \in Nat, NEW e \in Event, NEW tr \in Transitions,
               \/ Opens(a, v, id, e, tr)
               \/ Continues(a, v, id, e, tr)
               \/ Closes(a, v, id, e, tr)
        PROVE  ArcInv'
    <2>. DEFINE found == IF Anomalous(v) THEN v.deviation ELSE 0
    <2>1. /\ Wrote(id, e, tr, v)
          /\ DOMAIN events' = DOMAIN events \cup {id}
          /\ events'[id] = e /\ e.rwaId = a
          /\ \A i \in DOMAIN events \ {id} : events'[i] = events[i]
          /\ id \in DOMAIN events => OpenAt(id, a)
          /\ id \notin DOMAIN events => NothingOpen(a)
      BY <1>7 DEF Opens, Continues, Closes, Wrote, OpenAt
    <2>2. Logged(transitions, transitions', id, tr, found, Now)
      BY <1>1, <2>1, WroteLogged
    <2>3. RowsInOrder(snapshots', transitions')
      BY <1>1, <1>4, <2>1, WroteLogged DEF RowsInOrder
    <2>. HIDE DEF found
    <2>4. ASSUME NEW i \in DOMAIN events \ {id}
          PROVE  ArcTold(snapshots', transitions', i, events'[i])
      <3>1. events[i] \in Event /\ ArcTold(snapshots, transitions, i, events[i])
        BY <1>1, <1>5
      <3>2. IsOpen(events[i]) => events[i].rwaId # a
        BY <1>1, <2>1 DEF OneOpenEvent, OpenAt, NothingOpen
      <3>3. \E d, t, f, n : d # i /\ Logged(transitions, transitions', d, t, f, n)
        BY <2>2
      <3>4. ArcTold(snapshots', transitions', i, events[i])
        BY <1>3, <3>1, <3>2, <3>3, ToldStays
      <3>. QED
        BY <2>1, <3>4
    <2>5. ArcTold(snapshots', transitions', id, e)
      <3>1. CASE Opens(a, v, id, e, tr)
        <4>1. /\ Anomalous(v) /\ id \notin DOMAIN events
              /\ e.rwaId = a /\ IsOpen(e) /\ e.confirmations = 1
              /\ e.firstSeenAt = Now /\ e.lastSeenAt = Now
              /\ e.maxDeviation = v.deviation /\ e.severity = v.severity /\ e.resolvedAt = 0
              /\ tr = IF ConfirmScans = 1 THEN "confirmed" ELSE "created"
          BY <3>1 DEF Opens
        <4>2. Logged(transitions, transitions', id, tr, v.deviation, Now)
          BY <2>2, <4>1 DEF found
        <4>3. RowsOf(transitions, id) = {}
          BY <1>1, <4>1 DEF RowsRefer, RowsOf
        <4>. QED
          BY <1>3, <4>1, <4>2, <4>3, ToldOpened
      <3>2. CASE Continues(a, v, id, e, tr)
        <4>1. /\ Anomalous(v) /\ id \in DOMAIN events
              /\ events[id].rwaId = a /\ IsOpen(events[id])
              /\ e.rwaId = a /\ IsOpen(e) /\ e.confirmations = events[id].confirmations + 1
              /\ e.firstSeenAt = events[id].firstSeenAt /\ e.lastSeenAt = Now
              /\ e.maxDeviation = Peak(v.deviation, events[id].maxDeviation)
              /\ e.severity = v.severity /\ e.resolvedAt = events[id].resolvedAt
              /\ tr \in {"confirmed", "updated"}
              /\ tr = "confirmed" <=> events[id].confirmations + 1 = ConfirmScans
          BY <3>2 DEF Continues, OpenAt
        <4>2. Logged(transitions, transitions', id, tr, v.deviation, Now)
          BY <2>2, <4>1 DEF found
        <4>3. events[id] \in Event /\ ArcTold(snapshots, transitions, id, events[id])
          BY <1>1, <1>5, <4>1
        <4>. QED
          BY <1>3, <4>1, <4>2, <4>3, ToldContinued
      <3>3. CASE Closes(a, v, id, e, tr)
        <4>1. /\ ~Anomalous(v) /\ id \in DOMAIN events
              /\ events[id].rwaId = a /\ IsOpen(events[id])
              /\ e.rwaId = a /\ ~IsOpen(e) /\ e.confirmations = events[id].confirmations
              /\ e.firstSeenAt = events[id].firstSeenAt
              /\ e.lastSeenAt = events[id].lastSeenAt
              /\ e.maxDeviation = events[id].maxDeviation /\ e.resolvedAt = Now
              /\ tr \in ClosedStatuses /\ e.status = tr
          BY <3>3 DEF Closes, OpenAt
        <4>2. Logged(transitions, transitions', id, tr, 0, Now)
          BY <2>2, <4>1 DEF found
        <4>3. events[id] \in Event /\ ArcTold(snapshots, transitions, id, events[id])
          BY <1>1, <1>5, <4>1
        <4>. QED
          BY <1>3, <4>1, <4>2, <4>3, ToldClosed
      <3>. QED
        BY <1>7, <3>1, <3>2, <3>3
    <2>6. EventsApart(events')
      <3>. SUFFICES ASSUME NEW i \in DOMAIN events', NEW j \in DOMAIN events', i < j,
                           events'[i].rwaId = events'[j].rwaId
                    PROVE  /\ ~IsOpen(events'[i])
                           /\ events'[i].resolvedAt < events'[j].firstSeenAt
        BY DEF EventsApart
      <3>1. i # id
        <4>. SUFFICES ASSUME i = id PROVE FALSE
          OBVIOUS
        <4>0. i \in Int /\ j \in Int /\ j # id
          BY <1>5
        <4>1. j \in DOMAIN events /\ id \in Nat /\ j # id
          BY <2>1, <4>0
        <4>2. CASE id \in DOMAIN events
          BY <1>1, <2>1, <4>1, <4>2 DEF EventsApart, OpenAt
        <4>3. CASE id \notin DOMAIN events
          BY <1>5, <2>1, <4>1, <4>3
        <4>. QED
          BY <4>2, <4>3
      <3>2. i \in DOMAIN events /\ events'[i] = events[i] /\ i \in DOMAIN events \ {id}
        BY <2>1, <3>1
      <3>3. CASE j # id
        <4>1. j \in DOMAIN events /\ events'[j] = events[j]
          BY <2>1, <3>3
        <4>. QED
          BY <1>1, <3>2, <4>1 DEF EventsApart
      <3>4. CASE j = id /\ id \in DOMAIN events
        <4>1. e.firstSeenAt = events[id].firstSeenAt
          BY <1>7, <3>4 DEF Opens, Continues, Closes
        <4>2. events[i].rwaId = events[id].rwaId
          BY <2>1, <3>2, <3>4 DEF OpenAt
        <4>3. ~IsOpen(events[i]) /\ events[i].resolvedAt < events[id].firstSeenAt
          BY <1>1, <3>2, <3>4, <4>2 DEF EventsApart
        <4>. QED
          BY <2>1, <3>2, <3>4, <4>1, <4>3
      <3>5. CASE j = id /\ id \notin DOMAIN events
        <4>1. e.firstSeenAt = Now
          BY <1>7, <3>5 DEF Opens, Continues, Closes, OpenAt
        <4>2. ~IsOpen(events[i])
          BY <2>1, <3>2, <3>5 DEF NothingOpen
        <4>3. events[i].resolvedAt <= Len(snapshots) /\ events[i].resolvedAt \in Nat
          BY <1>1, <1>5, <3>2, <4>2 DEF ArcTold, Dates, Event
        <4>. QED
          BY <1>3, <1>4, <2>1, <3>2, <3>5, <4>1, <4>2, <4>3
      <3>. QED
        BY <3>3, <3>4, <3>5
    <2>7. \A i \in DOMAIN events' : ArcTold(snapshots', transitions', i, events'[i])
      BY <2>1, <2>4, <2>5
    <2>. QED
      BY <1>1, <2>3, <2>6, <2>7 DEF ArcInv
  <1>. QED
    BY <1>1, <1>6, <1>7, Outcomes

LEMMA SpecArcInv == Spec => []ArcInv
  <1>1. Init => ArcInv
    <2>. SUFFICES ASSUME Init PROVE ArcInv
      OBVIOUS
    <2>1. CertInv
      BY InitInv DEF Init, CertInv, RowsRefer, CertifiedOnce
    <2>2. DOMAIN events = {} /\ DOMAIN transitions = {}
      BY DEF Init
    <2>. QED
      BY <2>1, <2>2 DEF ArcInv, RowsInOrder, EventsApart
  <1>2. ArcInv /\ [Next]_vars => ArcInv'
    <2>. SUFFICES ASSUME ArcInv, [Next]_vars PROVE ArcInv'
      OBVIOUS
    <2>1. CASE Next
      BY <2>1, ArcStep DEF Next
    <2>2. CASE UNCHANGED vars
      <3>1. CertInv
        BY DEF ArcInv
      <3>2. Inv'
        BY <2>2, <3>1, NextInv DEF CertInv
      <3>3. RowsRefer /\ CertifiedOnce
        BY <3>1 DEF CertInv
      <3>4. RowsRefer'
        BY <2>2, <3>3 DEF vars, RowsRefer
      <3>5. CertifiedOnce'
        BY <2>2, <3>3 DEF vars, CertifiedOnce, TransitionsOf
      <3>6. CertInv'
        BY <3>2, <3>4, <3>5 DEF CertInv
      <3>. QED
        BY <2>2, <3>6 DEF vars, ArcInv
    <2>. QED
      BY <2>1, <2>2
  <1>. QED
    BY <1>1, <1>2, PTL DEF Spec

-----------------------------------------------------------------------------
(***************************************************************************)
(* What the views say follows from the arcs.                               *)
(***************************************************************************)

\* The greater of a number and 0.
LEMMA AtLeastZero ==
  ASSUME NEW x \in Int
  PROVE  Max({0, x}) = IF x < 0 THEN 0 ELSE x
  <1>1. CASE x < 0
    BY <1>1, GreatestIs
  <1>2. CASE ~(x < 0)
    BY <1>2, GreatestIs
  <1>. QED
    BY <1>1, <1>2

\* The rows transitionsFor gives are those of the event.
Given(rows, i) ==
  /\ Len(rows) = Cardinality(RowsOf(transitions, i))
  /\ \A k \in DOMAIN rows : \E t \in RowsOf(transitions, i) :
       /\ rows[k].at = transitions[t].snapshot
       /\ rows[k].deviation = transitions[t].deviation
  /\ \A t \in RowsOf(transitions, i) : \E k \in DOMAIN rows :
       /\ rows[k].at = transitions[t].snapshot
       /\ rows[k].deviation = transitions[t].deviation

LEMMA RowsAreGiven ==
  ASSUME TypeOK, NEW i
  PROVE  /\ Given(Dated(TransitionsFor(i)), i)
         /\ IsFiniteSet(RowsOf(transitions, i)) /\ RowsOf(transitions, i) \subseteq Int
  <1>. DEFINE R == RowsOf(transitions, i)
              f == InOrder(R)
              row(t) == [at         |-> transitions[t].snapshot,
                         transition |-> transitions[t].transition,
                         severity   |-> transitions[t].severity,
                         deviation  |-> transitions[t].deviation]
              value == [t \in R |-> row(t)]
              rows == Dated(TransitionsFor(i))
  <1>1. Len(transitions) \in Nat /\ DOMAIN transitions = 1 .. Len(transitions)
    BY DEF TypeOK
  <1>2. IsFiniteSet(R) /\ R \subseteq Int
    <2>1. 1 \in Int /\ Len(transitions) \in Int
      BY <1>1
    <2>2. IsFiniteSet(DOMAIN transitions)
      BY <1>1, <2>1, FS_Interval
    <2>. QED
      BY <1>1, <2>2, FS_Subset DEF RowsOf
  <1>3. TransitionsFor(i) = [n \in DOMAIN f |-> transitions[f[n]]]
    BY DEF TransitionsFor, Picked, RowsOf
  <1>4. rows = [n \in DOMAIN f |-> row(f[n])]
    BY <1>3 DEF Dated
  <1>5. Lists(f, R)
    BY <1>2, InOrderLists
  <1>6. rows = [n \in DOMAIN f |-> value[f[n]]]
    BY <1>4, <1>5 DEF Lists
  <1>7. Takes(rows, f, R, value)
    BY <1>2, <1>6, TakenInOrder
  <1>8. \A t \in R : /\ value[t].at = transitions[t].snapshot
                     /\ value[t].deviation = transitions[t].deviation
    OBVIOUS
  <1>. HIDE DEF rows, f, value
  <1>9. Given(rows, i)
    BY <1>7, <1>8 DEF Given, Takes
  <1>. QED
    BY <1>2, <1>9 DEF rows

\* What the invariant says of one event, with the types it needs.
Arced(i, e, A) ==
  /\ e = events[i] /\ e \in Event /\ A = ArcOf(snapshots, e)
  /\ IsFiniteSet(A) /\ A \subseteq Int /\ Cardinality(A) = e.confirmations
  /\ e.firstSeenAt \in A /\ e.lastSeenAt \in A
  /\ \A k \in A : e.firstSeenAt <= k /\ k <= e.lastSeenAt
  /\ \A k \in A : DeviationAt(snapshots, k) \in Int
  /\ Cardinality(A) <= e.lastSeenAt - e.firstSeenAt + 1
  /\ e.resolvedAt = 0 <=> IsOpen(e)
  /\ ~IsOpen(e) => e.lastSeenAt < e.resolvedAt
  /\ Peaks(snapshots, e) /\ Tells(snapshots, transitions, i, e)

LEMMA EventArced ==
  ASSUME ArcInv, NEW i \in DOMAIN events
  PROVE  Arced(i, events[i], ArcOf(snapshots, events[i]))
  <1>. DEFINE e == events[i]
              A == ArcOf(snapshots, e)
  <1>1. TypeOK /\ ArcTold(snapshots, transitions, i, e)
    BY DEF ArcInv, CertInv, Inv
  <1>2. Dates(snapshots, e) /\ Peaks(snapshots, e) /\ Tells(snapshots, transitions, i, e)
    BY <1>1 DEF ArcTold
  <1>3. e \in Event
    BY <1>1 DEF TypeOK
  <1>4. e.firstSeenAt \in Int /\ e.lastSeenAt \in Int
    BY <1>3 DEF Event
  <1>5. Len(snapshots) \in Nat /\ DOMAIN snapshots = 1 .. Len(snapshots)
    BY <1>1 DEF TypeOK
  <1>6. \A k \in DOMAIN snapshots : DeviationAt(snapshots, k) \in Int
    <2>. DEFINE Snapshot == [rwaId : Assets, verdict : Verdicts]
    <2>1. snapshots \in Seq(Snapshot)
      BY <1>1 DEF TypeOK
    <2>2. \A x \in Snapshot : x.verdict.deviation \in Int
      BY VerdictsAssumption DEF WellFormed, Verdict
    <2>. HIDE DEF Snapshot
    <2>3. \A k \in DOMAIN snapshots : snapshots[k] \in Snapshot
      BY <2>1
    <2>. QED
      BY <2>2, <2>3 DEF DeviationAt
  <1>. HIDE DEF e
  <1>7. A \subseteq DOMAIN snapshots /\ \A k \in A : e.firstSeenAt <= k /\ k <= e.lastSeenAt
    BY DEF ArcOf
  <1>8. A \subseteq Int
    BY <1>5, <1>7
  <1>9. A \in SUBSET (e.firstSeenAt .. e.lastSeenAt)
    BY <1>4, <1>7, <1>8
  <1>10. e.firstSeenAt \in A /\ e.lastSeenAt \in A /\ e.firstSeenAt <= e.lastSeenAt
    BY <1>2, <1>7 DEF Dates
  <1>11. /\ IsFiniteSet(e.firstSeenAt .. e.lastSeenAt)
         /\ Cardinality(e.firstSeenAt .. e.lastSeenAt) = e.lastSeenAt - e.firstSeenAt + 1
    <2>1. /\ IsFiniteSet(e.firstSeenAt .. e.lastSeenAt)
          /\ Cardinality(e.firstSeenAt .. e.lastSeenAt) =
               IF e.firstSeenAt > e.lastSeenAt THEN 0 ELSE e.lastSeenAt - e.firstSeenAt + 1
      BY <1>4, FS_Interval
    <2>. QED
      BY <1>4, <1>10, <2>1
  <1>12. IsFiniteSet(A) /\ Cardinality(A) <= e.lastSeenAt - e.firstSeenAt + 1
    BY <1>9, <1>11, FS_Subset
  <1>13. Cardinality(A) = e.confirmations
    BY <1>2 DEF Dates
  <1>14. (e.resolvedAt = 0 <=> IsOpen(e)) /\ (~IsOpen(e) => e.lastSeenAt < e.resolvedAt)
    BY <1>2 DEF Dates
  <1>15. \A k \in A : DeviationAt(snapshots, k) \in Int
    BY <1>6, <1>7
  <1>. QED
    BY <1>2, <1>3, <1>7, <1>8, <1>10, <1>12, <1>13, <1>14, <1>15 DEF Arced, e

\* One row was written for each scan that saw the event, and one to close it.
LEMMA ObservedOnceEach ==
  ASSUME ArcInv, NEW i \in DOMAIN events, NEW e, NEW A, Arced(i, e, A)
  PROVE  Cardinality(RowsOf(transitions, i)) = Cardinality(A) + (IF IsOpen(e) THEN 0 ELSE 1)
  <1>. DEFINE R == RowsOf(transitions, i)
              T == TimesOf(transitions, i)
              time == [t \in R |-> transitions[t].snapshot]
  <1>1. IsFiniteSet(R) /\ R \subseteq Int /\ R \subseteq DOMAIN transitions
    BY RowsAreGiven DEF ArcInv, CertInv, Inv, RowsOf
  <1>2. \A t, u \in DOMAIN transitions :
          t < u => transitions[t].snapshot < transitions[u].snapshot
    BY DEF ArcInv, RowsInOrder
  <1>3. \A t \in DOMAIN transitions : transitions[t].snapshot \in Int
    <2>1. \A t \in DOMAIN transitions : transitions[t] \in Transition
      BY DEF ArcInv, CertInv, Inv, TypeOK
    <2>. QED
      BY <2>1 DEF Transition
  <1>4. \A t, u \in R : time[t] = time[u] => t = u
    <2>. SUFFICES ASSUME NEW t \in R, NEW u \in R, time[t] = time[u], t # u PROVE FALSE
      OBVIOUS
    <2>1. t < u \/ u < t
      BY <1>1
    <2>. QED
      BY <1>1, <1>2, <1>3, <2>1
  <1>5. time \in Bijection(R, T)
    <2>1. time \in [R -> T] /\ \A x \in T : \E t \in R : time[t] = x
      BY DEF TimesOf
    <2>. QED
      BY <1>4, <2>1 DEF Bijection, Injection, Surjection, IsInjective
  <1>6. Cardinality(T) = Cardinality(R)
    BY <1>1, <1>5, FS_Bijection DEF ExistsBijection
  <1>7. T = A \cup ClosingOf(e) /\ IsFiniteSet(A)
    BY DEF Arced, Tells
  <1>8. CASE IsOpen(e)
    <2>1. T = A
      BY <1>7, <1>8 DEF ClosingOf
    <2>2. Cardinality(A) \in Nat
      BY <1>7, FS_CardinalityType
    <2>. QED
      BY <1>6, <1>8, <2>1, <2>2
  <1>9. CASE ~IsOpen(e)
    <2>1. T = A \cup {e.resolvedAt}
      BY <1>7, <1>9 DEF ClosingOf
    <2>2. e.resolvedAt \notin A
      <3>1. e.lastSeenAt < e.resolvedAt /\ \A k \in A : k <= e.lastSeenAt
        BY <1>9 DEF Arced
      <3>2. e.lastSeenAt \in Int /\ e.resolvedAt \in Int
        BY DEF Arced, Event
      <3>. QED
        BY <3>1, <3>2
    <2>3. Cardinality(T) = Cardinality(A) + 1
      BY <1>7, <2>1, <2>2, FS_AddElement
    <2>. QED
      BY <1>6, <1>9, <2>3
  <1>. QED
    BY <1>8, <1>9

\* The duration counted from the first sighting to the end.
LEMMA LastsAsLong ==
  ASSUME NEW i, NEW e, NEW A, Arced(i, e, A), NEW rows, NEW siblings
  PROVE  /\ IncidentStats(e, rows, siblings).duration \in Int
         /\ IncidentStats(e, rows, siblings).duration >= Cardinality(A) - 1
         /\ ~IsOpen(e) => IncidentStats(e, rows, siblings).duration >= Cardinality(A)
  <1>. DEFINE end == IF e.resolvedAt = 0 THEN e.lastSeenAt ELSE e.resolvedAt
              span == end - e.firstSeenAt
  <1>1. IncidentStats(e, rows, siblings).duration = Max({0, span})
    BY DEF IncidentStats
  <1>2. /\ e.firstSeenAt \in Int /\ e.lastSeenAt \in Int /\ e.resolvedAt \in Int
        /\ e.firstSeenAt <= e.lastSeenAt
        /\ Cardinality(A) <= e.lastSeenAt - e.firstSeenAt + 1
        /\ (e.resolvedAt = 0 <=> IsOpen(e)) /\ (~IsOpen(e) => e.lastSeenAt < e.resolvedAt)
    BY DEF Arced, Event
  <1>3. Cardinality(A) \in Nat
    BY FS_CardinalityType DEF Arced
  <1>4. /\ span \in Int /\ span >= 0 /\ span >= Cardinality(A) - 1
        /\ ~IsOpen(e) => span >= Cardinality(A)
    BY <1>2, <1>3
  <1>. HIDE DEF span
  <1>5. Max({0, span}) = span
    BY <1>4, AtLeastZero
  <1>. QED
    BY <1>1, <1>4, <1>5

\* The peak is dated at the last snapshot of the arc that shows it.
LEMMA PeakIsDated ==
  ASSUME ArcInv, NEW i \in DOMAIN events, NEW e, NEW A, Arced(i, e, A),
         NEW rows, Given(rows, i)
  PROVE  PeakAt(e, rows) =
           Max({k \in A : Abs(DeviationAt(snapshots, k)) = Abs(e.maxDeviation)})
  <1>. DEFINE peak  == Abs(e.maxDeviation)
              sizes == {Size(rows[k]) : k \in DOMAIN rows} \cup {peak}
              at    == {rows[k].at : k \in {j \in DOMAIN rows : Size(rows[j]) = peak}}
              shows == {k \in A : Abs(DeviationAt(snapshots, k)) = peak}
  <1>1. /\ peak \in Int /\ peak >= 0
        /\ \A k \in A : Abs(DeviationAt(snapshots, k)) \in Int
                        /\ Abs(DeviationAt(snapshots, k)) >= 0
                        /\ (Abs(DeviationAt(snapshots, k)) = 0 <=> DeviationAt(snapshots, k) = 0)
    BY DEF Arced, Event, Abs
  <1>2. \A k \in A : Abs(DeviationAt(snapshots, k)) <= peak
    BY DEF Arced, Peaks
  <1>3. /\ TimesOf(transitions, i) = A \cup ClosingOf(e)
        /\ \A t \in RowsOf(transitions, i) :
             /\ transitions[t].snapshot \in A =>
                  transitions[t].deviation = DeviationAt(snapshots, transitions[t].snapshot)
             /\ transitions[t].snapshot \notin A => transitions[t].deviation = 0
    BY DEF Arced, Tells
  <1>4. ASSUME NEW k \in DOMAIN rows
        PROVE  \/ rows[k].at \in A /\ rows[k].deviation = DeviationAt(snapshots, rows[k].at)
               \/ rows[k].deviation = 0
    <2>1. PICK t \in RowsOf(transitions, i) : /\ rows[k].at = transitions[t].snapshot
                                              /\ rows[k].deviation = transitions[t].deviation
      BY DEF Given
    <2>. QED
      BY <1>3, <2>1
  <1>5. ASSUME NEW k \in A
        PROVE  \E j \in DOMAIN rows : /\ rows[j].at = k
                                      /\ rows[j].deviation = DeviationAt(snapshots, k)
    <2>1. PICK t \in RowsOf(transitions, i) : transitions[t].snapshot = k
      BY <1>3 DEF TimesOf
    <2>2. transitions[t].deviation = DeviationAt(snapshots, k)
      BY <1>3, <2>1
    <2>. QED
      BY <2>1, <2>2 DEF Given
  <1>. HIDE DEF peak
  <1>6. \A k \in DOMAIN rows : Size(rows[k]) \in Int /\ Size(rows[k]) <= peak
    <2>. TAKE k \in DOMAIN rows
    <2>1. CASE rows[k].deviation = 0
      BY <1>1, <2>1 DEF Size, Null
    <2>2. CASE rows[k].deviation # 0
      <3>1. rows[k].at \in A /\ Size(rows[k]) = Abs(DeviationAt(snapshots, rows[k].at))
        BY <1>4, <2>2 DEF Size
      <3>. QED
        BY <1>1, <1>2, <3>1
    <2>. QED
      BY <2>1, <2>2
  <1>7. Max(sizes) = peak
    <2>1. peak \in sizes /\ sizes \subseteq Int /\ \A x \in sizes : x <= peak
      BY <1>1, <1>6
    <2>. HIDE DEF sizes
    <2>. QED
      BY <2>1, GreatestIs
  <1>8. PeakAt(e, rows) = IF at = {} THEN e.lastSeenAt ELSE Max(at)
    BY <1>7 DEF PeakAt, peak
  <1>9. CASE peak = 0
    <2>1. \A k \in DOMAIN rows : Size(rows[k]) # peak
      <3>. SUFFICES ASSUME NEW k \in DOMAIN rows, Size(rows[k]) = 0 PROVE FALSE
        BY <1>9
      <3>1. rows[k].deviation # 0
        BY DEF Size, Null
      <3>2. rows[k].at \in A /\ Abs(DeviationAt(snapshots, rows[k].at)) = 0
        BY <1>4, <3>1 DEF Size
      <3>. QED
        BY <1>1, <1>4, <3>1, <3>2
    <2>2. at = {}
      BY <2>1
    <2>3. shows = A
      BY <1>1, <1>2, <1>9
    <2>4. Max(A) = e.lastSeenAt
      <3>1. e.lastSeenAt \in A /\ A \subseteq Int /\ \A k \in A : k <= e.lastSeenAt
        BY DEF Arced
      <3>. QED
        BY <3>1, GreatestIs
    <2>. QED
      BY <1>8, <2>2, <2>3, <2>4 DEF peak
  <1>10. CASE peak # 0
    <2>1. at \subseteq shows
      <3>. SUFFICES ASSUME NEW k \in DOMAIN rows, Size(rows[k]) = peak
                    PROVE  rows[k].at \in shows
        OBVIOUS
      <3>1. rows[k].deviation # 0
        BY <1>1 DEF Size, Null
      <3>. QED
        BY <1>4, <3>1 DEF Size
    <2>2. shows \subseteq at
      <3>. SUFFICES ASSUME NEW k \in A, Abs(DeviationAt(snapshots, k)) = peak
                    PROVE  k \in at
        OBVIOUS
      <3>1. PICK j \in DOMAIN rows : /\ rows[j].at = k
                                     /\ rows[j].deviation = DeviationAt(snapshots, k)
        BY <1>5
      <3>2. Size(rows[j]) = peak
        BY <1>1, <1>10, <3>1 DEF Size
      <3>. QED
        BY <3>1, <3>2
    <2>3. shows # {}
      <3>1. PICK k \in A : e.maxDeviation = DeviationAt(snapshots, k)
        BY DEF Arced, Peaks
      <3>2. k \in shows
        BY <3>1 DEF peak
      <3>. QED
        BY <3>2
    <2>4. at = shows /\ at # {}
      BY <2>1, <2>2, <2>3
    <2>. QED
      BY <1>8, <2>4 DEF peak
  <1>. QED
    BY <1>9, <1>10

\* Every event of an asset and kind but the last was followed by another.
LEMMA RecursAsOften ==
  ASSUME ArcInv, NEW i \in DOMAIN events, NEW rows
  PROVE  LET e == events[i]
             siblings == EventIdsFor(e.rwaId, e.kind)
         IN IncidentStats(e, rows, siblings).recurrences =
              Cardinality({j \in siblings : /\ events[j].resolvedAt # 0
                                            /\ \E k \in siblings :
                                                 events[k].firstSeenAt > events[j].resolvedAt})
  <1>. DEFINE e == events[i]
              S == EventIdsFor(e.rwaId, e.kind)
              followed == {j \in S : /\ events[j].resolvedAt # 0
                                     /\ \E k \in S :
                                          events[k].firstSeenAt > events[j].resolvedAt}
              last == Max(S)
  <1>1. DOMAIN events = 1 .. Len(events) /\ Len(events) \in Nat
    BY DEF ArcInv, CertInv, Inv, TypeOK
  <1>2. i \in S /\ S \subseteq DOMAIN events /\ \A j, k \in S : events[j].rwaId = events[k].rwaId
    BY DEF EventIdsFor
  <1>3. IsFiniteSet(S) /\ S \subseteq Int
    <2>1. 1 \in Int /\ Len(events) \in Int
      BY <1>1
    <2>2. IsFiniteSet(DOMAIN events)
      BY <1>1, <2>1, FS_Interval
    <2>. QED
      BY <1>1, <1>2, <2>2, FS_Subset
  <1>4. \A j \in S : /\ events[j].firstSeenAt \in Int /\ events[j].lastSeenAt \in Int
                     /\ events[j].resolvedAt \in Int
                     /\ events[j].firstSeenAt <= events[j].lastSeenAt
                     /\ events[j].resolvedAt = 0 <=> IsOpen(events[j])
                     /\ ~IsOpen(events[j]) => events[j].lastSeenAt < events[j].resolvedAt
    BY <1>2, EventArced DEF Arced, Event
  <1>5. \A j, k \in S : j < k => /\ ~IsOpen(events[j])
                                 /\ events[j].resolvedAt < events[k].firstSeenAt
    BY <1>2 DEF ArcInv, EventsApart
  <1>. HIDE DEF S
  <1>6. last \in S /\ \A k \in S : k <= last
    BY <1>2, <1>3, GreatestOf
  <1>. HIDE DEF last
  <1>7. followed = S \ {last}
    <2>1. ASSUME NEW j \in S, j # last PROVE j \in followed
      <3>1. j < last
        BY <1>3, <1>6, <2>1
      <3>2. ~IsOpen(events[j]) /\ events[j].resolvedAt < events[last].firstSeenAt
        BY <1>5, <1>6, <3>1
      <3>3. events[last].firstSeenAt > events[j].resolvedAt /\ events[j].resolvedAt # 0
        BY <1>4, <1>6, <3>2
      <3>. QED
        BY <1>6, <3>3
    <2>2. last \notin followed
      <3>. SUFFICES ASSUME NEW k \in S, events[last].resolvedAt # 0,
                           events[k].firstSeenAt > events[last].resolvedAt
                    PROVE  FALSE
        OBVIOUS
      <3>1. events[last].lastSeenAt < events[last].resolvedAt
        BY <1>4, <1>6
      <3>2. k = last \/ k < last
        BY <1>3, <1>6
      <3>3. CASE k = last
        BY <1>4, <1>6, <3>1, <3>3
      <3>4. CASE k < last
        <4>1. events[k].resolvedAt < events[last].firstSeenAt /\ ~IsOpen(events[k])
          BY <1>5, <1>6, <3>4
        <4>. QED
          BY <1>4, <1>6, <3>1, <4>1
      <3>. QED
        BY <3>2, <3>3, <3>4
    <2>. QED
      BY <2>1, <2>2
  <1>8. Cardinality(followed) = Cardinality(S) - 1
    BY <1>3, <1>6, <1>7, FS_RemoveElement
  <1>9. Cardinality(S) \in Nat /\ Cardinality(S) # 0
    BY <1>2, <1>3, FS_CardinalityType, FS_EmptySet
  <1>10. Max({0, Cardinality(S) - 1}) = Cardinality(S) - 1
    BY <1>9, AtLeastZero
  <1>. HIDE DEF followed
  <1>11. IncidentStats(e, rows, S).recurrences = Cardinality(followed)
    BY <1>8, <1>10 DEF IncidentStats
  <1>. QED
    BY <1>11 DEF S, followed

\* The receipt was written with the event's confirmed row.
LEMMA ReceiptInArc ==
  ASSUME ArcInv, NEW i \in DOMAIN events, NEW e, NEW A, Arced(i, e, A),
         ReceiptsOf(i) # {}
  PROVE  /\ ReceiptAt(i) \in A /\ ReceiptAt(i) >= e.firstSeenAt + ConfirmScans - 1
         /\ e.confirmations >= ConfirmScans
  <1>. DEFINE R == ReceiptsOf(i)
  <1>1. TypeOK /\ CertifiedOnce
    BY DEF ArcInv, CertInv, Inv
  <1>2. IsFiniteSet(R) /\ R \subseteq Int
    <2>1. DOMAIN receipts = 1 .. Len(receipts) /\ Len(receipts) \in Nat
      BY <1>1 DEF TypeOK
    <2>2. 1 \in Int /\ Len(receipts) \in Int
      BY <2>1
    <2>3. IsFiniteSet(DOMAIN receipts)
      BY <2>1, <2>2, FS_Interval
    <2>4. R \in SUBSET DOMAIN receipts
      BY DEF ReceiptsOf
    <2>. QED
      BY <2>1, <2>3, <2>4, FS_Subset
  <1>3. Max(R) \in R
    <2>. HIDE DEF R
    <2>. QED
      BY <1>2, GreatestOf DEF R
  <1>4. R # {} <=> events[i].confirmations >= ConfirmScans
    BY <1>1 DEF CertifiedOnce, ReceiptsOf
  <1>5. {receipts[k].snapshot : k \in R} =
          {transitions[t].snapshot : t \in TransitionsOf(i, {"confirmed"})}
    BY <1>1 DEF CertifiedOnce, ReceiptsOf
  <1>6. ReceiptAt(i) = receipts[Max(R)].snapshot
    BY DEF ReceiptAt
  <1>. HIDE DEF R
  <1>7. PICK t \in TransitionsOf(i, {"confirmed"}) : transitions[t].snapshot = ReceiptAt(i)
    BY <1>3, <1>5, <1>6
  <1>8. t \in RowsOf(transitions, i) /\ transitions[t].transition = "confirmed"
    BY DEF TransitionsOf, RowsOf
  <1>9. Tells(snapshots, transitions, i, e) /\ A = ArcOf(snapshots, e) /\ e = events[i]
    BY DEF Arced
  <1>10. ReceiptAt(i) \in A /\ ReceiptAt(i) >= e.firstSeenAt + ConfirmScans - 1
    BY <1>7, <1>8, <1>9 DEF Tells
  <1>. QED
    BY <1>4, <1>9, <1>10 DEF R

\* What the receipt certified agrees with what the event has become.
LEMMA CapsuleAgrees ==
  ASSUME ArcInv, NEW i \in DOMAIN events, NEW e, NEW A, Arced(i, e, A),
         ReceiptsOf(i) # {}
  PROVE  LET c == Capsule(i)
         IN /\ Abs(c.divergence) <= Abs(c.peak)
            /\ c.confirmations >= ConfirmScans
            /\ ReceiptAt(i) >= e.firstSeenAt + ConfirmScans - 1
            /\ c.status = "confirmed" \/ c.duration >= c.confirmations
            /\ c.resolvedAt = 0 <=> c.status = "confirmed"
  <1>. DEFINE c == Capsule(i)
  <1>1. /\ ReceiptAt(i) \in A /\ ReceiptAt(i) >= e.firstSeenAt + ConfirmScans - 1
        /\ e.confirmations >= ConfirmScans
    BY ReceiptInArc
  <1>2. e = events[i]
    BY DEF Arced
  <1>3. /\ c.divergence = DeviationAt(snapshots, ReceiptAt(i)) /\ c.peak = e.maxDeviation
        /\ c.status = e.status /\ c.confirmations = e.confirmations
        /\ c.resolvedAt = e.resolvedAt /\ c.duration = StatsOf(i).duration
    BY <1>2 DEF Capsule, DeviationAt
  <1>4. Abs(DeviationAt(snapshots, ReceiptAt(i))) <= Abs(e.maxDeviation)
    BY <1>1 DEF Arced, Peaks
  <1>5. ~IsOpen(e) => StatsOf(i).duration >= Cardinality(A)
    BY <1>2, LastsAsLong DEF StatsOf
  <1>6. Cardinality(A) = e.confirmations /\ (e.resolvedAt = 0 <=> IsOpen(e))
    BY DEF Arced
  <1>7. IsOpen(e) <=> e.status = "confirmed"
    <2>1. e.status \in {"candidate", "confirmed"} <=> IsOpen(e)
      BY DEF IsOpen, OpenStatuses
    <2>2. IsOpen(e) => (e.status = "confirmed" <=> e.confirmations >= ConfirmScans)
      BY <1>2 DEF ArcInv, CertInv, Inv, ConfirmedByCount
    <2>. QED
      BY <1>1, <2>1, <2>2
  <1>. HIDE DEF c
  <1>8. /\ Abs(c.divergence) <= Abs(c.peak)
        /\ c.confirmations >= ConfirmScans
        /\ c.status = "confirmed" \/ c.duration >= c.confirmations
        /\ c.resolvedAt = 0 <=> c.status = "confirmed"
    BY <1>1, <1>3, <1>4, <1>5, <1>6, <1>7
  <1>. QED
    BY <1>1, <1>8 DEF c

LEMMA IncidentsAgree ==
  ASSUME ArcInv
  PROVE  IncidentsMatch
  <1>. SUFFICES ASSUME NEW i \in DOMAIN events
                PROVE  LET e == events[i]
                           s == StatsOf(i)
                           siblings == EventIdsFor(e.rwaId, e.kind)
                           of == {k \in SnapshotsOf(e.rwaId) :
                                    e.firstSeenAt <= k /\ k <= e.lastSeenAt}
                       IN /\ s.observations = Cardinality(of) + (IF IsOpen(e) THEN 0 ELSE 1)
                          /\ s.duration >= s.observations - 1
                          /\ s.peakAt = Max({k \in of : Abs(snapshots[k].verdict.deviation)
                                                          = Abs(s.peak)})
                          /\ s.recurrences =
                               Cardinality({j \in siblings :
                                              /\ events[j].resolvedAt # 0
                                              /\ \E k \in siblings :
                                                   events[k].firstSeenAt > events[j].resolvedAt})
                          /\ ReceiptsOf(i) # {} =>
                               LET c == Capsule(i)
                               IN /\ Abs(c.divergence) <= Abs(c.peak)
                                  /\ c.confirmations >= ConfirmScans
                                  /\ ReceiptAt(i) >= e.firstSeenAt + ConfirmScans - 1
                                  /\ c.status = "confirmed" \/ c.duration >= c.confirmations
                                  /\ c.resolvedAt = 0 <=> c.status = "confirmed"
    BY Zenon DEF IncidentsMatch
  <1>. DEFINE e == events[i]
              rows == Dated(TransitionsFor(i))
              siblings == EventIdsFor(e.rwaId, e.kind)
              s == StatsOf(i)
              A == ArcOf(snapshots, e)
              of == {k \in SnapshotsOf(e.rwaId) : e.firstSeenAt <= k /\ k <= e.lastSeenAt}
              shows == {k \in of : Abs(snapshots[k].verdict.deviation) = Abs(s.peak)}
  <1>1. Arced(i, e, A)
    BY EventArced
  <1>2. Given(rows, i)
    BY RowsAreGiven DEF ArcInv, CertInv, Inv
  <1>3. s = IncidentStats(e, rows, siblings)
    BY DEF StatsOf
  <1>4. of = A
    BY DEF SnapshotsOf, ArcOf
  <1>5. s.peak = e.maxDeviation /\ s.observations = Len(rows) /\ s.peakAt = PeakAt(e, rows)
    BY <1>3 DEF IncidentStats
  <1>6. shows = {k \in A : Abs(DeviationAt(snapshots, k)) = Abs(e.maxDeviation)}
    BY <1>4, <1>5 DEF DeviationAt
  <1>7. s.recurrences =
          Cardinality({j \in siblings : /\ events[j].resolvedAt # 0
                                        /\ \E k \in siblings :
                                             events[k].firstSeenAt > events[j].resolvedAt})
    BY <1>3, RecursAsOften
  <1>8. ReceiptsOf(i) # {} =>
          LET c == Capsule(i)
          IN /\ Abs(c.divergence) <= Abs(c.peak)
             /\ c.confirmations >= ConfirmScans
             /\ ReceiptAt(i) >= e.firstSeenAt + ConfirmScans - 1
             /\ c.status = "confirmed" \/ c.duration >= c.confirmations
             /\ c.resolvedAt = 0 <=> c.status = "confirmed"
    BY <1>1, CapsuleAgrees
  <1>. HIDE DEF e, rows, siblings, A, of, shows
  <1>9. s.observations = Cardinality(of) + (IF IsOpen(e) THEN 0 ELSE 1)
    <2>1. Cardinality(RowsOf(transitions, i)) = Cardinality(A) + (IF IsOpen(e) THEN 0 ELSE 1)
      BY <1>1, ObservedOnceEach
    <2>. QED
      BY <1>2, <1>4, <1>5, <2>1 DEF Given
  <1>10. s.duration >= s.observations - 1
    <2>1. /\ s.duration \in Int /\ s.duration >= Cardinality(A) - 1
          /\ ~IsOpen(e) => s.duration >= Cardinality(A)
      BY <1>1, <1>3, LastsAsLong
    <2>2. Cardinality(A) \in Nat
      BY <1>1, FS_CardinalityType DEF Arced
    <2>. QED
      BY <1>4, <1>9, <2>1, <2>2
  <1>11. s.peakAt = Max(shows)
    BY <1>1, <1>2, <1>5, <1>6, PeakIsDated
  <1>. HIDE DEF s
  <1>. QED
    BY <1>7, <1>8, <1>9, <1>10, <1>11, Zenon DEF e, siblings, of, shows, s

\* The snapshots of an asset are finitely many, and it has a latest.
LEMMA LatestExists ==
  ASSUME TypeOK, NEW a, SnapshotsOf(a) # {}
  PROVE  /\ Max(SnapshotsOf(a)) \in SnapshotsOf(a)
         /\ \A k \in SnapshotsOf(a) : k <= Max(SnapshotsOf(a))
         /\ SnapshotsOf(a) \subseteq Int
  <1>1. DOMAIN snapshots = 1 .. Len(snapshots) /\ Len(snapshots) \in Nat
    BY DEF TypeOK
  <1>2. 1 \in Int /\ Len(snapshots) \in Int
    BY <1>1
  <1>3. IsFiniteSet(DOMAIN snapshots)
    BY <1>1, <1>2, FS_Interval
  <1>4. SnapshotsOf(a) \in SUBSET DOMAIN snapshots
    BY DEF SnapshotsOf
  <1>5. IsFiniteSet(SnapshotsOf(a)) /\ SnapshotsOf(a) \subseteq Int
    BY <1>1, <1>3, <1>4, FS_Subset
  <1>. QED
    BY <1>5, GreatestOf

\* The asset of an open event is anomalous at its latest snapshot, as severely.
LEMMA OpenIsLatest ==
  ASSUME ArcInv, NEW i \in OpenEvents
  PROVE  /\ events[i].rwaId \in Radar
         /\ Anomalous(LatestSnapshot(events[i].rwaId).verdict)
         /\ LatestSnapshot(events[i].rwaId).verdict.severity = events[i].severity
         /\ events[i].lastSeenAt = Max(SnapshotsOf(events[i].rwaId))
  <1>. DEFINE e == events[i]
              A == ArcOf(snapshots, e)
              S == SnapshotsOf(e.rwaId)
  <1>1. i \in DOMAIN events /\ IsOpen(e)
    BY DEF OpenEvents
  <1>2. TypeOK /\ Arced(i, e, A) /\ Latest(snapshots, e)
    BY <1>1, EventArced DEF ArcInv, CertInv, Inv, ArcTold
  <1>3. e.rwaId \in Assets
    BY <1>2 DEF Arced, Event
  <1>4. e.lastSeenAt \in A /\ Anomalous(snapshots[e.lastSeenAt].verdict)
    BY <1>2 DEF Arced, Peaks
  <1>5. e.lastSeenAt \in S
    BY <1>4 DEF ArcOf, SnapshotsOf
  <1>6. \A k \in S : k <= e.lastSeenAt
    BY <1>1, <1>2 DEF Latest, SnapshotsOf
  <1>7. S \subseteq Int
    BY <1>2, <1>5, LatestExists
  <1>8. Max(S) = e.lastSeenAt
    <2>. HIDE DEF S, e
    <2>. QED
      BY <1>5, <1>6, <1>7, GreatestIs
  <1>9. LatestSnapshot(e.rwaId) = snapshots[e.lastSeenAt]
    BY <1>8 DEF LatestSnapshot
  <1>10. snapshots[e.lastSeenAt].verdict.severity = e.severity
    BY <1>1, <1>2 DEF Latest
  <1>. QED
    BY <1>3, <1>4, <1>5, <1>8, <1>9, <1>10 DEF Radar

\* An asset that is anomalous at its latest snapshot has an open event.
LEMMA LatestIsOpen ==
  ASSUME RunInv, NEW a \in Radar, Anomalous(LatestSnapshot(a).verdict)
  PROVE  \E i \in OpenEvents : events[i].rwaId = a
  <1>. DEFINE m == Max(SnapshotsOf(a))
  <1>1. TypeOK /\ RunsSummarised /\ a \in Assets /\ SnapshotsOf(a) # {}
    BY DEF RunInv, Inv, Radar
  <1>2. m \in SnapshotsOf(a) /\ (\A k \in SnapshotsOf(a) : k <= m) /\ SnapshotsOf(a) \subseteq Int
    BY <1>1, LatestExists
  <1>3. Anomalous(snapshots[m].verdict)
    BY DEF LatestSnapshot
  <1>. HIDE DEF m
  <1>4. m \in Run(a)
    <2>1. DOMAIN snapshots = 1 .. Len(snapshots) /\ Len(snapshots) \in Nat
      BY <1>1 DEF TypeOK
    <2>2. m \in DOMAIN snapshots /\ snapshots[m].rwaId = a
      BY <1>2 DEF SnapshotsOf
    <2>3. ASSUME NEW j \in m .. Len(snapshots), snapshots[j].rwaId = a
          PROVE  Anomalous(snapshots[j].verdict)
      <3>1. j \in SnapshotsOf(a)
        BY <2>1, <2>2, <2>3 DEF SnapshotsOf
      <3>2. j = m
        BY <1>2, <2>1, <2>2, <3>1
      <3>. QED
        BY <1>3, <3>2
    <2>. QED
      BY <2>2, <2>3 DEF Run
  <1>5. \E i \in DOMAIN events : OpenAt(i, a)
    BY <1>1, <1>4 DEF RunsSummarised
  <1>. QED
    BY <1>5 DEF OpenAt, OpenEvents

LEMMA OpenFinite ==
  ASSUME TypeOK
  PROVE  IsFiniteSet(OpenEvents)
  <1>1. DOMAIN events = 1 .. Len(events) /\ Len(events) \in Nat
    BY DEF TypeOK
  <1>2. 1 \in Int /\ Len(events) \in Int
    BY <1>1
  <1>3. IsFiniteSet(DOMAIN events)
    BY <1>1, <1>2, FS_Interval
  <1>. QED
    BY <1>3, FS_Subset DEF OpenEvents

\* As many open events as assets, when both are restricted alike.
LEMMA SameNumber ==
  ASSUME TypeOK, OneOpenEvent, NEW E \in SUBSET OpenEvents, NEW B,
         \A i \in E : events[i].rwaId \in B,
         \A a \in B : \E i \in E : events[i].rwaId = a
  PROVE  Cardinality(E) = Cardinality(B)
  <1>. DEFINE asset == [i \in E |-> events[i].rwaId]
  <1>1. IsFiniteSet(E)
    BY OpenFinite, FS_Subset
  <1>2. \A i, j \in E : asset[i] = asset[j] => i = j
    BY DEF OpenEvents, OneOpenEvent
  <1>3. asset \in Bijection(E, B)
    <2>1. asset \in [E -> B] /\ \A a \in B : \E i \in E : asset[i] = a
      OBVIOUS
    <2>. QED
      BY <1>2, <2>1 DEF Bijection, Injection, Surjection, IsInjective
  <1>. HIDE DEF asset
  <1>. QED
    BY <1>1, <1>3, FS_Bijection DEF ExistsBijection

-----------------------------------------------------------------------------
(***************************************************************************)
(* Lists that are sorted already, and the least of a set.                  *)
(***************************************************************************)

\* Rows whose times ascend are sorted already.
LEMMA SortedKeeps ==
  ASSUME NEW n \in Nat, NEW rows, rows = [k \in 1 .. n |-> rows[k]],
         \A k \in 1 .. n : rows[k].at \in Int,
         \A j, k \in 1 .. n : j < k => rows[j].at < rows[k].at
  PROVE  ByTime(rows) = rows
  <1>. DEFINE S == 1 .. n
              key == [k \in S |-> rows[k].at]
              R == {p \in S \X S : \/ key[p[1]] < key[p[2]]
                                   \/ key[p[1]] = key[p[2]] /\ p[1] < p[2]}
              place(s) == Cardinality({t \in S : <<t, s>> \in R}) + 1
              f == Ranked(S, R)
  <1>1. DOMAIN rows = S /\ IsFiniteSet(S) /\ Cardinality(S) = n
    <2>1. 1 \in Int /\ n \in Int
      OBVIOUS
    <2>2. IsFiniteSet(1 .. n) /\ Cardinality(1 .. n) = IF 1 > n THEN 0 ELSE n - 1 + 1
      BY <2>1, FS_Interval
    <2>. QED
      BY <2>2
  <1>2. ByTime(rows) = [k \in DOMAIN f |-> rows[f[k]]]
    BY <1>1 DEF ByTime, SortedBy
  <1>3. f = LET places == {<<place(s), s>> : s \in S}
            IN [i \in 1 .. Cardinality(S) |-> (CHOOSE p \in places : p[1] = i)[2]]
    BY DEF Ranked
  <1>4. \A s, t \in S : <<t, s>> \in R <=> t < s
    <2>. TAKE s, t \in S
    <2>1. s \in Int /\ t \in Int /\ key[s] \in Int /\ key[t] \in Int
      OBVIOUS
    <2>2. (t < s => key[t] < key[s]) /\ (s < t => key[s] < key[t])
      OBVIOUS
    <2>3. s = t \/ s < t \/ t < s
      BY <2>1
    <2>4. <<t, s>> \in R <=> key[t] < key[s] \/ (key[t] = key[s] /\ t < s)
      OBVIOUS
    <2>. QED
      BY <2>1, <2>2, <2>3, <2>4
  <1>5. \A s \in S : place(s) = s
    <2>. TAKE s \in S
    <2>1. {t \in S : <<t, s>> \in R} = 1 .. s - 1
      BY <1>4
    <2>2. 1 \in Int /\ s - 1 \in Int
      OBVIOUS
    <2>3. Cardinality(1 .. s - 1) = IF 1 > s - 1 THEN 0 ELSE s - 1 - 1 + 1
      BY <2>2, FS_Interval
    <2>4. Cardinality(1 .. s - 1) = s - 1
      BY <2>3
    <2>5. place(s) = Cardinality(1 .. s - 1) + 1
      BY <2>1, Zenon
    <2>. HIDE DEF place
    <2>. QED
      BY <2>4, <2>5
  <1>. HIDE DEF place, f, R
  <1>. DEFINE places == {<<place(s), s>> : s \in S}
  <1>6. places = {<<s, s>> : s \in S}
    BY <1>5
  <1>7. \A i \in S : (CHOOSE p \in places : p[1] = i)[2] = i
    <2>. TAKE i \in S
    <2>1. <<i, i>> \in places /\ <<i, i>>[1] = i
      BY <1>6
    <2>2. PICK p \in places : p = CHOOSE q \in places : q[1] = i
      BY <2>1
    <2>3. p \in places /\ p[1] = i
      BY <2>1, <2>2
    <2>4. PICK s \in S : p = <<s, s>>
      BY <1>6, <2>3
    <2>5. p[2] = i
      BY <2>3, <2>4
    <2>. QED
      BY <2>2, <2>5
  <1>8. f = [i \in 1 .. n |-> (CHOOSE p \in places : p[1] = i)[2]]
    BY <1>1, <1>3
  <1>. HIDE DEF places
  <1>9. f = [i \in S |-> i]
    BY <1>7, <1>8
  <1>. QED
    BY <1>2, <1>9

\* The least of a non-empty finite set of numbers.
LEMMA LeastOf ==
  ASSUME NEW S, IsFiniteSet(S), S \subseteq Int, S # {}
  PROVE  \E m \in S : \A k \in S : m <= k
  <1>. DEFINE f == InOrder(S)
  <1>1. Lists(f, S)
    BY InOrderLists
  <1>. HIDE DEF f
  <1>2. /\ Cardinality(S) \in Nat /\ f \in [1 .. Cardinality(S) -> S]
        /\ \A k \in S : \E i \in 1 .. Cardinality(S) : f[i] = k
        /\ \A i, j \in 1 .. Cardinality(S) : i < j => f[i] < f[j]
    BY <1>1 DEF Lists
  <1>3. 1 \in 1 .. Cardinality(S)
    <2>1. PICK k \in S : TRUE
      OBVIOUS
    <2>2. PICK i \in 1 .. Cardinality(S) : f[i] = k
      BY <1>2
    <2>. QED
      BY <1>2, <2>2
  <1>4. f[1] \in S /\ f[1] \in Int
    BY <1>2, <1>3
  <1>5. ASSUME NEW k \in S PROVE f[1] <= k
    <2>1. PICK i \in 1 .. Cardinality(S) : f[i] = k
      BY <1>2
    <2>2. i = 1 \/ 1 < i
      BY <1>2
    <2>. QED
      BY <1>2, <1>3, <1>4, <2>1, <2>2
  <1>. QED
    BY <1>4, <1>5

-----------------------------------------------------------------------------
(***************************************************************************)
(* What the entries of an event's rows are.                                *)
(***************************************************************************)

\* The rows of event e in time order, with the time of its receipt (0 without
\* one): what the invariant makes of them.
Story(rows, e, at) ==
  /\ Len(rows) \in Nat \ {0} /\ DOMAIN rows = 1 .. Len(rows)
  /\ rows = [k \in 1 .. Len(rows) |-> rows[k]]
  /\ \A k \in DOMAIN rows :
       /\ rows[k].at \in Nat \ {0} /\ rows[k].deviation \in Int
       /\ rows[k].transition \in Transitions /\ rows[k].severity \in Severities
  /\ \A j, k \in DOMAIN rows : j < k => rows[j].at < rows[k].at
  /\ rows[1].transition = IF ConfirmScans = 1 THEN "confirmed" ELSE "created"
  /\ \A k \in DOMAIN rows : rows[k].transition = "created" => k = 1 /\ ConfirmScans # 1
  /\ \A k \in DOMAIN rows :
       /\ rows[k].transition \in ClosedStatuses <=> ~IsOpen(e) /\ k = Len(rows)
       /\ rows[k].transition \in ClosedStatuses => rows[k].transition = e.status
       /\ rows[k].deviation = 0 <=> rows[k].transition \in ClosedStatuses
       /\ Abs(rows[k].deviation) <= Abs(e.maxDeviation)
  /\ \E k \in DOMAIN rows : /\ rows[k].transition \notin ClosedStatuses
                            /\ Abs(rows[k].deviation) = Abs(e.maxDeviation)
  /\ \A j, k \in DOMAIN rows : rows[j].transition = "confirmed" /\ rows[k].transition = "confirmed"
                                 => j = k
  /\ \A k \in DOMAIN rows : rows[k].transition = "confirmed" => at = rows[k].at
  /\ at # 0 <=> \E k \in DOMAIN rows : rows[k].transition = "confirmed"
  /\ at # 0 <=> e.confirmations >= ConfirmScans
  /\ at \in Nat /\ e.confirmations \in Nat /\ e.maxDeviation \in Int
  /\ Len(rows) = e.confirmations + IF IsOpen(e) THEN 0 ELSE 1

Extremes == {"candidate_created", "confirmed", "peak_divergence"}

\* What the entries of row k are.
Kinds(rows, k, types) ==
  /\ 1 \in DOMAIN types /\ DOMAIN types \subseteq {1, 2}
  /\ rows[k].transition # "updated" => DOMAIN types = {1}
  /\ \A n \in DOMAIN types :
       /\ types[n] = "candidate_created" <=> k = 1
       /\ types[n] \in ClosedStatuses <=> rows[k].transition \in ClosedStatuses
       /\ types[n] \in ClosedStatuses => types[n] = rows[k].transition
       /\ types[n] # "receipt_issued"
       /\ types[n] = "peak_divergence" => Size(rows[k]) > PeakBefore(rows, k)
  /\ rows[k].transition \notin ClosedStatuses /\ Size(rows[k]) > PeakBefore(rows, k)
       => \E n \in DOMAIN types : types[n] \in Extremes

\* One or two names in a row.
LEMMA OneOrTwo ==
  ASSUME NEW s \in {<<>>, <<"severity_escalated">>, <<"severity_decreased">>}, NEW d,
         NEW l, l = s \o <<d>>
  PROVE  /\ 1 \in DOMAIN l /\ DOMAIN l \subseteq {1, 2}
         /\ \A n \in DOMAIN l : l[n] \in {d, "severity_escalated", "severity_decreased"}
         /\ \E n \in DOMAIN l : l[n] = d
  <1>1. CASE s = <<>>
    <2>1. l = <<d>>
      BY <1>1
    <2>2. DOMAIN l = {1} /\ l[1] = d
      BY <2>1
    <2>. QED
      BY <2>2
  <1>2. ASSUME NEW x \in {"severity_escalated", "severity_decreased"}, s = <<x>>
        PROVE  /\ 1 \in DOMAIN l /\ DOMAIN l \subseteq {1, 2}
               /\ \A n \in DOMAIN l : l[n] \in {d, "severity_escalated", "severity_decreased"}
               /\ \E n \in DOMAIN l : l[n] = d
    <2>1. l = <<x>> \o <<d>>
      BY <1>2
    <2>2. DOMAIN l = {1, 2} /\ l[1] = x /\ l[2] = d
      BY <2>1
    <2>. QED
      BY <2>2
  <1>. QED
    BY <1>1, <1>2

LEMMA EntryKinds ==
  ASSUME NEW rows, NEW e, NEW at, Story(rows, e, at), NEW k \in DOMAIN rows
  PROVE  Kinds(rows, k, EntryTypes(rows, k))
  <1>. DEFINE types == EntryTypes(rows, k)
  <1>1. /\ rows[k].transition \in {"created", "confirmed", "updated", "resolved", "invalidated"}
        /\ rows[1].transition = IF ConfirmScans = 1 THEN "confirmed" ELSE "created"
        /\ rows[k].transition = "created" => k = 1 /\ ConfirmScans # 1
        /\ 1 \in DOMAIN rows /\ k \in Int /\ 1 <= k
    BY DEF Story, Transitions
  <1>2. CASE rows[k].transition = "created"
    <2>1. types = <<"candidate_created">>
      BY <1>2 DEF EntryTypes
    <2>2. DOMAIN types = {1} /\ types[1] = "candidate_created"
      BY <2>1
    <2>. HIDE DEF types
    <2>3. Kinds(rows, k, types)
      BY <1>1, <1>2, <2>2 DEF Kinds, ClosedStatuses, Extremes
    <2>. QED
      BY <2>3 DEF types
  <1>3. CASE rows[k].transition = "confirmed"
    <2>1. types = IF \E j \in DOMAIN rows : rows[j].transition = "created"
                  THEN <<"confirmed">> ELSE <<"candidate_created">>
      BY <1>3 DEF EntryTypes
    <2>2. (\E j \in DOMAIN rows : rows[j].transition = "created") <=> ConfirmScans # 1
      BY <1>1 DEF Story
    <2>3. k = 1 <=> ConfirmScans = 1
      BY <1>1, <1>3 DEF Story
    <2>4. /\ DOMAIN types = {1}
          /\ types[1] = IF k = 1 THEN "candidate_created" ELSE "confirmed"
      BY <2>1, <2>2, <2>3
    <2>. HIDE DEF types
    <2>5. Kinds(rows, k, types)
      BY <1>1, <1>3, <2>4 DEF Kinds, ClosedStatuses, Extremes
    <2>. QED
      BY <2>5 DEF types
  <1>4. CASE rows[k].transition = "updated"
    <2>. DEFINE s == SeverityEntry(rows, k)
                d == IF Size(rows[k]) > PeakBefore(rows, k)
                     THEN IF HasPrevious(rows, k) THEN "peak_divergence" ELSE "observation"
                     ELSE IF HasPrevious(rows, k)
                          THEN IF Size(rows[k]) > Size(rows[k - 1])
                               THEN "deviation_increased" ELSE "deviation_decreased"
                          ELSE "observation"
    <2>1. k # 1
      BY <1>1, <1>4
    <2>2. types = s \o DeviationEntry(rows, k)
      BY <1>4 DEF EntryTypes
    <2>3. s \in {<<>>, <<"severity_escalated">>, <<"severity_decreased">>}
      BY DEF SeverityEntry
    <2>4. HasPrevious(rows, k)
      <3>1. k - 1 \in DOMAIN rows /\ k - 1 # Len(rows) /\ k > 1
        BY <1>1, <2>1 DEF Story
      <3>2. rows[k - 1].deviation # 0
        BY <3>1 DEF Story
      <3>. QED
        BY <3>1, <3>2 DEF HasPrevious
    <2>5. Size(rows[k]) \in Int /\ PeakBefore(rows, k) \in Int
      <3>1. \A j \in DOMAIN rows : Size(rows[j]) \in Int
        BY DEF Story, Size, Null, Abs
      <3>2. PeakBefore(rows, k) \in Int
        <4>. DEFINE S == {Size(rows[j]) : j \in 1 .. k - 1} \cup {Null}
        <4>1. 1 .. k - 1 \subseteq DOMAIN rows
          BY <1>1 DEF Story
        <4>2. S \subseteq Int /\ S # {}
          BY <3>1, <4>1 DEF Null
        <4>3. IsFiniteSet(S)
          <5>1. 1 \in Int /\ k - 1 \in Int
            BY <1>1
          <5>2. IsFiniteSet(1 .. k - 1)
            BY <5>1, FS_Interval
          <5>. DEFINE size == [j \in 1 .. k - 1 |-> Size(rows[j])]
                      T == {Size(rows[j]) : j \in 1 .. k - 1}
          <5>3. size \in Surjection(1 .. k - 1, T)
            BY DEF Surjection
          <5>4. IsFiniteSet(T)
            BY <5>2, <5>3, FS_Surjection
          <5>. QED
            BY <5>4, FS_AddElement
        <4>4. Max(S) \in S
          BY <4>2, <4>3, GreatestOf
        <4>. QED
          BY <4>2, <4>4 DEF PeakBefore
      <3>. QED
        BY <3>1, <3>2
    <2>6. DeviationEntry(rows, k) = <<d>>
      BY <2>4, <2>5 DEF DeviationEntry
    <2>7. /\ d \in {"peak_divergence", "deviation_increased", "deviation_decreased"}
          /\ d = "peak_divergence" <=> Size(rows[k]) > PeakBefore(rows, k)
      BY <2>4
    <2>. HIDE DEF types, s, d
    <2>8. types = s \o <<d>>
      BY <2>2, <2>6
    <2>9. /\ 1 \in DOMAIN types /\ DOMAIN types \subseteq {1, 2}
          /\ \A n \in DOMAIN types :
               types[n] \in {d, "severity_escalated", "severity_decreased"}
          /\ \E n \in DOMAIN types : types[n] = d
      BY <2>3, <2>8, OneOrTwo
    <2>10. Kinds(rows, k, types)
      BY <1>4, <2>1, <2>7, <2>9 DEF Kinds, ClosedStatuses, Extremes
    <2>. QED
      BY <2>10 DEF types
  <1>5. CASE rows[k].transition \in {"resolved", "invalidated"}
    <2>1. types = <<rows[k].transition>>
      BY <1>5 DEF EntryTypes
    <2>2. DOMAIN types = {1} /\ types[1] = rows[k].transition
      BY <2>1
    <2>3. k # 1
      BY <1>1, <1>5
    <2>. HIDE DEF types
    <2>4. Kinds(rows, k, types)
      BY <1>5, <2>2, <2>3 DEF Kinds, ClosedStatuses
    <2>. QED
      BY <2>4 DEF types
  <1>. QED
    BY <1>1, <1>2, <1>3, <1>4, <1>5

-----------------------------------------------------------------------------
(***************************************************************************)
(* The entries in the order they are told.                                 *)
(***************************************************************************)

\* The places of the pushed entries, by row and number, and of the receipt.
ReceiptSlot(rows) == <<Len(rows) + 1, 1>>
RowSlots(rows) ==
  UNION {{<<k, n>> : n \in DOMAIN EntryTypes(rows, k)} : k \in DOMAIN rows}
SlotsOf(rows, at) == RowSlots(rows) \cup (IF at = 0 THEN {} ELSE {ReceiptSlot(rows)})

\* One number to sort them by: row c is the confirmed one.
KeyOf(rows, c, s) == IF s = ReceiptSlot(rows) THEN 3 * c + 3 ELSE 3 * s[1] + s[2]

\* The entry told of a place.
EntryOf(rows, at, s) ==
  IF s = ReceiptSlot(rows) THEN [at |-> at, type |-> "receipt_issued", row |-> 0]
  ELSE [at |-> rows[s[1]].at, type |-> EntryTypes(rows, s[1])[s[2]], row |-> s[1]]

\* told has the entry of each place, by ascending key.
Telling(told, order, rows, at, c) ==
  /\ Len(told) \in Nat /\ DOMAIN told = 1 .. Len(told)
  /\ DOMAIN order = 1 .. Len(told)
  /\ \A n \in 1 .. Len(told) : /\ order[n] \in SlotsOf(rows, at)
                               /\ told[n] = EntryOf(rows, at, order[n])
  /\ \A s \in SlotsOf(rows, at) : \E n \in 1 .. Len(told) : order[n] = s
  /\ \A m, n \in 1 .. Len(told) :
       m < n => KeyOf(rows, c, order[m]) < KeyOf(rows, c, order[n])

\* The order they are sorted in, and all of the timeline, of sorted rows.
TimeOf(rows, at, s) == IF s = ReceiptSlot(rows) THEN at ELSE rows[s[1]].at
Before(rows, at) ==
  {p \in SlotsOf(rows, at) \X SlotsOf(rows, at) :
     LET s == p[1]  t == p[2] IN
     \/ TimeOf(rows, at, s) < TimeOf(rows, at, t)
     \/ TimeOf(rows, at, s) = TimeOf(rows, at, t) /\ s[1] < t[1]
     \/ TimeOf(rows, at, s) = TimeOf(rows, at, t) /\ s[1] = t[1] /\ s[2] < t[2]}
TimelineAs(rows, at) ==
  LET order == Ranked(SlotsOf(rows, at), Before(rows, at))
  IN [n \in DOMAIN order |-> EntryOf(rows, at, order[n])]

LEMMA TimelineIs ==
  ASSUME NEW trans, NEW at
  PROVE  BuildIncidentTimeline(trans, at) = TimelineAs(ByTime(trans), at)
  BY Zenon DEF BuildIncidentTimeline, TimelineAs, Before, TimeOf, SlotsOf, RowSlots,
       ReceiptSlot, EntryOf

\* What a row's place is.
LEMMA SlotIs ==
  ASSUME NEW rows, NEW e, NEW at, Story(rows, e, at), NEW s \in SlotsOf(rows, at)
  PROVE  \/ /\ s = ReceiptSlot(rows) /\ at # 0
         \/ /\ s # ReceiptSlot(rows)
            /\ s[1] \in DOMAIN rows /\ s[2] \in {1, 2} /\ s = <<s[1], s[2]>>
            /\ s[2] \in DOMAIN EntryTypes(rows, s[1])
  <1>1. CASE s = ReceiptSlot(rows) /\ at # 0
    BY <1>1
  <1>2. CASE s \in RowSlots(rows)
    <2>0. PICK k \in DOMAIN rows : s \in {<<k, n>> : n \in DOMAIN EntryTypes(rows, k)}
      BY <1>2 DEF RowSlots
    <2>1. PICK n \in DOMAIN EntryTypes(rows, k) : s = <<k, n>>
      BY <2>0
    <2>2. n \in {1, 2}
      BY <2>1, EntryKinds DEF Kinds
    <2>3. s[1] = k /\ s[2] = n
      BY <2>1
    <2>4. k # Len(rows) + 1
      BY DEF Story
    <2>5. s # ReceiptSlot(rows)
      BY <2>3, <2>4 DEF ReceiptSlot
    <2>. QED
      BY <2>1, <2>2, <2>3, <2>5
  <1>. QED
    BY <1>1, <1>2 DEF SlotsOf

\* The keys of two rows' entries compare as their rows do, and their numbers
\* within a row.
LEMMA KeysCompare ==
  ASSUME NEW x \in Int, NEW y \in Int, NEW m \in {1, 2}, NEW n \in {1, 2}
  PROVE  /\ x < y => 3 * x + m < 3 * y + n
         /\ y < x => ~(3 * x + m < 3 * y + n)
         /\ x = y => (3 * x + m < 3 * y + n <=> m < n)
         /\ 3 * x + m = 3 * y + n => x = y /\ m = n
  <1>1. CASE x < y
    BY <1>1
  <1>2. CASE y < x
    BY <1>2
  <1>3. CASE x = y
    BY <1>3
  <1>. QED
    BY <1>1, <1>2, <1>3

\* The order the entries are sorted in is that of their keys.
LEMMA KeysDecide ==
  ASSUME NEW rows, NEW e, NEW at, Story(rows, e, at), NEW c \in Int,
         at # 0 => c \in DOMAIN rows /\ at = rows[c].at,
         NEW s \in SlotsOf(rows, at), NEW t \in SlotsOf(rows, at), NEW ts, NEW tt,
         ts = IF s = ReceiptSlot(rows) THEN at ELSE rows[s[1]].at,
         tt = IF t = ReceiptSlot(rows) THEN at ELSE rows[t[1]].at
  PROVE  /\ KeyOf(rows, c, s) \in Int
         /\ (\/ ts < tt
             \/ ts = tt /\ s[1] < t[1]
             \/ ts = tt /\ s[1] = t[1] /\ s[2] < t[2])
            <=> KeyOf(rows, c, s) < KeyOf(rows, c, t)
         /\ KeyOf(rows, c, s) = KeyOf(rows, c, t) => s = t
  <1>1. /\ Len(rows) \in Nat /\ DOMAIN rows = 1 .. Len(rows)
        /\ \A k \in DOMAIN rows : rows[k].at \in Int
        /\ \A j, k \in DOMAIN rows : j < k => rows[j].at < rows[k].at
    BY DEF Story
  <1>2. ReceiptSlot(rows)[1] = Len(rows) + 1 /\ ReceiptSlot(rows)[2] = 1
    BY DEF ReceiptSlot
  <1>3. \A x \in SlotsOf(rows, at) :
          \/ x = ReceiptSlot(rows) /\ c \in DOMAIN rows /\ at = rows[c].at
          \/ /\ x # ReceiptSlot(rows)
             /\ x[1] \in DOMAIN rows /\ x[2] \in {1, 2} /\ x = <<x[1], x[2]>>
    BY SlotIs
  <1>4. CASE s = ReceiptSlot(rows) /\ t = ReceiptSlot(rows)
    BY <1>1, <1>2, <1>3, <1>4 DEF KeyOf
  <1>5. CASE s = ReceiptSlot(rows) /\ t # ReceiptSlot(rows)
    <2>1. /\ t[1] \in 1 .. Len(rows) /\ t[2] \in {1, 2} /\ c \in 1 .. Len(rows)
          /\ ts = rows[c].at /\ tt = rows[t[1]].at
      BY <1>1, <1>3, <1>5
    <2>2. KeyOf(rows, c, s) = 3 * c + 3 /\ KeyOf(rows, c, t) = 3 * t[1] + t[2]
      BY <1>5 DEF KeyOf
    <2>3. /\ ts \in Int /\ tt \in Int
          /\ (c < t[1] => ts < tt) /\ (t[1] < c => tt < ts) /\ (c = t[1] => ts = tt)
      BY <1>1, <2>1
    <2>4. s[1] = Len(rows) + 1
      BY <1>2, <1>5
    <2>5. (\/ ts < tt
           \/ ts = tt /\ s[1] < t[1]
           \/ ts = tt /\ s[1] = t[1] /\ s[2] < t[2]) <=> c < t[1]
      BY <1>1, <2>1, <2>3, <2>4
    <2>6. /\ 3 * c + 3 < 3 * t[1] + t[2] <=> c < t[1]
          /\ 3 * c + 3 # 3 * t[1] + t[2]
      BY <2>1
    <2>. QED
      BY <2>1, <2>2, <2>5, <2>6
  <1>6. CASE s # ReceiptSlot(rows) /\ t = ReceiptSlot(rows)
    <2>1. /\ s[1] \in 1 .. Len(rows) /\ s[2] \in {1, 2} /\ c \in 1 .. Len(rows)
          /\ tt = rows[c].at /\ ts = rows[s[1]].at
      BY <1>1, <1>3, <1>6
    <2>2. KeyOf(rows, c, t) = 3 * c + 3 /\ KeyOf(rows, c, s) = 3 * s[1] + s[2]
      BY <1>6 DEF KeyOf
    <2>3. /\ ts \in Int /\ tt \in Int
          /\ (c < s[1] => tt < ts) /\ (s[1] < c => ts < tt) /\ (c = s[1] => ts = tt)
      BY <1>1, <2>1
    <2>4. t[1] = Len(rows) + 1
      BY <1>2, <1>6
    <2>5. (\/ ts < tt
           \/ ts = tt /\ s[1] < t[1]
           \/ ts = tt /\ s[1] = t[1] /\ s[2] < t[2]) <=> s[1] <= c
      BY <1>1, <2>1, <2>3, <2>4
    <2>6. /\ 3 * s[1] + s[2] < 3 * c + 3 <=> s[1] <= c
          /\ 3 * s[1] + s[2] # 3 * c + 3
      BY <2>1
    <2>. QED
      BY <2>1, <2>2, <2>5, <2>6
  <1>7. CASE s # ReceiptSlot(rows) /\ t # ReceiptSlot(rows)
    <2>1. /\ s[1] \in 1 .. Len(rows) /\ s[2] \in {1, 2} /\ s = <<s[1], s[2]>>
          /\ t[1] \in 1 .. Len(rows) /\ t[2] \in {1, 2} /\ t = <<t[1], t[2]>>
          /\ ts = rows[s[1]].at /\ tt = rows[t[1]].at
      BY <1>1, <1>3, <1>7
    <2>2. KeyOf(rows, c, s) = 3 * s[1] + s[2] /\ KeyOf(rows, c, t) = 3 * t[1] + t[2]
      BY <1>7 DEF KeyOf
    <2>3. /\ ts \in Int /\ tt \in Int
          /\ (t[1] < s[1] => tt < ts) /\ (s[1] < t[1] => ts < tt) /\ (t[1] = s[1] => ts = tt)
      BY <1>1, <2>1
    <2>4. 3 * s[1] + s[2] = 3 * t[1] + t[2] => s[1] = t[1] /\ s[2] = t[2]
      <3>1. s[1] \in Int /\ t[1] \in Int /\ s[2] \in {1, 2} /\ t[2] \in {1, 2}
        BY <1>1, <2>1
      <3>. QED
        BY <3>1, KeysCompare
    <2>5. KeyOf(rows, c, s) = KeyOf(rows, c, t) => s = t
      BY <2>1, <2>2, <2>4
    <2>6. (\/ ts < tt
           \/ ts = tt /\ s[1] < t[1]
           \/ ts = tt /\ s[1] = t[1] /\ s[2] < t[2])
          <=> 3 * s[1] + s[2] < 3 * t[1] + t[2]
      <3>1. s[1] \in Int /\ t[1] \in Int
        BY <1>1, <2>1
      <3>2. /\ s[1] < t[1] => 3 * s[1] + s[2] < 3 * t[1] + t[2]
            /\ t[1] < s[1] => ~(3 * s[1] + s[2] < 3 * t[1] + t[2])
            /\ s[1] = t[1] => (3 * s[1] + s[2] < 3 * t[1] + t[2] <=> s[2] < t[2])
        <4>1. s[1] \in Int /\ t[1] \in Int /\ s[2] \in {1, 2} /\ t[2] \in {1, 2}
          BY <2>1, <3>1
        <4>. QED
          BY <4>1, KeysCompare
      <3>3. CASE s[1] < t[1]
        BY <2>3, <3>2, <3>3
      <3>4. CASE t[1] < s[1]
        BY <2>3, <3>1, <3>2, <3>4
      <3>5. CASE s[1] = t[1]
        BY <2>3, <3>1, <3>2, <3>5
      <3>. QED
        BY <3>1, <3>3, <3>4, <3>5
    <2>. QED
      BY <2>1, <2>2, <2>5, <2>6
  <1>. QED
    BY <1>4, <1>5, <1>6, <1>7

LEMMA SlotsFinite ==
  ASSUME NEW rows, NEW e, NEW at, Story(rows, e, at)
  PROVE  IsFiniteSet(SlotsOf(rows, at))
  <1>. DEFINE A == 1 .. Len(rows) + 1
  <1>0. Len(rows) \in Nat /\ DOMAIN rows = 1 .. Len(rows)
    BY DEF Story
  <1>1. IsFiniteSet(A)
    <2>1. 1 \in Int /\ Len(rows) + 1 \in Int
      BY <1>0
    <2>. QED
      BY <2>1, FS_Interval
  <1>2. IsFiniteSet({1, 2})
    <2>1. {1, 2} = 1 .. 2
      OBVIOUS
    <2>2. 1 \in Int /\ 2 \in Int
      OBVIOUS
    <2>. QED
      BY <2>1, <2>2, FS_Interval
  <1>3. SlotsOf(rows, at) \subseteq A \X {1, 2}
    <2>. SUFFICES ASSUME NEW s \in SlotsOf(rows, at) PROVE s \in A \X {1, 2}
      OBVIOUS
    <2>. QED
      BY <1>0, SlotIs DEF ReceiptSlot
  <1>4. IsFiniteSet(A \X {1, 2})
    BY <1>1, <1>2, FS_Product
  <1>. QED
    BY <1>3, <1>4, FS_Subset

\* The timeline of such rows: an entry for each place, by ascending key.
LEMMA TimelineTold ==
  ASSUME NEW rows, NEW e, NEW at, Story(rows, e, at), NEW c \in Int,
         at # 0 => c \in DOMAIN rows /\ at = rows[c].at
  PROVE  \E order : Telling(BuildIncidentTimeline(rows, at), order, rows, at, c)
  <1>. DEFINE P == SlotsOf(rows, at)
              R == Before(rows, at)
              order == Ranked(P, R)
              told == BuildIncidentTimeline(rows, at)
              N == Cardinality(P)
  <1>1. ByTime(rows) = rows
    <2>1. /\ Len(rows) \in Nat /\ rows = [k \in 1 .. Len(rows) |-> rows[k]]
          /\ \A k \in 1 .. Len(rows) : rows[k].at \in Int
          /\ \A j, k \in 1 .. Len(rows) : j < k => rows[j].at < rows[k].at
      BY DEF Story
    <2>. QED
      BY <2>1, SortedKeeps
  <1>2. told = [n \in DOMAIN order |-> EntryOf(rows, at, order[n])]
    BY <1>1, TimelineIs DEF TimelineAs
  <1>3. \A s, t \in P :
          /\ KeyOf(rows, c, s) \in Int
          /\ <<s, t>> \in R <=> KeyOf(rows, c, s) < KeyOf(rows, c, t)
          /\ KeyOf(rows, c, s) = KeyOf(rows, c, t) => s = t
    <2>. TAKE s, t \in P
    <2>1. <<s, t>> \in R <=>
            (\/ TimeOf(rows, at, s) < TimeOf(rows, at, t)
             \/ TimeOf(rows, at, s) = TimeOf(rows, at, t) /\ s[1] < t[1]
             \/ TimeOf(rows, at, s) = TimeOf(rows, at, t) /\ s[1] = t[1] /\ s[2] < t[2])
      BY DEF Before
    <2>. HIDE DEF R
    <2>. QED
      BY <2>1, KeysDecide DEF TimeOf
  <1>. HIDE DEF R, P
  <1>4. OrdersAll(P, R)
    <2>1. \A s \in P : <<s, s>> \notin R
      BY <1>3
    <2>2. ASSUME NEW s \in P, NEW t \in P, NEW u \in P, <<s, t>> \in R, <<t, u>> \in R
          PROVE  <<s, u>> \in R
      <3>1. KeyOf(rows, c, s) < KeyOf(rows, c, t) /\ KeyOf(rows, c, t) < KeyOf(rows, c, u)
        BY <1>3, <2>2, Zenon
      <3>2. /\ KeyOf(rows, c, s) \in Int /\ KeyOf(rows, c, t) \in Int
            /\ KeyOf(rows, c, u) \in Int
        BY <1>3, Zenon
      <3>3. KeyOf(rows, c, s) < KeyOf(rows, c, u)
        BY <3>1, <3>2
      <3>. QED
        BY <1>3, <3>3, Zenon
    <2>3. ASSUME NEW s \in P, NEW t \in P
          PROVE  s = t \/ <<s, t>> \in R \/ <<t, s>> \in R
      <3>1. KeyOf(rows, c, s) \in Int /\ KeyOf(rows, c, t) \in Int
        BY <1>3, Zenon
      <3>2. \/ KeyOf(rows, c, s) = KeyOf(rows, c, t)
            \/ KeyOf(rows, c, s) < KeyOf(rows, c, t)
            \/ KeyOf(rows, c, t) < KeyOf(rows, c, s)
        BY <3>1
      <3>. QED
        BY <1>3, <3>2, Zenon
    <2>. QED
      BY <2>1, <2>2, <2>3 DEF OrdersAll
  <1>5. IsFiniteSet(P)
    BY SlotsFinite DEF P
  <1>6. ListsBy(order, P, R)
    BY <1>4, <1>5, RankedLists
  <1>. HIDE DEF order, told
  <1>7. N \in Nat /\ DOMAIN order = 1 .. N
    BY <1>6 DEF ListsBy
  <1>8. DOMAIN told = 1 .. N /\ Len(told) = N
    <2>1. told = [n \in 1 .. N |-> EntryOf(rows, at, order[n])]
      BY <1>2, <1>7
    <2>. QED
      BY <1>7, <2>1
  <1>9. Telling(told, order, rows, at, c)
    BY <1>2, <1>3, <1>6, <1>7, <1>8 DEF ListsBy, Telling, P
  <1>. QED
    BY <1>9 DEF told

-----------------------------------------------------------------------------
(***************************************************************************)
(* Each part of what the timeline tells.                                   *)
(***************************************************************************)

\* Entry n is the receipt's or one of a row.
EntryIs(told, order, rows, at, n) ==
  \/ /\ order[n] = ReceiptSlot(rows) /\ at # 0
     /\ told[n].type = "receipt_issued" /\ told[n].row = 0 /\ told[n].at = at
  \/ /\ order[n] # ReceiptSlot(rows) /\ told[n].row \in DOMAIN rows
     /\ order[n][1] = told[n].row /\ order[n][2] \in {1, 2}
     /\ order[n] = <<order[n][1], order[n][2]>>
     /\ told[n].at = rows[told[n].row].at
     /\ order[n][2] \in DOMAIN EntryTypes(rows, told[n].row)
     /\ told[n].type = EntryTypes(rows, told[n].row)[order[n][2]]
     /\ told[n].type # "receipt_issued"

LEMMA EntriesAre ==
  ASSUME NEW rows, NEW e, NEW at, Story(rows, e, at), NEW c,
         NEW told, NEW order, Telling(told, order, rows, at, c), NEW n \in 1 .. Len(told)
  PROVE  EntryIs(told, order, rows, at, n)
  <1>. DEFINE s == order[n]
  <1>1. s \in SlotsOf(rows, at) /\ told[n] = EntryOf(rows, at, s)
    BY DEF Telling
  <1>2. CASE s = ReceiptSlot(rows) /\ at # 0
    BY <1>1, <1>2 DEF EntryOf, EntryIs
  <1>3. CASE /\ s # ReceiptSlot(rows)
             /\ s[1] \in DOMAIN rows /\ s[2] \in {1, 2} /\ s = <<s[1], s[2]>>
             /\ s[2] \in DOMAIN EntryTypes(rows, s[1])
    <2>1. told[n] = [at |-> rows[s[1]].at, type |-> EntryTypes(rows, s[1])[s[2]], row |-> s[1]]
      BY <1>1, <1>3 DEF EntryOf
    <2>2. EntryTypes(rows, s[1])[s[2]] # "receipt_issued"
      BY <1>3, EntryKinds DEF Kinds
    <2>. QED
      BY <1>3, <2>1, <2>2 DEF EntryIs
  <1>. QED
    BY <1>1, <1>2, <1>3, SlotIs

\* Entry j of row k has its place in the timeline.
HasEntry(told, order, rows, c, k, j) ==
  \E n \in 1 .. Len(told) :
    /\ order[n] = <<k, j>> /\ told[n].row = k /\ told[n].at = rows[k].at
    /\ told[n].type = EntryTypes(rows, k)[j]
    /\ KeyOf(rows, c, order[n]) = 3 * k + j
LEMMA RowIsTold ==
  ASSUME NEW rows, NEW e, NEW at, Story(rows, e, at), NEW c,
         NEW told, NEW order, Telling(told, order, rows, at, c),
         NEW k \in DOMAIN rows, NEW j \in DOMAIN EntryTypes(rows, k)
  PROVE  HasEntry(told, order, rows, c, k, j)
  <1>1. <<k, j>> \in SlotsOf(rows, at)
    BY DEF SlotsOf, RowSlots
  <1>2. PICK n \in 1 .. Len(told) : order[n] = <<k, j>>
    BY <1>1 DEF Telling
  <1>3. <<k, j>>[1] = k /\ <<k, j>>[2] = j /\ k # Len(rows) + 1
    BY DEF Story
  <1>4. order[n] # ReceiptSlot(rows)
    <2>1. ReceiptSlot(rows)[1] = Len(rows) + 1
      BY DEF ReceiptSlot
    <2>. QED
      BY <1>2, <1>3, <2>1
  <1>5. EntryIs(told, order, rows, at, n)
    BY EntriesAre
  <1>6. /\ told[n].row = k /\ told[n].at = rows[k].at
        /\ told[n].type = EntryTypes(rows, k)[j]
    BY <1>2, <1>3, <1>4, <1>5 DEF EntryIs
  <1>7. KeyOf(rows, c, order[n]) = 3 * k + j
    BY <1>2, <1>3, <1>4 DEF KeyOf
  <1>. QED
    BY <1>2, <1>6, <1>7 DEF HasEntry

\* The key of entry n.
LEMMA EntryKey ==
  ASSUME NEW rows, NEW e, NEW at, Story(rows, e, at), NEW c \in Int,
         at # 0 => c \in DOMAIN rows,
         NEW told, NEW order, Telling(told, order, rows, at, c), NEW n \in 1 .. Len(told)
  PROVE  \/ /\ order[n] = ReceiptSlot(rows) /\ at # 0 /\ c \in DOMAIN rows
            /\ KeyOf(rows, c, order[n]) = 3 * c + 3
         \/ /\ order[n] # ReceiptSlot(rows) /\ told[n].row \in DOMAIN rows
            /\ order[n][2] \in {1, 2}
            /\ KeyOf(rows, c, order[n]) = 3 * told[n].row + order[n][2]
  BY EntriesAre DEF EntryIs, KeyOf

\* The timeline opens with the candidate and tells it once.
LEMMA CandidateFirst ==
  ASSUME NEW rows, NEW e, NEW at, Story(rows, e, at), NEW c \in Int,
         at # 0 => c \in DOMAIN rows,
         NEW told, NEW order, Telling(told, order, rows, at, c)
  PROVE  EntriesOf(told, {"candidate_created"}) = {1}
  <1>1. /\ Len(rows) \in Nat \ {0} /\ DOMAIN rows = 1 .. Len(rows) /\ 1 \in DOMAIN rows
        /\ rows[1].transition # "updated"
    BY DEF Story
  <1>2. 1 \in DOMAIN EntryTypes(rows, 1) /\ DOMAIN EntryTypes(rows, 1) = {1}
    BY <1>1, EntryKinds DEF Kinds
  <1>0. HasEntry(told, order, rows, c, 1, 1)
    BY <1>1, <1>2, RowIsTold
  <1>3. PICK p \in 1 .. Len(told) : /\ order[p] = <<1, 1>> /\ told[p].row = 1
                                    /\ told[p].type = EntryTypes(rows, 1)[1]
                                    /\ KeyOf(rows, c, order[p]) = 3 * 1 + 1
    BY <1>0 DEF HasEntry
  <1>4. told[p].type = "candidate_created"
    BY <1>1, <1>2, <1>3, EntryKinds DEF Kinds
  <1>5. \A n \in 1 .. Len(told) : KeyOf(rows, c, order[n]) \in Int /\ KeyOf(rows, c, order[n]) >= 4
    <2>. TAKE n \in 1 .. Len(told)
    <2>. DEFINE key == KeyOf(rows, c, order[n])
    <2>0. \/ /\ order[n] = ReceiptSlot(rows) /\ at # 0 /\ c \in DOMAIN rows
             /\ key = 3 * c + 3
          \/ /\ order[n] # ReceiptSlot(rows) /\ told[n].row \in DOMAIN rows
             /\ order[n][2] \in {1, 2} /\ key = 3 * told[n].row + order[n][2]
      BY EntryKey
    <2>1. \/ c \in 1 .. Len(rows) /\ key = 3 * c + 3
          \/ /\ told[n].row \in 1 .. Len(rows) /\ order[n][2] \in {1, 2}
             /\ key = 3 * told[n].row + order[n][2]
      BY <1>1, <2>0
    <2>. HIDE DEF key
    <2>2. c \in 1 .. Len(rows) /\ key = 3 * c + 3 => key \in Int /\ key >= 4
      BY <1>1
    <2>3. ASSUME told[n].row \in 1 .. Len(rows), order[n][2] \in {1, 2},
                 key = 3 * told[n].row + order[n][2]
          PROVE  key \in Int /\ key >= 4
      <3>. DEFINE x == told[n].row
                  y == order[n][2]
      <3>1. x \in Int /\ 1 <= x /\ y \in Int /\ 1 <= y /\ key = 3 * x + y
        BY <1>1, <2>3
      <3>. HIDE DEF x, y
      <3>. QED
        BY <3>1
    <2>4. key \in Int /\ key >= 4
      BY <2>1, <2>2, <2>3
    <2>. QED
      BY <2>4 DEF key
  <1>6. \A n \in 1 .. Len(told) : told[n].type = "candidate_created" => n = p
    <2>. SUFFICES ASSUME NEW n \in 1 .. Len(told), told[n].type = "candidate_created"
                  PROVE  n = p
      OBVIOUS
    <2>1. EntryIs(told, order, rows, at, n)
      BY EntriesAre
    <2>2. /\ told[n].row \in DOMAIN rows /\ order[n][1] = told[n].row
          /\ order[n] = <<order[n][1], order[n][2]>>
          /\ order[n][2] \in DOMAIN EntryTypes(rows, told[n].row)
          /\ told[n].type = EntryTypes(rows, told[n].row)[order[n][2]]
      BY <2>1 DEF EntryIs
    <2>3. told[n].row = 1
      BY <2>2, EntryKinds DEF Kinds
    <2>4. order[n] = <<1, 1>>
      BY <1>2, <2>2, <2>3
    <2>5. ~(n < p) /\ ~(p < n)
      <3>1. KeyOf(rows, c, order[n]) = KeyOf(rows, c, order[p])
        BY <1>3, <2>4
      <3>2. KeyOf(rows, c, order[p]) \in Int
        BY <1>5
      <3>. QED
        BY <3>1, <3>2 DEF Telling
    <2>. QED
      BY <2>5
  <1>7. p = 1
    <2>1. 1 \in 1 .. Len(told) /\ Len(told) \in Nat
      BY DEF Telling
    <2>2. 1 < p => KeyOf(rows, c, order[1]) < KeyOf(rows, c, order[p])
      BY <2>1 DEF Telling
    <2>. QED
      BY <1>3, <1>5, <2>1, <2>2
  <1>8. DOMAIN told = 1 .. Len(told)
    BY DEF Telling
  <1>. QED
    BY <1>3, <1>4, <1>6, <1>7, <1>8 DEF EntriesOf

\* It closes with what closed the event.
LEMMA ClosingLast ==
  ASSUME NEW rows, NEW e, NEW at, Story(rows, e, at), NEW c \in Int,
         at # 0 => c \in DOMAIN rows /\ rows[c].transition = "confirmed",
         NEW told, NEW order, Telling(told, order, rows, at, c)
  PROVE  /\ EntriesOf(told, ClosedStatuses) =
              IF IsOpen(e) THEN {} ELSE {n \in {Len(told)} : told[n].type = e.status}
         /\ IsOpen(e) <=> EntriesOf(told, ClosedStatuses) = {}
         /\ RowsTold(told, ClosedStatuses) = IF IsOpen(e) THEN {} ELSE {Len(rows)}
  <1>. DEFINE L == Len(rows)
  <1>1. /\ L \in Nat \ {0} /\ DOMAIN rows = 1 .. L
        /\ \A k \in DOMAIN rows :
             /\ rows[k].transition \in ClosedStatuses <=> ~IsOpen(e) /\ k = L
             /\ rows[k].transition \in ClosedStatuses => rows[k].transition = e.status
    BY DEF Story
  <1>2. Len(told) \in Nat /\ DOMAIN told = 1 .. Len(told)
    BY DEF Telling
  <1>3. \A n \in 1 .. Len(told) :
          told[n].type \in ClosedStatuses =>
            ~IsOpen(e) /\ told[n].row = L /\ told[n].type = e.status
    <2>. SUFFICES ASSUME NEW n \in 1 .. Len(told), told[n].type \in ClosedStatuses
                  PROVE  ~IsOpen(e) /\ told[n].row = L /\ told[n].type = e.status
      OBVIOUS
    <2>1. EntryIs(told, order, rows, at, n)
      BY EntriesAre
    <2>2. told[n].type # "receipt_issued"
      BY DEF ClosedStatuses
    <2>3. /\ told[n].row \in DOMAIN rows
          /\ order[n][2] \in DOMAIN EntryTypes(rows, told[n].row)
          /\ told[n].type = EntryTypes(rows, told[n].row)[order[n][2]]
      BY <2>1, <2>2 DEF EntryIs
    <2>4. Kinds(rows, told[n].row, EntryTypes(rows, told[n].row))
      BY <2>3, EntryKinds
    <2>5. /\ rows[told[n].row].transition \in ClosedStatuses
          /\ told[n].type = rows[told[n].row].transition
      BY <2>3, <2>4 DEF Kinds
    <2>. QED
      BY <1>1, <2>3, <2>5
  <1>4. CASE IsOpen(e)
    BY <1>2, <1>3, <1>4 DEF EntriesOf, RowsTold
  <1>5. CASE ~IsOpen(e)
    <2>1. L \in DOMAIN rows /\ rows[L].transition \in ClosedStatuses
      BY <1>1, <1>5
    <2>2. rows[L].transition # "updated"
      BY <2>1 DEF ClosedStatuses
    <2>3. 1 \in DOMAIN EntryTypes(rows, L) /\ DOMAIN EntryTypes(rows, L) = {1}
      BY <2>1, <2>2, EntryKinds DEF Kinds
    <2>4. HasEntry(told, order, rows, c, L, 1)
      BY <2>1, <2>3, RowIsTold
    <2>. HIDE DEF L
    <2>5. PICK p \in 1 .. Len(told) :
            /\ order[p] = <<L, 1>> /\ told[p].row = L
            /\ told[p].type = EntryTypes(rows, L)[1] /\ KeyOf(rows, c, order[p]) = 3 * L + 1
      BY <2>4 DEF HasEntry
    <2>6. told[p].type \in ClosedStatuses
      BY <2>1, <2>3, <2>5, EntryKinds DEF Kinds
    <2>7. at # 0 => c \in 1 .. L - 1
      <3>1. at # 0 => c \in 1 .. L /\ c # L
        BY <1>1, <2>1 DEF ClosedStatuses
      <3>. QED
        BY <1>1, <3>1
    <2>8. ASSUME NEW n \in 1 .. Len(told), n # p
          PROVE  KeyOf(rows, c, order[n]) \in Int /\ KeyOf(rows, c, order[n]) < 3 * L + 1
      <3>. DEFINE key == KeyOf(rows, c, order[n])
      <3>1. \/ at # 0 /\ key = 3 * c + 3
            \/ /\ order[n] # ReceiptSlot(rows) /\ told[n].row \in 1 .. L
               /\ order[n][2] \in {1, 2} /\ key = 3 * told[n].row + order[n][2]
        BY <1>1, EntryKey
      <3>2. order[n] # ReceiptSlot(rows) => told[n].row # L
        <4>. SUFFICES ASSUME order[n] # ReceiptSlot(rows), told[n].row = L PROVE FALSE
          OBVIOUS
        <4>1. EntryIs(told, order, rows, at, n)
          BY EntriesAre
        <4>2. order[n] = <<L, order[n][2]>> /\ order[n][2] \in DOMAIN EntryTypes(rows, L)
          BY <4>1 DEF EntryIs
        <4>3. order[n] = order[p]
          BY <2>3, <2>5, <4>2
        <4>4. KeyOf(rows, c, order[p]) \in Int
          BY <1>1, <2>5
        <4>5. n < p \/ p < n
          BY <2>8
        <4>. QED
          BY <4>3, <4>4, <4>5 DEF Telling
      <3>. HIDE DEF key
      <3>3. at # 0 /\ key = 3 * c + 3 => key \in Int /\ key < 3 * L + 1
        BY <1>1, <2>7
      <3>4. ASSUME told[n].row \in 1 .. L, told[n].row # L, order[n][2] \in {1, 2},
                   key = 3 * told[n].row + order[n][2]
            PROVE  key \in Int /\ key < 3 * L + 1
        BY <1>1, <3>4
      <3>5. key \in Int /\ key < 3 * L + 1
        BY <3>1, <3>2, <3>3, <3>4
      <3>. QED
        BY <3>5 DEF key
    <2>9. p = Len(told)
      <3>1. Len(told) \in 1 .. Len(told)
        BY <1>2
      <3>2. p < Len(told) => KeyOf(rows, c, order[p]) < KeyOf(rows, c, order[Len(told)])
        BY <3>1 DEF Telling
      <3>3. Len(told) # p => /\ KeyOf(rows, c, order[Len(told)]) \in Int
                             /\ KeyOf(rows, c, order[Len(told)]) < 3 * L + 1
        BY <2>8, <3>1
      <3>4. ~(p < Len(told))
        BY <1>1, <2>5, <3>2, <3>3 DEF L
      <3>5. p \in Int /\ p <= Len(told) /\ Len(told) \in Int
        BY <1>2
      <3>. QED
        BY <3>4, <3>5
    <2>10. \A n \in 1 .. Len(told) : told[n].type \in ClosedStatuses => n = p
      <3>. SUFFICES ASSUME NEW n \in 1 .. Len(told), told[n].type \in ClosedStatuses, n # p
                    PROVE  FALSE
        OBVIOUS
      <3>1. told[n].row = L
        BY <1>3
      <3>2. EntryIs(told, order, rows, at, n) /\ told[n].type # "receipt_issued"
        BY EntriesAre DEF ClosedStatuses
      <3>3. order[n] = <<L, order[n][2]>> /\ order[n][2] \in DOMAIN EntryTypes(rows, L)
        BY <3>1, <3>2 DEF EntryIs
      <3>4. order[n] = order[p]
        BY <2>3, <2>5, <3>3
      <3>. QED
        BY <2>5, <2>8, <3>4
    <2>11. EntriesOf(told, ClosedStatuses) = {p}
      BY <1>2, <2>6, <2>10 DEF EntriesOf
    <2>12. told[p].type = e.status
      BY <1>3, <2>6
    <2>13. RowsTold(told, ClosedStatuses) = {L}
      BY <2>5, <2>11 DEF RowsTold
    <2>. QED
      BY <1>5, <2>9, <2>11, <2>12, <2>13 DEF L
  <1>. QED
    BY <1>4, <1>5

\* Every confirmation has an entry.
LEMMA OneEach ==
  ASSUME NEW rows, NEW e, NEW at, Story(rows, e, at), NEW c \in Int,
         NEW told, NEW order, Telling(told, order, rows, at, c),
         RowsTold(told, ClosedStatuses) = IF IsOpen(e) THEN {} ELSE {Len(rows)}
  PROVE  Cardinality({told[n].row : n \in DOMAIN told}
                       \ ({0} \cup RowsTold(told, ClosedStatuses))) = e.confirmations
  <1>. DEFINE A == {told[n].row : n \in DOMAIN told}
              B == A \ ({0} \cup RowsTold(told, ClosedStatuses))
  <1>1. /\ Len(rows) \in Nat /\ DOMAIN rows = 1 .. Len(rows) /\ e.confirmations \in Nat
        /\ Len(rows) = e.confirmations + IF IsOpen(e) THEN 0 ELSE 1
    BY DEF Story
  <1>2. DOMAIN told = 1 .. Len(told)
    BY DEF Telling
  <1>3. A \subseteq {0} \cup DOMAIN rows
    <2>. SUFFICES ASSUME NEW n \in DOMAIN told PROVE told[n].row \in {0} \cup DOMAIN rows
      OBVIOUS
    <2>. QED
      BY <1>2, EntriesAre DEF EntryIs
  <1>4. DOMAIN rows \subseteq A
    <2>. SUFFICES ASSUME NEW k \in DOMAIN rows PROVE k \in A
      OBVIOUS
    <2>1. 1 \in DOMAIN EntryTypes(rows, k)
      BY EntryKinds DEF Kinds
    <2>2. HasEntry(told, order, rows, c, k, 1)
      BY <2>1, RowIsTold
    <2>. QED
      BY <1>2, <2>2 DEF HasEntry
  <1>. HIDE DEF A
  <1>5. B = 1 .. e.confirmations
    <2>. DEFINE D == {0} \cup RowsTold(told, ClosedStatuses)
    <2>1. \A x : x \in D <=> x = 0 \/ (~IsOpen(e) /\ x = Len(rows))
      <3>1. RowsTold(told, ClosedStatuses) = IF IsOpen(e) THEN {} ELSE {Len(rows)}
        OBVIOUS
      <3>2. CASE IsOpen(e)
        BY <3>1, <3>2
      <3>3. CASE ~IsOpen(e)
        BY <3>1, <3>3
      <3>. QED
        BY <3>2, <3>3
    <2>. HIDE DEF D
    <2>2. ASSUME NEW x \in A \ D PROVE x \in 1 .. e.confirmations
      <3>1. x \in 1 .. Len(rows) /\ (IsOpen(e) \/ x # Len(rows))
        BY <1>1, <1>3, <2>1
      <3>. QED
        BY <1>1, <3>1
    <2>3. \A x \in 1 .. e.confirmations : x \in DOMAIN rows /\ x \notin D
      BY <1>1, <2>1
    <2>4. A \ D = 1 .. e.confirmations
      BY <1>4, <2>2, <2>3
    <2>. QED
      BY <2>4 DEF D
  <1>6. Cardinality(1 .. e.confirmations) = e.confirmations
    <2>1. 1 \in Int /\ e.confirmations \in Int
      BY <1>1
    <2>2. Cardinality(1 .. e.confirmations)
            = IF 1 > e.confirmations THEN 0 ELSE e.confirmations - 1 + 1
      BY <2>1, FS_Interval
    <2>. QED
      BY <1>1, <2>2
  <1>. QED
    BY <1>5, <1>6 DEF A

\* What the sizes of the rows before row k are, as one finite set.
SizesTo(rows, k) == {Size(rows[j]) : j \in 1 .. k - 1} \cup {Null}

LEMMA SizesBefore ==
  ASSUME NEW rows, NEW e, NEW at, Story(rows, e, at), NEW k \in DOMAIN rows
  PROVE  /\ \A j \in DOMAIN rows : Size(rows[j]) \in Int
         /\ 1 .. k - 1 \subseteq DOMAIN rows
         /\ PeakBefore(rows, k) \in SizesTo(rows, k)
         /\ \A x \in SizesTo(rows, k) : x <= PeakBefore(rows, k)
         /\ PeakBefore(rows, k) \in Int
  <1>. DEFINE S == SizesTo(rows, k)
  <1>1. k \in Int /\ DOMAIN rows = 1 .. Len(rows) /\ Len(rows) \in Nat
    BY DEF Story
  <1>2. 1 .. k - 1 \subseteq DOMAIN rows
    BY <1>1
  <1>3. \A j \in DOMAIN rows : Size(rows[j]) \in Int
    BY DEF Story, Size, Null, Abs
  <1>4. S \subseteq Int /\ S # {}
    BY <1>2, <1>3 DEF SizesTo, Null
  <1>5. IsFiniteSet(S)
    <2>. DEFINE size == [j \in 1 .. k - 1 |-> Size(rows[j])]
                T == {Size(rows[j]) : j \in 1 .. k - 1}
    <2>1. 1 \in Int /\ k - 1 \in Int
      BY <1>1
    <2>2. IsFiniteSet(1 .. k - 1)
      BY <2>1, FS_Interval
    <2>3. size \in Surjection(1 .. k - 1, T)
      BY DEF Surjection
    <2>4. IsFiniteSet(T)
      BY <2>2, <2>3, FS_Surjection
    <2>. QED
      BY <2>4, FS_AddElement DEF SizesTo
  <1>6. PeakBefore(rows, k) = Max(S)
    BY DEF PeakBefore, SizesTo
  <1>. HIDE DEF S
  <1>7. Max(S) \in S /\ \A x \in S : x <= Max(S)
    BY <1>4, <1>5, GreatestOf
  <1>8. Max(S) \in Int
    BY <1>4, <1>7
  <1>. QED
    BY <1>2, <1>3, <1>6, <1>7, <1>8 DEF S

\* A peak it announces is above all before it.
LEMMA PeaksRise ==
  ASSUME NEW rows, NEW e, NEW at, Story(rows, e, at), NEW c,
         NEW told, NEW order, Telling(told, order, rows, at, c)
  PROVE  \A k \in RowsTold(told, {"peak_divergence"}), j \in DOMAIN rows :
           j < k => Size(rows[j]) < Size(rows[k])
  <1>. SUFFICES ASSUME NEW k \in RowsTold(told, {"peak_divergence"}), NEW j \in DOMAIN rows,
                       j < k
                PROVE  Size(rows[j]) < Size(rows[k])
    OBVIOUS
  <1>1. PICK n \in 1 .. Len(told) : told[n].type = "peak_divergence" /\ told[n].row = k
    BY DEF RowsTold, EntriesOf, Telling
  <1>2. EntryIs(told, order, rows, at, n)
    BY EntriesAre
  <1>3. /\ k \in DOMAIN rows /\ order[n][2] \in DOMAIN EntryTypes(rows, k)
        /\ EntryTypes(rows, k)[order[n][2]] = "peak_divergence"
    BY <1>1, <1>2 DEF EntryIs
  <1>4. Size(rows[k]) > PeakBefore(rows, k)
    BY <1>3, EntryKinds DEF Kinds
  <1>5. j \in 1 .. k - 1
    BY <1>3 DEF Story
  <1>6. Size(rows[j]) \in SizesTo(rows, k)
    BY <1>5 DEF SizesTo
  <1>7. /\ Size(rows[j]) \in Int /\ Size(rows[k]) \in Int /\ PeakBefore(rows, k) \in Int
        /\ Size(rows[j]) <= PeakBefore(rows, k)
    BY <1>3, <1>6, SizesBefore
  <1>. QED
    BY <1>4, <1>7

\* The greatest extreme it tells is the event's own.
LEMMA LastExtreme ==
  ASSUME NEW rows, NEW e, NEW at, Story(rows, e, at), NEW c,
         NEW told, NEW order, Telling(told, order, rows, at, c)
  PROVE  Max({Size(rows[k]) : k \in RowsTold(told, Extremes)}) = Abs(e.maxDeviation)
  <1>. DEFINE T == RowsTold(told, Extremes)
              S == {Size(rows[k]) : k \in T}
              peak == Abs(e.maxDeviation)
              Reached == {k \in DOMAIN rows : /\ rows[k].transition \notin ClosedStatuses
                                              /\ Abs(rows[k].deviation) = peak}
  <1>1. /\ Len(rows) \in Nat /\ DOMAIN rows = 1 .. Len(rows) /\ peak \in Int /\ peak >= 0
        /\ \A k \in DOMAIN rows :
             /\ rows[k].deviation \in Int
             /\ rows[k].deviation = 0 <=> rows[k].transition \in ClosedStatuses
             /\ Abs(rows[k].deviation) <= peak
    BY DEF Story, Abs
  <1>2. \A k \in DOMAIN rows :
          /\ Size(rows[k]) \in Int
          /\ rows[k].transition \in ClosedStatuses => Size(rows[k]) < 0
          /\ rows[k].transition \notin ClosedStatuses => Size(rows[k]) = Abs(rows[k].deviation)
    BY <1>1 DEF Size, Null, Abs
  <1>3. T \subseteq DOMAIN rows
    <2>. SUFFICES ASSUME NEW k \in T PROVE k \in DOMAIN rows
      OBVIOUS
    <2>1. PICK n \in 1 .. Len(told) : told[n].type \in Extremes /\ told[n].row = k
      BY DEF RowsTold, EntriesOf, Telling
    <2>2. EntryIs(told, order, rows, at, n) /\ told[n].type # "receipt_issued"
      BY <2>1, EntriesAre DEF Extremes
    <2>. QED
      BY <2>1, <2>2 DEF EntryIs
  <1>4. \A x \in S : x \in Int /\ x <= peak
    <2>. SUFFICES ASSUME NEW k \in DOMAIN rows PROVE Size(rows[k]) \in Int /\ Size(rows[k]) <= peak
      BY <1>3
    <2>1. Abs(rows[k].deviation) \in Int /\ Abs(rows[k].deviation) <= peak
      BY <1>1 DEF Abs
    <2>. HIDE DEF peak
    <2>. QED
      BY <1>1, <1>2, <2>1
  <1>5. peak \in S
    <2>1. Reached # {} /\ Reached \subseteq Int
      BY <1>1 DEF Story
    <2>2. IsFiniteSet(Reached)
      <3>1. 1 \in Int /\ Len(rows) \in Int
        BY <1>1
      <3>2. IsFiniteSet(1 .. Len(rows)) /\ Reached \subseteq 1 .. Len(rows)
        BY <1>1, <3>1, FS_Interval
      <3>. QED
        BY <3>2, FS_Subset
    <2>3. PICK k \in Reached : \A j \in Reached : k <= j
      BY <2>1, <2>2, LeastOf
    <2>4. k \in DOMAIN rows /\ rows[k].transition \notin ClosedStatuses /\ Size(rows[k]) = peak
      BY <1>2
    <2>5. \A j \in 1 .. k - 1 : Size(rows[j]) < peak
      <3>. SUFFICES ASSUME NEW j \in 1 .. k - 1 PROVE Size(rows[j]) < peak
        OBVIOUS
      <3>1. j \in DOMAIN rows /\ j \notin Reached
        BY <1>1, <2>3, <2>4
      <3>2. CASE rows[j].transition \in ClosedStatuses
        <4>1. Size(rows[j]) \in Int /\ Size(rows[j]) < 0
          BY <1>2, <3>1, <3>2
        <4>. HIDE DEF peak
        <4>. QED
          BY <1>1, <4>1
      <3>3. CASE rows[j].transition \notin ClosedStatuses
        <4>1. /\ Size(rows[j]) = Abs(rows[j].deviation) /\ Size(rows[j]) \in Int
              /\ Abs(rows[j].deviation) # peak /\ Abs(rows[j].deviation) <= peak
          BY <1>1, <1>2, <3>1, <3>3
        <4>. HIDE DEF peak
        <4>. QED
          BY <1>1, <4>1
      <3>. QED
        BY <3>2, <3>3
    <2>6. PeakBefore(rows, k) < peak
      <3>1. PeakBefore(rows, k) \in SizesTo(rows, k)
        BY <2>4, SizesBefore
      <3>2. Null < peak
        <4>. HIDE DEF peak
        <4>. QED
          BY <1>1 DEF Null
      <3>. HIDE DEF peak
      <3>. QED
        BY <2>5, <3>1, <3>2 DEF SizesTo
    <2>7. PICK j \in DOMAIN EntryTypes(rows, k) : EntryTypes(rows, k)[j] \in Extremes
      <3>1. Size(rows[k]) > PeakBefore(rows, k)
        <4>1. Size(rows[k]) \in Int /\ PeakBefore(rows, k) \in Int
          BY <2>4, SizesBefore
        <4>. HIDE DEF peak
        <4>. QED
          BY <2>4, <2>6, <4>1
      <3>. QED
        BY <2>4, <3>1, EntryKinds DEF Kinds
    <2>8. HasEntry(told, order, rows, c, k, j)
      BY <2>4, <2>7, RowIsTold
    <2>9. PICK n \in 1 .. Len(told) : /\ told[n].row = k
                                      /\ told[n].type = EntryTypes(rows, k)[j]
      BY <2>8 DEF HasEntry
    <2>10. k \in T
      BY <2>7, <2>9 DEF RowsTold, EntriesOf, Telling
    <2>. QED
      BY <2>4, <2>10
  <1>. HIDE DEF S, peak
  <1>6. Max(S) = peak
    BY <1>4, <1>5, GreatestIs
  <1>. QED
    BY <1>6 DEF S, peak

\* The receipt comes right after the confirmation, before anything later.
LEMMA ReceiptFollows ==
  ASSUME NEW rows, NEW e, NEW at, Story(rows, e, at), NEW c \in Int,
         at # 0 => c \in DOMAIN rows /\ rows[c].transition = "confirmed",
         at # 0 => at = rows[c].at,
         NEW told, NEW order, Telling(told, order, rows, at, c)
  PROVE  /\ \A n \in EntriesOf(told, {"receipt_issued"}) :
              /\ rows[told[n - 1].row].transition = "confirmed"
              /\ \A m \in n + 1 .. Len(told) : told[m].at > told[n].at
         /\ EntriesOf(told, {"receipt_issued"}) # {} <=> e.confirmations >= ConfirmScans
  <1>1. /\ Len(rows) \in Nat /\ DOMAIN rows = 1 .. Len(rows)
        /\ \A k \in DOMAIN rows : rows[k].at \in Int
        /\ \A j, k \in DOMAIN rows : j < k => rows[j].at < rows[k].at
        /\ at # 0 <=> e.confirmations >= ConfirmScans
    BY DEF Story
  <1>2. Len(told) \in Nat /\ DOMAIN told = 1 .. Len(told)
    BY DEF Telling
  <1>3. \A n \in 1 .. Len(told) :
          told[n].type = "receipt_issued" <=> order[n] = ReceiptSlot(rows) /\ at # 0
    <2>. SUFFICES ASSUME NEW n \in 1 .. Len(told)
                  PROVE  told[n].type = "receipt_issued" <=> order[n] = ReceiptSlot(rows) /\ at # 0
      OBVIOUS
    <2>1. EntryIs(told, order, rows, at, n)
      BY EntriesAre
    <2>. QED
      BY <2>1 DEF EntryIs
  <1>4. ASSUME NEW n \in 1 .. Len(told), told[n].type = "receipt_issued"
        PROVE  /\ rows[told[n - 1].row].transition = "confirmed"
               /\ \A m \in n + 1 .. Len(told) : told[m].at > told[n].at
    <2>1. /\ order[n] = ReceiptSlot(rows) /\ c \in DOMAIN rows /\ at # 0
          /\ rows[c].transition = "confirmed" /\ KeyOf(rows, c, order[n]) = 3 * c + 3
      BY <1>3, <1>4 DEF KeyOf
    <2>2. told[n].at = rows[c].at
      BY <1>4, <2>1, EntriesAre DEF EntryIs
    <2>3. DOMAIN EntryTypes(rows, c) = {1}
      BY <2>1, EntryKinds DEF Kinds
    <2>4. HasEntry(told, order, rows, c, c, 1)
      BY <2>1, <2>3, RowIsTold
    <2>5. PICK p \in 1 .. Len(told) : /\ told[p].row = c
                                      /\ KeyOf(rows, c, order[p]) = 3 * c + 1
      BY <2>4 DEF HasEntry
    <2>6. p < n
      <3>1. 3 * c + 1 < 3 * c + 3 /\ 3 * c + 1 \in Int /\ 3 * c + 3 \in Int
        OBVIOUS
      <3>2. p # n /\ ~(n < p)
        BY <2>1, <2>5, <3>1 DEF Telling
      <3>. QED
        BY <3>2
    <2>7. \A m \in 1 .. Len(told) : m # n =>
            /\ told[m].row \in DOMAIN rows /\ order[m][2] \in {1, 2}
            /\ order[m][2] \in DOMAIN EntryTypes(rows, told[m].row)
            /\ told[m].at = rows[told[m].row].at
            /\ KeyOf(rows, c, order[m]) = 3 * told[m].row + order[m][2]
      <3>. SUFFICES ASSUME NEW m \in 1 .. Len(told), m # n
                    PROVE  /\ told[m].row \in DOMAIN rows /\ order[m][2] \in {1, 2}
                           /\ order[m][2] \in DOMAIN EntryTypes(rows, told[m].row)
                           /\ told[m].at = rows[told[m].row].at
                           /\ KeyOf(rows, c, order[m]) = 3 * told[m].row + order[m][2]
        OBVIOUS
      <3>1. order[m] # order[n]
        <4>1. m < n \/ n < m
          OBVIOUS
        <4>2. ~(KeyOf(rows, c, order[n]) < KeyOf(rows, c, order[n]))
          BY <2>1
        <4>. QED
          BY <4>1, <4>2 DEF Telling
      <3>2. EntryIs(told, order, rows, at, m)
        BY EntriesAre
      <3>. QED
        BY <2>1, <3>1, <3>2 DEF EntryIs, KeyOf
    <2>8. n - 1 = p
      <3>. SUFFICES ASSUME n - 1 # p PROVE FALSE
        OBVIOUS
      <3>. DEFINE m == n - 1
                  k == told[m].row
                  j == order[m][2]
      <3>1. m \in 1 .. Len(told) /\ p < m /\ m < n /\ m # n
        BY <1>2, <2>6
      <3>2. /\ k \in DOMAIN rows /\ j \in {1, 2} /\ j \in DOMAIN EntryTypes(rows, k)
            /\ KeyOf(rows, c, order[m]) = 3 * k + j
        BY <2>7, <3>1
      <3>3. /\ KeyOf(rows, c, order[p]) < KeyOf(rows, c, order[m])
            /\ KeyOf(rows, c, order[m]) < KeyOf(rows, c, order[n])
        BY <3>1 DEF Telling
      <3>. HIDE DEF m, k, j
      <3>4. 3 * c + 1 < 3 * k + j /\ 3 * k + j < 3 * c + 3
        BY <2>1, <2>5, <3>2, <3>3
      <3>5. k = c /\ j = 2
        BY <1>1, <3>2, <3>4
      <3>. QED
        BY <2>3, <3>2, <3>5
    <2>9. \A m \in n + 1 .. Len(told) : told[m].at > told[n].at
      <3>. SUFFICES ASSUME NEW m \in n + 1 .. Len(told) PROVE told[m].at > told[n].at
        OBVIOUS
      <3>. DEFINE k == told[m].row
                  j == order[m][2]
      <3>1. m \in 1 .. Len(told) /\ n < m /\ m # n
        BY <1>2
      <3>2. k \in DOMAIN rows /\ j \in {1, 2} /\ KeyOf(rows, c, order[m]) = 3 * k + j
        BY <2>7, <3>1
      <3>3. KeyOf(rows, c, order[n]) < KeyOf(rows, c, order[m])
        BY <3>1 DEF Telling
      <3>4. told[m].at = rows[k].at
        BY <2>7, <3>1
      <3>. HIDE DEF k, j
      <3>5. 3 * c + 3 < 3 * k + j
        BY <2>1, <3>2, <3>3
      <3>6. c < k
        BY <1>1, <3>2, <3>5
      <3>. QED
        BY <1>1, <2>1, <2>2, <3>2, <3>4, <3>6
    <2>. QED
      BY <2>1, <2>5, <2>8, <2>9
  <1>5. EntriesOf(told, {"receipt_issued"}) # {} <=> at # 0
    <2>1. at # 0 => \E n \in 1 .. Len(told) : told[n].type = "receipt_issued"
      <3>. SUFFICES ASSUME at # 0 PROVE \E n \in 1 .. Len(told) : told[n].type = "receipt_issued"
        OBVIOUS
      <3>1. ReceiptSlot(rows) \in SlotsOf(rows, at)
        BY DEF SlotsOf
      <3>2. PICK n \in 1 .. Len(told) : order[n] = ReceiptSlot(rows)
        BY <3>1 DEF Telling
      <3>. QED
        BY <1>3, <3>2
    <2>. QED
      BY <1>2, <1>3, <2>1 DEF EntriesOf
  <1>6. \A n \in EntriesOf(told, {"receipt_issued"}) :
          n \in 1 .. Len(told) /\ told[n].type = "receipt_issued"
    BY <1>2 DEF EntriesOf
  <1>. QED
    BY <1>1, <1>4, <1>5, <1>6

\* Together.
LEMMA ArcIsTold ==
  ASSUME NEW rows, NEW e, NEW at, Story(rows, e, at)
  PROVE  TellsArc(e, rows, BuildIncidentTimeline(rows, at))
  <1>. DEFINE told == BuildIncidentTimeline(rows, at)
  <1>1. PICK c \in Int : at # 0 => /\ c \in DOMAIN rows /\ rows[c].transition = "confirmed"
                                   /\ at = rows[c].at
    <2>1. CASE at = 0
      <3>1. 0 \in Int
        OBVIOUS
      <3>. QED
        BY <2>1, <3>1
    <2>2. CASE at # 0
      <3>1. PICK k \in DOMAIN rows : rows[k].transition = "confirmed"
        BY <2>2 DEF Story
      <3>2. at = rows[k].at /\ k \in Int
        BY <3>1 DEF Story
      <3>. QED
        BY <3>1, <3>2
    <2>. QED
      BY <2>1, <2>2
  <1>2. PICK order : Telling(told, order, rows, at, c)
    BY <1>1, TimelineTold
  <1>. HIDE DEF told
  <1>3. EntriesOf(told, {"candidate_created"}) = {1}
    BY <1>1, <1>2, CandidateFirst
  <1>4. /\ EntriesOf(told, ClosedStatuses) =
             IF IsOpen(e) THEN {} ELSE {n \in {Len(told)} : told[n].type = e.status}
        /\ IsOpen(e) <=> EntriesOf(told, ClosedStatuses) = {}
        /\ RowsTold(told, ClosedStatuses) = IF IsOpen(e) THEN {} ELSE {Len(rows)}
    BY <1>1, <1>2, ClosingLast
  <1>5. Cardinality({told[n].row : n \in DOMAIN told}
                      \ ({0} \cup RowsTold(told, ClosedStatuses))) = e.confirmations
    BY <1>2, <1>4, OneEach
  <1>6. \A k \in RowsTold(told, {"peak_divergence"}), j \in DOMAIN rows :
          j < k => Size(rows[j]) < Size(rows[k])
    BY <1>2, PeaksRise
  <1>7. Max({Size(rows[k]) : k \in RowsTold(told, {"candidate_created", "confirmed", "peak_divergence"})})
          = Abs(e.maxDeviation)
    BY <1>2, LastExtreme DEF Extremes
  <1>8. /\ \A n \in EntriesOf(told, {"receipt_issued"}) :
             /\ rows[told[n - 1].row].transition = "confirmed"
             /\ \A m \in n + 1 .. Len(told) : told[m].at > told[n].at
        /\ EntriesOf(told, {"receipt_issued"}) # {} <=> e.confirmations >= ConfirmScans
    BY <1>1, <1>2, ReceiptFollows
  <1>9. TellsArc(e, rows, told)
    BY <1>3, <1>4, <1>5, <1>6, <1>7, <1>8, Zenon DEF TellsArc
  <1>. QED
    BY <1>9 DEF told

-----------------------------------------------------------------------------
(***************************************************************************)
(* The rows of every event make such a story.                              *)
(***************************************************************************)

\* The rows of event i, as they stand in the log at f.
Written(rows, f, i) ==
  /\ Len(rows) = Cardinality(RowsOf(transitions, i)) /\ Len(rows) \in Nat
  /\ DOMAIN rows = 1 .. Len(rows) /\ rows = [k \in 1 .. Len(rows) |-> rows[k]]
  /\ f \in [1 .. Len(rows) -> RowsOf(transitions, i)]
  /\ \A t \in RowsOf(transitions, i) : \E k \in 1 .. Len(rows) : f[k] = t
  /\ \A j, k \in 1 .. Len(rows) : j < k => f[j] < f[k]
  /\ \A k \in 1 .. Len(rows) :
       /\ rows[k].at = transitions[f[k]].snapshot
       /\ rows[k].transition = transitions[f[k]].transition
       /\ rows[k].severity = transitions[f[k]].severity
       /\ rows[k].deviation = transitions[f[k]].deviation

LEMMA RowsAsWritten ==
  ASSUME TypeOK, NEW i
  PROVE  \E f : Written(Dated(TransitionsFor(i)), f, i)
  <1>. DEFINE R == RowsOf(transitions, i)
              f == InOrder(R)
              N == Cardinality(R)
              rows == Dated(TransitionsFor(i))
  <1>1. IsFiniteSet(R) /\ R \subseteq Int
    BY RowsAreGiven
  <1>2. Lists(f, R)
    BY <1>1, InOrderLists
  <1>3. TransitionsFor(i) = [n \in DOMAIN f |-> transitions[f[n]]]
    BY DEF TransitionsFor, Picked, RowsOf
  <1>4. rows = [n \in DOMAIN f |-> [at         |-> transitions[f[n]].snapshot,
                                    transition |-> transitions[f[n]].transition,
                                    severity   |-> transitions[f[n]].severity,
                                    deviation  |-> transitions[f[n]].deviation]]
    BY <1>3 DEF Dated
  <1>. HIDE DEF f, rows
  <1>5. N \in Nat /\ DOMAIN f = 1 .. N
    BY <1>2 DEF Lists
  <1>6. DOMAIN rows = 1 .. N /\ Len(rows) = N /\ rows = [k \in 1 .. N |-> rows[k]]
    BY <1>4, <1>5
  <1>7. Written(rows, f, i)
    BY <1>2, <1>4, <1>5, <1>6 DEF Lists, Written
  <1>. QED
    BY <1>7 DEF rows

\* The receipt of an event and its confirmed rows.
ReceiptFits(i, e, at) ==
  /\ at \in Nat
  /\ at # 0 <=> e.confirmations >= ConfirmScans
  /\ at # 0 <=> \E t \in RowsOf(transitions, i) : transitions[t].transition = "confirmed"
  /\ \A t \in RowsOf(transitions, i) :
       transitions[t].transition = "confirmed" => transitions[t].snapshot = at

LEMMA ReceiptAtConfirmation ==
  ASSUME ArcInv, NEW i \in DOMAIN events
  PROVE  ReceiptFits(i, events[i], ReceiptAt(i))
  <1>. DEFINE R == ReceiptsOf(i)
              at == ReceiptAt(i)
  <1>1. TypeOK /\ CertifiedOnce
    BY DEF ArcInv, CertInv, Inv
  <1>2. IsFiniteSet(R) /\ R \subseteq Int /\ \A k \in R : receipts[k].snapshot \in Nat \ {0}
    <2>1. DOMAIN receipts = 1 .. Len(receipts) /\ Len(receipts) \in Nat
      BY <1>1 DEF TypeOK
    <2>2. 1 \in Int /\ Len(receipts) \in Int
      BY <2>1
    <2>3. IsFiniteSet(DOMAIN receipts)
      BY <2>1, <2>2, FS_Interval
    <2>4. R \in SUBSET DOMAIN receipts
      BY DEF ReceiptsOf
    <2>5. \A k \in DOMAIN receipts : receipts[k].snapshot \in Nat \ {0}
      <3>. DEFINE Receipt == [eventId : Nat \ {0}, snapshot : Nat \ {0}]
      <3>1. receipts \in Seq(Receipt)
        BY <1>1 DEF TypeOK
      <3>2. \A x \in Receipt : x.snapshot \in Nat \ {0}
        OBVIOUS
      <3>. HIDE DEF Receipt
      <3>3. \A k \in DOMAIN receipts : receipts[k] \in Receipt
        BY <3>1
      <3>. QED
        BY <3>2, <3>3
    <2>. QED
      BY <2>1, <2>3, <2>4, <2>5, FS_Subset
  <1>3. /\ R # {} <=> events[i].confirmations >= ConfirmScans
        /\ \A k, m \in R : k = m
        /\ {receipts[k].snapshot : k \in R} =
             {transitions[t].snapshot : t \in TransitionsOf(i, {"confirmed"})}
    BY <1>1 DEF CertifiedOnce, ReceiptsOf
  <1>4. \A t : t \in TransitionsOf(i, {"confirmed"}) <=>
                 t \in RowsOf(transitions, i) /\ transitions[t].transition = "confirmed"
    BY DEF TransitionsOf, RowsOf
  <1>5. at = IF R = {} THEN 0 ELSE receipts[Max(R)].snapshot
    BY DEF ReceiptAt
  <1>. HIDE DEF R, at
  <1>6. R # {} => Max(R) \in R
    BY <1>2, GreatestOf
  <1>7. at \in Nat /\ (at # 0 <=> R # {})
    BY <1>2, <1>5, <1>6
  <1>8. \A t \in RowsOf(transitions, i) :
          transitions[t].transition = "confirmed" => R # {} /\ transitions[t].snapshot = at
    <2>. SUFFICES ASSUME NEW t \in RowsOf(transitions, i), transitions[t].transition = "confirmed"
                  PROVE  R # {} /\ transitions[t].snapshot = at
      OBVIOUS
    <2>1. PICK k \in R : receipts[k].snapshot = transitions[t].snapshot
      BY <1>3, <1>4
    <2>2. k = Max(R)
      BY <1>3, <1>6, <2>1
    <2>. QED
      BY <1>5, <2>1, <2>2
  <1>9. R # {} => \E t \in RowsOf(transitions, i) : transitions[t].transition = "confirmed"
    <2>. SUFFICES ASSUME NEW k \in R
                  PROVE  \E t \in RowsOf(transitions, i) : transitions[t].transition = "confirmed"
      OBVIOUS
    <2>1. PICK t \in TransitionsOf(i, {"confirmed"}) :
            transitions[t].snapshot = receipts[k].snapshot
      BY <1>3
    <2>. QED
      BY <1>4, <2>1
  <1>10. ReceiptFits(i, events[i], at)
    BY <1>3, <1>7, <1>8, <1>9 DEF ReceiptFits
  <1>. QED
    BY <1>10 DEF at

\* The invariant makes a story of an event's rows.
LEMMA EventHasStory ==
  ASSUME ArcInv, NEW i \in DOMAIN events
  PROVE  Story(Dated(TransitionsFor(i)), events[i], ReceiptAt(i))
  <1>. DEFINE rows == Dated(TransitionsFor(i))
              e == events[i]
              at == ReceiptAt(i)
              A == ArcOf(snapshots, e)
              R == RowsOf(transitions, i)
  <1>1. /\ TypeOK /\ RowsInOrder(snapshots, transitions)
        /\ ArcTold(snapshots, transitions, i, e)
    BY DEF ArcInv, CertInv, Inv
  <1>2. Arced(i, e, A)
    BY EventArced
  <1>3. Named(transitions, i, e) /\ Tells(snapshots, transitions, i, e) /\ Peaks(snapshots, e)
    BY <1>1 DEF ArcTold
  <1>4. PICK f : Written(rows, f, i)
    BY <1>1, RowsAsWritten
  <1>5. ReceiptFits(i, e, at)
    BY ReceiptAtConfirmation
  <1>6. \A t \in R : t \in Int /\ t \in DOMAIN transitions /\ transitions[t] \in Transition
    BY <1>1 DEF TypeOK, RowsOf
  <1>7. \A k \in A : Anomalous(snapshots[k].verdict) /\ DeviationAt(snapshots, k) # 0
    <2>. SUFFICES ASSUME NEW k \in A
                  PROVE  Anomalous(snapshots[k].verdict) /\ DeviationAt(snapshots, k) # 0
      OBVIOUS
    <2>1. Anomalous(snapshots[k].verdict)
      BY <1>3 DEF Peaks
    <2>2. snapshots[k].verdict \in Verdicts
      <3>1. k \in DOMAIN snapshots
        BY DEF ArcOf
      <3>. DEFINE Snapshot == [rwaId : Assets, verdict : Verdicts]
      <3>2. snapshots \in Seq(Snapshot)
        BY <1>1 DEF TypeOK
      <3>3. \A x \in Snapshot : x.verdict \in Verdicts
        OBVIOUS
      <3>. HIDE DEF Snapshot
      <3>4. snapshots[k] \in Snapshot
        BY <3>1, <3>2
      <3>. QED
        BY <3>3, <3>4
    <2>3. snapshots[k].verdict.deviation # 0
      BY <2>1, <2>2, VerdictsAssumption DEF WellFormed
    <2>. QED
      BY <2>1, <2>3 DEF DeviationAt
  <1>8. Cardinality(R) = e.confirmations + (IF IsOpen(e) THEN 0 ELSE 1)
    <2>1. Cardinality(R) = Cardinality(A) + (IF IsOpen(e) THEN 0 ELSE 1)
      BY <1>2, ObservedOnceEach
    <2>. QED
      BY <1>2, <2>1 DEF Arced
  <1>9. /\ e \in Event /\ e.confirmations \in Nat \ {0} /\ e.maxDeviation \in Int
        /\ e.firstSeenAt \in Int /\ e.lastSeenAt \in Int /\ e.resolvedAt \in Int
    BY <1>2 DEF Arced, Event
  <1>. HIDE DEF rows, e, at, A, R
  <1>10. /\ Len(rows) \in Nat \ {0} /\ DOMAIN rows = 1 .. Len(rows)
         /\ rows = [k \in 1 .. Len(rows) |-> rows[k]]
         /\ Len(rows) = e.confirmations + IF IsOpen(e) THEN 0 ELSE 1
    BY <1>4, <1>8, <1>9 DEF Written, R
  <1>11. \A k \in DOMAIN rows :
           /\ rows[k].at \in Nat \ {0} /\ rows[k].deviation \in Int
           /\ rows[k].transition \in Transitions /\ rows[k].severity \in Severities
    <2>. SUFFICES ASSUME NEW k \in DOMAIN rows
                  PROVE  /\ rows[k].at \in Nat \ {0} /\ rows[k].deviation \in Int
                         /\ rows[k].transition \in Transitions /\ rows[k].severity \in Severities
      OBVIOUS
    <2>1. f[k] \in R
      BY <1>4 DEF Written, R
    <2>2. transitions[f[k]] \in Transition
      BY <1>6, <2>1
    <2>. QED
      BY <1>4, <2>2 DEF Written, Transition
  <1>12. \A j, k \in DOMAIN rows : j < k => rows[j].at < rows[k].at
    <2>. SUFFICES ASSUME NEW j \in DOMAIN rows, NEW k \in DOMAIN rows, j < k
                  PROVE  rows[j].at < rows[k].at
      OBVIOUS
    <2>1. f[j] \in R /\ f[k] \in R /\ f[j] < f[k]
      BY <1>4 DEF Written, R
    <2>2. transitions[f[j]].snapshot < transitions[f[k]].snapshot
      BY <1>1, <1>6, <2>1 DEF RowsInOrder
    <2>. QED
      BY <1>4, <2>2 DEF Written
  \* Every row, by its time.
  <1>13. \A k \in DOMAIN rows :
           /\ rows[k].at \in A \/ (rows[k].at = e.resolvedAt /\ ~IsOpen(e))
           /\ rows[k].at \in A =>
                rows[k].deviation = DeviationAt(snapshots, rows[k].at) /\ rows[k].deviation # 0
           /\ rows[k].at \notin A => rows[k].deviation = 0
           /\ rows[k].transition = "created" => rows[k].at = e.firstSeenAt /\ ConfirmScans # 1
           /\ rows[k].at = e.firstSeenAt =>
                rows[k].transition = IF ConfirmScans = 1 THEN "confirmed" ELSE "created"
           /\ rows[k].transition \in ClosedStatuses <=> rows[k].at > e.lastSeenAt
           /\ rows[k].transition \in ClosedStatuses => rows[k].transition = e.status
    <2>. TAKE k \in DOMAIN rows
    <2>. DEFINE t == f[k]
    <2>1. /\ t \in R /\ rows[k].at = transitions[t].snapshot
          /\ rows[k].transition = transitions[t].transition
          /\ rows[k].deviation = transitions[t].deviation
      BY <1>4 DEF Written, R
    <2>. HIDE DEF t
    <2>2. transitions[t].snapshot \in A \cup ClosingOf(e)
      <3>1. TimesOf(transitions, i) = A \cup ClosingOf(e)
        BY <1>3 DEF Tells, A
      <3>. QED
        BY <2>1, <3>1 DEF TimesOf, R
    <2>3. rows[k].at \in A \/ (rows[k].at = e.resolvedAt /\ ~IsOpen(e))
      BY <2>1, <2>2 DEF ClosingOf
    <2>4. /\ rows[k].at \in A => rows[k].deviation = DeviationAt(snapshots, rows[k].at)
          /\ rows[k].at \notin A => rows[k].deviation = 0
      BY <1>3, <2>1 DEF Tells, A, R
    <2>5. rows[k].at \in A => rows[k].deviation # 0
      BY <1>7, <2>4
    <2>6. /\ rows[k].transition = "created" => rows[k].at = e.firstSeenAt /\ ConfirmScans # 1
          /\ rows[k].at = e.firstSeenAt =>
               rows[k].transition = IF ConfirmScans = 1 THEN "confirmed" ELSE "created"
          /\ rows[k].transition \in ClosedStatuses <=> rows[k].at > e.lastSeenAt
          /\ rows[k].transition \in ClosedStatuses => rows[k].transition = e.status
      BY <1>3, <2>1 DEF Named, R
    <2>. QED
      BY <2>3, <2>4, <2>5, <2>6
  \* Every time has its row.
  <1>14. \A x \in A \cup ClosingOf(e) : \E k \in DOMAIN rows : rows[k].at = x
    <2>. SUFFICES ASSUME NEW x \in A \cup ClosingOf(e) PROVE \E k \in DOMAIN rows : rows[k].at = x
      OBVIOUS
    <2>1. x \in TimesOf(transitions, i)
      BY <1>3 DEF Tells, A
    <2>2. PICK t \in R : transitions[t].snapshot = x
      BY <2>1 DEF TimesOf, R
    <2>3. PICK k \in DOMAIN rows : f[k] = t
      BY <1>4, <2>2 DEF Written, R
    <2>. QED
      BY <1>4, <2>2, <2>3 DEF Written
  <1>15. /\ A \subseteq Int /\ e.firstSeenAt \in A
         /\ \A k \in A : e.firstSeenAt <= k /\ k <= e.lastSeenAt
         /\ ~IsOpen(e) => e.lastSeenAt < e.resolvedAt
    BY <1>2 DEF Arced, A
  <1>16. rows[1].at = e.firstSeenAt
    <2>1. PICK k \in DOMAIN rows : rows[k].at = e.firstSeenAt
      BY <1>14, <1>15
    <2>2. 1 \in DOMAIN rows /\ k \in Int /\ (k = 1 \/ 1 < k)
      BY <1>10
    <2>3. e.firstSeenAt <= rows[1].at
      <3>1. rows[1].at \in A \/ (rows[1].at = e.resolvedAt /\ ~IsOpen(e))
        BY <1>13, <2>2
      <3>2. e.firstSeenAt <= e.lastSeenAt
        BY <1>15
      <3>3. ASSUME rows[1].at = e.resolvedAt, ~IsOpen(e) PROVE e.firstSeenAt <= rows[1].at
        <4>1. e.lastSeenAt < e.resolvedAt
          BY <1>15, <3>3
        <4>. QED
          BY <1>9, <3>2, <3>3, <4>1
      <3>. QED
        BY <1>15, <3>1, <3>3
    <2>4. 1 < k => rows[1].at < e.firstSeenAt
      BY <1>12, <2>1, <2>2
    <2>5. rows[1].at \in Int
      BY <1>11, <2>2
    <2>. QED
      BY <1>9, <2>1, <2>2, <2>3, <2>4, <2>5
  <1>17. \A k \in DOMAIN rows : rows[k].at = e.firstSeenAt => k = 1
    <2>. SUFFICES ASSUME NEW k \in DOMAIN rows, rows[k].at = e.firstSeenAt, k # 1 PROVE FALSE
      OBVIOUS
    <2>1. 1 \in DOMAIN rows /\ 1 < k
      BY <1>10
    <2>2. rows[1].at < rows[k].at
      BY <1>12, <2>1
    <2>. QED
      BY <1>9, <1>16, <2>2
  \* The closing row is the last.
  <1>18. \A k \in DOMAIN rows :
           rows[k].at > e.lastSeenAt <=> rows[k].at = e.resolvedAt /\ ~IsOpen(e)
    <2>. SUFFICES ASSUME NEW k \in DOMAIN rows
                  PROVE  rows[k].at > e.lastSeenAt <=> rows[k].at = e.resolvedAt /\ ~IsOpen(e)
      OBVIOUS
    <2>1. rows[k].at \in A \/ (rows[k].at = e.resolvedAt /\ ~IsOpen(e))
      BY <1>13
    <2>2. rows[k].at \in Int
      BY <1>11
    <2>. QED
      BY <1>9, <1>15, <2>1, <2>2
  <1>19. ~IsOpen(e) => rows[Len(rows)].at = e.resolvedAt
    <2>. SUFFICES ASSUME ~IsOpen(e) PROVE rows[Len(rows)].at = e.resolvedAt
      OBVIOUS
    <2>1. PICK k \in DOMAIN rows : rows[k].at = e.resolvedAt
      BY <1>14 DEF ClosingOf
    <2>2. Len(rows) \in DOMAIN rows /\ k \in Int /\ (k = Len(rows) \/ k < Len(rows))
      BY <1>10
    <2>3. rows[Len(rows)].at <= e.resolvedAt
      <3>1. \/ rows[Len(rows)].at \in A
            \/ rows[Len(rows)].at = e.resolvedAt
        BY <1>13, <2>2
      <3>2. ASSUME rows[Len(rows)].at \in A PROVE rows[Len(rows)].at <= e.resolvedAt
        <4>1. rows[Len(rows)].at <= e.lastSeenAt /\ rows[Len(rows)].at \in Int
          BY <1>15, <3>2
        <4>2. e.lastSeenAt < e.resolvedAt
          BY <1>15
        <4>. QED
          BY <1>9, <4>1, <4>2
      <3>3. e.resolvedAt <= e.resolvedAt
        BY <1>9
      <3>. QED
        BY <3>1, <3>2, <3>3
    <2>4. k < Len(rows) => e.resolvedAt < rows[Len(rows)].at
      BY <1>12, <2>1, <2>2
    <2>5. rows[Len(rows)].at \in Int
      BY <1>11, <2>2
    <2>. QED
      BY <1>9, <2>1, <2>2, <2>3, <2>4, <2>5
  <1>20. \A j, k \in DOMAIN rows : rows[j].at = rows[k].at => j = k
    <2>. SUFFICES ASSUME NEW j \in DOMAIN rows, NEW k \in DOMAIN rows, rows[j].at = rows[k].at,
                         j # k
                  PROVE  FALSE
      OBVIOUS
    <2>1. j < k \/ k < j
      BY <1>10
    <2>2. rows[j].at < rows[k].at \/ rows[k].at < rows[j].at
      BY <1>12, <2>1
    <2>3. rows[j].at \in Int /\ rows[k].at \in Int
      BY <1>11
    <2>. QED
      BY <2>2, <2>3
  <1>21. \A k \in DOMAIN rows :
           /\ rows[k].transition \in ClosedStatuses <=> ~IsOpen(e) /\ k = Len(rows)
           /\ rows[k].transition \in ClosedStatuses => rows[k].transition = e.status
           /\ rows[k].deviation = 0 <=> rows[k].transition \in ClosedStatuses
           /\ Abs(rows[k].deviation) <= Abs(e.maxDeviation)
    <2>. TAKE k \in DOMAIN rows
    <2>1. rows[k].transition \in ClosedStatuses <=> rows[k].at = e.resolvedAt /\ ~IsOpen(e)
      BY <1>13, <1>18
    <2>2. Len(rows) \in DOMAIN rows
      BY <1>10
    <2>3. rows[k].transition \in ClosedStatuses <=> ~IsOpen(e) /\ k = Len(rows)
      BY <1>19, <1>20, <2>1, <2>2
    <2>4. rows[k].at \in A <=> ~(rows[k].at = e.resolvedAt /\ ~IsOpen(e))
      <3>1. rows[k].at \in A => rows[k].at <= e.lastSeenAt
        BY <1>15
      <3>2. rows[k].at \in Int
        BY <1>11
      <3>. QED
        BY <1>9, <1>13, <1>18, <3>1, <3>2
    <2>5. rows[k].deviation = 0 <=> rows[k].transition \in ClosedStatuses
      BY <1>13, <2>1, <2>4
    <2>6. Abs(rows[k].deviation) <= Abs(e.maxDeviation)
      <3>1. CASE rows[k].at \in A
        <4>1. Abs(DeviationAt(snapshots, rows[k].at)) <= Abs(e.maxDeviation)
          BY <1>3, <3>1 DEF Peaks, A
        <4>. QED
          BY <1>13, <3>1, <4>1
      <3>2. CASE rows[k].at \notin A
        <4>1. rows[k].deviation = 0
          BY <1>13, <3>2
        <4>. QED
          BY <1>9, <4>1 DEF Abs
      <3>. QED
        BY <3>1, <3>2
    <2>. QED
      BY <1>13, <2>3, <2>5, <2>6
  <1>22. \E k \in DOMAIN rows : /\ rows[k].transition \notin ClosedStatuses
                                /\ Abs(rows[k].deviation) = Abs(e.maxDeviation)
    <2>1. PICK x \in A : e.maxDeviation = DeviationAt(snapshots, x)
      BY <1>3 DEF Peaks, A
    <2>2. PICK k \in DOMAIN rows : rows[k].at = x
      BY <1>14, <2>1
    <2>3. rows[k].deviation = e.maxDeviation /\ rows[k].deviation # 0
      BY <1>13, <2>1, <2>2
    <2>. QED
      BY <1>21, <2>3
  <1>23. /\ at \in Nat
         /\ at # 0 <=> e.confirmations >= ConfirmScans
         /\ at # 0 <=> \E k \in DOMAIN rows : rows[k].transition = "confirmed"
         /\ \A k \in DOMAIN rows : rows[k].transition = "confirmed" => at = rows[k].at
    <2>1. \A k \in DOMAIN rows : /\ f[k] \in R /\ rows[k].transition = transitions[f[k]].transition
                                 /\ rows[k].at = transitions[f[k]].snapshot
      BY <1>4 DEF Written, R
    <2>2. \A t \in R : \E k \in DOMAIN rows : f[k] = t
      BY <1>4 DEF Written, R
    <2>3. at # 0 <=> \E k \in DOMAIN rows : rows[k].transition = "confirmed"
      BY <1>5, <2>1, <2>2 DEF ReceiptFits, R
    <2>4. \A k \in DOMAIN rows : rows[k].transition = "confirmed" => at = rows[k].at
      BY <1>5, <2>1 DEF ReceiptFits, R
    <2>. QED
      BY <1>5, <2>3, <2>4 DEF ReceiptFits
  <1>24. \A j, k \in DOMAIN rows : rows[j].transition = "confirmed" /\ rows[k].transition = "confirmed"
                                     => j = k
    BY <1>20, <1>23
  <1>25. 1 \in DOMAIN rows
    BY <1>10
  <1>26. rows[1].transition = IF ConfirmScans = 1 THEN "confirmed" ELSE "created"
    BY <1>13, <1>16, <1>25
  <1>27. \A k \in DOMAIN rows : rows[k].transition = "created" => k = 1 /\ ConfirmScans # 1
    BY <1>13, <1>17
  <1>28. Story(rows, e, at)
    BY <1>9, <1>10, <1>11, <1>12, <1>21, <1>22, <1>23, <1>24, <1>26, <1>27, Zenon DEF Story
  <1>. QED
    BY <1>28 DEF rows, e, at

\* The timeline of every event tells its arc.
THEOREM TimelinesTellArc == Spec => []TimelineTellsArc
  <1>1. ArcInv => TimelineTellsArc
    <2>. SUFFICES ASSUME ArcInv, NEW i \in DOMAIN events
                  PROVE  TellsArc(events[i], ByTime(Dated(TransitionsFor(i))), EventTimeline(i))
      BY DEF TimelineTellsArc
    <2>. DEFINE rows == Dated(TransitionsFor(i))
    <2>1. Story(rows, events[i], ReceiptAt(i))
      BY EventHasStory
    <2>. HIDE DEF rows
    <2>2. ByTime(rows) = rows
      <3>1. /\ Len(rows) \in Nat /\ rows = [k \in 1 .. Len(rows) |-> rows[k]]
            /\ \A k \in 1 .. Len(rows) : rows[k].at \in Int
            /\ \A j, k \in 1 .. Len(rows) : j < k => rows[j].at < rows[k].at
        BY <2>1 DEF Story
      <3>. QED
        BY <3>1, SortedKeeps
    <2>3. TellsArc(events[i], rows, BuildIncidentTimeline(rows, ReceiptAt(i)))
      BY <2>1, ArcIsTold
    <2>. QED
      BY <2>2, <2>3 DEF EventTimeline, rows
  <1>. QED
    BY <1>1, SpecArcInv, PTL

-----------------------------------------------------------------------------
(***************************************************************************)
(* Lists of events: the newest first.                                      *)
(***************************************************************************)
Seen(i) == events[i].lastSeenAt

\* f lists the events ids, the one seen last first.
Descends(f, ids) ==
  /\ Cardinality(ids) \in Nat /\ Len(f) = Cardinality(ids) /\ DOMAIN f = 1 .. Cardinality(ids)
  /\ f = [k \in 1 .. Cardinality(ids) |-> f[k]]
  /\ \A k \in 1 .. Cardinality(ids) : f[k] \in ids
  /\ \A i \in ids : \E k \in 1 .. Cardinality(ids) : f[k] = i
  /\ \A j, k \in 1 .. Cardinality(ids) : j < k => Seen(f[j]) > Seen(f[k])

\* No two events were last seen together.
SeenApart == \A i, j \in DOMAIN events : Seen(i) \in Int /\ (Seen(i) = Seen(j) => i = j)

LEMMA EventsSeenApart ==
  ASSUME ArcInv
  PROVE  SeenApart
  <1>1. \A i \in DOMAIN events : Arced(i, events[i], ArcOf(snapshots, events[i]))
    BY EventArced
  <1>2. \A i \in DOMAIN events : i \in Int /\ Seen(i) \in Int
    <2>1. TypeOK
      BY DEF ArcInv, CertInv, Inv
    <2>2. DOMAIN events = 1 .. Len(events) /\ Len(events) \in Nat
      BY <2>1 DEF TypeOK
    <2>3. \A i \in DOMAIN events : events[i] \in Event
      BY <1>1 DEF Arced
    <2>. QED
      BY <2>2, <2>3 DEF Event, Seen
  <1>3. ASSUME NEW i \in DOMAIN events, NEW j \in DOMAIN events, i < j PROVE Seen(i) # Seen(j)
    <2>1. CASE events[i].rwaId = events[j].rwaId
      <3>1. ~IsOpen(events[i]) /\ events[i].resolvedAt < events[j].firstSeenAt
        BY <1>3, <2>1 DEF ArcInv, EventsApart
      <3>2. /\ Seen(i) < events[i].resolvedAt /\ events[j].firstSeenAt <= Seen(j)
            /\ events[i].resolvedAt \in Int /\ events[j].firstSeenAt \in Int
        BY <1>1, <3>1 DEF Arced, Event, Seen
      <3>. QED
        BY <1>2, <3>1, <3>2
    <2>2. CASE events[i].rwaId # events[j].rwaId
      <3>1. \A k \in {i, j} : snapshots[Seen(k)].rwaId = events[k].rwaId
        BY <1>1 DEF Arced, ArcOf, Seen
      <3>. QED
        BY <2>2, <3>1
    <2>. QED
      BY <2>1, <2>2
  <1>4. ASSUME NEW i \in DOMAIN events, NEW j \in DOMAIN events, Seen(i) = Seen(j) PROVE i = j
    <2>1. i = j \/ i < j \/ j < i
      BY <1>2
    <2>. QED
      BY <1>3, <1>4, <2>1
  <1>. QED
    BY <1>2, <1>4 DEF SeenApart

LEMMA EventsFinite ==
  ASSUME ArcInv
  PROVE  IsFiniteSet(DOMAIN events)
  <1>1. TypeOK
    BY DEF ArcInv, CertInv, Inv
  <1>2. DOMAIN events = 1 .. Len(events) /\ 1 \in Int /\ Len(events) \in Int
    BY <1>1 DEF TypeOK
  <1>. QED
    BY <1>2, FS_Interval

LEMMA NewestDescends ==
  ASSUME ArcInv, NEW ids \in SUBSET DOMAIN events
  PROVE  Descends(NewestFirst(ids), ids)
  <1>. DEFINE R == {p \in ids \X ids : events[p[1]].lastSeenAt > events[p[2]].lastSeenAt}
              f == NewestFirst(ids)
              n == Cardinality(ids)
  <1>1. SeenApart
    BY EventsSeenApart
  <1>2. \A i, j \in ids : /\ Seen(i) \in Int /\ Seen(j) \in Int
                          /\ <<i, j>> \in R <=> Seen(i) > Seen(j)
                          /\ Seen(i) = Seen(j) => i = j
    BY <1>1 DEF SeenApart, Seen
  <1>3. f = Ranked(ids, R)
    BY DEF NewestFirst
  <1>. HIDE DEF R, f
  <1>4. OrdersAll(ids, R)
    <2>1. \A i \in ids : <<i, i>> \notin R
      BY <1>2
    <2>2. \A i, j, k \in ids : <<i, j>> \in R /\ <<j, k>> \in R => <<i, k>> \in R
      BY <1>2
    <2>3. ASSUME NEW i \in ids, NEW j \in ids
          PROVE  i = j \/ <<i, j>> \in R \/ <<j, i>> \in R
      <3>1. Seen(i) \in Int /\ Seen(j) \in Int
        BY <1>2, Zenon
      <3>2. Seen(i) = Seen(j) \/ Seen(i) > Seen(j) \/ Seen(j) > Seen(i)
        BY <3>1
      <3>. QED
        BY <1>2, <3>2, Zenon
    <2>. QED
      BY <2>1, <2>2, <2>3 DEF OrdersAll
  <1>5. IsFiniteSet(ids)
    BY EventsFinite, FS_Subset
  <1>6. ListsBy(f, ids, R)
    BY <1>3, <1>4, <1>5, RankedLists
  <1>7. /\ n \in Nat /\ f \in [1 .. n -> ids]
        /\ \A i \in ids : \E k \in 1 .. n : f[k] = i
        /\ \A j, k \in 1 .. n : j < k => <<f[j], f[k]>> \in R
    BY <1>6 DEF ListsBy
  <1>8. DOMAIN f = 1 .. n /\ Len(f) = n /\ f = [k \in 1 .. n |-> f[k]]
    BY <1>7
  <1>9. \A j, k \in 1 .. n : j < k => Seen(f[j]) > Seen(f[k])
    BY <1>2, <1>7
  <1>10. Descends(f, ids)
    BY <1>7, <1>8, <1>9 DEF Descends
  <1>. QED
    BY <1>10 DEF f

LEMMA DescendsTaken ==
  ASSUME NEW ids, NEW f, Descends(f, ids), NEW limit \in Nat
  PROVE  IsFirst(Take(f, limit), f, Limited(limit, Cardinality(ids)))
  <1>1. Cardinality(ids) \in Nat /\ HasItems(f, Cardinality(ids))
    BY DEF Descends, HasItems
  <1>. QED
    BY <1>1, TakeIs

\* A list cut at its limit shows the newest, newest first.
LEMMA ShowsNewest ==
  ASSUME SeenApart, NEW ids \in SUBSET DOMAIN events, NEW f, Descends(f, ids),
         NEW limit \in Nat
  PROVE  IsNewestOf(Take(f, limit), ids, limit)
  <1>. DEFINE n == Cardinality(ids)
              m == IF limit <= n THEN limit ELSE n
              rows == Take(f, limit)
              shown == {rows[k] : k \in DOMAIN rows}
  <1>1. /\ n \in Nat /\ Len(f) = n /\ DOMAIN f = 1 .. n /\ f = [k \in 1 .. n |-> f[k]]
        /\ \A k \in 1 .. n : f[k] \in ids
        /\ \A i \in ids : \E k \in 1 .. n : f[k] = i
        /\ \A j, k \in 1 .. n : j < k => Seen(f[j]) > Seen(f[k])
    BY DEF Descends
  <1>2. /\ Len(rows) = m /\ DOMAIN rows = 1 .. m
        /\ \A k \in 1 .. m : rows[k] = f[k]
    <2>1. IsFirst(rows, f, Limited(limit, n))
      BY DescendsTaken
    <2>2. Limited(limit, n) = m
      BY DEF Limited
    <2>. HIDE DEF rows, m
    <2>. QED
      BY <2>1, <2>2 DEF IsFirst
  <1>3. m \in Nat /\ m <= n
    BY <1>1
  <1>4. Min({limit, Cardinality(ids)}) = m
    BY <1>1, LesserOf
  <1>5. \A i \in ids : Seen(i) \in Int
    BY DEF SeenApart
  <1>. HIDE DEF n, m, rows
  <1>6. \A k \in 1 .. m : k \in 1 .. n
    BY <1>1, <1>3
  <1>7. shown = {f[k] : k \in 1 .. m}
    BY <1>2
  <1>. HIDE DEF shown
  <1>8. shown \subseteq ids
    BY <1>1, <1>6, <1>7
  <1>9. ASSUME NEW k \in 2 .. Len(rows)
        PROVE  events[rows[k]].lastSeenAt < events[rows[k - 1]].lastSeenAt
    <2>1. k \in 1 .. m /\ k - 1 \in 1 .. m /\ k - 1 < k
      BY <1>2, <1>3
    <2>2. rows[k] = f[k] /\ rows[k - 1] = f[k - 1]
      BY <1>2, <2>1
    <2>3. Seen(f[k - 1]) > Seen(f[k]) /\ f[k] \in ids /\ f[k - 1] \in ids
      BY <1>1, <1>6, <2>1
    <2>4. Seen(f[k - 1]) \in Int /\ Seen(f[k]) \in Int
      BY <1>5, <2>3
    <2>5. Seen(f[k]) < Seen(f[k - 1])
      BY <2>3, <2>4
    <2>. QED
      BY <2>2, <2>5 DEF Seen
  <1>10. ASSUME NEW i \in ids \ shown, NEW j \in shown
         PROVE  events[i].lastSeenAt < events[j].lastSeenAt
    <2>1. PICK p \in 1 .. n : f[p] = i
      BY <1>1
    <2>2. PICK q \in 1 .. m : f[q] = j
      BY <1>7
    <2>3. p \notin 1 .. m
      BY <1>7, <2>1
    <2>4. q < p /\ q \in 1 .. n
      BY <1>1, <1>3, <1>6, <2>3
    <2>5. Seen(j) > Seen(i) /\ j \in ids
      BY <1>1, <1>8, <2>1, <2>2, <2>4
    <2>6. Seen(i) < Seen(j)
      BY <1>5, <2>5
    <2>. QED
      BY <2>6 DEF Seen
  <1>11. IsNewestOf(rows, ids, limit)
    <2>1. Len(rows) = Min({limit, Cardinality(ids)})
      BY <1>2, <1>4
    <2>. QED
      BY <1>8, <1>9, <1>10, <2>1, Zenon DEF IsNewestOf, shown
  <1>. QED
    BY <1>11 DEF rows

\* How many were seen after the one in place k.
LEMMA PlaceIs ==
  ASSUME SeenApart, NEW ids \in SUBSET DOMAIN events, NEW f, Descends(f, ids),
         NEW k \in 1 .. Cardinality(ids)
  PROVE  Cardinality({i \in ids : Seen(i) > Seen(f[k])}) = k - 1
  <1>. DEFINE n == Cardinality(ids)
              T == {i \in ids : Seen(i) > Seen(f[k])}
              g == [j \in 1 .. k - 1 |-> f[j]]
  <1>1. /\ n \in Nat /\ k \in 1 .. n
        /\ \A j \in 1 .. n : f[j] \in ids
        /\ \A i \in ids : \E j \in 1 .. n : f[j] = i
        /\ \A i, j \in 1 .. n : i < j => Seen(f[i]) > Seen(f[j])
        /\ \A j \in 1 .. n : Seen(f[j]) \in Int
    BY DEF Descends, SeenApart
  <1>. HIDE DEF n
  <1>2. \A j \in 1 .. k - 1 : j \in 1 .. n /\ j < k /\ j \in Int
    BY <1>1
  <1>3. g \in [1 .. k - 1 -> T]
    <2>. SUFFICES ASSUME NEW j \in 1 .. k - 1 PROVE f[j] \in T
      OBVIOUS
    <2>. QED
      BY <1>1, <1>2
  <1>4. \A i, j \in 1 .. k - 1 : g[i] = g[j] => i = j
    <2>. SUFFICES ASSUME NEW i \in 1 .. k - 1, NEW j \in 1 .. k - 1, f[i] = f[j], i # j
                  PROVE  FALSE
      OBVIOUS
    <2>1. i < j \/ j < i
      BY <1>2
    <2>2. i \in 1 .. n /\ j \in 1 .. n
      BY <1>2
    <2>3. Seen(f[i]) > Seen(f[j]) \/ Seen(f[j]) > Seen(f[i])
      BY <1>1, <2>1, <2>2
    <2>. QED
      BY <1>1, <2>2, <2>3
  <1>5. \A i \in T : \E j \in 1 .. k - 1 : g[j] = i
    <2>. SUFFICES ASSUME NEW i \in ids, Seen(i) > Seen(f[k])
                  PROVE  \E j \in 1 .. k - 1 : f[j] = i
      OBVIOUS
    <2>1. PICK j \in 1 .. n : f[j] = i
      BY <1>1
    <2>2. Seen(f[j]) \in Int /\ Seen(f[k]) \in Int
      BY <1>1
    <2>3. j # k
      BY <2>1, <2>2
    <2>4. ~(k < j)
      <3>1. k < j => Seen(f[k]) > Seen(f[j])
        BY <1>1
      <3>. QED
        BY <2>1, <2>2, <3>1
    <2>5. j \in 1 .. k - 1
      BY <1>1, <2>3, <2>4
    <2>. QED
      BY <2>1, <2>5
  <1>. HIDE DEF g, T
  <1>6. g \in Bijection(1 .. k - 1, T)
    BY <1>3, <1>4, <1>5 DEF Bijection, Injection, Surjection, IsInjective
  <1>7. IsFiniteSet(1 .. k - 1) /\ Cardinality(1 .. k - 1) = k - 1
    <2>1. 1 \in Int /\ k - 1 \in Int
      BY <1>1
    <2>2. /\ IsFiniteSet(1 .. k - 1)
          /\ Cardinality(1 .. k - 1) = IF 1 > k - 1 THEN 0 ELSE k - 1 - 1 + 1
      BY <2>1, FS_Interval
    <2>. QED
      BY <1>1, <2>2
  <1>8. Cardinality(T) = Cardinality(1 .. k - 1)
    BY <1>6, <1>7, FS_Bijection DEF ExistsBijection
  <1>. QED
    BY <1>7, <1>8 DEF T

\* An event is listed when fewer than limit of the others were seen after it.
LEMMA ListedWhen ==
  ASSUME SeenApart, NEW ids \in SUBSET DOMAIN events, NEW f, Descends(f, ids),
         NEW i \in ids, NEW limit \in Nat
  PROVE  (\E k \in DOMAIN Take(f, limit) : Take(f, limit)[k] = i)
           <=> Cardinality({j \in ids : Seen(j) > Seen(i)}) < limit
  <1>. DEFINE n == Cardinality(ids)
              m == IF limit <= n THEN limit ELSE n
              rows == Take(f, limit)
              after == Cardinality({j \in ids : Seen(j) > Seen(i)})
  <1>1. /\ n \in Nat /\ Len(f) = n /\ DOMAIN f = 1 .. n /\ f = [k \in 1 .. n |-> f[k]]
        /\ \A k \in 1 .. n : f[k] \in ids
        /\ \A j, k \in 1 .. n : j < k => Seen(f[j]) > Seen(f[k])
    BY DEF Descends
  <1>2. DOMAIN rows = 1 .. m /\ \A k \in 1 .. m : rows[k] = f[k]
    <2>1. IsFirst(rows, f, Limited(limit, n))
      BY DescendsTaken
    <2>2. Limited(limit, n) = m
      BY DEF Limited
    <2>. HIDE DEF rows, m
    <2>. QED
      BY <2>1, <2>2 DEF IsFirst
  <1>3. PICK p \in 1 .. n : f[p] = i
    BY DEF Descends
  <1>4. after = p - 1
    BY <1>3, PlaceIs
  <1>. HIDE DEF rows, after
  <1>5. ASSUME p <= limit PROVE \E k \in DOMAIN rows : rows[k] = i
    <2>1. p \in 1 .. m
      BY <1>1, <1>3, <1>5
    <2>. QED
      BY <1>2, <1>3, <2>1
  <1>6. ASSUME NEW k \in DOMAIN rows, rows[k] = i PROVE p <= limit
    <2>1. k \in 1 .. n /\ k <= limit /\ f[k] = f[p]
      BY <1>1, <1>2, <1>3, <1>6
    <2>2. Seen(f[k]) \in Int
      BY <1>1, <2>1 DEF SeenApart
    <2>3. ~(k < p) /\ ~(p < k)
      BY <1>1, <1>3, <2>1, <2>2
    <2>. QED
      BY <1>3, <2>1, <2>3
  <1>7. after < limit <=> p <= limit
    BY <1>3, <1>4
  <1>. QED
    BY <1>5, <1>6, <1>7 DEF rows, after

-----------------------------------------------------------------------------
(***************************************************************************)
(* The overview: the open events, but for those it overlooks.              *)
(***************************************************************************)

LEMMA ActiveWhen ==
  ASSUME ArcInv, NEW i \in OpenEvents
  PROVE  i \in Active <=> i \notin Overlooked
  <1>. DEFINE ids == DOMAIN events
              f == NewestFirst(ids)
              after == Cardinality({j \in ids : Seen(j) > Seen(i)})
  <1>1. i \in ids /\ ids \in SUBSET DOMAIN events /\ OverviewLimit \in Nat
    BY ReadAssumption DEF OpenEvents
  <1>2. SeenApart /\ Descends(f, ids)
    BY <1>1, EventsSeenApart, NewestDescends
  <1>3. SeenAfter(i) = {j \in ids : Seen(j) > Seen(i)}
    BY DEF SeenAfter, Seen
  <1>4. i \in Active <=> \E k \in DOMAIN Take(f, OverviewLimit) : Take(f, OverviewLimit)[k] = i
    BY Zenon DEF Active
  <1>5. i \in Overlooked <=> after >= OverviewLimit
    BY <1>3 DEF Overlooked
  <1>6. after \in Nat
    <2>1. IsFiniteSet({j \in ids : Seen(j) > Seen(i)})
      BY EventsFinite, FS_Subset
    <2>. QED
      BY <2>1, FS_CardinalityType
  <1>. HIDE DEF f, ids
  <1>7. i \in Active <=> after < OverviewLimit
    BY <1>1, <1>2, <1>4, ListedWhen
  <1>. QED
    BY <1>1, <1>5, <1>6, <1>7

\* Among any open events the active and the overlooked make up the number.
LEMMA ActiveAndOverlooked ==
  ASSUME ArcInv, NEW E \in SUBSET OpenEvents
  PROVE  /\ Cardinality(E \cap Active) + Cardinality(E \cap Overlooked) = Cardinality(E)
         /\ Cardinality(E \cap Active) \in Nat
  <1>. DEFINE A == E \cap Active
              O == E \cap Overlooked
  <1>1. TypeOK
    BY DEF ArcInv, CertInv, Inv
  <1>2. IsFiniteSet(E)
    BY <1>1, OpenFinite, FS_Subset
  <1>3. IsFiniteSet(A) /\ IsFiniteSet(O)
    BY <1>2, FS_Subset
  <1>4. A \cap O = {} /\ A \cup O = E
    BY ActiveWhen
  <1>. HIDE DEF A, O
  <1>5. Cardinality(A \cup O) = Cardinality(A) + Cardinality(O) - Cardinality(A \cap O)
    BY <1>3, FS_Union
  <1>6. Cardinality(A \cap O) = 0
    BY <1>4, FS_EmptySet
  <1>7. Cardinality(A) \in Nat /\ Cardinality(O) \in Nat
    BY <1>3, FS_CardinalityType
  <1>8. Cardinality(A) + Cardinality(O) = Cardinality(E)
    <2>. DEFINE x == Cardinality(A)
                y == Cardinality(O)
    <2>1. Cardinality(E) = x + y - 0
      BY <1>4, <1>5, <1>6
    <2>2. x \in Nat /\ y \in Nat
      BY <1>7
    <2>. HIDE DEF x, y
    <2>3. x + y = Cardinality(E)
      BY <2>1, <2>2
    <2>. QED
      BY <2>3 DEF x, y
  <1>. QED
    BY <1>7, <1>8 DEF A, O

LEMMA OverviewIsTrue ==
  ASSUME ArcInv, RunInv
  PROVE  OverviewAgrees
  <1>. DEFINE high == {i \in OpenEvents : AtLeastHigh(events[i].severity)}
              confirmed == {i \in OpenEvents : events[i].status = "confirmed"}
              anomalous == {a \in Radar : Anomalous(LatestSnapshot(a).verdict)}
              severe == {a \in Radar : AtLeastHigh(LatestSnapshot(a).verdict.severity)}
  <1>1. TypeOK /\ OneOpenEvent /\ ConfirmedByCount /\ CertifiedOnce
    BY DEF ArcInv, CertInv, Inv
  <1>2. Cardinality(anomalous) = Cardinality(OpenEvents)
    <2>1. \A i \in OpenEvents : events[i].rwaId \in anomalous
      BY OpenIsLatest
    <2>2. \A a \in anomalous : \E i \in OpenEvents : events[i].rwaId = a
      BY LatestIsOpen
    <2>. HIDE DEF anomalous
    <2>. QED
      BY <1>1, <2>1, <2>2, SameNumber
  <1>3. Cardinality(high) = Cardinality(severe)
    <2>1. \A i \in high : events[i].rwaId \in severe
      BY OpenIsLatest
    <2>2. ASSUME NEW a \in severe PROVE \E i \in high : events[i].rwaId = a
      <3>1. ~AtLeastHigh("none")
        BY DEF AtLeastHigh, SevRank, Severities
      <3>2. Anomalous(LatestSnapshot(a).verdict)
        BY <3>1 DEF Anomalous
      <3>3. PICK i \in OpenEvents : events[i].rwaId = a
        BY <3>2, LatestIsOpen
      <3>. QED
        BY <3>3, OpenIsLatest
    <2>3. high \in SUBSET OpenEvents
      OBVIOUS
    <2>. HIDE DEF severe, high
    <2>. QED
      BY <1>1, <2>1, <2>2, <2>3, SameNumber
  <1>4. Cardinality(confirmed) <= Len(receipts)
    <2>. DEFINE proof == [i \in confirmed |-> CHOOSE k \in DOMAIN receipts : receipts[k].eventId = i]
    <2>1. ASSUME NEW i \in confirmed
          PROVE  proof[i] \in DOMAIN receipts /\ receipts[proof[i]].eventId = i
      <3>1. i \in DOMAIN events /\ events[i].confirmations >= ConfirmScans
        BY <1>1 DEF OpenEvents, ConfirmedByCount
      <3>2. \E k \in DOMAIN receipts : receipts[k].eventId = i
        BY <1>1, <3>1 DEF CertifiedOnce
      <3>. QED
        BY <3>2
    <2>2. DOMAIN receipts = 1 .. Len(receipts) /\ Len(receipts) \in Nat
      BY <1>1 DEF TypeOK
    <2>3. IsFiniteSet(DOMAIN receipts) /\ Cardinality(DOMAIN receipts) = Len(receipts)
      <3>1. 1 \in Int /\ Len(receipts) \in Int
        BY <2>2
      <3>2. /\ IsFiniteSet(1 .. Len(receipts))
            /\ Cardinality(1 .. Len(receipts)) =
                 IF 1 > Len(receipts) THEN 0 ELSE Len(receipts) - 1 + 1
        BY <3>1, FS_Interval
      <3>. QED
        BY <2>2, <3>2
    <2>4. proof \in Injection(confirmed, DOMAIN receipts)
      <3>1. proof \in [confirmed -> DOMAIN receipts]
        BY <2>1
      <3>2. \A i, j \in confirmed : proof[i] = proof[j] => i = j
        BY <2>1
      <3>. QED
        BY <3>1, <3>2 DEF Injection, IsInjective
    <2>. HIDE DEF confirmed, proof
    <2>. QED
      BY <2>3, <2>4, FS_Injection
  <1>5. /\ Cardinality(OpenEvents \cap Active) + Cardinality(OpenEvents \cap Overlooked)
             = Cardinality(OpenEvents)
        /\ Cardinality(high \cap Active) + Cardinality(high \cap Overlooked) = Cardinality(high)
        /\ Cardinality(confirmed \cap Active) + Cardinality(confirmed \cap Overlooked)
             = Cardinality(confirmed)
    <2>1. OpenEvents \in SUBSET OpenEvents /\ high \in SUBSET OpenEvents
          /\ confirmed \in SUBSET OpenEvents
      OBVIOUS
    <2>. HIDE DEF high, confirmed
    <2>. QED
      BY <2>1, ActiveAndOverlooked
  <1>6. /\ OpenEvents \cap Active = Active /\ OpenEvents \cap Overlooked = Overlooked
        /\ high \cap Active = {i \in Active : AtLeastHigh(events[i].severity)}
        /\ high \cap Overlooked = {i \in Overlooked : AtLeastHigh(events[i].severity)}
        /\ confirmed \cap Active = {i \in Active : events[i].status = "confirmed"}
        /\ confirmed \cap Overlooked = {i \in Overlooked : events[i].status = "confirmed"}
    BY DEF Active, Overlooked
  <1>7. /\ Overview.activeIncidents = Cardinality(OpenEvents \cap Active)
        /\ Overview.assetsAnomalous = Cardinality(anomalous)
        /\ Overview.criticalOrHigh = Cardinality(high \cap Active)
        /\ Overview.confirmedIncidents = Cardinality(confirmed \cap Active)
    BY <1>6 DEF Overview
  <1>. HIDE DEF high, confirmed, anomalous
  <1>8. /\ Overview.activeIncidents + Cardinality(Overlooked) = Overview.assetsAnomalous
        /\ Overview.criticalOrHigh
             + Cardinality({i \in Overlooked : AtLeastHigh(events[i].severity)})
             = Cardinality(severe)
        /\ Overview.confirmedIncidents
             + Cardinality({i \in Overlooked : events[i].status = "confirmed"})
             <= Len(receipts)
    BY <1>2, <1>3, <1>4, <1>5, <1>6, <1>7
  <1>. QED
    BY <1>8 DEF OverviewAgrees

\* Every view that counts or sums up incidents agrees with the history, the
\* overview but for the incidents that lie past its limit.
THEOREM ViewsMatchHistory == Spec => []StatsMatchHistory
  <1>1. ArcInv /\ RunInv => StatsMatchHistory
    BY IncidentsAgree, OverviewIsTrue DEF StatsMatchHistory
  <1>. QED
    BY <1>1, SpecArcInv, SpecRunInv, PTL

-----------------------------------------------------------------------------
(***************************************************************************)
(* The lists of the surfaces.                                              *)
(***************************************************************************)

LEMMA LimitTypes ==
  /\ PageLimit \in Nat /\ ListDefault \in Nat /\ HttpMax \in Nat /\ StoreMax \in Nat
  /\ ScanLimit \in Nat /\ MaxBody \in Nat /\ PointsMin \in Nat /\ PointsDefault \in Nat
  /\ PageLimit >= 1 /\ HttpMax >= 1 /\ ScanLimit >= 1 /\ MaxBody >= 1 /\ PointsMin >= 1
  /\ PageLimit <= StoreMax /\ ListDefault <= StoreMax /\ HttpMax <= StoreMax
  /\ PointsMin <= PointsDefault /\ PointsDefault <= MaxPoints /\ MaxPoints \in Nat
  <1>1. {ListDefault, HttpMax, StoreMax, PageLimit, ScanLimit, SearchLimit, MaxBody,
         PointsMin, PointsDefault} \subseteq Nat \ {0}
    BY LimitAssumption
  <1>2. /\ ListDefault \in Nat \ {0} /\ HttpMax \in Nat \ {0} /\ StoreMax \in Nat \ {0}
        /\ PageLimit \in Nat \ {0} /\ ScanLimit \in Nat \ {0} /\ MaxBody \in Nat \ {0}
        /\ PointsMin \in Nat \ {0} /\ PointsDefault \in Nat \ {0}
    BY <1>1
  <1>3. MaxPoints \in Nat
    BY WindowAssumption
  <1>. QED
    BY <1>2, <1>3, LimitAssumption

\* A number within the bounds is left as it is.
LEMMA BoundedKeeps ==
  ASSUME NEW lo \in Nat, NEW hi \in Nat, NEW n \in lo .. hi, NEW default
  PROVE  BoundedInt(n, lo, hi, default) = n
  <1>1. n \in Int /\ lo <= n /\ n <= hi /\ n \in Nat
    OBVIOUS
  <1>2. n # Garbled /\ n # Absent
    BY <1>1, ParameterAssumption
  <1>3. Min({hi, n}) = n
    BY <1>1, LesserOf
  <1>4. Max({lo, n}) = n
    <2>1. n \in {lo, n} /\ {lo, n} \subseteq Int /\ \A x \in {lo, n} : x <= n
      BY <1>1
    <2>. QED
      BY <2>1, GreatestIs
  <1>. QED
    BY <1>2, <1>3, <1>4 DEF BoundedInt

\* Every list of events is of the newest that match.
LEMMA ListIsNewest ==
  ASSUME ArcInv, NEW status, NEW a, NEW limit \in Nat, limit <= StoreMax
  PROVE  /\ ListEvents(status, a, limit) = Take(NewestFirst(Matching(status, a)), limit)
         /\ IsNewestOf(ListEvents(status, a, limit), Matching(status, a), limit)
  <1>. DEFINE ids == Matching(status, a)
  <1>1. Min({limit, StoreMax}) = limit
    BY LesserOf, LimitTypes
  <1>2. ListEvents(status, a, limit) = Take(NewestFirst(ids), limit)
    BY <1>1 DEF ListEvents
  <1>3. ids \in SUBSET DOMAIN events
    BY DEF Matching
  <1>. HIDE DEF ids
  <1>4. Descends(NewestFirst(ids), ids)
    BY <1>3, NewestDescends
  <1>5. IsNewestOf(Take(NewestFirst(ids), limit), ids, limit)
    BY <1>3, <1>4, EventsSeenApart, ShowsNewest
  <1>. QED
    BY <1>2, <1>5 DEF ids

\* The tool filters behind the limit, the page before it: the tool shows those
\* events of the page that fewer than limit of all were seen after.
LEMMA InspectMisses ==
  ASSUME ArcInv, NEW all, all = DOMAIN events, NEW mine \in SUBSET all, NEW limit \in Nat
  PROVE  LET list == Take(NewestFirst(all), limit)
             page == Take(NewestFirst(mine), limit)
             tool == Only(list, mine)
         IN {tool[k] : k \in DOMAIN tool} =
              {i \in {page[k] : k \in DOMAIN page} : Cardinality(SeenAfter(i)) < limit}
  <1>. DEFINE f == NewestFirst(all)
              g == NewestFirst(mine)
              list == Take(f, limit)
              page == Take(g, limit)
              tool == Only(list, mine)
              m == IF limit <= Cardinality(all) THEN limit ELSE Cardinality(all)
              p == IF limit <= Cardinality(mine) THEN limit ELSE Cardinality(mine)
              places == {k \in DOMAIN list : list[k] \in mine}
              found == InOrder(places)
              onPage == {page[k] : k \in DOMAIN page}
              onTool == {tool[k] : k \in DOMAIN tool}
  <1>1. /\ SeenApart /\ Descends(f, all) /\ Descends(g, mine)
        /\ all \in SUBSET DOMAIN events /\ mine \in SUBSET DOMAIN events
    BY EventsSeenApart, NewestDescends
  <1>2. tool = [n \in DOMAIN found |-> list[found[n]]]
    BY DEF Only, Picked
  <1>. HIDE DEF f, g
  <1>3. DOMAIN list = 1 .. m
    <2>1. IsFirst(list, f, Limited(limit, Cardinality(all)))
      BY <1>1, DescendsTaken
    <2>2. Limited(limit, Cardinality(all)) = m
      BY DEF Limited
    <2>. HIDE DEF list, m
    <2>. QED
      BY <2>1, <2>2 DEF IsFirst
  <1>4. \A k \in DOMAIN page : page[k] \in mine
    <2>1. /\ Cardinality(mine) \in Nat /\ Len(g) = Cardinality(mine)
          /\ DOMAIN g = 1 .. Cardinality(mine) /\ g = [k \in 1 .. Cardinality(mine) |-> g[k]]
          /\ \A k \in 1 .. Cardinality(mine) : g[k] \in mine
      BY <1>1 DEF Descends
    <2>2. DOMAIN page = 1 .. p /\ \A k \in 1 .. p : page[k] = g[k]
      <3>1. IsFirst(page, g, Limited(limit, Cardinality(mine)))
        BY <1>1, DescendsTaken
      <3>2. Limited(limit, Cardinality(mine)) = p
        BY DEF Limited
      <3>. HIDE DEF page, p
      <3>. QED
        BY <3>1, <3>2 DEF IsFirst
    <2>3. \A k \in 1 .. p : k \in 1 .. Cardinality(mine)
      BY <2>1
    <2>. HIDE DEF page, p
    <2>. QED
      BY <2>1, <2>2, <2>3
  <1>5. \A i \in all : (\E k \in DOMAIN list : list[k] = i)
                         <=> Cardinality({j \in all : Seen(j) > Seen(i)}) < limit
    BY <1>1, ListedWhen
  <1>6. \A i \in mine : (\E k \in DOMAIN page : page[k] = i)
                          <=> Cardinality({j \in mine : Seen(j) > Seen(i)}) < limit
    BY <1>1, ListedWhen
  <1>7. \A i \in all : SeenAfter(i) = {j \in all : Seen(j) > Seen(i)}
    BY DEF SeenAfter, Seen
  <1>8. IsFiniteSet(all)
    BY EventsFinite
  <1>. HIDE DEF list, page, tool, found, m
  <1>9. Lists(found, places)
    <2>1. 1 \in Int /\ m \in Int /\ places \in SUBSET (1 .. m)
      <3>1. Cardinality(all) \in Nat
        BY <1>8, FS_CardinalityType
      <3>. QED
        BY <1>3, <3>1 DEF m
    <2>2. IsFiniteSet(places) /\ places \subseteq Int
      <3>1. IsFiniteSet(1 .. m)
        BY <2>1, FS_Interval
      <3>. HIDE DEF places
      <3>2. IsFiniteSet(places)
        BY <2>1, <3>1, FS_Subset
      <3>3. places \subseteq Int
        BY <2>1
      <3>. QED
        BY <3>2, <3>3
    <2>. HIDE DEF places
    <2>. QED
      BY <2>2, InOrderLists DEF found
  <1>10. \A i : i \in onTool <=> i \in mine /\ \E k \in DOMAIN list : list[k] = i
    <2>1. /\ \A n \in DOMAIN found : found[n] \in places
          /\ \A k \in places : \E n \in DOMAIN found : found[n] = k
      BY <1>9 DEF Lists
    <2>. QED
      BY <1>2, <2>1
  <1>11. ASSUME NEW i \in mine
         PROVE  Cardinality({j \in mine : Seen(j) > Seen(i)})
                  <= Cardinality({j \in all : Seen(j) > Seen(i)})
    <2>. DEFINE M == {j \in mine : Seen(j) > Seen(i)}
                A == {j \in all : Seen(j) > Seen(i)}
    <2>1. M \in SUBSET A /\ A \in SUBSET all
      OBVIOUS
    <2>. HIDE DEF M, A
    <2>2. Cardinality(M) <= Cardinality(A)
      BY <1>8, <2>1, FS_Subset
    <2>. QED
      BY <2>2 DEF M, A
  <1>12. \A i \in mine : /\ Cardinality({j \in mine : Seen(j) > Seen(i)}) \in Nat
                         /\ Cardinality({j \in all : Seen(j) > Seen(i)}) \in Nat
    BY <1>8, FS_Subset, FS_CardinalityType
  <1>13. \A i \in mine : i \in onTool <=> i \in onPage /\ Cardinality(SeenAfter(i)) < limit
    <2>. TAKE i \in mine
    <2>. DEFINE x == Cardinality({j \in mine : Seen(j) > Seen(i)})
                y == Cardinality({j \in all : Seen(j) > Seen(i)})
    <2>1. i \in all /\ Cardinality(SeenAfter(i)) = y
      BY <1>7
    <2>2. i \in onPage <=> x < limit
      BY <1>6
    <2>3. i \in onTool <=> y < limit
      BY <1>5, <1>10, <2>1
    <2>4. x <= y /\ x \in Nat /\ y \in Nat
      BY <1>11, <1>12
    <2>. HIDE DEF x, y, onPage, onTool
    <2>. QED
      BY <2>1, <2>2, <2>3, <2>4
  <1>14. \A i \in onTool : i \in mine
    BY <1>10
  <1>15. \A i \in onPage : i \in mine
    BY <1>4
  <1>. HIDE DEF onTool, onPage
  <1>16. onTool = {i \in onPage : Cardinality(SeenAfter(i)) < limit}
    BY <1>13, <1>14, <1>15
  <1>. QED
    BY <1>16 DEF onTool, onPage, tool, page, list, f, g

\* The event lists of every surface.
LEMMA ListsTrue ==
  ASSUME ArcInv
  PROVE  ListsAreNewest
  <1>. USE LimitTypes
  <1>1. \A status \in EventStatuses \cup {AnyStatus}, a \in Assets \cup {Absent}, n \in 1 .. HttpMax :
          a # Garbled =>
            HttpEvents(status, a, n) =
              Ok([events |-> ListEvents(status, a, n), counts |-> EventCountsByStatus])
    <2>. TAKE status \in EventStatuses \cup {AnyStatus}, a \in Assets \cup {Absent}, n \in 1 .. HttpMax
    <2>1. BoundedInt(n, 1, HttpMax, ListDefault) = n
      <3>1. 1 \in Nat /\ HttpMax \in Nat
        OBVIOUS
      <3>. QED
        BY <3>1, BoundedKeeps
    <2>. QED
      BY <2>1, Zenon DEF HttpEvents
  <1>2. ASSUME NEW status \in EventStatuses \cup {AnyStatus}
        PROVE  /\ \A a \in Assets \cup {Absent}, n \in {1, HttpMax} :
                    IsNewestOf(HttpEvents(status, a, n).body.events, Matching(status, a), n)
               /\ IsNewestOf(McpEvents(status).body, Matching(status, Absent), ListDefault)
               /\ status \in DOMAIN EventCountsByStatus =>
                    HttpEvents(status, Absent, HttpMax + 1).body.counts[status]
                      = Cardinality(Matching(status, Absent))
    <2>1. ASSUME NEW a \in Assets \cup {Absent}, NEW n \in {1, HttpMax}
          PROVE  IsNewestOf(HttpEvents(status, a, n).body.events, Matching(status, a), n)
      <3>1. a # Garbled
        BY ParameterAssumption
      <3>2. n \in 1 .. HttpMax /\ n \in Nat /\ n <= StoreMax
        OBVIOUS
      <3>3. HttpEvents(status, a, n) =
              Ok([events |-> ListEvents(status, a, n), counts |-> EventCountsByStatus])
        BY <1>1, <3>1, <3>2
      <3>4. HttpEvents(status, a, n).body.events = ListEvents(status, a, n)
        BY <3>3 DEF Ok
      <3>5. IsNewestOf(ListEvents(status, a, n), Matching(status, a), n)
        BY <3>2, ListIsNewest
      <3>. QED
        BY <3>4, <3>5
    <2>2. McpEvents(status) = Ok(ListEvents(status, Absent, ListDefault))
      BY DEF McpEvents, Found
    <2>3. IsNewestOf(McpEvents(status).body, Matching(status, Absent), ListDefault)
      <3>1. McpEvents(status).body = ListEvents(status, Absent, ListDefault)
        BY <2>2 DEF Ok
      <3>2. IsNewestOf(ListEvents(status, Absent, ListDefault), Matching(status, Absent), ListDefault)
        BY ListIsNewest
      <3>. QED
        BY <3>1, <3>2
    <2>5. status \in DOMAIN EventCountsByStatus =>
            HttpEvents(status, Absent, HttpMax + 1).body.counts[status]
              = Cardinality(Matching(status, Absent))
      <3>1. HttpEvents(status, Absent, HttpMax + 1).body.counts = EventCountsByStatus
        BY ParameterAssumption DEF HttpEvents, Ok
      <3>. QED
        BY <3>1 DEF EventCountsByStatus
    <2>. QED
      BY <2>1, <2>3, <2>5
  <1>3. ASSUME NEW a \in Radar
        PROVE  LET page == HttpAsset(a).body.events
                   tool == McpInspect(a).body.events
               IN /\ IsNewestOf(page, Matching(AnyStatus, a), PageLimit)
                  /\ {tool[k] : k \in DOMAIN tool} =
                       {i \in {page[k] : k \in DOMAIN page} :
                          Cardinality(SeenAfter(i)) < PageLimit}
    <2>. DEFINE page == HttpAsset(a).body.events
                few == McpInspect(a).body.events
                mine == Matching(AnyStatus, a)
                all == Matching(AnyStatus, Absent)
    <2>1. a \in Assets /\ a # Garbled /\ a # Absent /\ GetAsset(a)
      BY ParameterAssumption DEF Radar, GetAsset
    <2>2. page = ListEvents(AnyStatus, a, PageLimit)
      BY <2>1 DEF HttpAsset, Found, Ok
    <2>3. few = Only(ListEvents(AnyStatus, Absent, PageLimit), mine)
      BY <2>1 DEF McpInspect, Found, Ok
    <2>4. all = DOMAIN events /\ mine \in SUBSET all
      BY DEF Matching, AnyStatus
    <2>. HIDE DEF page, few
    <2>5. IsNewestOf(page, mine, PageLimit) /\ page = Take(NewestFirst(mine), PageLimit)
      BY <2>2, ListIsNewest
    <2>6. ListEvents(AnyStatus, Absent, PageLimit) = Take(NewestFirst(all), PageLimit)
      BY ListIsNewest
    <2>. HIDE DEF mine, all
    <2>7. few = Only(Take(NewestFirst(all), PageLimit), mine)
      BY <2>3, <2>6
    <2>8. {few[k] : k \in DOMAIN few} =
            {i \in {page[k] : k \in DOMAIN page} : Cardinality(SeenAfter(i)) < PageLimit}
      BY <2>4, <2>5, <2>7, InspectMisses
    <2>. QED
      BY <2>5, <2>8 DEF page, few, mine
  <1>. QED
    BY <1>2, <1>3, Zenon DEF ListsAreNewest

-----------------------------------------------------------------------------
(***************************************************************************)
(* Questions about an event.                                               *)
(***************************************************************************)

\* There is an answer exactly when the thing asked for exists.
LEMMA FoundAnswers ==
  ASSUME NEW exists \in BOOLEAN, NEW body, NEW c, c # "ok"
  PROVE  Answered(Found(exists, body, c)) = exists
  <1>1. CASE exists
    BY <1>1 DEF Found, Answered, Ok
  <1>2. CASE ~exists
    BY <1>2 DEF Found, Answered, Fail
  <1>. QED
    BY <1>1, <1>2

\* What the store has of event i, 0 being that of no event.
ReceiptTold(i) ==
  /\ i \in Nat
  /\ GetEvent(i) <=> i # 0
  /\ ReceiptForEvent(i) \in Nat
  /\ ReceiptForEvent(i) # 0 <=> TransitionsOf(i, {"confirmed"}) # {}
  /\ ReceiptForEvent(i) # 0 => i # 0

LEMMA ReceiptsTold ==
  ASSUME ArcInv, NEW i \in DOMAIN events \cup {0}
  PROVE  ReceiptTold(i)
  <1>. DEFINE R == ReceiptsOf(i)
  <1>1. TypeOK /\ CertifiedOnce /\ RowsRefer
    BY DEF ArcInv, CertInv, Inv
  <1>2. DOMAIN events = 1 .. Len(events) /\ Len(events) \in Nat
    BY <1>1 DEF TypeOK
  <1>3. i \in Nat /\ (i \in DOMAIN events <=> i # 0)
    BY <1>2
  <1>4. IsFiniteSet(R) /\ R \subseteq Nat \ {0}
    <2>1. DOMAIN receipts = 1 .. Len(receipts) /\ Len(receipts) \in Nat
      BY <1>1 DEF TypeOK
    <2>2. 1 \in Int /\ Len(receipts) \in Int
      BY <2>1
    <2>3. IsFiniteSet(DOMAIN receipts)
      BY <2>1, <2>2, FS_Interval
    <2>4. R \in SUBSET DOMAIN receipts
      BY DEF ReceiptsOf
    <2>. QED
      BY <2>1, <2>3, <2>4, FS_Subset
  <1>5. R # {} <=> TransitionsOf(i, {"confirmed"}) # {}
    <2>1. CASE i = 0
      <3>1. 0 \notin DOMAIN events
        BY <1>3, <2>1
      <3>2. R = {}
        BY <1>1, <2>1, <3>1 DEF ReceiptsOf, RowsRefer
      <3>3. TransitionsOf(i, {"confirmed"}) = {}
        BY <1>1, <2>1, <3>1 DEF TransitionsOf, RowsRefer
      <3>. QED
        BY <3>2, <3>3
    <2>2. CASE i # 0
      <3>1. i \in DOMAIN events
        BY <1>3, <2>2
      <3>2. {receipts[k].snapshot : k \in R} =
              {transitions[t].snapshot : t \in TransitionsOf(i, {"confirmed"})}
        BY <1>1, <3>1 DEF CertifiedOnce, ReceiptsOf
      <3>. HIDE DEF R
      <3>. QED
        BY <3>2
    <2>. QED
      BY <2>1, <2>2
  <1>6. R # {} => i # 0
    <2>1. 0 \notin DOMAIN events
      BY <1>2
    <2>. QED
      BY <1>1, <2>1 DEF ReceiptsOf, RowsRefer
  <1>7. ReceiptForEvent(i) = IF R = {} THEN 0 ELSE Max(R)
    BY DEF ReceiptForEvent
  <1>. HIDE DEF R
  <1>8. R # {} => Max(R) \in Nat \ {0}
    <2>1. R \subseteq Int
      BY <1>4
    <2>. QED
      BY <1>4, <2>1, GreatestOf
  <1>9. ReceiptForEvent(i) \in Nat /\ (ReceiptForEvent(i) # 0 <=> R # {})
    BY <1>7, <1>8
  <1>. QED
    BY <1>3, <1>5, <1>6, <1>9 DEF ReceiptTold, GetEvent

\* The commands refuse without an identifier only.
LEMMA CommandFinds ==
  ASSUME NEW i \in Nat, NEW exists \in BOOLEAN, NEW body
  PROVE  CliOf(i, exists, body) = Found(exists, body, "told")
  BY ParameterAssumption DEF CliOf

LEMMA QuestionsAnswered ==
  ASSUME ArcInv
  PROVE  EventsAnswered
  <1>1. ASSUME NEW i \in DOMAIN events \cup {0}
        PROVE  /\ \A answered \in
                     {Answered(HttpEvent(i)), Answered(HttpTimeline(i)), Answered(McpEvent(i)),
                      Answered(McpTimeline(i)), Answered(CliEvent(i)),
                      Answered(CliTimeline(i))} : answered <=> i # 0
               /\ \A answered \in
                     {Answered(HttpCapsule(i)), Answered(HttpReceipt(i)),
                      Answered(HttpVerify(i)), Answered(McpCapsule(i)),
                      Answered(McpVerify(i)), Answered(CliCapsule(i)),
                      Answered(CliReceipt(i))} :
                    answered <=> TransitionsOf(i, {"confirmed"}) # {}
    <2>. DEFINE told == TransitionsOf(i, {"confirmed"}) # {}
                stored == i # 0
                r == ReceiptForEvent(i)
    <2>1. ReceiptTold(i)
      BY ReceiptsTold
    <2>2. /\ i \in Nat /\ GetEvent(i) = stored
          /\ (r # 0) = told /\ HasCapsule(i) = told
          /\ stored \in BOOLEAN /\ told \in BOOLEAN
      BY <2>1 DEF ReceiptTold, HasCapsule, GetEvent
    <2>. HIDE DEF told, stored
    <2>3. /\ HttpEvent(i) = Found(stored, EventDetail(i), "not_found")
          /\ McpEvent(i) = Found(stored, EventDetail(i), "error")
          /\ CliEvent(i) = Found(stored, EventDetail(i), "told")
      BY <2>2, CommandFinds DEF HttpEvent, McpEvent, CliEvent
    <2>4. /\ HttpTimeline(i) = Found(stored, EventTimeline(i), "not_found")
          /\ McpTimeline(i) = Found(stored, EventTimeline(i), "error")
          /\ CliTimeline(i) = Found(stored, EventTimeline(i), "told")
      BY <2>2, CommandFinds DEF HttpTimeline, McpTimeline, CliTimeline
    <2>5. /\ HttpCapsule(i) = Found(told, Capsule(i), "not_found")
          /\ McpCapsule(i) = Found(told, Capsule(i), "error")
          /\ CliCapsule(i) = Found(told, Capsule(i), "told")
      BY <2>2, CommandFinds DEF HttpCapsule, McpCapsule, CliCapsule
    <2>6. /\ HttpVerify(i) = Found(told, r, "not_found")
          /\ HttpReceipt(i) = Found(told, r, "not_found")
          /\ McpVerify(i) = Found(told, r, "error")
          /\ CliReceipt(i) = Found(told, r, "told")
      BY <2>2, CommandFinds DEF HttpVerify, HttpReceipt, McpVerify, CliReceipt
    <2>. HIDE DEF r
    <2>7. /\ Answered(HttpEvent(i)) = stored /\ Answered(HttpTimeline(i)) = stored
          /\ Answered(McpEvent(i)) = stored /\ Answered(McpTimeline(i)) = stored
          /\ Answered(CliEvent(i)) = stored /\ Answered(CliTimeline(i)) = stored
      BY <2>2, <2>3, <2>4, FoundAnswers
    <2>8. /\ Answered(HttpCapsule(i)) = told /\ Answered(HttpReceipt(i)) = told
          /\ Answered(HttpVerify(i)) = told /\ Answered(McpCapsule(i)) = told
          /\ Answered(McpVerify(i)) = told /\ Answered(CliCapsule(i)) = told
          /\ Answered(CliReceipt(i)) = told
      BY <2>2, <2>5, <2>6, FoundAnswers
    <2>. QED
      BY <2>2, <2>7, <2>8 DEF told, stored
  <1>. QED
    BY <1>1, Zenon DEF EventsAnswered

-----------------------------------------------------------------------------
(***************************************************************************)
(* The radar: the assets that were scanned, whatever the order of the sort. *)
(***************************************************************************)

\* A sequence f that shows every member of S once and nothing else.
Shows(f, n, S) ==
  /\ n \in Nat /\ DOMAIN f = 1 .. n /\ Len(f) = n
  /\ \A k \in 1 .. n : f[k] \in S
  /\ \A j, k \in 1 .. n : f[j] = f[k] => j = k
  /\ \A a \in S : \E k \in 1 .. n : f[k] = a

LEMMA SymbolsApart ==
  \A j, k \in DOMAIN BySymbol : BySymbol[j] = BySymbol[k] => j = k
  <1>. DEFINE n == Len(BySymbol)
  <1>1. /\ n \in Nat /\ DOMAIN BySymbol = 1 .. n
        /\ \A k \in 1 .. n : BySymbol[k] \in Assets
        /\ BySymbol = [k \in 1 .. n |-> BySymbol[k]]
    BY SymbolAssumption
  <1>2. \A a \in Assets : \E k \in 1 .. n : BySymbol[k] = a
    BY <1>1, SymbolAssumption
  <1>3. Cardinality(Assets) = n
    BY SymbolAssumption
  <1>. HIDE DEF n
  <1>4. BySymbol \in [1 .. n -> Assets]
    BY <1>1
  <1>5. BySymbol \in Surjection(1 .. n, Assets)
    BY <1>2, <1>4 DEF Surjection
  <1>6. IsFiniteSet(1 .. n) /\ Cardinality(1 .. n) = n
    <2>1. 1 \in Int /\ n \in Int
      BY <1>1
    <2>2. IsFiniteSet(1 .. n) /\ Cardinality(1 .. n) = IF 1 > n THEN 0 ELSE n - 1 + 1
      BY <2>1, FS_Interval
    <2>. QED
      BY <1>1, <2>2
  <1>7. BySymbol \in Injection(1 .. n, Assets)
    BY <1>3, <1>5, <1>6, FS_Surjection
  <1>. QED
    BY <1>1, <1>7 DEF Injection, IsInjective

LEMMA AssetsListed ==
  \E n \in Nat : Shows(ListAssets, n, Radar)
  <1>. DEFINE P == {k \in DOMAIN BySymbol : BySymbol[k] \in Radar}
              found == InOrder(P)
              n == Cardinality(P)
  <1>1. DOMAIN BySymbol = 1 .. Len(BySymbol) /\ Len(BySymbol) \in Nat
    BY SymbolAssumption
  <1>2. IsFiniteSet(P) /\ P \subseteq Int
    <2>1. 1 \in Int /\ Len(BySymbol) \in Int
      BY <1>1
    <2>2. IsFiniteSet(DOMAIN BySymbol)
      BY <1>1, <2>1, FS_Interval
    <2>3. P \in SUBSET DOMAIN BySymbol
      OBVIOUS
    <2>. QED
      BY <1>1, <2>2, <2>3, FS_Subset
  <1>3. \A a \in Radar : \E k \in P : BySymbol[k] = a
    BY SymbolAssumption DEF Radar
  <1>4. \A k \in P : BySymbol[k] \in Radar
    OBVIOUS
  <1>5. ListAssets = [k \in DOMAIN found |-> BySymbol[found[k]]]
    BY DEF ListAssets, AssetsBySymbol, Picked
  <1>. HIDE DEF P
  <1>6. Lists(found, P)
    BY <1>2, InOrderLists
  <1>. HIDE DEF found
  <1>7. /\ n \in Nat /\ DOMAIN found = 1 .. n
        /\ \A k \in 1 .. n : found[k] \in P
        /\ \A k \in P : \E j \in 1 .. n : found[j] = k
        /\ \A i, j \in 1 .. n : i < j => found[i] < found[j]
    BY <1>6 DEF Lists
  <1>. HIDE DEF n
  <1>8. ListAssets = [k \in 1 .. n |-> BySymbol[found[k]]]
    BY <1>5, <1>7
  <1>9. DOMAIN ListAssets = 1 .. n /\ Len(ListAssets) = n
    BY <1>7, <1>8
  <1>10. \A k \in 1 .. n : ListAssets[k] \in Radar
    BY <1>4, <1>7, <1>8
  <1>11. ASSUME NEW a \in Radar PROVE \E k \in 1 .. n : ListAssets[k] = a
    <2>1. PICK p \in P : BySymbol[p] = a
      BY <1>3
    <2>2. PICK k \in 1 .. n : found[k] = p
      BY <1>7
    <2>. QED
      BY <1>8, <2>1, <2>2
  <1>12. ASSUME NEW j \in 1 .. n, NEW k \in 1 .. n, ListAssets[j] = ListAssets[k] PROVE j = k
    <2>1. found[j] \in DOMAIN BySymbol /\ found[k] \in DOMAIN BySymbol
      BY <1>7 DEF P
    <2>2. found[j] = found[k] /\ found[j] \in Int
      BY <1>2, <1>7, <1>8, <1>12, <2>1, SymbolsApart
    <2>3. ~(j < k) /\ ~(k < j)
      BY <1>7, <2>2
    <2>. QED
      BY <2>3
  <1>. QED
    BY <1>7, <1>9, <1>10, <1>11, <1>12 DEF Shows

\* g is f, whose places are 1 .. n, moved into the order of the keys.
Moved(g, f, key, n) ==
  \E order \in [1 .. n -> 1 .. n] :
    /\ \A k \in 1 .. n : g[k] = f[order[k]]
    /\ \A j, k \in 1 .. n : j < k => key[order[j]] <= key[order[k]]

\* A sort moves the rows: it loses none, adds none and puts them in order.
LEMMA SortShows ==
  ASSUME NEW f, NEW n \in Nat, NEW S, Shows(f, n, S), NEW key,
         \A k \in 1 .. n : key[k] \in Int
  PROVE  Shows(SortedBy(f, key), n, S) /\ Moved(SortedBy(f, key), f, key, n)
  <1>. DEFINE R == {p \in (DOMAIN f) \X (DOMAIN f) : \/ key[p[1]] < key[p[2]]
                                                     \/ key[p[1]] = key[p[2]] /\ p[1] < p[2]}
              order == Ranked(DOMAIN f, R)
  <1>1. DOMAIN f = 1 .. n
    BY DEF Shows
  <1>2. \A i, j \in 1 .. n :
          /\ i \in Int /\ j \in Int /\ key[i] \in Int /\ key[j] \in Int
          /\ <<i, j>> \in R <=> key[i] < key[j] \/ (key[i] = key[j] /\ i < j)
    BY <1>1
  <1>3. SortedBy(f, key) = [k \in DOMAIN order |-> f[order[k]]]
    BY DEF SortedBy
  <1>4. order = Ranked(1 .. n, R)
    BY <1>1
  <1>. HIDE DEF R, order
  <1>5. OrdersAll(1 .. n, R)
    <2>1. \A s \in 1 .. n : <<s, s>> \notin R
      BY <1>2
    <2>2. ASSUME NEW s \in 1 .. n, NEW t \in 1 .. n, NEW u \in 1 .. n,
                 <<s, t>> \in R, <<t, u>> \in R
          PROVE  <<s, u>> \in R
      <3>1. /\ key[s] \in Int /\ key[t] \in Int /\ key[u] \in Int
            /\ s \in Int /\ t \in Int /\ u \in Int
        BY <1>2
      <3>2. /\ key[s] < key[t] \/ (key[s] = key[t] /\ s < t)
            /\ key[t] < key[u] \/ (key[t] = key[u] /\ t < u)
        BY <1>2, <2>2
      <3>3. key[s] < key[u] \/ (key[s] = key[u] /\ s < u)
        BY <3>1, <3>2
      <3>. QED
        BY <1>2, <3>3
    <2>3. ASSUME NEW s \in 1 .. n, NEW t \in 1 .. n
          PROVE  s = t \/ <<s, t>> \in R \/ <<t, s>> \in R
      <3>1. key[s] \in Int /\ key[t] \in Int /\ s \in Int /\ t \in Int
        BY <1>2
      <3>2. \/ s = t
            \/ key[s] < key[t] \/ (key[s] = key[t] /\ s < t)
            \/ key[t] < key[s] \/ (key[t] = key[s] /\ t < s)
        BY <3>1
      <3>. QED
        BY <1>2, <3>2
    <2>. QED
      BY <2>1, <2>2, <2>3 DEF OrdersAll
  <1>6. IsFiniteSet(1 .. n) /\ Cardinality(1 .. n) = n
    <2>1. 1 \in Int /\ n \in Int
      OBVIOUS
    <2>2. IsFiniteSet(1 .. n) /\ Cardinality(1 .. n) = IF 1 > n THEN 0 ELSE n - 1 + 1
      BY <2>1, FS_Interval
    <2>. QED
      BY <2>2
  <1>7. ListsBy(order, 1 .. n, R)
    BY <1>4, <1>5, <1>6, RankedLists
  <1>8. order \in [1 .. n -> 1 .. n] /\ \A s \in 1 .. n : \E i \in 1 .. n : order[i] = s
    BY <1>6, <1>7 DEF ListsBy
  <1>13. \A i, j \in 1 .. n : i < j => <<order[i], order[j]>> \in R
    BY <1>6, <1>7 DEF ListsBy
  <1>9. SortedBy(f, key) = [k \in 1 .. n |-> f[order[k]]]
    BY <1>3, <1>8
  <1>10. DOMAIN SortedBy(f, key) = 1 .. n /\ Len(SortedBy(f, key)) = n
    BY <1>9
  <1>11. \A k \in 1 .. n : SortedBy(f, key)[k] \in S
    BY <1>8, <1>9 DEF Shows
  <1>12. ASSUME NEW a \in S PROVE \E k \in 1 .. n : SortedBy(f, key)[k] = a
    <2>1. PICK p \in 1 .. n : f[p] = a
      BY DEF Shows
    <2>2. PICK k \in 1 .. n : order[k] = p
      BY <1>8
    <2>. QED
      BY <1>9, <2>1, <2>2
  <1>14. ASSUME NEW i \in 1 .. n, NEW j \in 1 .. n, i < j
         PROVE  key[order[i]] <= key[order[j]] /\ order[i] # order[j]
    <2>. DEFINE x == order[i]
                y == order[j]
    <2>1. x \in 1 .. n /\ y \in 1 .. n /\ <<x, y>> \in R
      BY <1>8, <1>13, <1>14
    <2>. HIDE DEF x, y
    <2>2. key[x] <= key[y] /\ x # y
      BY <1>2, <2>1
    <2>. QED
      BY <2>2 DEF x, y
  <1>15. ASSUME NEW j \in 1 .. n, NEW k \in 1 .. n, SortedBy(f, key)[j] = SortedBy(f, key)[k]
         PROVE  j = k
    <2>1. f[order[j]] = f[order[k]] /\ order[j] \in 1 .. n /\ order[k] \in 1 .. n
      BY <1>8, <1>9, <1>15
    <2>2. order[j] = order[k]
      BY <2>1 DEF Shows
    <2>. QED
      BY <1>14, <2>2
  <1>16. Shows(SortedBy(f, key), n, S)
    BY <1>10, <1>11, <1>12, <1>15 DEF Shows
  <1>. QED
    BY <1>8, <1>9, <1>14, <1>16 DEF Moved

LEMMA LatestScanned ==
  ASSUME TypeOK, NEW a \in Radar
  PROVE  LatestSnapshot(a).verdict \in Verdicts
  <1>. DEFINE S == SnapshotsOf(a)
              Snapshot == [rwaId : Assets, verdict : Verdicts]
  <1>1. snapshots \in Seq(Snapshot)
    BY DEF TypeOK
  <1>2. \A x \in Snapshot : x.verdict \in Verdicts
    OBVIOUS
  <1>. HIDE DEF Snapshot
  <1>3. DOMAIN snapshots = 1 .. Len(snapshots) /\ Len(snapshots) \in Nat
        /\ \A k \in DOMAIN snapshots : snapshots[k] \in Snapshot
    BY <1>1
  <1>4. IsFiniteSet(DOMAIN snapshots)
    <2>1. 1 \in Int /\ Len(snapshots) \in Int
      BY <1>3
    <2>. QED
      BY <1>3, <2>1, FS_Interval
  <1>5. S # {} /\ S \in SUBSET DOMAIN snapshots
    BY DEF Radar, SnapshotsOf
  <1>6. IsFiniteSet(S) /\ S \subseteq Int
    BY <1>3, <1>4, <1>5, FS_Subset
  <1>7. Max(S) \in DOMAIN snapshots
    <2>. HIDE DEF S
    <2>. QED
      BY <1>5, <1>6, GreatestOf
  <1>. QED
    BY <1>2, <1>3, <1>7 DEF LatestSnapshot

\* The gap of an asset on the radar, and the 0 that is shown as none.
GapFits(a) ==
  LET gap == GapOf[LatestSnapshot(a).verdict]
  IN /\ MaxGap(a) \in Int
     /\ (IF MaxGap(a) = 0 THEN Null ELSE MaxGap(a)) = (IF gap = 0 THEN Null ELSE gap)

LEMMA GapsFit ==
  ASSUME TypeOK, NEW a \in Radar
  PROVE  GapFits(a)
  <1>. DEFINE gap == GapOf[LatestSnapshot(a).verdict]
  <1>1. gap \in Nat \/ gap = Null
    BY LatestScanned, MeasuredAssumption
  <1>2. MaxGap(a) = Max({gap, 0})
    BY DEF MaxGap
  <1>3. gap \in Int
    BY <1>1 DEF Null
  <1>. HIDE DEF gap
  <1>4. CASE gap \in Nat
    <2>1. gap \in {gap, 0} /\ {gap, 0} \subseteq Int /\ \A x \in {gap, 0} : x <= gap
      BY <1>4
    <2>2. MaxGap(a) = gap
      BY <1>2, <2>1, GreatestIs
    <2>. QED
      BY <1>3, <2>2 DEF GapFits, gap
  <1>5. CASE gap = Null
    <2>1. 0 \in {gap, 0} /\ {gap, 0} \subseteq Int /\ \A x \in {gap, 0} : x <= 0
      BY <1>5 DEF Null
    <2>2. MaxGap(a) = 0
      BY <1>2, <2>1, GreatestIs
    <2>3. gap # 0
      BY <1>5 DEF Null
    <2>. QED
      BY <1>5, <2>2, <2>3 DEF GapFits, gap
  <1>. QED
    BY <1>1, <1>4, <1>5

\* rows show the assets of the radar, each once, the widest gap first.
InOrderOfGaps(rows) ==
  /\ Shows(rows, Len(rows), Radar)
  /\ \A k \in 2 .. Len(rows) : MaxGap(rows[k]) <= MaxGap(rows[k - 1])

LEMMA RadarShown ==
  ASSUME TypeOK
  PROVE  InOrderOfGaps(RadarRows)
  <1>1. PICK n \in Nat : Shows(ListAssets, n, Radar)
    BY AssetsListed
  <1>. DEFINE key == [k \in DOMAIN ListAssets |-> -MaxGap(ListAssets[k])]
              rows == SortedBy(ListAssets, key)
  <1>2. \A k \in 1 .. n : ListAssets[k] \in Radar /\ k \in DOMAIN ListAssets
    BY <1>1 DEF Shows
  <1>3. \A k \in 1 .. n : MaxGap(ListAssets[k]) \in Int
    BY <1>2, GapsFit DEF GapFits
  <1>4. \A k \in 1 .. n : key[k] \in Int /\ key[k] = -MaxGap(ListAssets[k])
    BY <1>2, <1>3
  <1>5. RadarRows = rows
    BY DEF RadarRows
  <1>. HIDE DEF key
  <1>6. /\ Shows(rows, n, Radar)
        /\ Moved(rows, ListAssets, key, n)
    <2>1. \A k \in 1 .. n : key[k] \in Int
      BY <1>4
    <2>2. n \in Nat
      OBVIOUS
    <2>. QED
      BY <1>1, <2>1, <2>2, SortShows
  <1>. HIDE DEF rows
  <1>7. Len(rows) = n
    BY <1>6 DEF Shows
  <1>8. PICK order \in [1 .. n -> 1 .. n] :
             /\ \A k \in 1 .. n : rows[k] = ListAssets[order[k]]
             /\ \A j, k \in 1 .. n : j < k => key[order[j]] <= key[order[k]]
    BY <1>6 DEF Moved
  <1>9. ASSUME NEW k \in 2 .. n PROVE MaxGap(rows[k]) <= MaxGap(rows[k - 1])
    <2>. DEFINE i == order[k - 1]
                j == order[k]
    <2>1. k \in 1 .. n /\ k - 1 \in 1 .. n /\ k - 1 < k
      OBVIOUS
    <2>2. i \in 1 .. n /\ j \in 1 .. n /\ key[i] <= key[j]
      BY <1>8, <2>1
    <2>3. rows[k - 1] = ListAssets[i] /\ rows[k] = ListAssets[j]
      BY <1>8, <2>1
    <2>. HIDE DEF i, j
    <2>4. /\ key[i] = -MaxGap(rows[k - 1]) /\ key[j] = -MaxGap(rows[k])
          /\ MaxGap(rows[k - 1]) \in Int /\ MaxGap(rows[k]) \in Int
      BY <1>3, <1>4, <2>2, <2>3
    <2>. QED
      BY <2>2, <2>4
  <1>. QED
    BY <1>5, <1>6, <1>7, <1>9 DEF InOrderOfGaps

LEMMA ScannedIsRadar ==
  ASSUME TypeOK
  PROVE  Scanned = Radar
  <1>. DEFINE Snapshot == [rwaId : Assets, verdict : Verdicts]
  <1>1. snapshots \in Seq(Snapshot)
    BY DEF TypeOK
  <1>2. \A x \in Snapshot : x.rwaId \in Assets
    OBVIOUS
  <1>. HIDE DEF Snapshot
  <1>3. \A k \in DOMAIN snapshots : snapshots[k].rwaId \in Assets
    BY <1>1, <1>2
  <1>. QED
    BY <1>3 DEF Scanned, Radar, SnapshotsOf

\* The radars of the surfaces are made of the same rows.
LEMMA RadarsRank ==
  ASSUME TypeOK, NEW radar, NEW gaps,
         radar = [k \in DOMAIN RadarRows |-> RadarRow(RadarRows[k], gaps[RadarRows[k]])]
  PROVE  /\ Ranks(radar) /\ DOMAIN radar = DOMAIN RadarRows
         /\ \A k \in DOMAIN radar :
              /\ radar[k].rwaId = RadarRows[k] /\ RadarRows[k] \in Radar
              /\ radar[k].severity = LatestSnapshot(RadarRows[k]).verdict.severity
              /\ radar[k].gap = gaps[RadarRows[k]]
  <1>. DEFINE rows == RadarRows
              n == Len(rows)
              place == [k \in 1 .. n |-> rows[k]]
  <1>1. InOrderOfGaps(rows)
    BY RadarShown
  <1>2. radar = [k \in DOMAIN rows |-> RadarRow(rows[k], gaps[rows[k]])]
    OBVIOUS
  <1>. HIDE DEF rows
  <1>3. /\ n \in Nat /\ DOMAIN rows = 1 .. n
        /\ \A k \in 1 .. n : rows[k] \in Radar
        /\ \A j, k \in 1 .. n : rows[j] = rows[k] => j = k
        /\ \A a \in Radar : \E k \in 1 .. n : rows[k] = a
        /\ \A k \in 2 .. n : MaxGap(rows[k]) <= MaxGap(rows[k - 1])
    BY <1>1 DEF InOrderOfGaps, Shows
  <1>. HIDE DEF n
  <1>4. /\ radar = [k \in 1 .. n |-> RadarRow(rows[k], gaps[rows[k]])]
        /\ DOMAIN radar = 1 .. n
    BY <1>2, <1>3
  <1>5. Len(radar) = n
    BY <1>3, <1>4
  <1>6. \A k \in 1 .. n : /\ radar[k].rwaId = rows[k]
                          /\ radar[k].severity = LatestSnapshot(rows[k]).verdict.severity
                          /\ radar[k].gap = gaps[rows[k]]
    BY <1>4 DEF RadarRow
  <1>7. place \in Bijection(1 .. n, Radar)
    <2>1. place \in [1 .. n -> Radar]
      BY <1>3
    <2>2. \A j, k \in 1 .. n : place[j] = place[k] => j = k
      BY <1>3
    <2>3. \A a \in Radar : \E k \in 1 .. n : place[k] = a
      BY <1>3
    <2>. QED
      BY <2>1, <2>2, <2>3 DEF Bijection, Injection, Surjection, IsInjective
  <1>8. IsFiniteSet(1 .. n) /\ Cardinality(1 .. n) = n
    <2>1. 1 \in Int /\ n \in Int
      BY <1>3
    <2>2. IsFiniteSet(1 .. n) /\ Cardinality(1 .. n) = IF 1 > n THEN 0 ELSE n - 1 + 1
      BY <2>1, FS_Interval
    <2>. QED
      BY <1>3, <2>2
  <1>. HIDE DEF place
  <1>9. Cardinality(Radar) = n
    BY <1>7, <1>8, FS_Bijection DEF ExistsBijection
  <1>10. {radar[k].rwaId : k \in DOMAIN radar} = Radar
    BY <1>3, <1>4, <1>6
  <1>11. \A k \in 2 .. Len(radar) : MaxGap(radar[k].rwaId) <= MaxGap(radar[k - 1].rwaId)
    <2>. SUFFICES ASSUME NEW k \in 2 .. n
                  PROVE  MaxGap(radar[k].rwaId) <= MaxGap(radar[k - 1].rwaId)
      BY <1>5
    <2>1. k \in 1 .. n /\ k - 1 \in 1 .. n
      BY <1>3
    <2>. QED
      BY <1>3, <1>6, <2>1
  <1>12. Ranks(radar)
    BY <1>5, <1>9, <1>10, <1>11, ScannedIsRadar DEF Ranks
  <1>. QED
    BY <1>3, <1>4, <1>6, <1>12 DEF rows

\* The page of an asset begins with the event that is open, if one is.
LEMMA PageBegins ==
  ASSUME ArcInv, RunInv, NEW a \in Radar
  PROVE  LET page     == HttpAsset(a).body.events
             severity == LatestSnapshot(a).verdict.severity
         IN /\ severity # "none" <=> page # <<>> /\ IsOpen(events[page[1]])
            /\ severity # "none" => events[page[1]].severity = severity
  <1>. DEFINE page == HttpAsset(a).body.events
              severity == LatestSnapshot(a).verdict.severity
              mine == Matching(AnyStatus, a)
              f == NewestFirst(mine)
              n == Cardinality(mine)
              m == IF PageLimit <= n THEN PageLimit ELSE n
  <1>1. a \in Assets /\ a # Garbled /\ a # Absent /\ GetAsset(a)
    BY ParameterAssumption DEF Radar, GetAsset
  <1>2. page = ListEvents(AnyStatus, a, PageLimit)
    BY <1>1 DEF HttpAsset, Found, Ok
  <1>3. PageLimit \in Nat /\ PageLimit >= 1 /\ PageLimit <= StoreMax
    BY LimitTypes
  <1>. HIDE DEF page
  <1>4. page = Take(f, PageLimit)
    BY <1>2, <1>3, ListIsNewest
  <1>5. mine \in SUBSET DOMAIN events /\ \A i \in DOMAIN events : i \in mine <=> events[i].rwaId = a
    BY <1>1 DEF Matching, AnyStatus
  <1>. HIDE DEF mine
  <1>6. SeenApart /\ Descends(f, mine)
    BY <1>5, EventsSeenApart, NewestDescends
  <1>. HIDE DEF f
  <1>7. /\ n \in Nat /\ Len(f) = n /\ DOMAIN f = 1 .. n /\ f = [k \in 1 .. n |-> f[k]]
        /\ \A k \in 1 .. n : f[k] \in mine
        /\ \A i \in mine : \E k \in 1 .. n : f[k] = i
        /\ \A j, k \in 1 .. n : j < k => Seen(f[j]) > Seen(f[k])
    BY <1>6 DEF Descends
  <1>. HIDE DEF n
  <1>8. /\ DOMAIN page = 1 .. m /\ page = [k \in 1 .. m |-> f[k]]
        /\ \A k \in 1 .. m : page[k] = f[k]
    <2>1. HasItems(f, n)
      BY <1>7 DEF HasItems
    <2>2. IsFirst(Take(f, PageLimit), f, Limited(PageLimit, n))
      BY <1>3, <1>7, <2>1, TakeIs
    <2>3. Limited(PageLimit, n) = m
      BY DEF Limited
    <2>. HIDE DEF m
    <2>4. IsFirst(page, f, m)
      BY <1>4, <2>2, <2>3
    <2>. QED
      BY <2>4 DEF IsFirst
  <1>9. n # 0 => 1 \in 1 .. n /\ page # <<>> /\ page[1] = f[1]
    <2>. SUFFICES ASSUME n # 0 PROVE 1 \in 1 .. n /\ page # <<>> /\ page[1] = f[1]
      OBVIOUS
    <2>1. 1 \in 1 .. n /\ 1 \in 1 .. m
      BY <1>3, <1>7
    <2>2. DOMAIN page # {}
      BY <1>8, <2>1
    <2>. QED
      BY <1>8, <2>1, <2>2
  <1>10. n = 0 => page = <<>>
    BY <1>3, <1>8
  <1>11. ASSUME severity # "none"
         PROVE  /\ page # <<>> /\ IsOpen(events[page[1]])
                /\ events[page[1]].severity = severity
    <2>1. Anomalous(LatestSnapshot(a).verdict)
      BY <1>11 DEF Anomalous
    <2>2. PICK i \in OpenEvents : events[i].rwaId = a
      BY <2>1, LatestIsOpen
    <2>3. i \in mine /\ IsOpen(events[i])
      BY <1>5, <2>2 DEF OpenEvents
    <2>4. Seen(i) = Max(SnapshotsOf(a)) /\ events[i].severity = severity
      BY <2>2, OpenIsLatest DEF Seen
    <2>5. TypeOK /\ SnapshotsOf(a) # {}
      BY DEF ArcInv, CertInv, Inv, Radar
    <2>6. \A k \in SnapshotsOf(a) : k <= Max(SnapshotsOf(a))
      BY <2>5, LatestExists
    <2>7. ASSUME NEW j \in mine PROVE Seen(j) <= Seen(i)
      <3>1. j \in DOMAIN events /\ events[j].rwaId = a
        BY <1>5, <2>7
      <3>2. Arced(j, events[j], ArcOf(snapshots, events[j]))
        BY <3>1, EventArced
      <3>3. Seen(j) \in SnapshotsOf(a)
        BY <3>1, <3>2 DEF Arced, ArcOf, SnapshotsOf, Seen
      <3>. QED
        BY <2>4, <2>6, <3>3
    <2>8. PICK k \in 1 .. n : f[k] = i
      BY <1>7, <2>3
    <2>9. n # 0 /\ 1 \in 1 .. n
      BY <1>7
    <2>10. k = 1
      <3>1. f[1] \in mine /\ Seen(f[1]) \in Int /\ Seen(i) \in Int
        BY <1>5, <1>6, <1>7, <2>3, <2>9 DEF SeenApart
      <3>2. Seen(f[1]) <= Seen(i)
        BY <2>7, <3>1
      <3>3. ~(1 < k)
        BY <1>7, <2>8, <2>9, <3>1, <3>2
      <3>. QED
        BY <3>3
    <2>11. page # <<>> /\ page[1] = i
      BY <1>9, <2>8, <2>9, <2>10
    <2>. QED
      BY <2>3, <2>4, <2>11
  <1>12. ASSUME page # <<>>, IsOpen(events[page[1]]) PROVE severity # "none"
    <2>1. n # 0
      BY <1>10, <1>12
    <2>2. page[1] \in mine
      BY <1>7, <1>9, <2>1
    <2>3. page[1] \in OpenEvents /\ events[page[1]].rwaId = a
      BY <1>5, <1>12, <2>2 DEF OpenEvents
    <2>4. Anomalous(LatestSnapshot(a).verdict)
      BY <2>3, OpenIsLatest
    <2>. QED
      BY <2>4 DEF Anomalous
  <1>. HIDE DEF severity
  <1>. QED
    BY <1>11, <1>12 DEF page, severity

\* The newest scan heads the list of scans.
LEMMA NewestScanFirst ==
  ASSUME TypeOK, snapshots # <<>>
  PROVE  HttpScans.scans[1] = HttpOverview.latestScan
  <1>. DEFINE n == Len(snapshots)
              ids == [k \in DOMAIN snapshots |-> k]
  <1>1. DOMAIN snapshots = 1 .. n /\ n \in Nat /\ n # 0
    BY DEF TypeOK
  <1>2. Len(ids) = n
    BY <1>1
  <1>3. Reverse(ids) = [k \in 1 .. n |-> n - k + 1]
    <2>1. Reverse(ids) = [k \in 1 .. Len(ids) |-> ids[Len(ids) - k + 1]]
      BY DEF Reverse
    <2>2. \A k \in 1 .. n : ids[n - k + 1] = n - k + 1
      BY <1>1
    <2>. HIDE DEF ids
    <2>. QED
      BY <1>2, <2>1, <2>2
  <1>. DEFINE f == Reverse(ids)
  <1>4. HttpScans.scans = Take(f, ScanLimit)
    BY DEF HttpScans, ListScans
  <1>5. HttpOverview.latestScan = n
    BY DEF HttpOverview, LatestScan
  <1>. HIDE DEF ids, n
  <1>6. /\ Len(f) = n /\ DOMAIN f = 1 .. n /\ f = [k \in 1 .. n |-> f[k]] /\ f[1] = n
    BY <1>1, <1>3
  <1>7. ScanLimit \in Nat /\ ScanLimit >= 1
    BY LimitTypes
  <1>. HIDE DEF f
  <1>. DEFINE m == IF ScanLimit <= n THEN ScanLimit ELSE n
  <1>8. \A k \in 1 .. m : Take(f, ScanLimit)[k] = f[k]
    <2>1. HasItems(f, n)
      BY <1>6 DEF HasItems
    <2>2. IsFirst(Take(f, ScanLimit), f, Limited(ScanLimit, n))
      BY <1>1, <1>7, <2>1, TakeIs
    <2>3. Limited(ScanLimit, n) = m
      BY DEF Limited
    <2>. HIDE DEF m
    <2>. QED
      BY <2>2, <2>3 DEF IsFirst
  <1>9. 1 \in 1 .. m
    BY <1>1, <1>7
  <1>10. Take(f, ScanLimit)[1] = f[1]
    BY <1>8, <1>9
  <1>. QED
    BY <1>4, <1>5, <1>6, <1>10

\* What is asked about one asset has an answer when it was scanned, and a
\* quote that makes no sense has none.
AssetAnswered(a, w) ==
  /\ \A answered \in
       {Answered(HttpAsset(a)), Answered(McpInspect(a)), Answered(CliInspect(a)),
        Answered(HttpWorkbench(a)), Answered(HttpCompare(a, 1, 1)),
        Answered(McpWorkbench(a, Absent)), Answered(CliWorkbench(a, 1)),
        Answered(HttpHistory(a, w, Absent)), Answered(McpHistory(a, w, PointsMin)),
        Answered(CliHistory(a, w))} :
       answered <=> a \in Scanned
  /\ ~Answered(HttpCompare(a, 1, Garbled))
  /\ ~Answered(McpWorkbench(a, Garbled)) /\ ~Answered(CliWorkbench(a, Garbled))

LEMMA AssetQuestionsAnswered ==
  ASSUME TypeOK, NEW a \in Assets, NEW w \in Windows
  PROVE  AssetAnswered(a, w)
  <1>. DEFINE known == a \in Scanned
  <1>1. a # Garbled /\ a # Absent /\ w # Absent /\ w \in Windows
    BY ParameterAssumption, WindowAssumption
  <1>2. GetAsset(a) = known /\ known \in BOOLEAN
    BY ScannedIsRadar DEF GetAsset
  <1>3. /\ 1 # Garbled /\ 1 # Absent /\ Absent # Garbled /\ ~(1 > MaxBody)
        /\ PointsMin # Absent /\ PointsMin \in PointsMin .. MaxPoints
    BY ParameterAssumption, LimitTypes
  <1>. HIDE DEF known
  <1>4. /\ Answered(HttpAsset(a)) = known /\ Answered(McpInspect(a)) = known
        /\ Answered(HttpWorkbench(a)) = known /\ Answered(CliInspect(a)) = known
    BY <1>1, <1>2, FoundAnswers DEF HttpAsset, McpInspect, HttpWorkbench, CliInspect
  <1>5. /\ Answered(McpWorkbench(a, Absent)) = known
        /\ Answered(CliWorkbench(a, 1)) = known
    <2>1. McpWorkbench(a, Absent) = Found(known, WorkbenchOf(a, Absent), "error")
      BY <1>2, <1>3 DEF McpWorkbench
    <2>2. CliWorkbench(a, 1) = Found(known, WorkbenchOf(a, 1), "exit")
      BY <1>2, <1>3 DEF CliWorkbench
    <2>. QED
      BY <1>2, <2>1, <2>2, FoundAnswers
  <1>6. Answered(HttpCompare(a, 1, 1)) = known
    <2>1. ReadJsonBody(1, 1) = Ok(1)
      BY <1>3 DEF ReadJsonBody, Found
    <2>2. HttpCompare(a, 1, 1) = Found(known, WorkbenchOf(a, 1), "not_found")
      BY <1>1, <1>2, <1>3, <2>1 DEF HttpCompare, Answered, Ok
    <2>. QED
      BY <1>2, <2>2, FoundAnswers
  <1>7. /\ Answered(HttpHistory(a, w, Absent)) = known
        /\ Answered(McpHistory(a, w, PointsMin)) = known
        /\ Answered(CliHistory(a, w)) = known
    <2>1. CASE known
      BY <1>1, <1>2, <1>3, <2>1 DEF HttpHistory, McpHistory, CliHistory, Found, Answered, Ok
    <2>2. CASE ~known
      BY <1>1, <1>2, <1>3, <2>2 DEF HttpHistory, McpHistory, CliHistory, Found, Answered, Fail
    <2>. QED
      BY <1>2, <2>1, <2>2
  <1>8. ~Answered(HttpCompare(a, 1, Garbled))
    <2>1. ReadJsonBody(1, Garbled) = Fail("bad_json")
      BY <1>3 DEF ReadJsonBody, Found
    <2>. QED
      BY <1>1, <2>1 DEF HttpCompare, Answered, Fail
  <1>9. ~Answered(McpWorkbench(a, Garbled)) /\ ~Answered(CliWorkbench(a, Garbled))
    BY DEF McpWorkbench, CliWorkbench, Found, Answered, Fail
  <1>10. known <=> a \in Scanned
    BY DEF known
  <1>. QED
    BY <1>4, <1>5, <1>6, <1>7, <1>8, <1>9, <1>10 DEF AssetAnswered

LEMMA AssetsTold ==
  ASSUME ArcInv, RunInv
  PROVE  AssetsAnswered
  <1>. DEFINE rows == RadarRows
              shown == [a \in Radar |-> GapOf[LatestSnapshot(a).verdict]]
              told == [a \in Radar |-> IF MaxGap(a) = 0 THEN Null ELSE MaxGap(a)]
  <1>1. TypeOK
    BY DEF ArcInv, CertInv, Inv
  <1>2. \A k \in DOMAIN rows : rows[k] \in Radar
    BY <1>1, RadarShown DEF InOrderOfGaps, Shows
  <1>3. HttpRadar = [k \in DOMAIN rows |-> RadarRow(rows[k], GapOf[LatestSnapshot(rows[k]).verdict])]
    BY Zenon DEF HttpRadar
  <1>4. CliRadar = [k \in DOMAIN rows |-> RadarRow(rows[k], GapOf[LatestSnapshot(rows[k]).verdict])]
    BY Zenon DEF CliRadar
  <1>5. McpRadar = [k \in DOMAIN rows |->
                      RadarRow(rows[k], IF MaxGap(rows[k]) = 0 THEN Null ELSE MaxGap(rows[k]))]
    BY Zenon DEF McpRadar
  <1>. HIDE DEF rows
  <1>6. /\ HttpRadar = [k \in DOMAIN rows |-> RadarRow(rows[k], shown[rows[k]])]
        /\ CliRadar = [k \in DOMAIN rows |-> RadarRow(rows[k], shown[rows[k]])]
        /\ McpRadar = [k \in DOMAIN rows |-> RadarRow(rows[k], told[rows[k]])]
    BY <1>2, <1>3, <1>4, <1>5
  <1>7. /\ \A a \in Radar : shown[a] = GapOf[LatestSnapshot(a).verdict]
        /\ \A a \in Radar : told[a] = IF MaxGap(a) = 0 THEN Null ELSE MaxGap(a)
    OBVIOUS
  <1>. HIDE DEF shown, told
  <1>8. /\ Ranks(HttpRadar) /\ DOMAIN HttpRadar = DOMAIN rows
        /\ \A k \in DOMAIN HttpRadar :
             /\ HttpRadar[k].rwaId = rows[k] /\ rows[k] \in Radar
             /\ HttpRadar[k].severity = LatestSnapshot(rows[k]).verdict.severity
             /\ HttpRadar[k].gap = shown[rows[k]]
    BY <1>1, <1>6, RadarsRank DEF rows
  <1>9. /\ Ranks(McpRadar) /\ DOMAIN McpRadar = DOMAIN rows
        /\ \A k \in DOMAIN McpRadar : McpRadar[k].gap = told[rows[k]]
    BY <1>1, <1>6, RadarsRank DEF rows
  <1>10. Ranks(CliRadar)
    BY <1>1, <1>6, RadarsRank DEF rows
  <1>11. ASSUME NEW k \in DOMAIN HttpRadar
         PROVE  LET row  == HttpRadar[k]
                    page == HttpAsset(row.rwaId).body.events
                IN /\ McpRadar[k].gap = IF row.gap = 0 THEN Null ELSE row.gap
                   /\ row.severity # "none" <=> page # <<>> /\ IsOpen(events[page[1]])
                   /\ row.severity # "none" => events[page[1]].severity = row.severity
    <2>. DEFINE a == rows[k]
    <2>1. /\ a \in Radar /\ HttpRadar[k].rwaId = a /\ k \in DOMAIN McpRadar
          /\ HttpRadar[k].severity = LatestSnapshot(a).verdict.severity
          /\ HttpRadar[k].gap = shown[a]
      BY <1>8, <1>9, <1>11
    <2>2. McpRadar[k].gap = told[a]
      BY <1>9, <2>1
    <2>. HIDE DEF a
    <2>3. GapFits(a)
      BY <1>1, <2>1, GapsFit
    <2>4. McpRadar[k].gap = IF HttpRadar[k].gap = 0 THEN Null ELSE HttpRadar[k].gap
      BY <1>7, <2>1, <2>2, <2>3 DEF GapFits
    <2>. DEFINE page == HttpAsset(a).body.events
    <2>5. /\ HttpRadar[k].severity # "none" <=> page # <<>> /\ IsOpen(events[page[1]])
          /\ HttpRadar[k].severity # "none" => events[page[1]].severity = HttpRadar[k].severity
      <3>1. HttpRadar[k].severity = LatestSnapshot(a).verdict.severity
        BY <2>1
      <3>. QED
        BY <2>1, <3>1, PageBegins
    <2>6. HttpAsset(HttpRadar[k].rwaId) = HttpAsset(a)
      BY <2>1
    <2>. QED
      BY <2>4, <2>5, <2>6
  <1>12. \A a \in Assets, w \in Windows : AssetAnswered(a, w)
    BY <1>1, AssetQuestionsAnswered
  <1>13. snapshots # <<>> => HttpScans.scans[1] = HttpOverview.latestScan
    BY <1>1, NewestScanFirst
  <1>. QED
    BY <1>8, <1>9, <1>10, <1>11, <1>12, <1>13, Zenon DEF AssetsAnswered, AssetAnswered

\* Whatever was scanned, what the web, the tools and the commands show of it
\* is what follows from the scans, in which order and up to which limit, and
\* the places where they differ are the ones stated.
THEOREM SurfacesTellAlike == Spec => []SurfacesAgree
  <1>1. ArcInv /\ RunInv => SurfacesAgree
    BY ListsTrue, QuestionsAnswered, AssetsTold DEF SurfacesAgree
  <1>. QED
    BY <1>1, SpecArcInv, SpecRunInv, PTL
=============================================================================

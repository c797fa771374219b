------------------------------- MODULE Alerts -------------------------------
(***************************************************************************)
(* AlertDispatcher of packages/runtime/src/alerts.ts, driven by the events *)
(* of one asset the way processEntry of runtime.ts drives it.              *)
(*                                                                         *)
(* notify() runs up to its first await inside the scan: floor and          *)
(* deduplication are decided there.  What follows is a job of its own that *)
(* posts to one destination after the other and logs each outcome.  A scan *)
(* waits for its own jobs only before it returns, so the jobs of one scan  *)
(* run beside the next scan whenever scans overlap.                        *)
(*                                                                         *)
(* What a destination took and what alert_log says of it are two things: a *)
(* POST may be taken and its answer lost, or its row never written.  Three *)
(* history variables tell them apart and guard no step: crossed, taken and *)
(* the field "beside" of a job.                                            *)
(***************************************************************************)
EXTENDS LifecycleRules, Sequences, FiniteSets

CONSTANTS
  Dests,        \* configured destinations, in order (at most three kinds)
  MinSeverity,  \* the severity floor (config alerts.minSeverity)
  Verdicts,     \* outcomes an evaluation of the asset may have
  MaxScans,     \* bound: scans of the asset
  MaxFaults     \* bound: store exceptions and crashes

ASSUME DestsAssumption == Dests \in Seq(STRING)
ASSUME FloorAssumption == MinSeverity \in Severities
ASSUME VerdictsAssumption == \A v \in Verdicts : WellFormed(v)
ASSUME BoundsAssumption == MaxScans \in Nat /\ MaxFaults \in Nat

MaxAttempts == 2   \* one retry

VARIABLES
  scans,    \* scans of the asset so far; also the clock
  event,    \* the asset's latest event
  eventNo,  \* its number
  crossed,  \* history: events brought up to the floor by a scan whose store
            \* operations for them all succeeded
  jobs,     \* notifications started, in order
  log,      \* alert_log: rows [job, dest, status]
  taken,    \* history: [job, dest] of the POSTs a destination took
  faults

vars == <<scans, event, eventNo, crossed, jobs, log, taken, faults>>

-----------------------------------------------------------------------------
AtFloor(severity) == SevRank[severity] >= SevRank[MinSeverity]

Pending(j) == jobs[j].state \in {"sending", "waiting"}

Key(j) == <<jobs[j].eventId, jobs[j].transition, jobs[j].severity>>

\* Mutants of AlertSent: nothing is ever found, or any alert of the event is.
AlertSentNever(key) == FALSE

AlertSentForEvent(key) == \E r \in log : Key(r.job)[1] = key[1]

\* alertSent: any destination's success counts for all of them.
AlertSent(key) == \E r \in log : r.status = "sent" /\ Key(r.job) = key

\* Mutant of AlertTransition: a rise in severity is an update like another.
AlertTransitionNoRise(transition, previous, severity) ==
  IF transition # "updated" THEN transition ELSE "none"

\* Which alert a lifecycle transition stands for; "none" is null.
AlertTransition(transition, previous, severity) ==
  IF transition # "updated" THEN transition
  ELSE IF SevRank[severity] > SevRank[previous]
       THEN "severity_escalated" ELSE "none"

\* notify() up to its first await.  A job remembers which others were on
\* their way when it was started.
Notify(transition, id, severity) ==
  IF \/ transition = "none" \/ Dests = <<>>
     \/ ~AtFloor(severity)
     \/ AlertSent(<<id, transition, severity>>)
  THEN UNCHANGED jobs
  ELSE jobs' = Append(jobs, [eventId |-> id, transition |-> transition,
                             severity |-> severity, dest |-> 1,
                             attempt |-> 1, state |-> "sending",
                             beside |-> {j \in DOMAIN jobs : Pending(j)}])

-----------------------------------------------------------------------------
Init ==
  /\ scans = 0 /\ event = NoEvent /\ eventNo = 0 /\ crossed = {}
  /\ jobs = <<>> /\ log = {} /\ taken = {} /\ faults = 0

\* What applyScanToEvent makes of the asset's open event, and its effect.
Existing == IF IsOpen(event) THEN event ELSE NoEvent

ScanResult(v) == ApplyScanToEvent(Existing, "asset", v, scans + 1, scans + 1)

ResultNo(v) == IF ScanResult(v).event # NoEvent /\ ~IsOpen(event)
               THEN eventNo + 1 ELSE eventNo

StoreResult(v) ==
  /\ scans < MaxScans
  /\ scans' = scans + 1
  /\ IF ScanResult(v).transition = "none" THEN UNCHANGED <<event, eventNo>>
     ELSE event' = ScanResult(v).event /\ eventNo' = ResultNo(v)

\* One scan of the asset: the event is stored and its alert handed over.
Scan(v) ==
  LET result == ScanResult(v)
      previous == IF IsOpen(event) THEN event.severity ELSE "none"
  IN
  /\ StoreResult(v)
  /\ \/ /\ result.transition = "none"
        /\ UNCHANGED <<jobs, crossed>>
     \/ /\ result.transition # "none"
        /\ Notify(AlertTransition(result.transition, previous, result.event.severity),
                  ResultNo(v), result.event.severity)
        /\ crossed' = IF AtFloor(result.event.severity) /\ ~AtFloor(previous)
                      THEN crossed \cup {ResultNo(v)} ELSE crossed
  /\ UNCHANGED <<log, taken, faults>>

\* The event is stored and its alert is lost: the transition row cannot be
\* written or the process dies, which cuts the scan short; or alertSent
\* throws inside notify(), whose rejection Promise.allSettled swallows while
\* the scan goes on and completes.
AlertLost(v) ==
  /\ faults < MaxFaults
  /\ StoreResult(v)
  /\ faults' = faults + 1
  /\ UNCHANGED <<crossed, jobs, log, taken>>

-----------------------------------------------------------------------------
\* Mutant of AfterOutcome: the first success ends the job.
AfterFirstSuccess(job, status) ==
  IF job.dest < Len(Dests) /\ status # "sent"
  THEN [job EXCEPT !.dest = @ + 1, !.attempt = 1, !.state = "sending"]
  ELSE [job EXCEPT !.state = "done"]

\* The next destination, or the end of the job.
AfterOutcome(job, status) ==
  IF job.dest < Len(Dests)
  THEN [job EXCEPT !.dest = @ + 1, !.attempt = 1, !.state = "sending"]
  ELSE [job EXCEPT !.state = "done"]

\* recordAlert, and on with the loop.
Record(j, status) ==
  /\ log' = log \cup {[job |-> j, dest |-> jobs[j].dest, status |-> status]}
  /\ jobs' = [jobs EXCEPT ![j] = AfterOutcome(jobs[j], status)]
  /\ UNCHANGED <<scans, event, eventNo, crossed, faults>>

\* The destination job j is at has taken its POST.
Takes(j) == taken' = taken \cup {[job |-> j, dest |-> jobs[j].dest]}

MayTake(j) == Takes(j) \/ UNCHANGED taken

\* The destination answers 2xx.
Accepted(j) == jobs[j].state = "sending" /\ Takes(j) /\ Record(j, "sent")

\* It answers with another status below 500 except 429: no retry.
Refused(j) == jobs[j].state = "sending" /\ UNCHANGED taken /\ Record(j, "failed")

LastAttempt(job) == job.attempt = MaxAttempts

\* 429, 5xx, a network error or the 8 s timeout, before the destination took
\* the POST or after: retried once.
Unanswered(j) ==
  /\ jobs[j].state = "sending"
  /\ MayTake(j)
  /\ IF LastAttempt(jobs[j]) THEN Record(j, "failed")
     ELSE /\ jobs' = [jobs EXCEPT ![j].state = "waiting"]
          /\ UNCHANGED <<scans, event, eventNo, crossed, log, faults>>

\* Mutant of Retry: the attempts are not counted.
RetryUncounted(j) ==
  /\ jobs[j].state = "waiting"
  /\ jobs' = [jobs EXCEPT ![j].state = "sending"]
  /\ UNCHANGED <<scans, event, eventNo, crossed, log, taken, faults>>

\* The back-off timer fires.
Retry(j) ==
  /\ jobs[j].state = "waiting"
  /\ jobs' = [jobs EXCEPT ![j].state = "sending", ![j].attempt = @ + 1]
  /\ UNCHANGED <<scans, event, eventNo, crossed, log, taken, faults>>

\* recordAlert throws, whatever the destination did: notify() rejects, which
\* the scan ignores, and the destinations after this one are never tried.
RecordThrows(j) ==
  /\ faults < MaxFaults /\ jobs[j].state = "sending"
  /\ faults' = faults + 1
  /\ MayTake(j)
  /\ jobs' = [jobs EXCEPT ![j].state = "lost"]
  /\ UNCHANGED <<scans, event, eventNo, crossed, log>>

\* The process dies: jobs are in memory only and nothing resumes them.  The
\* requests on their way are taken or not.
Crash ==
  /\ faults < MaxFaults
  /\ \E j \in DOMAIN jobs : Pending(j)
  /\ faults' = faults + 1
  /\ \E js \in SUBSET {j \in DOMAIN jobs : jobs[j].state = "sending"} :
       taken' = taken \cup {[job |-> j, dest |-> jobs[j].dest] : j \in js}
  /\ jobs' = [j \in DOMAIN jobs |->
                IF Pending(j) THEN [jobs[j] EXCEPT !.state = "lost"] ELSE jobs[j]]
  /\ UNCHANGED <<scans, event, eventNo, crossed, log>>

JobStep(j) == Accepted(j) \/ Refused(j) \/ Unanswered(j) \/ Retry(j)

Next ==
  \/ \E v \in Verdicts : Scan(v) \/ AlertLost(v)
  \/ \E j \in DOMAIN jobs : JobStep(j) \/ RecordThrows(j)
  \/ Crash

Spec == Init /\ [][Next]_vars

\* A request settles within its timeout, a back-off timer fires, and the
\* event loop runs the continuation.
FairSpec == Spec /\ \A j \in 1 .. MaxScans : WF_vars(j \in DOMAIN jobs /\ JobStep(j))

-----------------------------------------------------------------------------
\* "every outcome logged to alert_log": a job that came to its end left one
\* row per destination, and no job ever leaves two for the same one.
EveryOutcomeLogged ==
  \A j \in DOMAIN jobs :
    /\ \A r, q \in log : r.job = j /\ q.job = j /\ r.dest = q.dest => r = q
    /\ jobs[j].state = "done" => {r.dest : r \in {q \in log : q.job = j}} = DOMAIN Dests

\* Jobs at least one of whose POSTs is on record as accepted.
Reported == {r.job : r \in {q \in log : q.status = "sent"}}

\* "one deduplicated notification per (event, transition, severity)", as far
\* as the code has it: a destination takes the notifications of two jobs
\* with one key only when the second was decided while the first was still
\* on its way, or when no success of the first was ever recorded (its row
\* could not be written, its process died, or its answers came too late).
OneNotificationPerKey ==
  \A p, q \in taken :
    /\ p.job < q.job /\ p.dest = q.dest /\ Key(p.job) = Key(q.job)
    => p.job \in jobs[q.job].beside \/ p.job \notin Reported

\* An event brought up to the floor by a scan whose store operations for it
\* succeeded was notified: being created, being confirmed and escalating
\* cover every way to get there, and deduplication never swallows the first.
\* (One whose scan was cut short there, or whose alertSent threw, need not
\* be: nothing makes up for a lost alert.)
CrossingNotified ==
  \A id \in crossed : Dests # <<>> => \E j \in DOMAIN jobs : jobs[j].eventId = id

\* "escalations re-alert, repeats don't" (README): a scan that raises an
\* open event's severity to a level at the floor, and is not cut short,
\* starts a notification, unless one for that level was accepted before.
EscalationNeverSilent ==
  [][(/\ faults' = faults /\ IsOpen(event) /\ IsOpen(event') /\ eventNo' = eventNo
      /\ SevRank[event'.severity] > SevRank[event.severity]
      /\ AtFloor(event'.severity) /\ Dests # <<>>)
     => \/ Len(jobs') = Len(jobs) + 1
        \/ \E r \in log : /\ r.status = "sent"
                          /\ jobs[r.job].eventId = eventNo
                          /\ jobs[r.job].severity = event'.severity]_vars

\* "resolutions are still reported for events that once crossed it" (the
\* header of alerts.ts; it is the severity floor).
ResolutionReported ==
  (eventNo \in crossed /\ event.status \in ClosedStatuses /\ Dests # <<>>) =>
    \E j \in DOMAIN jobs : /\ jobs[j].eventId = eventNo
                           /\ jobs[j].transition \in ClosedStatuses

\* Every notification comes to an end, so the scan that awaits it returns.
EveryJobSettles == \A j \in 1 .. MaxScans :
  (j \in DOMAIN jobs) ~> (j \in DOMAIN jobs /\ jobs[j].state \in {"done", "lost"})
=============================================================================

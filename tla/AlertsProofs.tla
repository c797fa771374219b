----------------------------- MODULE AlertsProofs -----------------------------
(***************************************************************************)
(* Theorems about the alert dispatcher, for every list of destinations,    *)
(* every floor, every set of well-formed verdicts, every number of scans,  *)
(* faults and crashes, and however scans and deliveries overlap.           *)
(***************************************************************************)
EXTENDS Alerts, LifecycleRulesProofs

-----------------------------------------------------------------------------
(***************************************************************************)
(* The inductive invariant.                                                *)
(***************************************************************************)
JobStates == {"sending", "waiting", "done", "lost"}

AlertNames == Transitions \cup {"severity_escalated"}

Job == [eventId : Nat, transition : AlertNames, severity : Severities,
        dest : DOMAIN Dests, attempt : Nat, state : JobStates, beside : SUBSET Nat]

EventOrNone == {NoEvent} \cup EventRow({"asset"}, Nat)

TypeOK ==
  /\ scans \in Nat /\ eventNo \in Nat /\ faults \in Nat
  /\ event \in EventOrNone
  /\ crossed \subseteq Nat
  /\ jobs \in Seq(Job)
  /\ log \subseteq [job : DOMAIN jobs, dest : DOMAIN Dests, status : {"sent", "failed"}]
  /\ taken \subseteq [job : DOMAIN jobs, dest : DOMAIN Dests]

Logged(j) == {r.dest : r \in {q \in log : q.job = j}}

\* The log of a job in progress stops short of the destination it is at.
LogFollowsJobs ==
  /\ \A r, q \in log : r.job = q.job /\ r.dest = q.dest => r = q
  /\ \A j \in DOMAIN jobs :
       /\ Pending(j) => Logged(j) = 1 .. jobs[j].dest - 1
       /\ jobs[j].state = "done" => Logged(j) = DOMAIN Dests

OutcomeInv == TypeOK /\ LogFollowsJobs

\* A job knows the earlier ones that were on their way when it started, and
\* so those that are still.
KnowsPending ==
  \A i, j \in DOMAIN jobs : i < j /\ Pending(i) => i \in jobs[j].beside

\* An earlier job with the same key and a success on record was on its way
\* when the later one was started: a success before that is found.
SuccessWasPending ==
  \A r \in log, j \in DOMAIN jobs :
    r.status = "sent" /\ r.job < j /\ Key(r.job) = Key(j) => r.job \in jobs[j].beside

DedupInv == TypeOK /\ KnowsPending /\ SuccessWasPending

-----------------------------------------------------------------------------
(***************************************************************************)
(* What the parts of a scan do.                                            *)
(***************************************************************************)

\* The order of severities is an order on numbers.
LEMMA SevRankIsNat == \A s \in Severities : SevRank[s] \in Nat
BY DEF SevRank

\* A scan leaves the event of the asset well typed, and the alert it stands
\* for names a severity.
LEMMA ScanTypes ==
  ASSUME TypeOK, NEW v \in Verdicts
  PROVE  /\ Existing \in EventOrNone
         /\ ScanResult(v).transition \in Transitions \cup {"none"}
         /\ ScanResult(v).transition # "none" =>
              ScanResult(v).event \in EventRow({"asset"}, Nat)
         /\ ResultNo(v) \in Nat
<1>1. Existing \in EventOrNone
  BY DEF Existing, TypeOK, EventOrNone
<1>2. WellFormed(v)
  BY VerdictsAssumption
<1>3. /\ ScanResult(v).transition \in Transitions \cup {"none"}
      /\ ScanResult(v).transition # "none" =>
           ScanResult(v).event \in EventRow({"asset"}, Nat)
  <2>1. scans + 1 \in Nat /\ "asset" \in {"asset"}
    BY DEF TypeOK
  <2> HIDE DEF Existing
  <2>2. Existing = NoEvent \/ Existing \in EventRow({"asset"}, Nat)
    BY <1>1 DEF EventOrNone
  <2>3. QED
    BY <1>2, <2>1, <2>2, ScanResultFacts DEF ScanResult
<1>4. ResultNo(v) \in Nat
  BY DEF ResultNo, TypeOK
<1>5. QED
  BY <1>1, <1>3, <1>4

\* notify() starts one job, at the first destination, or none.
NewJob(transition, id, severity) ==
  [eventId |-> id, transition |-> transition, severity |-> severity,
   dest |-> 1, attempt |-> 1, state |-> "sending",
   beside |-> {j \in DOMAIN jobs : Pending(j)}]

\* What a scan may do to the jobs: nothing, or start one whose key no
\* destination has accepted.
JobStarted ==
  \E t \in AlertNames, id \in Nat, s \in Severities :
    /\ Dests # <<>>
    /\ ~AlertSent(<<id, t, s>>)
    /\ jobs' = Append(jobs, NewJob(t, id, s))

LEMMA ScanJobs ==
  ASSUME TypeOK, NEW v \in Verdicts, Scan(v)
  PROVE  UNCHANGED jobs \/ JobStarted
<1> DEFINE result == ScanResult(v)
           previous == IF IsOpen(event) THEN event.severity ELSE "none"
           alert == AlertTransition(result.transition, previous, result.event.severity)
<1>1. CASE result.transition = "none"
  BY <1>1 DEF Scan
<1>2. CASE result.transition # "none"
  <2>1. Notify(alert, ResultNo(v), result.event.severity)
    BY <1>2 DEF Scan
  <2>2. ResultNo(v) \in Nat /\ result.event.severity \in Severities
    BY <1>2, ScanTypes DEF EventRow
  <2>3. alert \in AlertNames \cup {"none"}
    BY ScanTypes DEF AlertTransition, AlertNames
  <2> HIDE DEF alert, result
  <2>4. QED
    BY <2>1, <2>2, <2>3 DEF Notify, JobStarted, NewJob
<1>3. QED
  BY <1>1, <1>2

\* A new job takes the next number and changes no other.
LEMMA JobStartedFacts ==
  ASSUME TypeOK, JobStarted
  PROVE  LET n == Len(jobs) + 1 IN
         /\ jobs' \in Seq(Job)
         /\ Len(jobs') = n
         /\ n \notin DOMAIN jobs
         /\ DOMAIN jobs' = DOMAIN jobs \cup {n}
         /\ \A j \in DOMAIN jobs : jobs'[j] = jobs[j]
         /\ jobs'[n].dest = 1 /\ jobs'[n].state = "sending"
         /\ jobs'[n].beside = {j \in DOMAIN jobs : Pending(j)}
         /\ ~AlertSent(<<jobs'[n].eventId, jobs'[n].transition, jobs'[n].severity>>)
<1>1. PICK t \in AlertNames, id \in Nat, s \in Severities :
        /\ Dests # <<>>
        /\ ~AlertSent(<<id, t, s>>)
        /\ jobs' = Append(jobs, NewJob(t, id, s))
  BY DEF JobStarted
<1>2. 1 \in DOMAIN Dests
  BY <1>1, DestsAssumption
<1>3. NewJob(t, id, s) \in Job
  <2>1. {j \in DOMAIN jobs : Pending(j)} \subseteq Nat
    BY DEF TypeOK
  <2>2. QED
    BY <1>2, <2>1 DEF NewJob, Job, JobStates
<1>4. jobs \in Seq(Job)
  BY DEF TypeOK
<1>5. jobs' \in Seq(Job) /\ Len(jobs') = Len(jobs) + 1
      /\ jobs'[Len(jobs) + 1] = NewJob(t, id, s)
      /\ DOMAIN jobs' = DOMAIN jobs \cup {Len(jobs) + 1}
      /\ Len(jobs) + 1 \notin DOMAIN jobs
      /\ \A j \in DOMAIN jobs : jobs'[j] = jobs[j]
  <2> DEFINE new == NewJob(t, id, s)
  <2> HIDE DEF new
  <2>1. new \in Job /\ jobs' = Append(jobs, new)
    BY <1>1, <1>3 DEF new
  <2>2. Len(jobs) \in Nat /\ DOMAIN jobs = 1 .. Len(jobs)
    BY <1>4
  <2>3. jobs' \in Seq(Job) /\ Len(jobs') = Len(jobs) + 1 /\ jobs'[Len(jobs) + 1] = new
    BY <1>4, <2>1
  <2>4. DOMAIN jobs' = 1 .. Len(jobs) + 1
    BY <2>3
  <2>5. \A j \in DOMAIN jobs : jobs'[j] = jobs[j]
    BY <1>4, <2>1, <2>2
  <2>6. QED
    BY <2>2, <2>3, <2>4, <2>5 DEF new
<1>6. QED
  BY <1>1, <1>5 DEF NewJob

\* A step of a job touches that job alone.
Moves(j, job) == j \in DOMAIN jobs /\ job \in Job /\ jobs' = [jobs EXCEPT ![j] = job]

LEMMA MovesFacts ==
  ASSUME TypeOK, NEW j \in DOMAIN jobs, NEW job, Moves(j, job)
  PROVE  /\ jobs' \in Seq(Job) /\ DOMAIN jobs' = DOMAIN jobs /\ Len(jobs') = Len(jobs)
         /\ jobs'[j] = job
         /\ \A k \in DOMAIN jobs : k # j => jobs'[k] = jobs[k]
BY DEF Moves, TypeOK

\* The steps of jobs are of two kinds: an outcome is recorded, or the job
\* changes and the log does not.
Recorded(j, status) ==
  /\ jobs[j].state = "sending"
  /\ Moves(j, AfterOutcome(jobs[j], status))
  /\ log' = log \cup {[job |-> j, dest |-> jobs[j].dest, status |-> status]}

Changed(j) ==
  /\ Pending(j)
  /\ \E job \in Job : /\ Moves(j, job)
                      /\ job.dest = jobs[j].dest
                      /\ job.eventId = jobs[j].eventId
                      /\ job.transition = jobs[j].transition
                      /\ job.severity = jobs[j].severity
                      /\ job.beside = jobs[j].beside
                      /\ job.state # "done"
  /\ UNCHANGED log

LEMMA JobStepCases ==
  ASSUME TypeOK, NEW j \in DOMAIN jobs, JobStep(j) \/ RecordThrows(j)
  PROVE  /\ UNCHANGED <<scans, event, eventNo, crossed>> /\ faults' \in Nat
         /\ Changed(j) \/ \E status \in {"sent", "failed"} : Recorded(j, status)
<1>1. jobs[j] \in Job /\ faults \in Nat
  BY DEF TypeOK
<1>2. /\ jobs[j].dest \in DOMAIN Dests /\ jobs[j].attempt \in Nat
      /\ DOMAIN Dests = 1 .. Len(Dests) /\ Len(Dests) \in Nat
  BY <1>1, DestsAssumption DEF Job
<1>3. ASSUME NEW status, Record(j, status), jobs[j].state = "sending"
      PROVE  Recorded(j, status) /\ UNCHANGED <<scans, event, eventNo, crossed, faults>>
  <2>1. AfterOutcome(jobs[j], status) \in Job
    <3>1. "sending" \in JobStates /\ "done" \in JobStates /\ 1 \in Nat
      BY DEF JobStates
    <3>2. CASE jobs[j].dest < Len(Dests)
      <4>1. jobs[j].dest + 1 \in DOMAIN Dests
        BY <1>2, <3>2
      <4>2. [jobs[j] EXCEPT !.dest = @ + 1, !.attempt = 1, !.state = "sending"] \in Job
        BY <1>1, <3>1, <4>1, Zenon DEF Job
      <4>3. QED
        BY <3>2, <4>2 DEF AfterOutcome
    <3>3. CASE ~(jobs[j].dest < Len(Dests))
      <4>1. [jobs[j] EXCEPT !.state = "done"] \in Job
        BY <1>1, <3>1, Zenon DEF Job
      <4>2. QED
        BY <3>3, <4>1 DEF AfterOutcome
    <3>4. QED
      BY <3>2, <3>3
  <2>2. QED
    BY <1>3, <2>1 DEF Record, Recorded, Moves
<1>4. ASSUME NEW job, job \in Job, Pending(j), UNCHANGED log,
             jobs' = [jobs EXCEPT ![j] = job],
             job.dest = jobs[j].dest, job.eventId = jobs[j].eventId,
             job.transition = jobs[j].transition, job.severity = jobs[j].severity,
             job.beside = jobs[j].beside, job.state # "done"
      PROVE  Changed(j)
  BY <1>4 DEF Changed, Moves
<1>5. CASE Accepted(j)
  BY <1>1, <1>3, <1>5 DEF Accepted, Record
<1>6. CASE Refused(j)
  BY <1>1, <1>3, <1>6 DEF Refused, Record
<1>7. CASE Unanswered(j)
  <2>1. CASE LastAttempt(jobs[j])
    BY <1>1, <1>3, <1>7, <2>1 DEF Unanswered, Record
  <2>2. CASE ~LastAttempt(jobs[j])
    <3> DEFINE job == [jobs[j] EXCEPT !.state = "waiting"]
    <3>1. /\ jobs' = [jobs EXCEPT ![j] = job] /\ Pending(j)
          /\ UNCHANGED <<scans, event, eventNo, crossed, log, faults>>
      BY <1>7, <2>2 DEF Unanswered, Pending
    <3>2. /\ job \in Job /\ job.dest = jobs[j].dest /\ job.eventId = jobs[j].eventId
          /\ job.transition = jobs[j].transition /\ job.severity = jobs[j].severity
          /\ job.beside = jobs[j].beside /\ job.state # "done"
      BY <1>1 DEF Job, JobStates
    <3> HIDE DEF job
    <3>3. QED
      BY <1>1, <1>4, <3>1, <3>2
  <2>3. QED
    BY <2>1, <2>2
<1>8. CASE Retry(j)
  <2> DEFINE job == [jobs[j] EXCEPT !.state = "sending", !.attempt = @ + 1]
  <2>1. /\ jobs' = [jobs EXCEPT ![j] = job] /\ Pending(j)
        /\ UNCHANGED <<scans, event, eventNo, crossed, log, faults>>
    BY <1>8 DEF Retry, Pending
  <2>2. /\ job \in Job /\ job.dest = jobs[j].dest /\ job.eventId = jobs[j].eventId
        /\ job.transition = jobs[j].transition /\ job.severity = jobs[j].severity
        /\ job.beside = jobs[j].beside /\ job.state # "done"
    <3>1. jobs[j].attempt + 1 \in Nat /\ "sending" \in JobStates /\ "sending" # "done"
      BY <1>2 DEF JobStates
    <3>2. QED
      BY <1>1, <3>1, Zenon DEF Job
  <2> HIDE DEF job
  <2>3. QED
    BY <1>1, <1>4, <2>1, <2>2
<1>9. CASE RecordThrows(j)
  <2> DEFINE job == [jobs[j] EXCEPT !.state = "lost"]
  <2>1. /\ jobs' = [jobs EXCEPT ![j] = job] /\ Pending(j)
        /\ UNCHANGED <<scans, event, eventNo, crossed, log>> /\ faults' \in Nat
    BY <1>1, <1>9 DEF RecordThrows, Pending
  <2>2. /\ job \in Job /\ job.dest = jobs[j].dest /\ job.eventId = jobs[j].eventId
        /\ job.transition = jobs[j].transition /\ job.severity = jobs[j].severity
        /\ job.beside = jobs[j].beside /\ job.state # "done"
    BY <1>1 DEF Job, JobStates
  <2> HIDE DEF job
  <2>3. QED
    BY <1>1, <1>4, <2>1, <2>2
<1>10. QED
  BY <1>5, <1>6, <1>7, <1>8, <1>9 DEF JobStep

\* A crash loses the jobs in progress.
Dropped ==
  jobs' = [j \in DOMAIN jobs |->
             IF Pending(j) THEN [jobs[j] EXCEPT !.state = "lost"] ELSE jobs[j]]

LEMMA DroppedFacts ==
  ASSUME TypeOK, Dropped
  PROVE  /\ jobs' \in Seq(Job) /\ DOMAIN jobs' = DOMAIN jobs /\ Len(jobs') = Len(jobs)
         /\ \A j \in DOMAIN jobs :
              /\ jobs'[j].eventId = jobs[j].eventId
              /\ jobs'[j].transition = jobs[j].transition
              /\ jobs'[j].severity = jobs[j].severity
              /\ jobs'[j].dest = jobs[j].dest
              /\ jobs'[j].beside = jobs[j].beside
              /\ jobs'[j].state \notin {"sending", "waiting"}
              /\ jobs'[j].state = "done" <=> jobs[j].state = "done"
<1>1. /\ \A j \in DOMAIN jobs : jobs[j] \in Job
      /\ DOMAIN jobs = 1 .. Len(jobs) /\ Len(jobs) \in Nat
  BY DEF TypeOK
<1>2. ASSUME NEW j \in DOMAIN jobs
      PROVE  /\ jobs'[j] \in Job
             /\ jobs'[j].eventId = jobs[j].eventId
             /\ jobs'[j].transition = jobs[j].transition
             /\ jobs'[j].severity = jobs[j].severity
             /\ jobs'[j].dest = jobs[j].dest
             /\ jobs'[j].beside = jobs[j].beside
             /\ jobs'[j].state = IF Pending(j) THEN "lost" ELSE jobs[j].state
  <2>1. jobs[j] \in Job /\ "lost" \in JobStates
    BY <1>1 DEF JobStates
  <2>2. CASE Pending(j)
    <3>1. jobs'[j] = [jobs[j] EXCEPT !.state = "lost"]
      BY <2>2 DEF Dropped
    <3>2. QED
      BY <2>1, <2>2, <3>1, Zenon DEF Job
  <2>3. CASE ~Pending(j)
    BY <2>1, <2>3 DEF Dropped
  <2>4. QED
    BY <2>2, <2>3
<1>3. DOMAIN jobs' = 1 .. Len(jobs)
  BY <1>1 DEF Dropped
<1>4. jobs' \in Seq(Job) /\ Len(jobs') = Len(jobs)
  <2>1. jobs' = [k \in 1 .. Len(jobs) |-> jobs'[k]]
    BY <1>1 DEF Dropped
  <2>2. \A k \in 1 .. Len(jobs) : jobs'[k] \in Job
    BY <1>1, <1>2
  <2>3. QED
    BY <1>1, <2>1, <2>2
<1>5. \A j \in DOMAIN jobs : /\ jobs'[j].state \notin {"sending", "waiting"}
                             /\ jobs'[j].state = "done" <=> jobs[j].state = "done"
  BY <1>2 DEF Pending
<1>6. DOMAIN jobs' = DOMAIN jobs
  BY <1>1, <1>3
<1>7. QED
  BY <1>2, <1>4, <1>5, <1>6

\* What any step does to jobs and log, and that types are kept.
LEMMA StepCases ==
  ASSUME TypeOK, [Next]_vars
  PROVE  \/ UNCHANGED <<jobs, log>>
         \/ /\ JobStarted /\ UNCHANGED log
         \/ \E j \in DOMAIN jobs : Changed(j)
         \/ \E j \in DOMAIN jobs, status \in {"sent", "failed"} : Recorded(j, status)
         \/ Dropped /\ UNCHANGED log
<1>1. ASSUME NEW v \in Verdicts, Scan(v)
      PROVE  /\ UNCHANGED jobs \/ JobStarted
             /\ UNCHANGED log
  <2>1. UNCHANGED jobs \/ JobStarted
    BY <1>1, ScanJobs
  <2>2. QED
    BY <1>1, <2>1 DEF Scan, StoreResult
<1>2. ASSUME NEW v \in Verdicts, AlertLost(v)
      PROVE  UNCHANGED <<jobs, log>>
  BY <1>2 DEF AlertLost
<1>3. ASSUME NEW j \in DOMAIN jobs, JobStep(j) \/ RecordThrows(j)
      PROVE  Changed(j) \/ \E status \in {"sent", "failed"} : Recorded(j, status)
  BY <1>3, JobStepCases
<1>4. CASE Crash
  BY <1>4 DEF Crash, Dropped
<1>5. CASE UNCHANGED vars
  BY <1>5 DEF vars
<1>6. QED
  BY <1>1, <1>2, <1>3, <1>4, <1>5 DEF Next

\* The log and the jobs stay well typed, and rows name jobs that exist.
LEMMA JobsTyped ==
  ASSUME TypeOK, [Next]_vars
  PROVE  /\ jobs' \in Seq(Job)
         /\ DOMAIN jobs \subseteq DOMAIN jobs'
         /\ log' \subseteq [job : DOMAIN jobs', dest : DOMAIN Dests,
                            status : {"sent", "failed"}]
<1>1. CASE UNCHANGED <<jobs, log>>
  BY <1>1 DEF TypeOK
<1>2. CASE JobStarted /\ UNCHANGED log
  BY <1>2, JobStartedFacts DEF TypeOK
<1>3. ASSUME NEW j \in DOMAIN jobs, Changed(j)
      PROVE  jobs' \in Seq(Job) /\ DOMAIN jobs' = DOMAIN jobs /\ UNCHANGED log
  BY <1>3, MovesFacts DEF Changed
<1>4. ASSUME NEW j \in DOMAIN jobs, NEW status \in {"sent", "failed"}, Recorded(j, status)
      PROVE  /\ jobs' \in Seq(Job) /\ DOMAIN jobs' = DOMAIN jobs
             /\ log' \subseteq [job : DOMAIN jobs, dest : DOMAIN Dests,
                                status : {"sent", "failed"}]
  <2>1. jobs' \in Seq(Job) /\ DOMAIN jobs' = DOMAIN jobs
    BY <1>4, MovesFacts DEF Recorded
  <2>2. jobs[j] \in Job
    BY DEF TypeOK
  <2>3. jobs[j].dest \in DOMAIN Dests
    BY <2>2 DEF Job
  <2>4. QED
    BY <1>4, <2>1, <2>3 DEF Recorded, TypeOK
<1>5. CASE Dropped /\ UNCHANGED log
  BY <1>5, DroppedFacts DEF TypeOK
<1>6. QED
  BY <1>1, <1>2, <1>3, <1>4, <1>5, StepCases DEF TypeOK

\* What a destination took is a POST of a job that exists.
LEMMA TakenTyped ==
  ASSUME TypeOK, [Next]_vars
  PROVE  taken' \subseteq [job : DOMAIN jobs', dest : DOMAIN Dests]
<1> DEFINE Posts(js) == {[job |-> j, dest |-> jobs[j].dest] : j \in js}
<1>1. taken' \subseteq taken \cup Posts(DOMAIN jobs)
  <2>1. ASSUME NEW j \in DOMAIN jobs, Takes(j) \/ UNCHANGED taken
        PROVE  taken' \subseteq taken \cup Posts(DOMAIN jobs)
    BY <2>1 DEF Takes
  <2>2. ASSUME NEW j \in DOMAIN jobs, JobStep(j) \/ RecordThrows(j)
        PROVE  Takes(j) \/ UNCHANGED taken
    BY <2>2 DEF JobStep, RecordThrows, Accepted, Refused, Unanswered, Retry, MayTake
  <2>3. CASE Crash
    BY <2>3 DEF Crash
  <2>4. CASE (\E v \in Verdicts : Scan(v) \/ AlertLost(v)) \/ UNCHANGED vars
    BY <2>4 DEF Scan, AlertLost, vars
  <2>5. QED
    BY <2>1, <2>2, <2>3, <2>4 DEF Next
<1>2. Posts(DOMAIN jobs) \subseteq [job : DOMAIN jobs, dest : DOMAIN Dests]
  <2>1. \A j \in DOMAIN jobs : jobs[j].dest \in DOMAIN Dests
    <3>1. \A j \in DOMAIN jobs : jobs[j] \in Job
      BY DEF TypeOK
    <3>2. QED
      BY <3>1 DEF Job
  <2>2. QED
    BY <2>1
<1>3. DOMAIN jobs \subseteq DOMAIN jobs'
  BY JobsTyped
<1> HIDE DEF Posts
<1>4. QED
  BY <1>1, <1>2, <1>3 DEF TypeOK

\* Every variable of the dispatcher keeps its type.
LEMMA TypeStep ==
  ASSUME TypeOK, [Next]_vars
  PROVE  TypeOK'
<1>1. /\ jobs' \in Seq(Job)
      /\ log' \subseteq [job : DOMAIN jobs', dest : DOMAIN Dests, status : {"sent", "failed"}]
  BY JobsTyped
<1>2. /\ scans' \in Nat /\ eventNo' \in Nat /\ faults' \in Nat
      /\ event' \in EventOrNone /\ crossed' \subseteq Nat
  <2>1. ASSUME NEW v \in Verdicts, StoreResult(v)
        PROVE  scans' \in Nat /\ eventNo' \in Nat /\ event' \in EventOrNone
    <3>1. CASE ScanResult(v).transition = "none"
      BY <2>1, <3>1 DEF StoreResult, TypeOK
    <3>2. CASE ScanResult(v).transition # "none"
      BY <2>1, <3>2, ScanTypes DEF StoreResult, TypeOK, EventOrNone
    <3>3. QED
      BY <3>1, <3>2
  <2>2. ASSUME NEW v \in Verdicts, Scan(v)
        PROVE  StoreResult(v) /\ UNCHANGED faults /\ crossed' \subseteq Nat
    <3>1. ResultNo(v) \in Nat /\ crossed \subseteq Nat
      BY ScanTypes DEF TypeOK
    <3>2. QED
      BY <2>2, <3>1 DEF Scan
  <2>3. ASSUME NEW v \in Verdicts, AlertLost(v)
        PROVE  StoreResult(v) /\ faults' \in Nat /\ UNCHANGED crossed
    BY <2>3 DEF AlertLost, TypeOK
  <2>4. ASSUME NEW j \in DOMAIN jobs, JobStep(j) \/ RecordThrows(j)
        PROVE  UNCHANGED <<scans, event, eventNo, crossed>> /\ faults' \in Nat
    BY <2>4, JobStepCases
  <2>5. CASE Crash
    BY <2>5 DEF Crash, TypeOK
  <2>6. CASE UNCHANGED vars
    BY <2>6 DEF vars, TypeOK
  <2>7. QED
    BY <2>1, <2>2, <2>3, <2>4, <2>5, <2>6 DEF Next, TypeOK
<1>3. QED
  BY <1>1, <1>2, TakenTyped DEF TypeOK

LEMMA TypeInit == Init => TypeOK
<1>1. SUFFICES ASSUME Init PROVE TypeOK
  OBVIOUS
<1>2. <<>> \in Seq(Job)
  OBVIOUS
<1>3. QED
  BY <1>1, <1>2 DEF Init, TypeOK, EventOrNone

-----------------------------------------------------------------------------
(***************************************************************************)
(* The theorems.                                                           *)
(***************************************************************************)

\* A step keeps the log in line with the jobs.
LEMMA LogStep ==
  ASSUME OutcomeInv, [Next]_vars
  PROVE  LogFollowsJobs'
<1>1. TypeOK /\ LogFollowsJobs
  BY DEF OutcomeInv
<1>2. /\ \A r \in log : r.job \in DOMAIN jobs
      /\ \A j \in DOMAIN jobs : jobs[j] \in Job
  BY <1>1 DEF TypeOK
<1>3. DOMAIN Dests = 1 .. Len(Dests) /\ Len(Dests) \in Nat
  BY DestsAssumption
<1>4. CASE UNCHANGED <<jobs, log>>
  BY <1>1, <1>4 DEF LogFollowsJobs, Logged, Pending
<1>5. CASE JobStarted /\ UNCHANGED log
  <2>0. PICK n : n = Len(jobs) + 1
    OBVIOUS
  <2>1. /\ n \notin DOMAIN jobs /\ DOMAIN jobs' = DOMAIN jobs \cup {n}
        /\ \A j \in DOMAIN jobs : jobs'[j] = jobs[j]
        /\ jobs'[n].dest = 1 /\ jobs'[n].state = "sending"
    BY <1>1, <1>5, <2>0, JobStartedFacts
  <2>2. Logged(n)' = {}
    BY <1>2, <1>5, <2>1 DEF Logged
  <2>3. ASSUME NEW j \in DOMAIN jobs PROVE Logged(j)' = Logged(j)
    BY <1>5 DEF Logged
  <2>4. 1 .. jobs'[n].dest - 1 = {} /\ jobs'[n].state # "done"
    BY <2>1
  <2>5. \A j \in DOMAIN jobs : Pending(j)' <=> Pending(j)
    BY <2>1 DEF Pending
  <2>6. ASSUME NEW j \in DOMAIN jobs'
        PROVE  /\ Pending(j)' => Logged(j)' = 1 .. jobs'[j].dest - 1
               /\ jobs'[j].state = "done" => Logged(j)' = DOMAIN Dests
    <3>1. CASE j = n
      BY <2>2, <2>4, <3>1
    <3>2. CASE j \in DOMAIN jobs
      BY <1>1, <2>1, <2>3, <2>5, <3>2 DEF LogFollowsJobs
    <3>3. QED
      BY <2>1, <3>1, <3>2
  <2>7. QED
    BY <1>1, <1>5, <2>6 DEF LogFollowsJobs
<1>6. ASSUME NEW j \in DOMAIN jobs, Changed(j) PROVE LogFollowsJobs'
  <2>1. PICK job \in Job : Moves(j, job) /\ job.dest = jobs[j].dest /\ job.state # "done"
    BY <1>6 DEF Changed
  <2>2. /\ DOMAIN jobs' = DOMAIN jobs /\ jobs'[j] = job
        /\ \A k \in DOMAIN jobs : k # j => jobs'[k] = jobs[k]
    BY <1>1, <2>1, MovesFacts
  <2>3. UNCHANGED log /\ Pending(j)
    BY <1>6 DEF Changed
  <2>4. \A k \in DOMAIN jobs : Logged(k)' = Logged(k)
    BY <2>3 DEF Logged
  <2>5. QED
    BY <1>1, <2>1, <2>2, <2>3, <2>4 DEF LogFollowsJobs, Pending
<1>7. ASSUME NEW j \in DOMAIN jobs, NEW status \in {"sent", "failed"}, Recorded(j, status)
      PROVE  LogFollowsJobs'
  <2> DEFINE job == AfterOutcome(jobs[j], status)
             d == jobs[j].dest
  <2>1. /\ DOMAIN jobs' = DOMAIN jobs /\ jobs'[j] = job
        /\ \A k \in DOMAIN jobs : k # j => jobs'[k] = jobs[k]
    BY <1>1, <1>7, MovesFacts DEF Recorded
  <2>2. /\ log' = log \cup {[job |-> j, dest |-> d, status |-> status]}
        /\ Pending(j) /\ Logged(j) = 1 .. d - 1
    BY <1>1, <1>7 DEF Recorded, Pending, LogFollowsJobs
  <2>3. jobs[j] \in Job /\ d \in 1 .. Len(Dests)
    BY <1>2, <1>3 DEF Job
  <2>4. \A r \in log : r.job = j => r.dest # d
    BY <2>2, <2>3 DEF Logged
  <2>5. \A r, q \in log' : r.job = q.job /\ r.dest = q.dest => r = q
    BY <1>1, <2>2, <2>4 DEF LogFollowsJobs
  <2>6. Logged(j)' = 1 .. d
    <3> DEFINE row == [job |-> j, dest |-> d, status |-> status]
    <3>1. row.job = j /\ row.dest = d /\ log' = log \cup {row}
      BY <2>2
    <3> HIDE DEF row, d
    <3>2. Logged(j)' = Logged(j) \cup {d}
      BY <3>1 DEF Logged
    <3>3. d \in Nat \ {0} /\ (1 .. d - 1) \cup {d} = 1 .. d
      BY <1>3, <2>3
    <3>4. QED
      BY <2>2, <3>2, <3>3
  <2>7. ASSUME NEW k \in DOMAIN jobs, k # j PROVE Logged(k)' = Logged(k)
    BY <2>2, <2>7 DEF Logged
  <2>8. \/ job.state = "sending" /\ job.dest = d + 1
        \/ job.state = "done" /\ d = Len(Dests)
    <3>1. CASE d < Len(Dests)
      <4>1. job = [jobs[j] EXCEPT !.dest = @ + 1, !.attempt = 1, !.state = "sending"]
        BY <3>1 DEF AfterOutcome
      <4>2. QED
        BY <2>3, <4>1 DEF Job
    <3>2. CASE ~(d < Len(Dests))
      <4>1. job = [jobs[j] EXCEPT !.state = "done"]
        BY <3>2 DEF AfterOutcome
      <4>2. job.state = "done"
        BY <2>3, <4>1 DEF Job
      <4>3. QED
        BY <1>3, <2>3, <3>2, <4>2
    <3>3. QED
      BY <3>1, <3>2
  <2> HIDE DEF job, d
  <2>9. /\ Pending(j)' => Logged(j)' = 1 .. jobs'[j].dest - 1
        /\ jobs'[j].state = "done" => Logged(j)' = DOMAIN Dests
    <3>1. CASE job.state = "sending" /\ job.dest = d + 1
      <4>1. jobs'[j].dest - 1 = d /\ jobs'[j].state # "done"
        BY <1>3, <2>1, <2>3, <3>1
      <4>2. QED
        BY <2>1, <2>6, <3>1, <4>1
    <3>2. CASE job.state = "done" /\ d = Len(Dests)
      BY <1>3, <2>1, <2>6, <3>2 DEF Pending
    <3>3. QED
      BY <2>8, <3>1, <3>2
  <2>10. QED
    BY <1>1, <2>1, <2>5, <2>7, <2>9 DEF LogFollowsJobs, Pending
<1>8. CASE Dropped /\ UNCHANGED log
  <2>1. \A j \in DOMAIN jobs : Logged(j)' = Logged(j)
    BY <1>8 DEF Logged
  <2>2. QED
    BY <1>1, <1>8, <2>1, DroppedFacts DEF LogFollowsJobs, Pending
<1>9. QED
  BY <1>1, <1>4, <1>5, <1>6, <1>7, <1>8, StepCases

\* "every outcome logged to alert_log" (EveryOutcomeLogged): however jobs
\* interleave, fail, throw or die, no job logs a destination twice and one
\* that came to its end has logged every destination.
THEOREM OutcomesLogged == Spec => []EveryOutcomeLogged
<1>1. Init => OutcomeInv
  <2>1. Init => LogFollowsJobs
    BY DEF Init, LogFollowsJobs
  <2>2. QED
    BY <2>1, TypeInit DEF OutcomeInv
<1>2. OutcomeInv /\ [Next]_vars => OutcomeInv'
  BY LogStep, TypeStep DEF OutcomeInv
<1>3. OutcomeInv => EveryOutcomeLogged
  BY DEF OutcomeInv, LogFollowsJobs, EveryOutcomeLogged, Logged
<1>4. QED
  BY <1>1, <1>2, <1>3, PTL DEF Spec

\* No step changes what an existing job is about.
LEMMA KeysKept ==
  ASSUME TypeOK, [Next]_vars, NEW j \in DOMAIN jobs
  PROVE  /\ j \in DOMAIN jobs'
         /\ Key(j)' = Key(j)
         /\ jobs'[j].eventId = jobs[j].eventId
         /\ jobs'[j].beside = jobs[j].beside
<1>1. CASE UNCHANGED <<jobs, log>>
  BY <1>1 DEF Key
<1>2. CASE JobStarted
  BY <1>2, JobStartedFacts DEF Key
<1>3. ASSUME NEW k \in DOMAIN jobs, Changed(k)
      PROVE  /\ j \in DOMAIN jobs' /\ jobs'[j].eventId = jobs[j].eventId
             /\ jobs'[j].transition = jobs[j].transition
             /\ jobs'[j].severity = jobs[j].severity
             /\ jobs'[j].beside = jobs[j].beside
  BY <1>3, MovesFacts DEF Changed
<1>4. ASSUME NEW k \in DOMAIN jobs, NEW status \in {"sent", "failed"}, Recorded(k, status)
      PROVE  /\ j \in DOMAIN jobs' /\ jobs'[j].eventId = jobs[j].eventId
             /\ jobs'[j].transition = jobs[j].transition
             /\ jobs'[j].severity = jobs[j].severity
             /\ jobs'[j].beside = jobs[j].beside
  <2>1. /\ DOMAIN jobs' = DOMAIN jobs /\ jobs'[k] = AfterOutcome(jobs[k], status)
        /\ \A i \in DOMAIN jobs : i # k => jobs'[i] = jobs[i]
    BY <1>4, MovesFacts DEF Recorded
  <2>2. jobs[k] \in Job
    BY DEF TypeOK
  <2>3. LET job == AfterOutcome(jobs[k], status) IN
        /\ job.eventId = jobs[k].eventId /\ job.transition = jobs[k].transition
        /\ job.severity = jobs[k].severity /\ job.beside = jobs[k].beside
    BY <2>2 DEF Job, AfterOutcome
  <2>4. QED
    BY <2>1, <2>3
<1>5. CASE Dropped
  BY <1>5, DroppedFacts DEF Key
<1>6. QED
  BY <1>1, <1>2, <1>3, <1>4, <1>5, StepCases DEF Key

\* A success on record when a job is started would have been found; one
\* recorded later is of a job that was on its way.
LEMMA DedupStep ==
  ASSUME DedupInv, [Next]_vars
  PROVE  KnowsPending' /\ SuccessWasPending'
<1>1. TypeOK /\ KnowsPending /\ SuccessWasPending
  BY DEF DedupInv
<1>2. \A r \in log : r.job \in DOMAIN jobs
  BY <1>1 DEF TypeOK
<1>3. \A j \in DOMAIN jobs : Key(j)' = Key(j) /\ jobs'[j].beside = jobs[j].beside
  BY <1>1, KeysKept
<1>4. ASSUME UNCHANGED log, DOMAIN jobs' = DOMAIN jobs PROVE SuccessWasPending'
  BY <1>1, <1>2, <1>3, <1>4 DEF SuccessWasPending
<1>5. ASSUME DOMAIN jobs' = DOMAIN jobs, \A j \in DOMAIN jobs : Pending(j)' => Pending(j)
      PROVE  KnowsPending'
  BY <1>1, <1>3, <1>5 DEF KnowsPending
<1>6. CASE UNCHANGED <<jobs, log>>
  BY <1>4, <1>5, <1>6 DEF Pending
<1>7. CASE JobStarted /\ UNCHANGED log
  <2>0. PICK n : n = Len(jobs) + 1
    OBVIOUS
  <2>1. /\ n \notin DOMAIN jobs /\ DOMAIN jobs' = DOMAIN jobs \cup {n}
        /\ \A j \in DOMAIN jobs : jobs'[j] = jobs[j]
        /\ jobs'[n].beside = {j \in DOMAIN jobs : Pending(j)}
        /\ ~AlertSent(<<jobs'[n].eventId, jobs'[n].transition, jobs'[n].severity>>)
    BY <1>1, <1>7, <2>0, JobStartedFacts
  <2>2. \A j \in DOMAIN jobs : (Pending(j)' <=> Pending(j)) /\ j \in Nat /\ j < n
    BY <1>1, <2>0, <2>1 DEF Pending, TypeOK
  <2>3. n \in Nat
    BY <1>1, <2>0 DEF TypeOK
  <2>4. KnowsPending'
    BY <1>1, <2>1, <2>2, <2>3 DEF KnowsPending
  <2>5. \A r \in log : r.status = "sent" => Key(r.job) # Key(n)'
    BY <2>1 DEF AlertSent, Key
  <2>6. \A r \in log' : r.status = "sent" => Key(r.job)' # Key(n)'
    BY <1>2, <1>3, <1>7, <2>5
  <2>7. SuccessWasPending'
    BY <1>1, <1>2, <1>3, <1>7, <2>1, <2>6 DEF SuccessWasPending
  <2>8. QED
    BY <2>4, <2>7
<1>8. ASSUME NEW j \in DOMAIN jobs, Changed(j) PROVE KnowsPending' /\ SuccessWasPending'
  <2>1. /\ UNCHANGED log /\ Pending(j) /\ DOMAIN jobs' = DOMAIN jobs
        /\ \A k \in DOMAIN jobs : k # j => jobs'[k] = jobs[k]
    BY <1>1, <1>8, MovesFacts DEF Changed
  <2>2. \A k \in DOMAIN jobs : Pending(k)' => Pending(k)
    BY <2>1 DEF Pending
  <2>3. QED
    BY <1>4, <1>5, <2>1, <2>2
<1>9. ASSUME NEW j \in DOMAIN jobs, NEW status \in {"sent", "failed"}, Recorded(j, status)
      PROVE  KnowsPending' /\ SuccessWasPending'
  <2>1. /\ Pending(j) /\ DOMAIN jobs' = DOMAIN jobs
        /\ \A k \in DOMAIN jobs : k # j => jobs'[k] = jobs[k]
    BY <1>1, <1>9, MovesFacts DEF Recorded, Pending
  <2>2. \A k \in DOMAIN jobs : Pending(k)' => Pending(k)
    BY <2>1 DEF Pending
  <2>3. \A r \in log' \ log : r.job = j
    BY <1>9 DEF Recorded
  <2>4. \A k \in DOMAIN jobs : j < k => j \in jobs[k].beside
    BY <1>1, <2>1 DEF KnowsPending
  <2>5. SuccessWasPending'
    BY <1>1, <1>2, <1>3, <2>1, <2>3, <2>4 DEF SuccessWasPending
  <2>6. QED
    BY <1>5, <2>1, <2>2, <2>5
<1>10. CASE Dropped /\ UNCHANGED log
  <2>1. DOMAIN jobs' = DOMAIN jobs /\ \A j \in DOMAIN jobs : ~Pending(j)'
    BY <1>1, <1>10, DroppedFacts DEF Pending
  <2>2. QED
    BY <1>4, <1>5, <1>10, <2>1
<1>11. QED
  BY <1>1, <1>6, <1>7, <1>8, <1>9, <1>10, StepCases

\* "one deduplicated notification per (event, transition, severity)"
\* (OneNotificationPerKey), for any interleaving of scans and deliveries and
\* whatever times out, throws or crashes: where a destination takes a second
\* one, the first was on its way when the second was decided, or no success
\* of the first was ever recorded.
THEOREM NotificationsDeduplicated == Spec => []OneNotificationPerKey
<1>1. Init => DedupInv
  <2>1. Init => KnowsPending /\ SuccessWasPending
    BY DEF Init, KnowsPending, SuccessWasPending
  <2>2. QED
    BY <2>1, TypeInit DEF DedupInv
<1>2. DedupInv /\ [Next]_vars => DedupInv'
  BY DedupStep, TypeStep DEF DedupInv
<1>3. DedupInv => OneNotificationPerKey
  BY DEF DedupInv, TypeOK, SuccessWasPending, OneNotificationPerKey, Reported
<1>4. QED
  BY <1>1, <1>2, <1>3, PTL DEF Spec

\* An event brought up to the floor by a scan whose store operations for it
\* succeeded is notified (CrossingNotified): its transition is "created",
\* "confirmed" or a rise in severity, and the deduplication finds nothing
\* unless a job of the event was started.
THEOREM CrossingsNotified == Spec => []CrossingNotified
<1> DEFINE Inv == TypeOK /\ CrossingNotified
<1>1. Init => Inv
  BY TypeInit DEF Init, CrossingNotified
<1>2. ASSUME Inv, [Next]_vars PROVE CrossingNotified'
  <2>1. \A j \in DOMAIN jobs : j \in DOMAIN jobs' /\ jobs'[j].eventId = jobs[j].eventId
    BY <1>2, KeysKept
  <2>2. CASE UNCHANGED crossed
    BY <1>2, <2>1, <2>2 DEF CrossingNotified
  <2>3. ASSUME NEW v \in Verdicts, Scan(v), Dests # <<>>, crossed' # crossed
        PROVE  \E j \in DOMAIN jobs' : jobs'[j].eventId = ResultNo(v)
    <3> DEFINE result == ScanResult(v)
               previous == IF IsOpen(event) THEN event.severity ELSE "none"
               alert == AlertTransition(result.transition, previous, result.event.severity)
    <3>1. /\ result.transition # "none"
          /\ Notify(alert, ResultNo(v), result.event.severity)
          /\ AtFloor(result.event.severity) /\ ~AtFloor(previous)
      BY <2>3 DEF Scan
    <3>2. SevRank[result.event.severity] > SevRank[previous]
      <4>1. /\ result.event.severity \in Severities /\ previous \in Severities
            /\ MinSeverity \in Severities
        BY <1>2, <3>1, ScanTypes, FloorAssumption
           DEF EventRow, TypeOK, EventOrNone, IsOpen, NoEvent, OpenStatuses, Severities
      <4>2. \A s \in Severities : SevRank[s] \in Nat
        BY SevRankIsNat
      <4> HIDE DEF result, previous
      <4>3. QED
        BY <3>1, <4>1, <4>2 DEF AtFloor
    <3>3. alert # "none"
      BY <3>1, <3>2 DEF AlertTransition
    <3>4. CASE AlertSent(<<ResultNo(v), alert, result.event.severity>>)
      <4>1. PICK r \in log : Key(r.job)[1] = ResultNo(v)
        BY <3>4 DEF AlertSent
      <4>2. r.job \in DOMAIN jobs
        BY <1>2 DEF TypeOK
      <4>3. QED
        BY <2>1, <4>1, <4>2 DEF Key
    <3>5. CASE ~AlertSent(<<ResultNo(v), alert, result.event.severity>>)
      <4> DEFINE new == NewJob(alert, ResultNo(v), result.event.severity)
      <4>1. jobs' = Append(jobs, new) /\ new.eventId = ResultNo(v)
        BY <2>3, <3>1, <3>3, <3>5 DEF Notify, NewJob
      <4> HIDE DEF new
      <4>2. jobs \in Seq(Job)
        BY <1>2 DEF TypeOK
      <4>3. Len(jobs) + 1 \in DOMAIN jobs' /\ jobs'[Len(jobs) + 1] = new
        BY <4>1, <4>2
      <4>4. QED
        BY <4>1, <4>3
    <3>6. QED
      BY <3>4, <3>5
  <2>4. ASSUME NEW v \in Verdicts, Scan(v) PROVE CrossingNotified'
    <3>1. crossed' = crossed \/ crossed' = crossed \cup {ResultNo(v)}
      BY <2>4 DEF Scan
    <3>2. QED
      BY <1>2, <2>1, <2>2, <2>3, <2>4, <3>1 DEF CrossingNotified
  <2>5. (\E v \in Verdicts : Scan(v)) \/ UNCHANGED crossed
    BY <1>2, JobStepCases DEF Next, AlertLost, Crash, vars
  <2>6. QED
    BY <2>2, <2>4, <2>5
<1>3. Inv /\ [Next]_vars => Inv'
  BY <1>2, TypeStep
<1>4. QED
  BY <1>1, <1>3, PTL DEF Spec

\* A scan that no fault strikes and that raised the severity of the open event.
Escalates ==
  /\ faults' = faults /\ IsOpen(event) /\ IsOpen(event') /\ eventNo' = eventNo
  /\ SevRank[event'.severity] > SevRank[event.severity]
  /\ AtFloor(event'.severity) /\ Dests # <<>>

NotifiedOrKnown ==
  \/ Len(jobs') = Len(jobs) + 1
  \/ \E r \in log : /\ r.status = "sent"
                    /\ jobs[r.job].eventId = eventNo
                    /\ jobs[r.job].severity = event'.severity

LEMMA EscalationStep ==
  ASSUME TypeOK, [Next]_vars, Escalates
  PROVE  NotifiedOrKnown
<1>1. event' # event
  <2>1. event.severity \in Severities
    BY DEF Escalates, TypeOK, EventOrNone, EventRow, IsOpen, NoEvent, OpenStatuses
  <2>2. SevRank[event.severity] \in Nat
    BY <2>1, SevRankIsNat
  <2>3. QED
    BY <2>2 DEF Escalates
<1>2. PICK v \in Verdicts : Scan(v)
  <2>1. ASSUME NEW v \in Verdicts, AlertLost(v) PROVE FALSE
    BY <2>1 DEF AlertLost, Escalates, TypeOK
  <2>2. QED
    BY <1>1, <2>1, JobStepCases DEF Next, Crash, vars
<1> DEFINE result == ScanResult(v)
           alert == AlertTransition(result.transition, event.severity, result.event.severity)
<1>3. /\ result.transition # "none" /\ event' = result.event /\ ResultNo(v) = eventNo
      /\ Notify(alert, eventNo, event'.severity)
  BY <1>1, <1>2 DEF Scan, StoreResult, Escalates
<1>4. alert # "none"
  BY <1>3 DEF AlertTransition, Escalates
<1>5. CASE AlertSent(<<eventNo, alert, event'.severity>>)
  BY <1>5 DEF AlertSent, Key, NotifiedOrKnown
<1>6. CASE ~AlertSent(<<eventNo, alert, event'.severity>>)
  <2> DEFINE new == NewJob(alert, eventNo, event'.severity)
  <2>1. jobs' = Append(jobs, new)
    BY <1>3, <1>4, <1>6 DEF Notify, NewJob, Escalates
  <2> HIDE DEF new
  <2>2. QED
    BY <2>1 DEF TypeOK, NotifiedOrKnown
<1>7. QED
  BY <1>5, <1>6

\* "escalations re-alert" (EscalationNeverSilent): no scan without a fault
\* raises an open event to a level at the floor without a notification,
\* unless one of the event for that level was accepted before.
THEOREM EscalationsNotified == Spec => EscalationNeverSilent
<1>1. TypeOK /\ [Next]_vars => (Escalates => NotifiedOrKnown) \/ UNCHANGED vars
  BY EscalationStep
<1>2. TypeOK /\ [Next]_vars => TypeOK'
  BY TypeStep
<1>3. Spec => [][Escalates => NotifiedOrKnown]_vars
  BY <1>1, <1>2, TypeInit, PTL DEF Spec
<1>4. QED
  BY <1>3 DEF EscalationNeverSilent, Escalates, NotifiedOrKnown
=============================================================================

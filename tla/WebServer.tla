------------------------------ MODULE WebServer ------------------------------
(***************************************************************************)
(* The web server (apps/web/src/server.ts and api.ts): the guard and the   *)
(* rate limiter every mutation passes, the handlers of POST and DELETE     *)
(* /watchlist and of POST /scan, and the scan loop.  The state the         *)
(* handlers work on is that of Watchlist.                                  *)
(*                                                                         *)
(* A mutation the guard refuses (403) and a malformed one (400, after the  *)
(* limiter) change nothing but the bucket.  One clock stands for the       *)
(* minutes of the limiter and for the days of retention: neither reads     *)
(* what the other measures.                                                *)
(***************************************************************************)
EXTENDS Watchlist

CONSTANTS
  Address,        \* remote address of each client; Loopback is one
  Loopback,
  Origin,         \* Origin header: "none", "same", "other"
  ScanToken,      \* configured token, or Null
  TokenOf,        \* token each client sends
  MutationLimit, Window

ASSUME ServerAssumption == MutationLimit \in Nat \ {0} /\ Window \in Nat \ {0}

Addresses == {Address[c] : c \in Clients}

VARIABLES
  buckets,    \* buckets[ip]: count and resetAt of the current window
  admitted,   \* ghost: admitted[ip]: when mutations of ip were admitted, in order
  scanning    \* the flag of the scan loop

serverVars == <<buckets, admitted, scanning>>
vars == <<listVars, serverVars>>

-----------------------------------------------------------------------------
(* rateLimited and guardMutation. *)

NoBucket == [count |-> 0, resetAt |-> 0]

\* Mutant of CurrentBucket: a window is taken to start when the last ended,
\* not with the first request after it.
CurrentBucketRolling(ip) ==
  IF clock >= buckets[ip].resetAt
  THEN [count |-> 0, resetAt |-> buckets[ip].resetAt + Window]
  ELSE buckets[ip]

\* The bucket a request falls into: a window starts with its first request.
CurrentBucket(ip) ==
  IF clock >= buckets[ip].resetAt
  THEN [count |-> 0, resetAt |-> clock + Window]
  ELSE buckets[ip]

GuardMutation(c) ==
  /\ Origin[c] \in {"none", "same"}
  /\ IF ScanToken = Null THEN Address[c] = Loopback ELSE TokenOf[c] = ScanToken

\* The request passes guard and limiter.  A request above the limit (429)
\* is counted as well, which the limiter does not tell from the limit.
Admit(c) ==
  LET ip == Address[c]
      b  == CurrentBucket(ip)
  IN /\ GuardMutation(c)
     /\ b.count < MutationLimit
     /\ buckets'  = [buckets EXCEPT ![ip] = [b EXCEPT !.count = @ + 1]]
     /\ admitted' = [admitted EXCEPT ![ip] = Append(@, clock)]

-----------------------------------------------------------------------------
(* The handlers. *)

PostWatchlist(c) ==
  /\ Admit(c)
  /\ \E a \in Assets : AddStored(c, a) \/ AddAsks(c, a)
  /\ UNCHANGED scanning

DeleteWatchlist(c) ==
  /\ Admit(c)
  /\ \E a \in Assets : RemoveFromWatchlist(c, a)
  /\ UNCHANGED scanning

\* POST /scan does not look at the flag of the loop.
PostScan(c) == Admit(c) /\ Idle(c) /\ ScanBegins(c) /\ UNCHANGED scanning

\* What a client's request is waiting for comes about.
AddProceeds(c) ==
  (AddAnswered(c) \/ AddSourceFails(c)) /\ UNCHANGED serverVars

ScanProceeds(c) ==
  /\ MapAnswers(c) \/ QuotesArrive(c) \/ ScanFails(c) \/ ScanProcesses(c)
  /\ UNCHANGED serverVars

-----------------------------------------------------------------------------
(* The scan loop. *)

\* The timer's tick, which does nothing while a scan of the loop runs.
LoopTick ==
  /\ ~scanning
  /\ ScanBegins(Loop)
  /\ scanning' = TRUE
  /\ UNCHANGED <<buckets, admitted>>

LoopProceeds ==
  /\ MapAnswers(Loop) \/ QuotesArrive(Loop)
  /\ UNCHANGED serverVars

\* Mutant of LoopReturns: the flag is lowered after a scan that succeeded.
LoopReturnsOnSuccess ==
  /\ \/ ScanProcesses(Loop) /\ scanning' = FALSE
     \/ ScanFails(Loop) /\ UNCHANGED scanning
  /\ UNCHANGED <<buckets, admitted>>

\* finally: the flag is lowered whether the scan succeeded or threw.
LoopReturns ==
  /\ ScanProcesses(Loop) \/ ScanFails(Loop)
  /\ scanning' = FALSE
  /\ UNCHANGED <<buckets, admitted>>

-----------------------------------------------------------------------------
Init ==
  /\ ListInit
  /\ buckets  = [ip \in Addresses |-> NoBucket]
  /\ admitted = [ip \in Addresses |-> <<>>]
  /\ scanning = FALSE

Tick == TimePasses /\ UNCHANGED serverVars

Next ==
  \/ \E c \in Clients : \/ PostWatchlist(c) \/ DeleteWatchlist(c) \/ PostScan(c)
                        \/ AddProceeds(c) \/ ScanProceeds(c)
  \/ LoopTick \/ LoopProceeds \/ LoopReturns
  \/ Tick

\* The awaits of the loop's scan end: requests to the source are bounded by
\* their timeout and attempts (CmcClient), deliveries likewise (Alerts).
Fairness == WF_vars(LoopProceeds) /\ WF_vars(LoopReturns)

Spec == Init /\ [][Next]_vars /\ Fairness

-----------------------------------------------------------------------------
\* In no stretch of time as long as the limiter's window are more than
\* 2 limit - 1 mutations of one address admitted, wherever it starts: from
\* any one of them to the 2 limit - 1st after it a window has passed.
WindowAdmits ==
  \A ip \in Addresses : \A n \in DOMAIN admitted[ip] :
    n >= 2 * MutationLimit =>
      admitted[ip][n] - admitted[ip][n - 2 * MutationLimit + 1] >= Window

\* The loop comes back for its next scan after every scan, whatever fails,
\* and while requests change the list and start scans of their own.
LoopComesBack == scanning ~> ~scanning
=============================================================================

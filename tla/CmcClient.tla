------------------------------ MODULE CmcClient ------------------------------
(***************************************************************************)
(* The path of one CMC call: CmcAdapter.fetch (packages/cmc/src/adapter.ts) *)
(* over CmcClient.request (client.ts), with its TTL cache, its rolling     *)
(* rate limit, its retries and its error classes (cache.ts, errors.ts).    *)
(*                                                                         *)
(* Calls interleave at their awaits: the throttle's sleep, the fetch and   *)
(* the back-off's sleep.  Overlapping scans share one client.              *)
(*                                                                         *)
(* Time is counted in ticks and every instant is kept as its distance from *)
(* now, so no bound on the clock is needed: an age grows up to the point   *)
(* where it no longer matters, and a sleep shrinks to 0.                   *)
(***************************************************************************)
EXTENDS Integers, Sequences, FiniteSets

CONSTANTS
  Callers,       \* who may have a call in flight (each one call at a time)
  Endpoints,     \* cache keys: path and parameters
  MaxPerMinute,  \* maxRequestsPerMinute
  MaxRetries,    \* maxRetries
  Minute,        \* the rolling window, in ticks
  Ttl,           \* ttlMs of every endpoint, in ticks
  Delays         \* back-off and Retry-After delays, in ticks

ASSUME LimitsAssumption ==
  /\ MaxPerMinute \in Nat \ {0} /\ MaxRetries \in Nat
  /\ Minute \in Nat \ {0} /\ Ttl \in Nat \ {0}
ASSUME DelaysAssumption == Delays \subseteq Nat /\ Delays # {}

VARIABLES
  stamps,     \* requestTimestamps: ages, oldest first
  cache,      \* cache[e]: body and its age, or Nothing
  calls,      \* calls[c]: the call c waits for, or NoCall
  sent,       \* history: calls the throttle let out in the last minute, in order
  delivered   \* history: what the last step handed to a caller, if anything

vars == <<stamps, cache, calls, sent, delivered>>

Nothing == [body |-> "nothing", age |-> 0]

NoCall == [state |-> "idle"]

NoAnswer == [kind |-> "none", bodyAge |-> 0]

Open(c) == calls[c] # NoCall

-----------------------------------------------------------------------------
Init ==
  /\ stamps = <<>> /\ sent = <<>> /\ delivered = NoAnswer
  /\ cache = [e \in Endpoints |-> Nothing]
  /\ calls = [c \in Callers |-> NoCall]

\* Mutant of Fresh: an entry never expires.
FreshForever(e) == cache[e] # Nothing

\* TtlCache.get finds an entry that has not outlived its ttl.
Fresh(e) == cache[e] # Nothing /\ cache[e].age <= Ttl

\* throttle's filter: the stamps of the last minute.  They are in the order
\* of their ages, so that it drops the Expired ones from the front.
Expired(s) == Cardinality({k \in DOMAIN s : s[k] >= Minute})

Recent(s) == SubSeq(s, Expired(s) + 1, Len(s))

\* Mutant of Full: off by one.
FullOneMore(s) == Len(s) > MaxPerMinute

Full(s) == Len(s) >= MaxPerMinute

\* The adapter decides what its caller gets of a 2xx body: an unreadable one,
\* one that fails the schema and one without data are errors alike.
Validated(body) == IF body = "valid" THEN "data" ELSE "schema_error"

NewCall(e, state, attempt, wake) ==
  [endpoint |-> e, state |-> state, attempt |-> attempt, wake |-> wake]

\* The throttle lets a call out.
LetOut(waited) == sent' = Append(sent, [waited |-> waited, age |-> 0])

\* An HTTP request goes out for caller c.
Send(c, attempt) ==
  /\ calls' = [calls EXCEPT ![c].state = "sending", ![c].attempt = attempt]
  /\ delivered' = NoAnswer

Sleep(c, state, ticks) ==
  /\ calls' = [calls EXCEPT ![c].state = state, ![c].wake = ticks]
  /\ delivered' = NoAnswer
  /\ UNCHANGED sent

\* The call of c ends with an answer, or an error, of this kind.
Deliver(c, kind, bodyAge) ==
  /\ calls' = [calls EXCEPT ![c] = NoCall]
  /\ delivered' = [kind |-> kind, bodyAge |-> bodyAge]
  /\ UNCHANGED sent

Due(c, state) == calls[c].state = state /\ calls[c].wake = 0

-----------------------------------------------------------------------------
\* A fresh cache entry answers at once, be its body valid or not.
CacheHit(c, e) ==
  /\ ~Open(c)
  /\ Fresh(e)
  /\ Deliver(c, Validated(cache[e].body), cache[e].age)
  /\ UNCHANGED <<stamps, cache>>

\* A miss drops the expired entry and enters the throttle: the request goes
\* out now, or sleeps until the oldest stamp leaves the window (the extra
\* 25 ms are less than a tick).
CacheMiss(c, e) ==
  LET recent == Recent(stamps) IN
  /\ ~Open(c)
  /\ ~Fresh(e)
  /\ cache' = [cache EXCEPT ![e] = Nothing]
  /\ \/ /\ ~Full(recent)
        /\ stamps' = Append(recent, 0)
        /\ calls' = [calls EXCEPT ![c] = NewCall(e, "sending", 0, 0)]
        /\ LetOut(FALSE)
     \/ /\ Full(recent)
        /\ stamps' = recent
        /\ calls' = [calls EXCEPT ![c] = NewCall(e, "throttled", 0, Minute - recent[1])]
        /\ UNCHANGED sent
  /\ delivered' = NoAnswer

\* Mutant of Wake: the stamps are pruned and the request is not added.
WakeUnstamped(c) ==
  /\ Due(c, "throttled")
  /\ stamps' = Recent(stamps)
  /\ Send(c, 0) /\ LetOut(TRUE)
  /\ UNCHANGED cache

\* The throttle's sleep ends.  Whether the window is full is not asked again.
Wake(c) ==
  /\ Due(c, "throttled")
  /\ stamps' = Append(Recent(stamps), 0)
  /\ Send(c, 0) /\ LetOut(TRUE)
  /\ UNCHANGED cache

\* A 2xx answer is stored whatever its body is (an unreadable one is stored
\* as null) and handed to the adapter.
Succeed(c, body) ==
  /\ calls[c].state = "sending"
  /\ cache' = [cache EXCEPT ![calls[c].endpoint] = [body |-> body, age |-> 0]]
  /\ Deliver(c, Validated(body), 0)
  /\ UNCHANGED stamps

\* auth, plan_gated, bad_request: thrown without a retry.
Refuse(c) ==
  /\ calls[c].state = "sending"
  /\ Deliver(c, "refused", 0)
  /\ UNCHANGED <<stamps, cache>>

RetriesLeft(c) == calls[c].attempt < MaxRetries

\* rate_limited, upstream, network, timeout: back off, or give up.
Interrupt(c) ==
  /\ calls[c].state = "sending"
  /\ \/ RetriesLeft(c) /\ \E d \in Delays : Sleep(c, "backoff", d)
     \/ ~RetriesLeft(c) /\ Deliver(c, "exhausted", 0)
  /\ UNCHANGED <<stamps, cache>>

\* Mutant of Retry: the attempts are not counted.
RetryUncounted(c) ==
  /\ Due(c, "backoff")
  /\ Send(c, calls[c].attempt)
  /\ UNCHANGED <<stamps, cache, sent>>

\* The back-off ends and the request goes out again, past the throttle.
Retry(c) ==
  /\ Due(c, "backoff")
  /\ Send(c, calls[c].attempt + 1)
  /\ UNCHANGED <<stamps, cache, sent>>

-----------------------------------------------------------------------------
Ages(s) == [k \in DOMAIN s |-> s[k].age]

Aged(age, cap) == IF age < cap THEN age + 1 ELSE cap

\* Time passes.  A sleep that has run out may be noticed late, and an answer
\* may take any time.
Tick ==
  /\ stamps' = [k \in DOMAIN stamps |-> Aged(stamps[k], Minute)]
  /\ cache' = [e \in Endpoints |->
                 IF cache[e] = Nothing THEN Nothing
                 ELSE [cache[e] EXCEPT !.age = Aged(@, Ttl + 1)]]
  /\ calls' = [c \in Callers |->
                 IF Open(c) /\ calls[c].wake > 0
                 THEN [calls[c] EXCEPT !.wake = @ - 1] ELSE calls[c]]
  /\ sent' = LET older == [k \in DOMAIN sent |-> [sent[k] EXCEPT !.age = @ + 1]]
             IN SubSeq(older, Expired(Ages(older)) + 1, Len(older))
  /\ delivered' = NoAnswer

CallStep(c) ==
  \/ Wake(c) \/ Retry(c)
  \/ \E body \in {"valid", "malformed"} : Succeed(c, body)
  \/ Refuse(c) \/ Interrupt(c)

Next ==
  \/ \E c \in Callers :
       \/ \E e \in Endpoints : CacheHit(c, e) \/ CacheMiss(c, e)
       \/ CallStep(c)
  \/ Tick

Spec == Init /\ [][Next]_vars

\* Time passes, timers fire, and a fetch settles: it is aborted after
\* timeoutMs, and the platform bounds the wait for the rest of a body.
FairSpec == Spec /\ WF_vars(Tick) /\ \A c \in Callers : WF_vars(CallStep(c))

-----------------------------------------------------------------------------
\* The limiter remembers exactly the calls it let through in the last
\* minute, however throttled calls wake up among each other.
LimiterRemembers ==
  Recent(stamps) = Ages(sent)

\* A call that did not have to wait never exceeds the budget: when it went
\* out, at most MaxPerMinute calls had gone out within the minute.
OnlyWaitersExceed ==
  \A k \in DOMAIN sent : sent[k].waited \/ k <= MaxPerMinute

\* What is handed out is never older than the ttl, so a body that fails
\* validation is served again for that long and no longer.
ServedWithinTtl == delivered.bodyAge <= Ttl

\* Every call comes to an end, however the answers fall.
EveryCallSettles == \A c \in Callers : Open(c) ~> ~Open(c)
=============================================================================

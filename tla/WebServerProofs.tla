--------------------------- MODULE WebServerProofs ---------------------------
(***************************************************************************)
(* Theorems about the web server and the watchlist, for every list of      *)
(* assets, every catalog, every finite set of clients, every limit and     *)
(* window, and any number of scans: nothing below uses the bounds.         *)
(***************************************************************************)
EXTENDS WebServer, FiniteSetTheorems, TLAPS

-----------------------------------------------------------------------------
(***************************************************************************)
(* The limiter.                                                            *)
(***************************************************************************)

\* The limiter of one address: bucket b, admissions at the times in s, now.
\* The last b.count admissions belong to the current window, which started
\* with the first of them; and from the MutationLimit-th admission before
\* that start to the start itself a whole window has passed.
LimiterInv(b, s, now) ==
  LET start == b.resetAt - Window
      old   == Len(s) - b.count  \* admissions before the current window
  IN /\ b \in [count : 0 .. MutationLimit, resetAt : Nat]
     /\ s \in Seq(Nat) /\ b.count <= Len(s)
     /\ \A n \in DOMAIN s : s[n] <= now
     /\ b.count = 0 => Len(s) = 0 /\ b.resetAt = 0
     /\ b.count > 0 => s[old + 1] = start
     /\ \A n \in 1 .. old : s[n] <= start
     /\ \A n \in 1 .. old : n >= MutationLimit =>
          s[n - MutationLimit + 1] + Window <= start

BurstsBounded(s) ==
  \A n \in DOMAIN s :
    n >= 2 * MutationLimit => s[n] - s[n - 2 * MutationLimit + 1] >= Window

\* One more admission, into the current window or the first of a new one,
\* keeps both.
LEMMA AdmissionKeepsLimiter ==
  ASSUME NEW b, NEW s, NEW now \in Nat, LimiterInv(b, s, now), BurstsBounded(s),
         NEW c, c = IF now >= b.resetAt THEN [count |-> 0, resetAt |-> now + Window] ELSE b,
         c.count < MutationLimit
  PROVE  /\ LimiterInv([c EXCEPT !.count = @ + 1], Append(s, now), now)
         /\ BurstsBounded(Append(s, now))
<1>1. PICK L \in Nat \ {0}, W \in Nat \ {0} : L = MutationLimit /\ W = Window
  BY ServerAssumption
<1>2. PICK k \in 0 .. L, r \in Nat : b = [count |-> k, resetAt |-> r]
  BY <1>1 DEF LimiterInv
<1>3. PICK m \in Nat : m = Len(s)
  BY DEF LimiterInv
<1>4. k <= m /\ s \in Seq(Nat) /\ DOMAIN s = 1 .. m
  BY <1>2, <1>3 DEF LimiterInv
<1> DEFINE old == m - k
           start == r - W
<1>5. old \in Nat
  BY <1>4
<1>6. /\ \A n \in 1 .. m : s[n] \in Nat
      /\ \A n \in 1 .. m : s[n] <= now
  <2>1. \A n \in DOMAIN s : s[n] <= now
    BY DEF LimiterInv
  <2>2. \A n \in DOMAIN s : s[n] \in Nat
    BY <1>4
  <2>3. QED
    BY <1>4, <2>1, <2>2
<1>7. (k = 0 => m = 0 /\ r = 0) /\ (k > 0 => s[old + 1] = start)
  BY <1>1, <1>2, <1>3 DEF LimiterInv
<1>8. \A n \in 1 .. old : s[n] <= start
  BY <1>1, <1>2, <1>3 DEF LimiterInv
<1>9. \A n \in 1 .. old : n >= L => s[n - L + 1] + W <= start
  BY <1>1, <1>2, <1>3 DEF LimiterInv
<1>10. \A n \in 1 .. m : n >= 2 * L => s[n] - s[n - 2 * L + 1] >= W
  BY <1>1, <1>4 DEF BurstsBounded
<1> DEFINE t == Append(s, now)
           d == [c EXCEPT !.count = @ + 1]
<1>11. /\ t \in Seq(Nat) /\ Len(t) = m + 1 /\ DOMAIN t = 1 .. m + 1
       /\ t[m + 1] = now
       /\ \A n \in 1 .. m : t[n] = s[n]
  BY <1>3, <1>4
<1> HIDE DEF t, d, old, start
<1>12. \A n \in 1 .. m + 1 : t[n] <= now
  <2>1. ASSUME NEW n \in 1 .. m + 1 PROVE t[n] <= now
    <3>1. CASE n = m + 1
      BY <1>11, <3>1
    <3>2. CASE n \in 1 .. m
      BY <1>6, <1>11, <3>2
    <3>3. QED
      BY <3>1, <3>2
  <2>2. QED
    BY <2>1
\* Both hold for the new state if they hold for its numbers.
<1>13. ASSUME NEW i \in 1 .. L, NEW q \in Nat, NEW o \in Nat, d = [count |-> i, resetAt |-> q],
              i <= m + 1, o = m + 1 - i,
              t[o + 1] = q - W,
              \A n \in 1 .. o : s[n] <= q - W,
              \A n \in 1 .. o : n >= L => s[n - L + 1] + W <= q - W,
              m + 1 >= 2 * L => now - s[m + 1 - 2 * L + 1] >= W
       PROVE  LimiterInv(d, t, now) /\ BurstsBounded(t)
  <2>1. o <= m
    BY <1>13
  <2>2. \A n \in 1 .. o : t[n] <= q - W
    BY <1>11, <1>13, <2>1
  <2>3. \A n \in 1 .. o : n >= L => t[n - L + 1] + W <= q - W
    <3>1. ASSUME NEW n \in 1 .. o, n >= L PROVE t[n - L + 1] + W <= q - W
      <4>1. n - L + 1 \in 1 .. m
        BY <2>1, <3>1
      <4>2. QED
        BY <1>11, <1>13, <3>1, <4>1
    <3>2. QED
      BY <3>1
  <2>4. LimiterInv(d, t, now)
    <3>1. /\ d \in [count : 0 .. MutationLimit, resetAt : Nat]
          /\ d.count = i /\ d.resetAt = q /\ Len(t) - d.count = o /\ i > 0
      BY <1>1, <1>11, <1>13
    <3>2. QED
      BY <1>1, <1>11, <1>12, <1>13, <2>2, <2>3, <3>1 DEF LimiterInv
  <2>5. ASSUME NEW n \in DOMAIN t, n >= 2 * L PROVE t[n] - t[n - 2 * L + 1] >= W
    <3>1. n - 2 * L + 1 \in 1 .. m /\ n \in 1 .. m + 1
      BY <1>11, <2>5
    <3>2. t[n - 2 * L + 1] = s[n - 2 * L + 1]
      BY <1>11, <3>1
    <3>3. CASE n = m + 1
      BY <1>11, <1>13, <2>5, <3>2, <3>3
    <3>4. CASE n \in 1 .. m
      BY <1>10, <1>11, <2>5, <3>2, <3>4
    <3>5. QED
      BY <3>1, <3>3, <3>4
  <2>6. QED
    BY <1>1, <2>4, <2>5 DEF BurstsBounded
\* The window goes on.
<1>14. CASE now < r
  <2>1. c = b /\ k > 0 /\ k + 1 <= L /\ d = [count |-> k + 1, resetAt |-> r]
    <3>1. c = b
      BY <1>2, <1>14
    <3>2. k > 0 /\ k + 1 <= L
      BY <1>1, <1>2, <1>7, <1>14, <3>1
    <3>3. QED
      BY <1>2, <3>1, <3>2 DEF d
  <2>2. old + 1 \in 1 .. m /\ old = m + 1 - (k + 1)
    BY <1>4, <2>1 DEF old
  <2>3. t[old + 1] = r - W /\ r - W <= now
    BY <1>6, <1>7, <1>11, <2>1, <2>2 DEF start
  <2>4. ASSUME m + 1 >= 2 * L PROVE now - s[m + 1 - 2 * L + 1] >= W
    <3>1. PICK n \in 1 .. old : n = m + 1 - L
      BY <1>4, <2>1, <2>4 DEF old
    <3>2. n >= L /\ n - L + 1 = m + 1 - 2 * L + 1 /\ n - L + 1 \in 1 .. m
      BY <2>4, <3>1
    <3>3. s[n - L + 1] + W <= r - W /\ s[n - L + 1] \in Nat
      BY <1>6, <1>9, <3>2 DEF start
    <3>4. QED
      BY <2>3, <3>2, <3>3
  <2>5. k + 1 \in 1 .. L /\ k + 1 <= m + 1
    BY <1>4, <2>1
  <2>6. LimiterInv(d, t, now) /\ BurstsBounded(t)
    BY <1>5, <1>8, <1>9, <1>13, <2>1, <2>2, <2>3, <2>4, <2>5 DEF start
  <2>7. QED
    BY <2>6 DEF d, t
\* A new window starts.
<1>15. CASE now >= r
  <2>1. d = [count |-> 1, resetAt |-> now + W]
    BY <1>1, <1>2, <1>15 DEF d
  <2>2. ASSUME NEW n \in 1 .. m, n >= L
        PROVE  s[n - L + 1] + W <= now
    <3>1. k > 0 /\ s[old + 1] = r - W
      BY <1>7, <2>2 DEF start
    <3>2. n - L + 1 \in 1 .. m /\ n - L + 1 <= old + 1
      BY <1>4, <2>2 DEF old
    <3>3. s[n - L + 1] <= r - W
      <4>1. CASE n - L + 1 = old + 1
        BY <1>6, <3>1, <3>2, <4>1
      <4>2. CASE n - L + 1 \in 1 .. old
        BY <1>8, <4>2 DEF start
      <4>3. QED
        BY <1>5, <3>2, <4>1, <4>2
    <3>4. QED
      BY <1>6, <1>15, <3>2, <3>3
  <2>3. ASSUME m + 1 >= 2 * L PROVE now - s[m + 1 - 2 * L + 1] >= W
    <3>1. PICK n \in 1 .. m : n = m + 1 - L
      BY <2>3
    <3>2. n >= L /\ n - L + 1 = m + 1 - 2 * L + 1 /\ n - L + 1 \in 1 .. m
      BY <2>3, <3>1
    <3>3. s[n - L + 1] + W <= now /\ s[n - L + 1] \in Nat
      BY <1>6, <2>2, <3>2
    <3>4. QED
      BY <3>2, <3>3
  <2>4. \A n \in 1 .. m : n >= L => s[n - L + 1] + W <= now
    BY <2>2
  <2>5. PICK q \in Nat : q = now + W /\ q - W = now
    OBVIOUS
  <2>6. LimiterInv(d, t, now) /\ BurstsBounded(t)
    <3>1. /\ d = [count |-> 1, resetAt |-> q] /\ t[m + 1] = q - W
          /\ \A n \in 1 .. m : s[n] <= q - W
          /\ \A n \in 1 .. m : n >= L => s[n - L + 1] + W <= q - W
      BY <1>6, <1>11, <2>1, <2>4, <2>5
    <3>2. 1 \in 1 .. L /\ m = m + 1 - 1 /\ 1 <= m + 1
      OBVIOUS
    <3>3. QED
      BY <1>13, <2>3, <3>1, <3>2
  <2>7. QED
    BY <2>6 DEF d, t
<1>16. QED
  BY <1>14, <1>15

-----------------------------------------------------------------------------
(***************************************************************************)
(* The steps of the server, by what they do to each part of the state.     *)
(***************************************************************************)

\* Only Admit touches the limiter, and only the clock's tick the clock.
LEMMA LimiterStep ==
  ASSUME [Next]_vars
  PROVE  \/ UNCHANGED <<buckets, admitted>> /\ clock' \in {clock, clock + 1}
         \/ UNCHANGED clock /\ \E c \in Clients : Admit(c)
<1>1. ASSUME NEW c \in Clients, PostWatchlist(c) \/ DeleteWatchlist(c) \/ PostScan(c)
      PROVE  UNCHANGED clock /\ Admit(c)
  BY <1>1 DEF PostWatchlist, DeleteWatchlist, PostScan, AddStored, AddAsks,
              RemoveFromWatchlist, ScanBegins
<1>2. ASSUME NEW c \in Clients, AddProceeds(c) \/ ScanProceeds(c)
      PROVE  UNCHANGED <<clock, buckets, admitted>>
  BY <1>2 DEF AddProceeds, ScanProceeds, AddAnswered, AddSourceFails, MapAnswers,
              QuotesArrive, ScanFails, ScanProcesses, serverVars
<1>3. ASSUME LoopTick \/ LoopProceeds \/ LoopReturns
      PROVE  UNCHANGED <<clock, buckets, admitted>>
  BY <1>3 DEF LoopTick, LoopProceeds, LoopReturns, ScanBegins, MapAnswers,
              QuotesArrive, ScanFails, ScanProcesses, serverVars
<1>4. ASSUME Tick
      PROVE  UNCHANGED <<buckets, admitted>> /\ clock' = clock + 1
  BY <1>4 DEF Tick, TimePasses, serverVars
<1>5. ASSUME UNCHANGED vars
      PROVE  UNCHANGED <<clock, buckets, admitted>>
  BY <1>5 DEF vars, listVars, serverVars
<1>6. QED
  BY <1>1, <1>2, <1>3, <1>4, <1>5 DEF Next

LimitersInv ==
  /\ clock \in Nat
  /\ DOMAIN buckets = Addresses /\ DOMAIN admitted = Addresses
  /\ buckets = [ip \in Addresses |-> buckets[ip]]
  /\ admitted = [ip \in Addresses |-> admitted[ip]]
  /\ \A ip \in Addresses : /\ LimiterInv(buckets[ip], admitted[ip], clock)
                           /\ BurstsBounded(admitted[ip])

LEMMA LimitersStep ==
  ASSUME LimitersInv, [Next]_vars
  PROVE  LimitersInv'
<1>1. CASE UNCHANGED <<buckets, admitted>> /\ clock' \in {clock, clock + 1}
  <2>1. clock' \in Nat /\ clock <= clock'
    BY <1>1 DEF LimitersInv
  <2>2. ASSUME NEW b, NEW s, LimiterInv(b, s, clock) PROVE LimiterInv(b, s, clock')
    <3>1. \A n \in DOMAIN s : s[n] \in Nat /\ s[n] <= clock
      BY <2>2 DEF LimiterInv
    <3>2. \A n \in DOMAIN s : s[n] <= clock'
      BY <2>1, <3>1 DEF LimitersInv
    <3>3. QED
      BY <2>2, <3>2 DEF LimiterInv
  <2>3. QED
    BY <1>1, <2>1, <2>2 DEF LimitersInv
<1>2. ASSUME UNCHANGED clock, NEW c \in Clients, Admit(c)
      PROVE  LimitersInv'
  <2> DEFINE ip == Address[c]
             b == CurrentBucket(ip)
             d == [b EXCEPT !.count = @ + 1]
  <2>1. /\ ip \in Addresses
        /\ b = IF clock >= buckets[ip].resetAt
               THEN [count |-> 0, resetAt |-> clock + Window] ELSE buckets[ip]
        /\ b.count < MutationLimit
        /\ buckets' = [buckets EXCEPT ![ip] = d]
        /\ admitted' = [admitted EXCEPT ![ip] = Append(@, clock)]
    BY <1>2 DEF Admit, CurrentBucket, Addresses
  <2> HIDE DEF b
  <2>2. /\ LimiterInv(d, Append(admitted[ip], clock), clock)
        /\ BurstsBounded(Append(admitted[ip], clock))
    BY <2>1, AdmissionKeepsLimiter DEF LimitersInv
  <2> HIDE DEF ip, d
  <2>3. QED
    BY <1>2, <2>1, <2>2 DEF LimitersInv
<1>3. QED
  BY <1>1, <1>2, LimiterStep

\* The limiter admits no burst beyond twice its limit, wherever the stretch
\* of time starts (WindowAdmits): a window that starts with its first
\* request meets its predecessor's burst at most once.
THEOREM BurstsStayBounded == Spec => []WindowAdmits
<1>1. Init => LimitersInv
  <2> SUFFICES ASSUME Init PROVE LimitersInv
    OBVIOUS
  <2>1. <<>> \in Seq(Nat) /\ Len(<<>>) = 0 /\ DOMAIN <<>> = {}
    OBVIOUS
  <2>2. LimiterInv(NoBucket, <<>>, 0) /\ BurstsBounded(<<>>)
    BY <2>1, ServerAssumption DEF LimiterInv, NoBucket, BurstsBounded
  <2>3. QED
    BY <2>2 DEF Init, ListInit, LimitersInv
<1>2. LimitersInv /\ [Next]_vars => LimitersInv'
  BY LimitersStep
<1>3. LimitersInv => WindowAdmits
  BY DEF LimitersInv, BurstsBounded, WindowAdmits
<1>4. QED
  BY <1>1, <1>2, <1>3, PTL DEF Spec

-----------------------------------------------------------------------------
(***************************************************************************)
(* The limit of the watchlist.                                             *)
(***************************************************************************)

\* Clients with an add in flight that was not refused, and their assets.
PledgingIn(requests) ==
  {c \in Clients : requests[c] # NoAdd /\ ~requests[c].refused}

PledgedIn(requests) == {requests[c].asset : c \in PledgingIn(requests)}

\* What the list holds or is going to hold stays within the limit and one
\* place for each client but one.
PledgesBounded ==
  /\ IsFiniteSet(watchlist)
  /\ adds = [c \in Clients |-> adds[c]]
  /\ Cardinality(watchlist \cup PledgedIn(adds)) <= WatchLimit + Cardinality(Clients) - 1

\* There are no more assets pledged than clients that pledge.
LEMMA PledgedSize ==
  ASSUME NEW requests, NEW C, C \subseteq Clients, PledgingIn(requests) \subseteq C
  PROVE  /\ IsFiniteSet(PledgedIn(requests))
         /\ Cardinality(PledgedIn(requests)) \in Nat
         /\ Cardinality(PledgedIn(requests)) <= Cardinality(C)
<1> DEFINE P == PledgingIn(requests)
           f == [c \in P |-> requests[c].asset]
<1>1. IsFiniteSet(C)
  BY FS_Subset, WatchlistAssumption
<1>2. IsFiniteSet(P) /\ Cardinality(P) <= Cardinality(C)
  BY <1>1, FS_Subset
<1>3. f \in Surjection(P, PledgedIn(requests))
  BY DEF Surjection, PledgedIn
<1>4. IsFiniteSet(PledgedIn(requests)) /\ Cardinality(PledgedIn(requests)) <= Cardinality(P)
  BY <1>2, <1>3, FS_Surjection
<1>5. Cardinality(C) \in Nat /\ Cardinality(P) \in Nat /\ Cardinality(PledgedIn(requests)) \in Nat
  BY <1>1, <1>2, <1>4, FS_CardinalityType
<1>6. QED
  BY <1>2, <1>4, <1>5

\* A list below the limit and pledges of all clients, or a list one above it
\* and pledges of all but one, stay within the bound.
LEMMA RoomForPledges ==
  ASSUME NEW W, NEW P, NEW k \in Nat, IsFiniteSet(W), IsFiniteSet(P),
         Cardinality(P) <= k
  PROVE  /\ IsFiniteSet(W \cup P)
         /\ Cardinality(W \cup P) <= Cardinality(W) + k
<1>1. /\ IsFiniteSet(W \cup P) /\ IsFiniteSet(W \cap P)
      /\ Cardinality(W \cup P) = Cardinality(W) + Cardinality(P) - Cardinality(W \cap P)
  BY FS_Union, FS_Intersection
<1>2. Cardinality(W) \in Nat /\ Cardinality(P) \in Nat /\ Cardinality(W \cap P) \in Nat
  BY <1>1, FS_CardinalityType
<1>3. QED
  BY <1>1, <1>2

\* The steps by what they do to the list.
LEMMA ListStep ==
  ASSUME [Next]_vars
  PROVE  \/ UNCHANGED <<watchlist, adds>>
         \/ \E c \in Clients, a \in Assets :
              AddStored(c, a) \/ AddAsks(c, a) \/ RemoveFromWatchlist(c, a)
         \/ \E c \in Clients : AddAnswered(c) \/ AddSourceFails(c)
<1>1. ASSUME NEW c \in Clients, PostWatchlist(c) \/ DeleteWatchlist(c)
      PROVE  \E a \in Assets :
               AddStored(c, a) \/ AddAsks(c, a) \/ RemoveFromWatchlist(c, a)
  BY <1>1 DEF PostWatchlist, DeleteWatchlist
<1>2. ASSUME NEW k, ScanBegins(k) \/ MapAnswers(k) \/ QuotesArrive(k) \/ ScanFails(k)
                     \/ ScanProcesses(k)
      PROVE  UNCHANGED <<watchlist, adds>>
  BY <1>2 DEF ScanBegins, MapAnswers, QuotesArrive, ScanFails, ScanProcesses, storage
<1>3. ASSUME NEW c \in Clients, PostScan(c) \/ ScanProceeds(c)
      PROVE  UNCHANGED <<watchlist, adds>>
  BY <1>2, <1>3 DEF PostScan, ScanProceeds
<1>4. ASSUME NEW c \in Clients, AddProceeds(c)
      PROVE  AddAnswered(c) \/ AddSourceFails(c)
  BY <1>4 DEF AddProceeds
<1>5. ASSUME LoopTick \/ LoopProceeds \/ LoopReturns
      PROVE  UNCHANGED <<watchlist, adds>>
  BY <1>2, <1>5 DEF LoopTick, LoopProceeds, LoopReturns
<1>6. ASSUME Tick \/ UNCHANGED vars
      PROVE  UNCHANGED <<watchlist, adds>>
  BY <1>6 DEF Tick, TimePasses, storage, vars, listVars
<1>7. QED
  BY <1>1, <1>3, <1>4, <1>5, <1>6 DEF Next

LEMMA PledgesStep ==
  ASSUME PledgesBounded, [Next]_vars
  PROVE  PledgesBounded'
<1> DEFINE n == Cardinality(Clients)
           all == watchlist \cup PledgedIn(adds)
<1>1. n \in Nat /\ WatchLimit \in Nat \ {0} /\ IsFiniteSet(Clients)
  BY WatchlistAssumption, FS_CardinalityType
<1>2. IsFiniteSet(watchlist) /\ Cardinality(watchlist) \in Nat
  BY FS_CardinalityType DEF PledgesBounded
<1>3. /\ IsFiniteSet(PledgedIn(adds)) /\ Cardinality(PledgedIn(adds)) <= n
      /\ IsFiniteSet(all)
  BY <1>2, PledgedSize, FS_Union DEF PledgingIn
\* A step that adds nothing to either keeps the bound.
<1>4. ASSUME NEW W, NEW r, W \cup PledgedIn(r) \subseteq all
      PROVE  IsFiniteSet(W) /\ Cardinality(W \cup PledgedIn(r)) <= WatchLimit + n - 1
  <2>1. /\ IsFiniteSet(W \cup PledgedIn(r)) /\ IsFiniteSet(W)
        /\ Cardinality(W \cup PledgedIn(r)) <= Cardinality(all)
    BY <1>3, <1>4, FS_Subset
  <2>2. QED
    BY <1>1, <1>3, <2>1, FS_CardinalityType DEF PledgesBounded
<1>5. CASE UNCHANGED <<watchlist, adds>>
  BY <1>5 DEF PledgesBounded
<1>6. ASSUME NEW c \in Clients, NEW a \in Assets, AddStored(c, a)
      PROVE  PledgesBounded'
  <2>1. CASE Refused(a) \/ a \in watchlist
    <3>1. watchlist' = watchlist /\ adds' = adds
      BY <1>6, <2>1 DEF AddStored, WriteEntry
    <3>2. QED
      BY <1>5, <3>1
  <2>2. CASE a \notin watchlist /\ Cardinality(watchlist) < WatchLimit
    <3>1. watchlist' = watchlist \cup {a} /\ adds' = adds /\ adds[c] = NoAdd
      BY <1>1, <1>2, <1>6, <2>2 DEF AddStored, WriteEntry, Refused, Idle
    <3>2. /\ IsFiniteSet(Clients \ {c}) /\ Cardinality(Clients \ {c}) = n - 1
          /\ n - 1 \in Nat
      <4>1. IsFiniteSet(Clients \ {c}) /\ Cardinality(Clients \ {c}) = n - 1
        BY <1>1, FS_RemoveElement
      <4>2. Cardinality(Clients \ {c}) \in Nat
        BY <4>1, FS_CardinalityType
      <4>3. QED
        BY <4>1, <4>2
    <3>3. IsFiniteSet(PledgedIn(adds)) /\ Cardinality(PledgedIn(adds)) <= n - 1
      BY <3>1, <3>2, PledgedSize DEF PledgingIn
    <3>4. /\ IsFiniteSet(watchlist \cup {a})
          /\ Cardinality(watchlist \cup {a}) = Cardinality(watchlist) + 1
      BY <1>2, <2>2, FS_AddElement
    <3>5. Cardinality(watchlist \cup {a} \cup PledgedIn(adds))
            <= Cardinality(watchlist \cup {a}) + (n - 1)
      BY <3>2, <3>3, <3>4, RoomForPledges
    <3>6. Cardinality(watchlist \cup {a} \cup PledgedIn(adds)) \in Nat
      BY <3>3, <3>4, FS_Union, FS_CardinalityType
    <3>7. Cardinality(watchlist \cup {a} \cup PledgedIn(adds)) <= WatchLimit + n - 1
      BY <1>1, <1>2, <2>2, <3>4, <3>5, <3>6
    <3>8. QED
      BY <3>1, <3>4, <3>7 DEF PledgesBounded
  <2>3. QED
    BY <1>1, <1>2, <2>1, <2>2 DEF Refused
<1>7. ASSUME NEW c \in Clients, NEW a \in Assets, AddAsks(c, a)
      PROVE  PledgesBounded'
  <2> DEFINE r == [adds EXCEPT ![c] = [asset |-> a, refused |-> Refused(a)]]
  <2>1. watchlist' = watchlist /\ adds' = r
    BY <1>7 DEF AddAsks, storage
  <2>2. r = [d \in Clients |-> r[d]] /\ \A d \in Clients \ {c} : r[d] = adds[d]
    BY DEF PledgesBounded
  <2>3. r[c].asset = a /\ r[c].refused = Refused(a)
    BY DEF PledgesBounded
  <2> HIDE DEF r
  <2>4. IsFiniteSet(watchlist) /\ Cardinality(watchlist \cup PledgedIn(r)) <= WatchLimit + n - 1
    <3>1. CASE Refused(a) \/ a \in watchlist
      <4>1. PledgedIn(r) \subseteq all
        BY <2>2, <2>3, <3>1 DEF PledgedIn, PledgingIn
      <4>2. QED
        BY <1>4, <4>1
    <3>2. CASE Cardinality(watchlist) < WatchLimit
      <4>1. IsFiniteSet(PledgedIn(r)) /\ Cardinality(PledgedIn(r)) <= n
        BY PledgedSize DEF PledgingIn
      <4>2. Cardinality(watchlist \cup PledgedIn(r)) <= Cardinality(watchlist) + n
        BY <1>1, <1>2, <4>1, RoomForPledges
      <4>3. Cardinality(watchlist \cup PledgedIn(r)) \in Nat
        BY <1>2, <4>1, FS_Union, FS_CardinalityType
      <4>4. QED
        BY <1>1, <1>2, <3>2, <4>2, <4>3
    <3>3. QED
      BY <1>1, <1>2, <3>1, <3>2 DEF Refused
  <2>5. QED
    BY <2>1, <2>2, <2>4 DEF PledgesBounded
<1>8. ASSUME NEW c \in Clients, NEW a \in Assets, RemoveFromWatchlist(c, a)
      PROVE  PledgesBounded'
  <2>1. watchlist' = watchlist \ {a} /\ adds' = adds
    BY <1>8 DEF RemoveFromWatchlist
  <2>2. (watchlist \ {a}) \cup PledgedIn(adds) \subseteq all
    OBVIOUS
  <2>3. QED
    BY <1>4, <2>1, <2>2 DEF PledgesBounded
\* An answered add, if it was not refused, writes what it had pledged.
<1>9. ASSUME NEW c \in Clients, AddAnswered(c) \/ AddSourceFails(c)
      PROVE  PledgesBounded'
  <2> DEFINE r == [adds EXCEPT ![c] = NoAdd]
  <2>1. /\ adds[c] # NoAdd /\ adds' = r
        /\ \/ watchlist' = watchlist
           \/ ~adds[c].refused /\ watchlist' = watchlist \cup {adds[c].asset}
    BY <1>9 DEF AddAnswered, AddSourceFails, WriteEntry, storage
  <2>2. /\ r = [d \in Clients |-> r[d]] /\ r[c] = NoAdd
        /\ \A d \in Clients \ {c} : r[d] = adds[d]
    BY DEF PledgesBounded
  <2> HIDE DEF r
  <2>3. watchlist' \cup PledgedIn(r) \subseteq all
    BY <2>1, <2>2 DEF PledgedIn, PledgingIn
  <2>4. QED
    BY <1>4, <2>1, <2>2, <2>3 DEF PledgesBounded
<1>10. QED
  BY <1>5, <1>6, <1>7, <1>8, <1>9, ListStep

\* The watchlist exceeds its limit only by adds in flight together
\* (OverrunNeedsOverlap): what a client has pledged but not written counts
\* against the bound from the moment it passed the comparison.
THEOREM OverrunIsBounded == Spec => []OverrunNeedsOverlap
<1>1. Init => PledgesBounded
  <2> SUFFICES ASSUME Init PROVE PledgesBounded
    OBVIOUS
  <2>1. watchlist = {} /\ adds = [c \in Clients |-> NoAdd]
    BY DEF Init, ListInit
  <2>2. watchlist \cup PledgedIn(adds) = {}
    BY <2>1 DEF PledgedIn, PledgingIn
  <2>3. IsFiniteSet(watchlist) /\ Cardinality({}) = 0
    BY <2>1, FS_EmptySet
  <2>4. Cardinality(Clients) \in Nat /\ WatchLimit \in Nat \ {0}
    BY WatchlistAssumption, FS_CardinalityType
  <2>5. QED
    BY <2>1, <2>2, <2>3, <2>4 DEF PledgesBounded
<1>2. PledgesBounded /\ [Next]_vars => PledgesBounded'
  BY PledgesStep
<1>3. PledgesBounded => OverrunNeedsOverlap
  <2> SUFFICES ASSUME PledgesBounded PROVE OverrunNeedsOverlap
    OBVIOUS
  <2>1. IsFiniteSet(watchlist \cup PledgedIn(adds))
    BY PledgedSize, FS_Union DEF PledgesBounded, PledgingIn
  <2>2. Cardinality(watchlist) <= Cardinality(watchlist \cup PledgedIn(adds))
    BY <2>1, FS_Subset
  <2>3. /\ Cardinality(watchlist) \in Nat
        /\ Cardinality(watchlist \cup PledgedIn(adds)) \in Nat
        /\ Cardinality(Clients) \in Nat /\ WatchLimit \in Nat
    BY <2>1, WatchlistAssumption, FS_CardinalityType DEF PledgesBounded
  <2>4. QED
    BY <2>2, <2>3 DEF PledgesBounded, OverrunNeedsOverlap
<1>4. QED
  BY <1>1, <1>2, <1>3, PTL DEF Spec

-----------------------------------------------------------------------------
(***************************************************************************)
(* Retention.                                                              *)
(***************************************************************************)

\* What a scan carries: the time it began, which retention counts from, and
\* the time its quotes were received.
ScanTimes(scan) ==
  /\ scan.pc # "idle" => scan.now \in Nat /\ scan.now <= clock
  /\ scan.pc = "info" => scan.retrieved \in Nat

RowsHaveTimes(rows) == \A o \in DOMAIN rows : rows[o] \in Nat

CitesHaveTimes(s) == \A o \in DOMAIN s.cites : s.cites[o] \in Nat

\* The row of what was first retrieved within the period is there, under
\* that time or, where it was stored anew since, a later one.
Backed(s) ==
  Retention > 0 =>
    \A o \in DOMAIN s.cites :
      s.cites[o] >= clock - Retention =>
        o \in DOMAIN observations /\ s.cites[o] <= observations[o]

EventsAreRows ==
  \A e \in events : e = [asset |-> e.asset, open |-> e.open, latest |-> e.latest]

RetentionInv ==
  /\ clock \in Nat
  /\ scans = [k \in Scanners |-> scans[k]]
  /\ \A k \in Scanners : ScanTimes(scans[k])
  /\ RowsHaveTimes(observations)
  /\ \A s \in snapshots : CitesHaveTimes(s) /\ Backed(s)
  /\ EventsAreRows
  /\ \A e \in events : \E s \in snapshots : s.id = e.latest

\* The steps by what they do to the tables and the scans.
LEMMA TablesStep ==
  ASSUME [Next]_vars
  PROVE  \/ UNCHANGED <<clock, observations, snapshots, events, scans>>
         \/ clock' = clock + 1 /\ UNCHANGED <<observations, snapshots, events, scans>>
         \/ \E k \in Scanners : \/ ScanBegins(k) \/ MapAnswers(k) \/ QuotesArrive(k)
                                \/ ScanFails(k) \/ ScanProcesses(k)
<1>1. Loop \in Scanners /\ Clients \subseteq Scanners
  BY DEF Scanners
<1>2. ASSUME NEW c \in Clients, PostWatchlist(c) \/ DeleteWatchlist(c) \/ AddProceeds(c)
      PROVE  UNCHANGED <<clock, observations, snapshots, events, scans>>
  BY <1>2 DEF PostWatchlist, DeleteWatchlist, AddProceeds, AddStored, AddAsks,
              RemoveFromWatchlist, AddAnswered, AddSourceFails, storage
<1>3. ASSUME NEW c \in Clients, PostScan(c) \/ ScanProceeds(c)
      PROVE  \/ ScanBegins(c) \/ MapAnswers(c) \/ QuotesArrive(c)
             \/ ScanFails(c) \/ ScanProcesses(c)
  BY <1>3 DEF PostScan, ScanProceeds
<1>4. ASSUME LoopTick \/ LoopProceeds \/ LoopReturns
      PROVE  \/ ScanBegins(Loop) \/ MapAnswers(Loop) \/ QuotesArrive(Loop)
             \/ ScanFails(Loop) \/ ScanProcesses(Loop)
  BY <1>4 DEF LoopTick, LoopProceeds, LoopReturns
<1>5. ASSUME Tick
      PROVE  clock' = clock + 1 /\ UNCHANGED <<observations, snapshots, events, scans>>
  BY <1>5 DEF Tick, TimePasses, storage
<1>6. ASSUME UNCHANGED vars
      PROVE  UNCHANGED <<clock, observations, snapshots, events, scans>>
  BY <1>6 DEF vars, listVars, storage
<1>7. QED
  BY <1>1, <1>2, <1>3, <1>4, <1>5, <1>6 DEF Next

\* insertObservation keeps the rows it finds and their times, and stores the
\* evidence of every snapshot the scan is going to store.
LEMMA InsertedRows ==
  ASSUME NEW entries, NEW t \in Nat, RowsHaveTimes(observations)
  PROVE  LET rows == InsertObservations(entries, t) IN
         /\ RowsHaveTimes(rows)
         /\ \A o \in DOMAIN observations : o \in DOMAIN rows /\ rows[o] = observations[o]
         /\ \A a \in entries : \A o \in Evidence(a, t) :
              o \in DOMAIN rows /\ rows[o] = FirstRetrieved(o, t)
<1> DEFINE new == UNION {Evidence(a, t) : a \in entries}
           rows == InsertObservations(entries, t)
<1>1. \A a \in entries : \A o \in Evidence(a, t) : o \in new
  OBVIOUS
<1>2. rows = [o \in DOMAIN observations \cup new |-> FirstRetrieved(o, t)]
  BY DEF InsertObservations
<1> HIDE DEF new, rows
<1>3. RowsHaveTimes(rows)
  BY <1>2 DEF RowsHaveTimes, FirstRetrieved
<1>4. \A o \in DOMAIN observations : o \in DOMAIN rows /\ rows[o] = observations[o]
  BY <1>2 DEF FirstRetrieved
<1>5. \A a \in entries : \A o \in Evidence(a, t) :
        o \in DOMAIN rows /\ rows[o] = FirstRetrieved(o, t)
  BY <1>1, <1>2
<1>6. QED
  BY <1>3, <1>4, <1>5 DEF rows

\* A snapshot cites its evidence at the times the rows are stored under.
LEMMA StoredSnapshot ==
  ASSUME NEW scan, NEW s \in SnapshotsOf(scan)
  PROVE  \E a \in scan.entries :
           s.cites = [o \in Evidence(a, scan.retrieved) |-> FirstRetrieved(o, scan.retrieved)]
  BY DEF SnapshotsOf

LEMMA ScanProcessesKeepsRetention ==
  ASSUME RetentionInv, NEW k \in Scanners, ScanProcesses(k)
  PROVE  RetentionInv'
<1> DEFINE scan == scans[k]
           cutoff == IF Retention > 0 THEN scan.now - Retention ELSE 0
           stored == InsertObservations(scan.entries, scan.retrieved)
<1>1. PICK anomalous \in SUBSET scan.entries :
        /\ events' = EventsAfter(scan, anomalous)
        /\ snapshots' = {s \in snapshots \cup SnapshotsOf(scan) :
                           ~Prunable(s, cutoff,
                                     {e.latest : e \in EventsAfter(scan, anomalous)})}
  BY DEF ScanProcesses
<1>2. /\ observations' = [o \in {p \in DOMAIN stored : stored[p] >= cutoff} |-> stored[o]]
      /\ scans' = [scans EXCEPT ![k] = NoScan]
      /\ clock' = clock /\ scan.pc = "info"
  BY DEF ScanProcesses
<1>3. /\ clock \in Nat /\ Retention \in Nat
      /\ scan.now \in Nat /\ scan.now <= clock /\ scan.retrieved \in Nat
  BY <1>2, WatchlistAssumption DEF RetentionInv, ScanTimes
<1>4. /\ RowsHaveTimes(stored)
      /\ \A o \in DOMAIN observations : o \in DOMAIN stored /\ stored[o] = observations[o]
      /\ \A a \in scan.entries : \A o \in Evidence(a, scan.retrieved) :
           o \in DOMAIN stored /\ stored[o] = FirstRetrieved(o, scan.retrieved)
  BY <1>3, InsertedRows DEF RetentionInv
<1>5. cutoff \in Int /\ (Retention > 0 => cutoff <= clock - Retention)
  BY <1>3
<1> HIDE DEF cutoff, stored
<1>6. RowsHaveTimes(observations')
  BY <1>2, <1>4 DEF RowsHaveTimes
<1>7. \A s \in snapshots' : s \in snapshots \cup SnapshotsOf(scan)
  BY <1>1
\* What a snapshot cites from within the period is stored before the cut,
\* under a time no earlier.
<1>8. ASSUME NEW s \in snapshots \cup SnapshotsOf(scan)
      PROVE  /\ CitesHaveTimes(s)
             /\ Retention > 0 =>
                  \A o \in DOMAIN s.cites : s.cites[o] >= clock - Retention =>
                    o \in DOMAIN stored /\ s.cites[o] <= stored[o]
  <2>1. CASE s \in snapshots
    BY <1>4, <2>1 DEF RetentionInv, Backed
  <2>2. CASE s \in SnapshotsOf(scan)
    <3>1. PICK a \in scan.entries :
            s.cites = [o \in Evidence(a, scan.retrieved) |-> FirstRetrieved(o, scan.retrieved)]
      BY <2>2, StoredSnapshot
    <3>2. ASSUME NEW o \in DOMAIN s.cites
          PROVE  o \in DOMAIN stored /\ s.cites[o] = stored[o] /\ stored[o] \in Nat
      BY <1>4, <3>1 DEF RowsHaveTimes
    <3>3. QED
      BY <3>2 DEF CitesHaveTimes
  <2>3. QED
    BY <2>1, <2>2
\* It survives the cut.
<1>9. ASSUME NEW s \in snapshots'
      PROVE  CitesHaveTimes(s) /\ Backed(s)'
  <2>1. s \in snapshots \cup SnapshotsOf(scan)
    BY <1>7
  <2>2. CitesHaveTimes(s)
    BY <1>8, <2>1
  <2>3. ASSUME Retention > 0, NEW o \in DOMAIN s.cites, s.cites[o] >= clock - Retention
        PROVE  o \in DOMAIN observations' /\ s.cites[o] <= observations'[o]
    <3>1. o \in DOMAIN stored /\ s.cites[o] <= stored[o]
      BY <1>8, <2>1, <2>3
    <3>2. stored[o] \in Nat /\ s.cites[o] \in Nat
      BY <1>4, <2>2, <3>1 DEF RowsHaveTimes, CitesHaveTimes
    <3>3. stored[o] >= cutoff
      BY <1>3, <1>5, <2>3, <3>1, <3>2
    <3>4. QED
      BY <1>2, <3>1, <3>3
  <2>4. QED
    BY <1>2, <2>2, <2>3 DEF Backed
\* An event refers to the snapshot it referred to, or to that of its entry.
<1>11. ASSUME NEW e \in events'
       PROVE  /\ e = [asset |-> e.asset, open |-> e.open, latest |-> e.latest]
              /\ \E s \in snapshots \cup SnapshotsOf(scan) : s.id = e.latest
  <2>1. ASSUME NEW a \in scan.entries
        PROVE  \E s \in SnapshotsOf(scan) : s.id = <<scan.id, a>>
    <3> DEFINE s == [id |-> <<scan.id, a>>, at |-> scan.now,
                     cites |-> [o \in Evidence(a, scan.retrieved) |->
                                  FirstRetrieved(o, scan.retrieved)]]
    <3>1. s \in SnapshotsOf(scan) /\ s.id = <<scan.id, a>>
      BY <2>1 DEF SnapshotsOf
    <3>2. QED
      BY <3>1
  <2>2. CASE \E f \in events :
               e = IF f.open /\ f.asset \in scan.entries
                   THEN [f EXCEPT !.open = f.asset \in anomalous,
                                  !.latest = <<scan.id, f.asset>>]
                   ELSE f
    <3>1. PICK f \in events :
               e = IF f.open /\ f.asset \in scan.entries
                   THEN [f EXCEPT !.open = f.asset \in anomalous,
                                  !.latest = <<scan.id, f.asset>>]
                   ELSE f
      BY <2>2
    <3>2. f = [asset |-> f.asset, open |-> f.open, latest |-> f.latest]
      BY DEF RetentionInv, EventsAreRows
    <3>3. CASE f.open /\ f.asset \in scan.entries
      <4>1. e = [asset |-> f.asset, open |-> f.asset \in anomalous,
                 latest |-> <<scan.id, f.asset>>]
        BY <3>1, <3>2, <3>3
      <4>2. QED
        BY <2>1, <3>3, <4>1
    <3>4. CASE ~(f.open /\ f.asset \in scan.entries)
      <4>1. e = f
        BY <3>1, <3>4
      <4>2. QED
        BY <3>2, <4>1 DEF RetentionInv
    <3>5. QED
      BY <3>3, <3>4
  <2>3. CASE \E a \in anomalous : e = [asset |-> a, open |-> TRUE, latest |-> <<scan.id, a>>]
    <3>1. PICK a \in anomalous : e = [asset |-> a, open |-> TRUE, latest |-> <<scan.id, a>>]
      BY <2>3
    <3>2. a \in scan.entries
      BY <3>1, <1>1
    <3>3. QED
      BY <2>1, <3>1, <3>2
  <2>4. QED
    BY <1>1, <2>2, <2>3 DEF EventsAfter
\* The snapshot an event refers to survives the cut.
<1>12. ASSUME NEW e \in events'
       PROVE  \E s \in snapshots' : s.id = e.latest
  BY <1>1, <1>11 DEF Prunable
<1>13. /\ scans' = [j \in Scanners |-> scans'[j]]
       /\ \A j \in Scanners : scans'[j] = scans[j] \/ scans'[j].pc = "idle"
  BY <1>2 DEF RetentionInv, NoScan
<1>14. \A j \in Scanners : ScanTimes(scans[j])'
  BY <1>2, <1>13 DEF RetentionInv, ScanTimes
<1>15. \A s \in snapshots' : (CitesHaveTimes(s) /\ Backed(s))'
  BY <1>9 DEF CitesHaveTimes, Backed
<1>16. RowsHaveTimes(observations)'
  BY <1>6 DEF RowsHaveTimes
<1>17. EventsAreRows'
  BY <1>11 DEF EventsAreRows
<1>18. QED
  BY <1>2, <1>3, <1>12, <1>13, <1>14, <1>15, <1>16, <1>17 DEF RetentionInv

LEMMA RetentionStep ==
  ASSUME RetentionInv, [Next]_vars
  PROVE  RetentionInv'
<1>1. CASE UNCHANGED <<clock, observations, snapshots, events, scans>>
  BY <1>1 DEF RetentionInv, ScanTimes, RowsHaveTimes, EventsAreRows, CitesHaveTimes, Backed
<1>2. CASE clock' = clock + 1 /\ UNCHANGED <<observations, snapshots, events, scans>>
  <2>1. clock \in Nat /\ clock' \in Nat /\ Retention \in Nat
    BY <1>2, WatchlistAssumption DEF RetentionInv
  <2>2. \A k \in Scanners : ScanTimes(scans[k])'
    BY <1>2, <2>1 DEF RetentionInv, ScanTimes
  <2>3. ASSUME NEW s \in snapshots
        PROVE  (CitesHaveTimes(s) /\ Backed(s))'
    <3>1. CitesHaveTimes(s) /\ Backed(s)
      BY DEF RetentionInv
    <3>2. \A o \in DOMAIN s.cites :
            s.cites[o] >= clock' - Retention => s.cites[o] >= clock - Retention
      BY <1>2, <2>1, <3>1 DEF CitesHaveTimes
    <3>3. QED
      BY <1>2, <3>1, <3>2 DEF CitesHaveTimes, Backed
  <2>4. QED
    BY <1>2, <2>1, <2>2, <2>3 DEF RetentionInv, RowsHaveTimes, EventsAreRows
\* A scan that goes on keeps the time it began at.
<1>3. ASSUME NEW k \in Scanners,
             ScanBegins(k) \/ MapAnswers(k) \/ QuotesArrive(k) \/ ScanFails(k)
      PROVE  RetentionInv'
  <2>1. UNCHANGED <<clock, observations, snapshots, events>>
    BY <1>3 DEF ScanBegins, MapAnswers, QuotesArrive, ScanFails, storage
  <2>2. clock \in Nat
    BY DEF RetentionInv
  <2>3. PICK new : scans' = [scans EXCEPT ![k] = new] /\ ScanTimes(new)
    <3>1. CASE ScanBegins(k)
      <4>1. scans' = [scans EXCEPT ![k] = [pc |-> "map", id |-> begun + 1, now |-> clock,
                                           asked |-> watchlist]]
        BY <3>1 DEF ScanBegins
      <4>2. ScanTimes([pc |-> "map", id |-> begun + 1, now |-> clock, asked |-> watchlist])
        BY <2>2 DEF ScanTimes
      <4>3. QED
        BY <4>1, <4>2
    <3>2. CASE MapAnswers(k)
      <4> DEFINE ids == ResolveWatchlist(scans[k].asked)
                 new == [pc |-> "quotes", id |-> scans[k].id, now |-> scans[k].now,
                         ids |-> ids]
      <4>1. scans' = [scans EXCEPT ![k] = new] /\ scans[k].pc = "map"
        BY <3>2 DEF MapAnswers, RetentionInv
      <4>2. ScanTimes(new)
        BY <4>1 DEF ScanTimes, RetentionInv
      <4>3. QED
        BY <4>1, <4>2
    <3>3. CASE QuotesArrive(k)
      <4>1. PICK entries :
              scans' = [scans EXCEPT ![k] = [pc |-> "info", id |-> scans[k].id,
                          now |-> scans[k].now, entries |-> entries, retrieved |-> clock]]
        BY <3>3 DEF QuotesArrive, RetentionInv
      <4>2. scans[k].pc = "quotes"
        BY <3>3 DEF QuotesArrive
      <4>3. ScanTimes([pc |-> "info", id |-> scans[k].id, now |-> scans[k].now,
                       entries |-> entries, retrieved |-> clock])
        BY <2>2, <4>2 DEF ScanTimes, RetentionInv
      <4>4. QED
        BY <4>1, <4>3
    <3>4. CASE ScanFails(k)
      <4>1. scans' = [scans EXCEPT ![k] = NoScan]
        BY <3>4 DEF ScanFails
      <4>2. ScanTimes(NoScan)
        BY DEF NoScan, ScanTimes
      <4>3. QED
        BY <4>1, <4>2
    <3>5. QED
      BY <1>3, <3>1, <3>2, <3>3, <3>4
  <2>4. /\ scans' = [j \in Scanners |-> scans'[j]]
        /\ \A j \in Scanners : ScanTimes(scans[j])'
    BY <2>1, <2>3 DEF RetentionInv, ScanTimes
  <2>5. QED
    BY <2>1, <2>4 DEF RetentionInv, RowsHaveTimes, EventsAreRows, CitesHaveTimes, Backed
<1>4. QED
  BY <1>1, <1>2, <1>3, ScanProcessesKeepsRetention, TablesStep

\* What retention leaves (RetentionKeepsRecent), for every period and however
\* scans overlap: a scan's cutoff lies no later than the clock's, and what is
\* under the key of a row from within the period was stored no earlier.
THEOREM RetentionIsSafe == Spec => []RetentionKeepsRecent
<1>1. Init => RetentionInv
  BY DEF Init, ListInit, RetentionInv, ScanTimes, NoScan, RowsHaveTimes, EventsAreRows
<1>2. RetentionInv /\ [Next]_vars => RetentionInv'
  BY RetentionStep
<1>3. RetentionInv => RetentionKeepsRecent
  BY DEF RetentionInv, RetentionKeepsRecent, Backed
<1>4. QED
  BY <1>1, <1>2, <1>3, PTL DEF Spec
=============================================================================

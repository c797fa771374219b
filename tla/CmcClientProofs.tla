--------------------------- MODULE CmcClientProofs ---------------------------
(***************************************************************************)
(* What the rate limiter and the cache of the CMC client keep to, for any  *)
(* number of callers, any budget, any length of the window and any delays. *)
(***************************************************************************)
EXTENDS CmcClient, TLAPS, FiniteSetTheorems, SequenceTheorems

-----------------------------------------------------------------------------
(***************************************************************************)
(* Sequences of ages, the oldest first.                                    *)
(***************************************************************************)

\* Induction over numbers: a set of them that is not empty has a least one.
Less == {pair \in Nat \X Nat : pair[1] < pair[2]}

LEMMA LeastNumber ==
  ASSUME NEW S \in SUBSET Nat, S # {}
  PROVE  \E n \in S : \A m \in S : n <= m
  <1>1. IsWellFoundedOn(Less, Nat)
    BY NatLessThanWellFounded DEF OpToRel, Less
  <1>2. PICK n \in S : \A m \in S : <<m, n>> \notin Less
    BY <1>1, WFMin
  <1>3. ASSUME NEW m \in S, m < n PROVE <<m, n>> \in Less
    BY <1>3 DEF Less
  <1>4. \A m \in S : ~(m < n)
    BY <1>2, <1>3
  <1>. QED
    BY <1>4

OldestFirst(s) == \A j, k \in DOMAIN s : j <= k => s[j] >= s[k]

\* The expired ages are the first ones.
LEMMA ExpiredAreFirst ==
  ASSUME NEW s \in Seq(Nat), OldestFirst(s)
  PROVE  /\ Expired(s) \in 0 .. Len(s)
         /\ \A k \in DOMAIN s : s[k] >= Minute <=> k <= Expired(s)
  <1>. DEFINE young == {k \in 1 .. Len(s) + 1 : k = Len(s) + 1 \/ s[k] < Minute}
  <1>1. young \in SUBSET Nat /\ Len(s) + 1 \in young
    OBVIOUS
  <1>2. PICK n \in young : \A m \in young : n <= m
    BY <1>1, LeastNumber
  <1>3. n \in 1 .. Len(s) + 1
    BY <1>2
  <1>4. ASSUME NEW k \in DOMAIN s PROVE s[k] >= Minute <=> k <= n - 1
    <2>1. k \in 1 .. Len(s) /\ s[k] \in Nat
      OBVIOUS
    <2>2. k < n => s[k] >= Minute
      BY <1>2, <2>1, LimitsAssumption
    <2>3. k >= n => s[n] >= s[k] /\ s[n] < Minute /\ s[n] \in Nat
      BY <1>2, <2>1 DEF OldestFirst
    <2>. QED
      BY <1>3, <2>1, <2>2, <2>3, LimitsAssumption
  <1>5. {k \in DOMAIN s : s[k] >= Minute} = 1 .. n - 1
    BY <1>3, <1>4
  <1>6. Cardinality(1 .. n - 1) = n - 1
    BY <1>3, FS_Interval
  <1>7. Expired(s) = n - 1
    BY <1>5, <1>6 DEF Expired
  <1>. QED
    BY <1>3, <1>4, <1>7

LEMMA ExpiredIs ==
  ASSUME NEW s \in Seq(Nat), NEW n \in 0 .. Len(s),
         \A k \in DOMAIN s : s[k] >= Minute <=> k <= n
  PROVE  Expired(s) = n
  <1>1. {k \in DOMAIN s : s[k] >= Minute} = 1 .. n
    OBVIOUS
  <1>2. Cardinality(1 .. n) = n
    BY FS_Interval
  <1>. QED
    BY <1>1, <1>2 DEF Expired

LEMMA Dropped ==
  ASSUME NEW A, NEW s \in Seq(A), NEW m \in 0 .. Len(s)
  PROVE  /\ SubSeq(s, m + 1, Len(s)) \in Seq(A)
         /\ Len(SubSeq(s, m + 1, Len(s))) = Len(s) - m
         /\ \A k \in 1 .. Len(s) - m : SubSeq(s, m + 1, Len(s))[k] = s[k + m]
  <1>. DEFINE rest == SubSeq(s, m + 1, Len(s))
  <1>1. \A k \in m + 1 .. Len(s) : s[k] \in A
    OBVIOUS
  <1>2. /\ rest \in Seq(A)
        /\ Len(rest) = IF m + 1 <= Len(s) THEN Len(s) - (m + 1) + 1 ELSE 0
        /\ \A k \in 1 .. Len(s) - (m + 1) + 1 : rest[k] = s[(m + 1) + k - 1]
    BY <1>1, SubSeqProperties
  <1>. HIDE DEF rest
  <1>3. Len(rest) = Len(s) - m
    BY <1>2
  <1>4. ASSUME NEW k \in 1 .. Len(s) - m PROVE rest[k] = s[k + m]
    <2>1. (m + 1) + k - 1 = k + m /\ k \in 1 .. Len(s) - (m + 1) + 1
      OBVIOUS
    <2>. QED
      BY <1>2, <2>1
  <1>. QED
    BY <1>2, <1>3, <1>4 DEF rest

LEMMA NarrowSeq ==
  ASSUME NEW A, NEW B, NEW s \in Seq(A), \A k \in 1 .. Len(s) : s[k] \in B
  PROVE  s \in Seq(B)
  OBVIOUS

\* The filter of the throttle keeps the ages of the last minute, in order.
LEMMA RecentAges ==
  ASSUME NEW s \in Seq(0 .. Minute), OldestFirst(s)
  PROVE  /\ Recent(s) \in Seq(0 .. Minute - 1)
         /\ Len(Recent(s)) = Len(s) - Expired(s)
         /\ \A k \in 1 .. Len(s) - Expired(s) : Recent(s)[k] = s[k + Expired(s)]
         /\ OldestFirst(Recent(s))
  <1>1. s \in Seq(Nat) /\ Minute \in Nat \ {0}
    BY LimitsAssumption
  <1>2. /\ Expired(s) \in 0 .. Len(s)
        /\ \A k \in DOMAIN s : s[k] >= Minute <=> k <= Expired(s)
    BY <1>1, ExpiredAreFirst
  <1>. DEFINE e == Expired(s)
  <1>3. /\ Recent(s) \in Seq(0 .. Minute)
        /\ Len(Recent(s)) = Len(s) - e
        /\ \A k \in 1 .. Len(s) - e : Recent(s)[k] = s[k + e]
    BY <1>1, <1>2, Dropped DEF Recent
  <1>. HIDE DEF e
  <1>4. e \in 0 .. Len(s)
    BY <1>2 DEF e
  <1>5. \A k \in 1 .. Len(s) - e : Recent(s)[k] \in 0 .. Minute - 1
    <2>1. SUFFICES ASSUME NEW k \in 1 .. Len(s) - e PROVE s[k + e] \in 0 .. Minute - 1
      BY <1>3
    <2>2. k + e \in DOMAIN s /\ ~(k + e <= e)
      BY <1>4
    <2>. QED
      BY <1>1, <1>2, <2>2 DEF e
  <1>6. Recent(s) \in Seq(0 .. Minute - 1)
    BY <1>3, <1>5, NarrowSeq
  <1>7. OldestFirst(Recent(s))
    <2>1. SUFFICES ASSUME NEW j \in 1 .. Len(s) - e, NEW k \in 1 .. Len(s) - e, j <= k
                   PROVE  s[j + e] >= s[k + e]
      BY <1>3, <1>4 DEF OldestFirst
    <2>2. j + e \in DOMAIN s /\ k + e \in DOMAIN s /\ j + e <= k + e
      BY <1>4, <2>1
    <2>. QED
      BY <2>2 DEF OldestFirst
  <1>. QED
    BY <1>3, <1>6, <1>7 DEF e

\* Ages of the last minute are all kept.
LEMMA RecentIsAll ==
  ASSUME NEW s \in Seq(0 .. Minute - 1)
  PROVE  Recent(s) = s
  <1>1. s \in Seq(Nat) /\ \A k \in DOMAIN s : ~(s[k] >= Minute)
    BY LimitsAssumption
  <1>2. Expired(s) = 0
    BY <1>1, ExpiredIs
  <1>. QED
    BY <1>2 DEF Recent

LEMMA AppendNow ==
  ASSUME NEW s \in Seq(0 .. Minute - 1), OldestFirst(s)
  PROVE  /\ Append(s, 0) \in Seq(0 .. Minute - 1)
         /\ OldestFirst(Append(s, 0))
  <1>1. 0 \in 0 .. Minute - 1
    BY LimitsAssumption
  <1>2. /\ Append(s, 0) \in Seq(0 .. Minute - 1) /\ Len(Append(s, 0)) = Len(s) + 1
        /\ \A k \in 1 .. Len(s) : Append(s, 0)[k] = s[k]
        /\ Append(s, 0)[Len(s) + 1] = 0
    BY <1>1
  <1>3. ASSUME NEW j \in 1 .. Len(s) + 1, NEW k \in 1 .. Len(s) + 1, j <= k
        PROVE  Append(s, 0)[j] >= Append(s, 0)[k]
    <2>1. CASE k = Len(s) + 1
      <3>1. j \in 1 .. Len(s) => Append(s, 0)[j] = s[j] /\ s[j] \in 0 .. Minute - 1
        BY <1>2, ElementOfSeq
      <3>2. j \in 1 .. Len(s) \/ Append(s, 0)[j] = 0
        BY <1>2
      <3>. QED
        BY <1>2, <2>1, <3>1, <3>2, LimitsAssumption
    <2>2. CASE k # Len(s) + 1
      <3>1. j \in 1 .. Len(s) /\ k \in 1 .. Len(s)
        BY <1>3, <2>2
      <3>2. s[j] >= s[k]
        BY <1>3, <3>1 DEF OldestFirst
      <3>. QED
        BY <1>2, <3>1, <3>2
    <2>. QED
      BY <2>1, <2>2
  <1>4. DOMAIN Append(s, 0) = 1 .. Len(s) + 1
    BY <1>2
  <1>. QED
    BY <1>2, <1>3, <1>4 DEF OldestFirst

-----------------------------------------------------------------------------
(***************************************************************************)
(* The limiter.                                                            *)
(***************************************************************************)
LetOutCall == [waited : BOOLEAN, age : 0 .. Minute - 1]

LEMMA CallFields ==
  \A r \in LetOutCall : r.age \in 0 .. Minute - 1 /\ r.waited \in BOOLEAN
  BY DEF LetOutCall

LEMMA AgesOf ==
  ASSUME NEW s \in Seq(LetOutCall)
  PROVE  /\ Ages(s) \in Seq(0 .. Minute - 1) /\ Len(Ages(s)) = Len(s)
         /\ \A k \in 1 .. Len(s) : Ages(s)[k] = s[k].age
  <1>1. DOMAIN s = 1 .. Len(s) /\ Len(s) \in Nat
    OBVIOUS
  <1>2. \A k \in 1 .. Len(s) : s[k].age \in 0 .. Minute - 1
    BY ElementOfSeq, CallFields
  <1>3. Ages(s) = [k \in 1 .. Len(s) |-> s[k].age]
    BY <1>1 DEF Ages
  <1>. QED
    BY <1>1, <1>2, <1>3

LimiterInv ==
  /\ stamps \in Seq(0 .. Minute) /\ OldestFirst(stamps)
  /\ sent \in Seq(LetOutCall)
  /\ LimiterRemembers

BudgetInv == LimiterInv /\ OnlyWaitersExceed

\* The three things a step does to the limiter: it lets a call out, it
\* forgets stamps that do not count, or time passes.
LetsOut(waited) == stamps' = Append(Recent(stamps), 0) /\ LetOut(waited)

LEMMA WhatStepsDo ==
  ASSUME [Next]_vars
  PROVE  \/ LetsOut(TRUE)
         \/ LetsOut(FALSE) /\ ~Full(Recent(stamps))
         \/ stamps' = Recent(stamps) /\ sent' = sent
         \/ Tick
         \/ UNCHANGED <<stamps, sent>>
  <1>1. ASSUME NEW c \in Callers, NEW e \in Endpoints, CacheHit(c, e)
        PROVE  UNCHANGED <<stamps, sent>>
    BY <1>1 DEF CacheHit, Deliver
  <1>2. ASSUME NEW c \in Callers, NEW e \in Endpoints, CacheMiss(c, e)
        PROVE  \/ LetsOut(FALSE) /\ ~Full(Recent(stamps))
               \/ stamps' = Recent(stamps) /\ sent' = sent
    BY <1>2 DEF CacheMiss, LetsOut
  <1>3. ASSUME NEW c \in Callers, CallStep(c)
        PROVE  LetsOut(TRUE) \/ UNCHANGED <<stamps, sent>>
    BY <1>3 DEF CallStep, Wake, Retry, Succeed, Refuse, Interrupt, Deliver, Sleep, LetsOut
  <1>. QED
    BY <1>1, <1>2, <1>3 DEF Next, vars

LEMMA LetOutKeeps ==
  ASSUME LimiterInv, NEW waited \in BOOLEAN, LetsOut(waited)
  PROVE  /\ LimiterInv'
         /\ Len(sent') = Len(sent) + 1 /\ Len(sent) = Len(Recent(stamps))
         /\ \A k \in 1 .. Len(sent) : sent'[k] = sent[k]
         /\ sent'[Len(sent) + 1].waited = waited
  <1>. DEFINE call == [waited |-> waited, age |-> 0]
              kept == Recent(stamps)
  <1>1. kept \in Seq(0 .. Minute - 1) /\ OldestFirst(kept) /\ kept = Ages(sent)
    BY RecentAges DEF LimiterInv, LimiterRemembers
  <1>2. stamps' = Append(kept, 0) /\ sent' = Append(sent, call)
    BY DEF LetsOut, LetOut
  <1>3. call \in LetOutCall /\ call.age = 0 /\ call.waited = waited
    BY LimitsAssumption DEF LetOutCall
  <1>. HIDE DEF call, kept
  <1>4. /\ stamps' \in Seq(0 .. Minute - 1) /\ OldestFirst(stamps')
        /\ Recent(stamps') = stamps'
    BY <1>1, <1>2, AppendNow, RecentIsAll
  <1>5. stamps' \in Seq(0 .. Minute)
    BY <1>4, LimitsAssumption
  <1>6. sent \in Seq(LetOutCall)
    BY DEF LimiterInv
  <1>7. /\ sent' \in Seq(LetOutCall) /\ Len(sent') = Len(sent) + 1
        /\ \A k \in 1 .. Len(sent) : sent'[k] = sent[k]
        /\ sent'[Len(sent) + 1] = call
    BY <1>2, <1>3, <1>6
  <1>8. Len(kept) = Len(sent) /\ \A k \in 1 .. Len(sent) : kept[k] = sent[k].age
    BY <1>1, <1>6 DEF Ages
  <1>9. Append(kept, 0) = Ages(sent')
    <2>1. \A k \in 1 .. Len(sent) + 1 : sent'[k].age = Append(kept, 0)[k]
      BY <1>1, <1>3, <1>7, <1>8
    <2>2. Append(kept, 0) \in Seq(0 .. Minute - 1) /\ Len(Append(kept, 0)) = Len(sent) + 1
      BY <1>1, <1>8, AppendNow, AppendProperties, LimitsAssumption
    <2>3. /\ Ages(sent') \in Seq(0 .. Minute - 1) /\ Len(Ages(sent')) = Len(sent) + 1
          /\ \A k \in 1 .. Len(sent) + 1 : Ages(sent')[k] = sent'[k].age
      BY <1>7, AgesOf
    <2>. QED
      BY <2>1, <2>2, <2>3, SeqEqual
  <1>10. LimiterInv'
    BY <1>2, <1>4, <1>5, <1>7, <1>9 DEF LimiterInv, LimiterRemembers
  <1>. QED
    BY <1>3, <1>7, <1>8, <1>10 DEF kept

LEMMA PruningKeeps ==
  ASSUME LimiterInv, stamps' = Recent(stamps), sent' = sent
  PROVE  LimiterInv'
  <1>1. /\ stamps' \in Seq(0 .. Minute - 1) /\ OldestFirst(stamps')
        /\ Recent(stamps') = stamps'
    BY RecentAges, RecentIsAll DEF LimiterInv
  <1>2. stamps' \in Seq(0 .. Minute)
    BY <1>1, LimitsAssumption
  <1>. QED
    BY <1>1, <1>2 DEF LimiterInv, LimiterRemembers

\* Time passes: the stamps that reach a minute and the calls that do are the
\* same, and both are the oldest.
LEMMA TickKeeps ==
  ASSUME LimiterInv, Tick
  PROVE  /\ LimiterInv'
         /\ \E d \in 0 .. Len(sent) :
              /\ Len(sent') = Len(sent) - d
              /\ \A k \in 1 .. Len(sent) - d : sent'[k].waited = sent[k + d].waited
  <1>. DEFINE n == Len(sent)
              size == Len(stamps)
              older == [k \in DOMAIN sent |-> [sent[k] EXCEPT !.age = @ + 1]]
              olderAges == Ages(older)
              d == Expired(olderAges)
              e == Expired(stamps)
              OlderCall == [waited : BOOLEAN, age : 0 .. Minute]
  <1>1. /\ n \in Nat /\ DOMAIN sent = 1 .. n
        /\ \A k \in 1 .. n : sent[k] \in LetOutCall
    BY ElementOfSeq, LenProperties DEF LimiterInv
  <1>2. /\ stamps \in Seq(0 .. Minute) /\ stamps \in Seq(Nat) /\ OldestFirst(stamps)
        /\ size \in Nat /\ DOMAIN stamps = 1 .. size
        /\ \A k \in 1 .. size : stamps[k] \in 0 .. Minute
    <2>1. stamps \in Seq(0 .. Minute) /\ OldestFirst(stamps)
      BY DEF LimiterInv
    <2>2. stamps \in Seq(Nat)
      BY <2>1, LimitsAssumption, SeqMonotonic
    <2>3. size \in Nat /\ DOMAIN stamps = 1 .. size
      BY <2>1, LenProperties
    <2>4. \A k \in 1 .. size : stamps[k] \in 0 .. Minute
      BY <2>1, ElementOfSeq
    <2>. QED
      BY <2>1, <2>2, <2>3, <2>4
  <1>3. Minute \in Nat \ {0}
    BY LimitsAssumption
  <1>4. \A k \in 1 .. n : /\ older[k] \in OlderCall
                          /\ older[k].age = sent[k].age + 1
                          /\ older[k].waited = sent[k].waited
    <2>1. SUFFICES ASSUME NEW k \in 1 .. n
                   PROVE  /\ older[k] \in OlderCall
                          /\ older[k].age = sent[k].age + 1
                          /\ older[k].waited = sent[k].waited
      OBVIOUS
    <2>2. sent[k] \in LetOutCall /\ older[k] = [sent[k] EXCEPT !.age = sent[k].age + 1]
      BY <1>1
    <2>. QED
      BY <1>3, <2>2, CallFields DEF LetOutCall
  <1>5. older \in Seq(OlderCall) /\ Len(older) = n
    <2>1. older = [k \in 1 .. n |-> older[k]]
      BY <1>1
    <2>. HIDE DEF older, OlderCall
    <2>. QED
      BY <1>1, <1>4, <2>1
  <1>6. /\ e \in 0 .. size /\ size - e = n
        /\ \A k \in 1 .. size : stamps[k] >= Minute <=> k <= e
        /\ \A k \in 1 .. n : stamps[k + e] = sent[k].age
    <2>1. Recent(stamps) = Ages(sent)
      BY DEF LimiterInv, LimiterRemembers
    <2>2. Len(Ages(sent)) = n /\ \A k \in 1 .. n : Ages(sent)[k] = sent[k].age
      BY AgesOf DEF LimiterInv
    <2>3. /\ e \in 0 .. size
          /\ \A k \in 1 .. size : stamps[k] >= Minute <=> k <= e
      BY <1>2, ExpiredAreFirst
    <2>4. /\ Len(Recent(stamps)) = size - e
          /\ \A k \in 1 .. size - e : Recent(stamps)[k] = stamps[k + e]
      BY <1>2, RecentAges
    <2>. HIDE DEF e, n, size
    <2>. QED
      BY <2>1, <2>2, <2>3, <2>4
  <1>7. /\ olderAges \in Seq(Nat) /\ Len(olderAges) = n
        /\ \A k \in 1 .. n : olderAges[k] = stamps[k + e] + 1
    <2>1. DOMAIN older = 1 .. n
      BY <1>1
    <2>2. olderAges = [k \in 1 .. n |-> sent[k].age + 1]
      BY <1>4, <2>1 DEF Ages
    <2>3. \A k \in 1 .. n : sent[k].age + 1 \in Nat
      BY <1>1, <1>3, CallFields
    <2>4. \A k \in 1 .. n : sent[k].age + 1 = stamps[k + e] + 1
      BY <1>6
    <2>. HIDE DEF olderAges, e, n
    <2>. QED
      BY <1>1, <2>2, <2>3, <2>4
  <1>. HIDE DEF olderAges, e
  <1>8. OldestFirst(olderAges)
    <2>1. SUFFICES ASSUME NEW j \in 1 .. n, NEW k \in 1 .. n, j <= k
                   PROVE  olderAges[j] >= olderAges[k]
      BY <1>7, LenProperties DEF OldestFirst
    <2>2. j + e \in 1 .. size /\ k + e \in 1 .. size /\ j + e <= k + e
      BY <1>6, <2>1
    <2>3. stamps[j + e] >= stamps[k + e]
      BY <1>2, <2>2 DEF OldestFirst
    <2>. QED
      BY <1>2, <1>7, <2>2, <2>3
  <1>9. d \in 0 .. n /\ \A k \in 1 .. n : olderAges[k] >= Minute <=> k <= d
    BY <1>7, <1>8, ExpiredAreFirst, LenProperties
  <1>. HIDE DEF d
  <1>10. /\ stamps' \in Seq(0 .. Minute) /\ Len(stamps') = size
         /\ \A k \in 1 .. size : stamps'[k] = Aged(stamps[k], Minute)
    <2>1. stamps' = [k \in 1 .. size |-> Aged(stamps[k], Minute)]
      BY <1>2 DEF Tick
    <2>2. \A k \in 1 .. size : Aged(stamps[k], Minute) \in 0 .. Minute
      BY <1>2, <1>3 DEF Aged
    <2>. HIDE DEF size
    <2>. QED
      BY <1>2, <2>1, <2>2
  <1>11. OldestFirst(stamps')
    <2>1. SUFFICES ASSUME NEW j \in 1 .. size, NEW k \in 1 .. size, j <= k
                   PROVE  stamps'[j] >= stamps'[k]
      BY <1>10, LenProperties DEF OldestFirst
    <2>2. stamps[j] >= stamps[k]
      BY <1>2, <2>1 DEF OldestFirst
    <2>. QED
      BY <1>2, <1>3, <1>10, <2>2 DEF Aged
  <1>12. ASSUME NEW k \in 1 .. n
         PROVE  stamps'[k + e] = olderAges[k]
    <2>1. k + e \in 1 .. size /\ ~(k + e <= e)
      BY <1>6
    <2>2. ~(stamps[k + e] >= Minute) /\ stamps[k + e] \in 0 .. Minute
      BY <1>2, <1>6, <2>1
    <2>. QED
      BY <1>3, <1>7, <1>10, <2>1, <2>2 DEF Aged
  <1>13. \A k \in 1 .. size : stamps'[k] >= Minute <=> k <= e + d
    <2>1. SUFFICES ASSUME NEW k \in 1 .. size PROVE stamps'[k] >= Minute <=> k <= e + d
      OBVIOUS
    <2>2. CASE k <= e
      <3>1. stamps[k] >= Minute /\ stamps[k] \in 0 .. Minute
        BY <1>2, <1>6, <2>2
      <3>. QED
        BY <1>3, <1>6, <1>9, <1>10, <2>2, <3>1 DEF Aged
    <2>3. CASE ~(k <= e)
      <3>1. PICK i \in 1 .. n : k = i + e
        <4>1. k - e \in 1 .. n /\ k = (k - e) + e
          BY <1>1, <1>6, <2>3
        <4>. QED
          BY <4>1
      <3>2. i <= d <=> k <= e + d
        BY <1>6, <1>9, <3>1
      <3>. QED
        BY <1>9, <1>12, <3>1, <3>2
    <2>. QED
      BY <2>2, <2>3
  <1>14. Expired(stamps') = e + d
    <2>1. stamps' \in Seq(Nat) /\ DOMAIN stamps' = 1 .. size
      BY <1>2, <1>3, <1>10, SeqMonotonic, LenProperties
    <2>2. e + d \in 0 .. Len(stamps')
      BY <1>1, <1>6, <1>9, <1>10
    <2>. QED
      BY <1>13, <2>1, <2>2, ExpiredIs
  <1>15. /\ sent' \in Seq(OlderCall) /\ Len(sent') = n - d
         /\ \A k \in 1 .. n - d : sent'[k] = older[k + d]
    <2>1. sent' = SubSeq(older, d + 1, Len(older))
      BY DEF Tick, d, olderAges
    <2>. HIDE DEF older, OlderCall
    <2>. QED
      BY <1>5, <1>9, <2>1, Dropped
  <1>16. ASSUME NEW k \in 1 .. n - d
         PROVE  /\ k + d \in 1 .. n /\ ~(k + d <= d)
                /\ sent'[k].waited = sent[k + d].waited
                /\ sent'[k].age = olderAges[k + d]
                /\ sent'[k] \in LetOutCall
    <2>1. k + d \in 1 .. n /\ ~(k + d <= d)
      BY <1>1, <1>9
    <2>2. sent'[k] = older[k + d] /\ older[k + d] \in OlderCall
      BY <1>4, <1>15, <2>1
    <2>3. older[k + d].age = sent[k + d].age + 1 /\ older[k + d].waited = sent[k + d].waited
      BY <1>4, <2>1
    <2>4. sent[k + d].age + 1 = olderAges[k + d]
      BY <1>6, <1>7, <2>1
    <2>5. ~(olderAges[k + d] >= Minute)
      BY <1>9, <2>1
    <2>. HIDE DEF older
    <2>6. older[k + d].age \in 0 .. Minute /\ ~(older[k + d].age >= Minute)
      BY <2>2, <2>3, <2>4, <2>5
    <2>7. older[k + d] \in LetOutCall
      BY <1>3, <2>2, <2>6 DEF LetOutCall
    <2>. QED
      BY <2>1, <2>2, <2>3, <2>4, <2>7
  <1>17. sent' \in Seq(LetOutCall)
    BY <1>15, <1>16, NarrowSeq
  <1>18. Recent(stamps') = Ages(sent')
    <2>1. /\ Recent(stamps') \in Seq(0 .. Minute - 1)
          /\ Len(Recent(stamps')) = n - d
          /\ \A k \in 1 .. n - d : Recent(stamps')[k] = stamps'[k + (e + d)]
      <3>1. size - (e + d) = n - d
        BY <1>1, <1>6, <1>9
      <3>. QED
        BY <1>10, <1>11, <1>14, <3>1, RecentAges
    <2>2. /\ Ages(sent') \in Seq(0 .. Minute - 1) /\ Len(Ages(sent')) = n - d
          /\ \A k \in 1 .. n - d : Ages(sent')[k] = sent'[k].age
      BY <1>15, <1>17, AgesOf
    <2>3. ASSUME NEW k \in 1 .. n - d PROVE stamps'[k + (e + d)] = sent'[k].age
      <3>1. k + (e + d) = (k + d) + e
        BY <1>6, <1>9
      <3>. QED
        BY <1>12, <1>16, <3>1
    <2>. HIDE DEF n
    <2>. QED
      BY <2>1, <2>2, <2>3, SeqEqual
  <1>19. LimiterInv'
    BY <1>10, <1>11, <1>17, <1>18 DEF LimiterInv, LimiterRemembers
  <1>. QED
    BY <1>9, <1>15, <1>16, <1>19

LEMMA LimiterStep == LimiterInv /\ [Next]_vars => LimiterInv'
  <1>1. SUFFICES ASSUME LimiterInv, [Next]_vars PROVE LimiterInv'
    OBVIOUS
  <1>2. CASE LetsOut(TRUE) \/ LetsOut(FALSE)
    BY <1>1, <1>2, LetOutKeeps
  <1>3. CASE stamps' = Recent(stamps) /\ sent' = sent
    BY <1>1, <1>3, PruningKeeps
  <1>4. CASE Tick
    BY <1>1, <1>4, TickKeeps
  <1>5. CASE UNCHANGED <<stamps, sent>>
    BY <1>1, <1>5 DEF LimiterInv, LimiterRemembers
  <1>. QED
    BY <1>1, <1>2, <1>3, <1>4, <1>5, WhatStepsDo

LEMMA LimiterBegins == Init => BudgetInv
  <1>1. SUFFICES ASSUME Init PROVE BudgetInv
    OBVIOUS
  <1>2. stamps = <<>> /\ sent = <<>> /\ DOMAIN sent = {}
    BY <1>1 DEF Init
  <1>3. \A S : <<>> \in Seq(S)
    OBVIOUS
  <1>4. Recent(<<>>) = <<>>
    BY <1>3, RecentIsAll
  <1>5. Ages(<<>>) = <<>>
    <2>1. Ages(<<>>) \in Seq(0 .. Minute - 1) /\ Len(Ages(<<>>)) = 0
      BY <1>3, AgesOf
    <2>. QED
      BY <1>3, <2>1, SeqEqual
  <1>. QED
    BY <1>2, <1>3, <1>4, <1>5
       DEF BudgetInv, LimiterInv, LimiterRemembers, OnlyWaitersExceed, OldestFirst

\* The limiter of any number of callers remembers exactly the calls it let
\* through in the last minute, however the throttled ones wake up.
THEOREM LimiterForgetsNothing == Spec => []LimiterRemembers
  <1>1. LimiterInv => LimiterRemembers
    BY DEF LimiterInv
  <1>2. BudgetInv => LimiterInv
    BY DEF BudgetInv
  <1>. QED
    BY LimiterBegins, LimiterStep, <1>1, <1>2, PTL DEF Spec

LEMMA BudgetStep == BudgetInv /\ [Next]_vars => BudgetInv'
  <1>1. SUFFICES ASSUME LimiterInv, OnlyWaitersExceed, [Next]_vars
                 PROVE  OnlyWaitersExceed'
    BY LimiterStep DEF BudgetInv
  <1>. DEFINE n == Len(sent)
  <1>2. DOMAIN sent = 1 .. n /\ n \in Nat
    BY <1>1, LenProperties DEF LimiterInv
  <1>3. ASSUME NEW waited \in BOOLEAN, LetsOut(waited), waited \/ ~Full(Recent(stamps))
        PROVE  OnlyWaitersExceed'
    <2>1. /\ LimiterInv' /\ Len(sent') = n + 1 /\ n = Len(Recent(stamps))
          /\ \A k \in 1 .. n : sent'[k] = sent[k]
          /\ sent'[n + 1].waited = waited
      BY <1>1, <1>3, LetOutKeeps
    <2>2. DOMAIN sent' = 1 .. n + 1
      BY <2>1, LenProperties DEF LimiterInv
    <2>3. waited \/ n + 1 <= MaxPerMinute
      <3>1. CASE ~Full(Recent(stamps))
        BY <1>2, <2>1, <3>1, LimitsAssumption DEF Full
      <3>. QED
        BY <1>3, <3>1
    <2>. HIDE DEF n
    <2>4. ASSUME NEW k \in 1 .. n + 1 PROVE sent'[k].waited \/ k <= MaxPerMinute
      <3>1. CASE k = n + 1
        BY <2>1, <2>3, <3>1
      <3>2. CASE k \in 1 .. n
        <4>1. sent'[k] = sent[k] /\ (sent[k].waited \/ k <= MaxPerMinute)
          BY <1>1, <1>2, <2>1, <3>2 DEF OnlyWaitersExceed
        <4>. QED
          BY <4>1, Zenon
      <3>. QED
        BY <1>2, <3>1, <3>2
    <2>. QED
      BY <2>2, <2>4 DEF OnlyWaitersExceed
  <1>4. CASE Tick
    <2>1. PICK d \in 0 .. n :
            /\ LimiterInv' /\ Len(sent') = n - d
            /\ \A k \in 1 .. n - d : sent'[k].waited = sent[k + d].waited
      BY <1>1, <1>4, TickKeeps
    <2>2. DOMAIN sent' = 1 .. n - d
      BY <2>1, LenProperties DEF LimiterInv
    <2>3. ASSUME NEW k \in 1 .. n - d PROVE sent'[k].waited \/ k <= MaxPerMinute
      <3>1. k + d \in 1 .. n
        BY <1>2, <2>1
      <3>2. sent[k + d].waited \/ k + d <= MaxPerMinute
        BY <1>1, <1>2, <3>1 DEF OnlyWaitersExceed
      <3>3. k + d <= MaxPerMinute => k <= MaxPerMinute
        BY <1>2, <2>1, LimitsAssumption
      <3>4. sent'[k].waited = sent[k + d].waited
        BY <2>1
      <3>. QED
        BY <3>2, <3>3, <3>4, Zenon
    <2>. QED
      BY <2>2, <2>3 DEF OnlyWaitersExceed
  <1>5. CASE sent' = sent
    BY <1>1, <1>5 DEF OnlyWaitersExceed
  <1>6. CASE LetsOut(TRUE)
    BY <1>3, <1>6
  <1>7. CASE LetsOut(FALSE) /\ ~Full(Recent(stamps))
    BY <1>3, <1>7
  <1>. QED
    BY <1>1, <1>4, <1>5, <1>6, <1>7, WhatStepsDo

\* Whatever the budget, a call that went out without sleeping is among the
\* first MaxPerMinute of its minute.
THEOREM BudgetIsKept == Spec => []OnlyWaitersExceed
  <1>1. BudgetInv => OnlyWaitersExceed
    BY DEF BudgetInv
  <1>. QED
    BY LimiterBegins, BudgetStep, <1>1, PTL DEF Spec

-----------------------------------------------------------------------------
(***************************************************************************)
(* The cache.                                                              *)
(***************************************************************************)
Entry == [body : {"nothing", "valid", "malformed"}, age : Nat]

ServedInv == cache \in [Endpoints -> Entry] /\ ServedWithinTtl

LEMMA ServedStep == ServedInv /\ [Next]_vars => ServedInv'
  <1>1. SUFFICES ASSUME ServedInv, [Next]_vars PROVE ServedInv'
    OBVIOUS
  <1>2. Nothing \in Entry /\ NoAnswer.bodyAge = 0 /\ Ttl \in Nat
    BY LimitsAssumption DEF Nothing, NoAnswer, Entry
  <1>3. ASSUME NEW c \in Callers, NEW kind, NEW age, Deliver(c, kind, age), age <= Ttl
        PROVE  ServedWithinTtl'
    BY <1>3 DEF Deliver, ServedWithinTtl
  <1>4. delivered' = NoAnswer => ServedWithinTtl'
    BY <1>2 DEF ServedWithinTtl
  <1>5. ASSUME NEW c \in Callers, NEW e \in Endpoints, CacheHit(c, e) PROVE ServedInv'
    <2>1. cache[e].age <= Ttl /\ cache' = cache
          /\ Deliver(c, Validated(cache[e].body), cache[e].age)
      BY <1>5 DEF CacheHit, Fresh
    <2>. QED
      BY <1>1, <1>3, <2>1 DEF ServedInv
  <1>6. ASSUME NEW c \in Callers, NEW e \in Endpoints, CacheMiss(c, e) PROVE ServedInv'
    BY <1>1, <1>2, <1>4, <1>6 DEF CacheMiss, ServedInv
  <1>7. ASSUME NEW c \in Callers, CallStep(c) PROVE ServedInv'
    <2>1. CASE Wake(c) \/ Retry(c)
      BY <1>1, <1>4, <2>1 DEF Wake, Retry, Send, ServedInv
    <2>2. CASE Refuse(c)
      BY <1>1, <1>2, <1>3, <2>2 DEF Refuse, ServedInv
    <2>3. CASE Interrupt(c)
      BY <1>1, <1>2, <1>3, <1>4, <2>3 DEF Interrupt, Sleep, ServedInv
    <2>4. ASSUME NEW body \in {"valid", "malformed"}, Succeed(c, body) PROVE ServedInv'
      <3>1. cache' = [cache EXCEPT ![calls[c].endpoint] = [body |-> body, age |-> 0]]
            /\ Deliver(c, Validated(body), 0)
        BY <2>4 DEF Succeed
      <3>2. [body |-> body, age |-> 0] \in Entry
        BY DEF Entry
      <3>3. cache' \in [Endpoints -> Entry]
        BY <1>1, <3>1, <3>2 DEF ServedInv
      <3>. QED
        BY <1>2, <1>3, <3>1, <3>3 DEF ServedInv
    <2>. QED
      BY <1>7, <2>1, <2>2, <2>3, <2>4 DEF CallStep
  <1>8. CASE Tick
    <2>1. cache' \in [Endpoints -> Entry]
      <3>1. ASSUME NEW e \in Endpoints
            PROVE  [cache[e] EXCEPT !.age = Aged(cache[e].age, Ttl + 1)] \in Entry
        <4>1. cache[e] \in Entry
          BY <1>1 DEF ServedInv
        <4>2. Aged(cache[e].age, Ttl + 1) \in Nat
          BY <1>2, <4>1 DEF Aged, Entry
        <4>. QED
          BY <4>1, <4>2 DEF Entry
      <3>2. cache' = [e \in Endpoints |->
                        IF cache[e] = Nothing THEN Nothing
                        ELSE [cache[e] EXCEPT !.age = Aged(cache[e].age, Ttl + 1)]]
        BY <1>8 DEF Tick
      <3>. QED
        BY <1>2, <3>1, <3>2
    <2>2. delivered' = NoAnswer
      BY <1>8 DEF Tick
    <2>. QED
      BY <1>4, <2>1, <2>2 DEF ServedInv
  <1>9. CASE UNCHANGED vars
    BY <1>1, <1>9 DEF vars, ServedInv, ServedWithinTtl
  <1>. QED
    BY <1>1, <1>5, <1>6, <1>7, <1>8, <1>9 DEF Next

\* No caller is ever handed a body older than the ttl, whatever ttl and
\* however calls and answers fall.
THEOREM NothingStaleServed == Spec => []ServedWithinTtl
  <1>1. Init => ServedInv
    BY LimitsAssumption DEF Init, ServedInv, ServedWithinTtl, Nothing, NoAnswer, Entry
  <1>2. ServedInv => ServedWithinTtl
    BY DEF ServedInv
  <1>. QED
    BY <1>1, <1>2, ServedStep, PTL DEF Spec
=============================================================================

-------------------------- MODULE RateLimitProofs --------------------------
(***************************************************************************)
(* Proofs about the limiter of module RateLimit, for every value of its    *)
(* constants.                                                              *)
(***************************************************************************)
EXTENDS RateLimit, TLAPS, FiniteSetTheorems, SequenceTheorems

-----------------------------------------------------------------------------
(* A set of positions that holds, with a position, all those before it is an
   initial segment, as long as the set is large. *)
LEMMA InitialSegment ==
    ASSUME NEW len \in Nat,
           NEW S \in SUBSET (1..len),
           \A i \in S : \A j \in 1..i : j \in S
    PROVE  /\ Cardinality(S) \in 0..len
           /\ S = 1..Cardinality(S)
<1> DEFINE k == Cardinality(S)
<1>1. /\ IsFiniteSet(S)
      /\ k \in Nat
      /\ k <= len
  <2>1. /\ IsFiniteSet(1..len)
        /\ Cardinality(1..len) = len
    BY FS_Interval
  <2>2. IsFiniteSet(S) /\ Cardinality(S) <= len
    BY <2>1, FS_Subset
  <2>3. QED
    BY <2>2, FS_CardinalityType
<1>2. S \subseteq 1..k
  <2> SUFFICES ASSUME NEW i \in S PROVE i <= k
    OBVIOUS
  <2>1. /\ 1..i \in SUBSET S
        /\ Cardinality(1..i) = i
    BY FS_Interval
  <2>2. QED
    BY <2>1, <1>1, FS_Subset
<1>3. /\ IsFiniteSet(1..k)
      /\ Cardinality(1..k) = k
  BY <1>1, FS_Interval
<1>4. S = 1..k
  BY <1>2, <1>3, FS_Subset
<1>5. QED
  BY <1>1, <1>4

(* Pruning drops the longest prefix of entries older than the cutoff: the
   dropped entries are all older, the first one kept is not. *)
LEMMA PruneDropsStalePrefix ==
    ASSUME NEW bucket \in Seq(Nat), NEW cutoff \in Int
    PROVE  \E n \in 0..Len(bucket) :
             /\ Prune(bucket, cutoff) = SubSeq(bucket, n + 1, Len(bucket))
             /\ \A i \in 1..n : bucket[i] < cutoff
             /\ n < Len(bucket) => bucket[n + 1] >= cutoff
<1> DEFINE stale == {i \in DOMAIN bucket : \A j \in 1..i : bucket[j] < cutoff}
           n == Cardinality(stale)
<1>1. /\ Len(bucket) \in Nat
      /\ DOMAIN bucket = 1..Len(bucket)
      /\ \A i \in 1..Len(bucket) : bucket[i] \in Nat
  BY LenProperties, ElementOfSeq
<1>2. /\ n \in 0..Len(bucket)
      /\ stale = 1..n
  <2> HIDE DEF n
  <2>1. stale \in SUBSET (1..Len(bucket))
    BY <1>1
  <2>2. \A i \in stale : \A j \in 1..i : j \in stale
    BY <1>1
  <2> HIDE DEF stale
  <2>3. QED
    BY <2>1, <2>2, <1>1, InitialSegment DEF n
<1>3. Prune(bucket, cutoff) = SubSeq(bucket, n + 1, Len(bucket))
  BY DEF Prune
<1> HIDE DEF n
<1>4. \A i \in 1..n : bucket[i] < cutoff
  BY <1>2
<1>5. n < Len(bucket) => bucket[n + 1] >= cutoff
  <2> SUFFICES ASSUME n < Len(bucket), bucket[n + 1] < cutoff PROVE FALSE
    BY <1>1, <1>2
  <2>1. \A j \in 1..(n + 1) : bucket[j] < cutoff
    BY <1>2, <1>4
  <2>2. n + 1 \in stale
    BY <2>1, <1>1, <1>2
  <2>3. QED
    BY <2>2, <1>2
<1>6. QED
  BY <1>2, <1>3, <1>4, <1>5

-----------------------------------------------------------------------------
(* Type correctness. *)

LEMMA WindowType == Window \in Nat \ {0}
BY RateLimitAssumption DEF Window

LEMMA LimitsOfType ==
    ASSUME rpm \in RpmColumns, NEW k \in Keys
    PROVE  LimitsOf(k) \in Seq(Limit)
<1> DEFINE own == <<KeyLimit(k)>>
           ofMember == IF KeyMember[k] = None THEN <<>>
                       ELSE <<[bucket |-> KeyMember[k], limit |-> rpm[KeyMember[k]]]>>
           ofOrg == IF KeyOrg[k] = None THEN <<>>
                    ELSE <<[bucket |-> KeyOrg[k], limit |-> rpm[KeyOrg[k]]]>>
<1>1. own \in Seq(Limit)
  BY RateLimitAssumption DEF KeyLimit, Limit, RpmColumns, Buckets
<1>2. ofMember \in Seq(Limit)
  <2>1. CASE KeyMember[k] = None
    BY <2>1
  <2>2. CASE KeyMember[k] # None
    BY <2>2, RateLimitAssumption DEF Limit, RpmColumns, Buckets
  <2>3. QED
    BY <2>1, <2>2
<1>3. ofOrg \in Seq(Limit)
  <2>1. CASE KeyOrg[k] = None
    BY <2>1
  <2>2. CASE KeyOrg[k] # None
    BY <2>2, RateLimitAssumption DEF Limit, RpmColumns, Buckets
  <2>3. QED
    BY <2>1, <2>2
<1>4. LimitsOf(k) = own \o ofMember \o ofOrg
  BY DEF LimitsOf
<1> HIDE DEF own, ofMember, ofOrg
<1>5. QED
  BY <1>1, <1>2, <1>3, <1>4, ConcatProperties

(* What check_many sees of a bucket once it has pruned it. *)
LEMMA PrunedBucket ==
    ASSUME clock \in Nat, hits \in [Buckets -> Seq(Nat)],
           NEW limits, NEW b \in Buckets
    PROVE  \E n \in 0..Len(hits[b]) :
             /\ Pruned(limits)[b] = SubSeq(hits[b], n + 1, Len(hits[b]))
             /\ \A i \in 1..n : hits[b][i] < clock - Window
             /\ b \in Charged(limits) /\ n < Len(hits[b]) =>
                  hits[b][n + 1] >= clock - Window
<1>1. hits[b] \in Seq(Nat) /\ Len(hits[b]) \in Nat
  BY LenProperties
<1>2. CASE b \in Charged(limits)
  <2>1. Pruned(limits)[b] = Prune(hits[b], clock - Window)
    BY <1>2 DEF Pruned
  <2>2. clock - Window \in Int
    BY WindowType
  <2>3. PICK n \in 0..Len(hits[b]) :
          /\ Prune(hits[b], clock - Window) = SubSeq(hits[b], n + 1, Len(hits[b]))
          /\ \A i \in 1..n : hits[b][i] < clock - Window
          /\ n < Len(hits[b]) => hits[b][n + 1] >= clock - Window
    BY <1>1, <2>2, PruneDropsStalePrefix
  <2>4. QED
    BY <2>1, <2>3
<1>3. CASE b \notin Charged(limits)
  <2>1. Pruned(limits)[b] = SubSeq(hits[b], 0 + 1, Len(hits[b]))
    BY <1>1, <1>3, SubSeqFull DEF Pruned
  <2>2. QED
    BY <1>1, <1>3, <2>1
<1>4. QED
  BY <1>2, <1>3

LEMMA PrunedType ==
    ASSUME clock \in Nat, hits \in [Buckets -> Seq(Nat)], NEW limits
    PROVE  Pruned(limits) \in [Buckets -> Seq(Nat)]
<1>1. ASSUME NEW b \in Buckets PROVE Pruned(limits)[b] \in Seq(Nat)
  <2>1. PICK n \in 0..Len(hits[b]) :
          Pruned(limits)[b] = SubSeq(hits[b], n + 1, Len(hits[b]))
    BY PrunedBucket
  <2>2. hits[b] \in Seq(Nat) /\ Len(hits[b]) \in Nat
    BY LenProperties
  <2>3. \A i \in (n + 1)..Len(hits[b]) : hits[b][i] \in Nat
    BY <2>2, ElementOfSeq
  <2>4. QED
    BY <2>1, <2>2, <2>3, SubSeqProperties
<1>2. Pruned(limits) = [b \in Buckets |-> Pruned(limits)[b]]
  BY DEF Pruned
<1>3. QED
  BY <1>1, <1>2

(* A charged bucket has a limit among those the request brought. *)
LEMMA LimitForCharged ==
    ASSUME NEW limits \in Seq(Limit), NEW b \in Charged(limits)
    PROVE  \E i \in 1..Len(limits) :
             /\ limits[i].bucket = b
             /\ LimitFor(limits, b) = limits[i].limit
             /\ limits[i].limit \in RpmLimits
             /\ b \in Buckets
<1>1. \E i \in DOMAIN limits : limits[i].bucket = b
  BY DEF Charged
<1>2. PICK i \in DOMAIN limits :
        limits[i].bucket = b /\ LimitFor(limits, b) = limits[i].limit
  BY <1>1 DEF LimitFor
<1>3. i \in 1..Len(limits) /\ limits[i] \in Limit
  BY <1>2, LenProperties, ElementOfSeq
<1>4. QED
  BY <1>2, <1>3 DEF Limit

LEMMA TypeInit == Init => TypeOK
<1> SUFFICES ASSUME Init PROVE TypeOK
  OBVIOUS
<1>1. rpm \in RpmColumns
  BY StartRpmAssumption DEF Init
<1>2. \A S : <<>> \in Seq(S)
  BY EmptySeq
<1>3. QED
  BY <1>1, <1>2, RateLimitAssumption DEF Init, TypeOK, Idle, NoReply

LEMMA TypeNext == TypeOK /\ [Next]_vars => TypeOK'
<1> SUFFICES ASSUME TypeOK, [Next]_vars PROVE TypeOK'
  OBVIOUS
<1> USE DEF TypeOK
<1>1. ASSUME NEW r \in Requests, NEW k \in Keys, Authenticate(r, k)
      PROVE  TypeOK'
  BY <1>1, LimitsOfType DEF Authenticate
<1>2. ASSUME NEW r \in Requests, CheckMany(r)
      PROVE  TypeOK'
  <2> DEFINE limits == request[r]
  <2>1. /\ limits \in Seq(Limit)
        /\ Pruned(limits) \in [Buckets -> Seq(Nat)]
        /\ Idle \in Seq(Limit)
    BY PrunedType, EmptySeq DEF Idle
  <2>2. /\ request' \in [Requests -> Seq(Limit)]
        /\ UNCHANGED <<clock, rpm, patches>>
    BY <1>2, <2>1 DEF CheckMany
  <2>3. CASE Admit(r)
    <3>1. hits' \in [Buckets -> Seq(Nat)]
      <4>1. ASSUME NEW b \in Buckets
            PROVE  Append(Pruned(limits)[b], clock) \in Seq(Nat)
        BY <2>1, AppendProperties
      <4>2. QED
        BY <4>1, <2>3 DEF Admit
    <3>2. admitted' \in [Buckets -> Seq(Admission)]
      <4>1. ASSUME NEW b \in Charged(limits)
            PROVE  [at |-> clock, limit |-> LimitFor(limits, b)] \in Admission
        BY <2>1, LimitForCharged DEF Admission
      <4>2. ASSUME NEW b \in Buckets, b \in Charged(limits)
            PROVE  Append(admitted[b], [at |-> clock, limit |-> LimitFor(limits, b)])
                     \in Seq(Admission)
        BY <4>1, <4>2, AppendProperties
      <4>3. QED
        BY <4>2, <2>3 DEF Admit
    <3>3. reply'.verdict = "admitted"
      BY <2>3 DEF Admit, Admitted
    <3>4. QED
      BY <2>2, <3>1, <3>2, <3>3
  <2>4. CASE Deny(r)
    <3>1. /\ hits' = Pruned(limits)
          /\ admitted' = admitted
          /\ reply'.verdict = "denied"
      BY <2>4 DEF Deny, Denied
    <3>2. QED
      BY <2>1, <2>2, <3>1
  <2>5. QED
    BY <1>2, <2>3, <2>4 DEF CheckMany
<1>3. ASSUME NEW b \in Buckets, NEW limit \in RpmLimits \cup {None}, UpdateRpm(b, limit)
      PROVE  TypeOK'
  <2>1. rpm' \in RpmColumns
    BY <1>3, RateLimitAssumption DEF UpdateRpm, RpmColumns, Buckets
  <2>2. patches' \in 0..MaxPatches
    BY <1>3, RateLimitAssumption DEF UpdateRpm
  <2>3. QED
    BY <1>3, <2>1, <2>2 DEF UpdateRpm
<1>4. CASE Tick
  BY <1>4 DEF Tick
<1>5. CASE UNCHANGED vars
  BY <1>5 DEF vars
<1>6. QED
  BY <1>1, <1>2, <1>3, <1>4, <1>5 DEF Next

(* The limiter keeps the types of its state: in particular every limit a
   request is checked against is a positive number, never SQL's NULL. *)
THEOREM TypeCorrect == Spec => []TypeOK
BY TypeInit, TypeNext, PTL DEF Spec

-----------------------------------------------------------------------------
(* The queues and the histories. *)

LEMMA HistoryType ==
    ASSUME NEW h \in Seq(Admission)
    PROVE  /\ Len(h) \in Nat
           /\ \A i \in 1..Len(h) : h[i].at \in Nat /\ h[i].limit \in RpmLimits
<1>1. Len(h) \in Nat
  BY LenProperties
<1>2. ASSUME NEW i \in 1..Len(h) PROVE h[i] \in Admission
  BY ElementOfSeq
<1>3. QED
  BY <1>1, <1>2 DEF Admission

LEMMA QueueType ==
    ASSUME NEW q \in Seq(Nat)
    PROVE  /\ Len(q) \in Nat
           /\ \A i \in 1..Len(q) : q[i] \in Nat
BY LenProperties, ElementOfSeq

(* Dropping entries older than the window keeps a queue a recent history. *)
LEMMA RecentPruned ==
    ASSUME NEW q \in Seq(Nat), NEW h \in Seq(Admission), NEW now \in Nat,
           IsRecentHistory(q, h, now),
           NEW n \in 0..Len(q),
           \A i \in 1..n : q[i] < now - Window
    PROVE  IsRecentHistory(SubSeq(q, n + 1, Len(q)), h, now)
<1> DEFINE p == SubSeq(q, n + 1, Len(q))
           gone == Len(h) - Len(q)
<1>1. /\ Len(q) \in Nat
      /\ Len(h) \in Nat
      /\ \A i \in 1..Len(q) : q[i] \in Nat
      /\ \A i \in 1..Len(h) : h[i].at \in Nat
      /\ Window \in Nat
  BY HistoryType, QueueType, WindowType
<1>2. /\ Len(p) = Len(q) - n
      /\ \A i \in 1..Len(p) : p[i] = q[n + i]
  <2>1. /\ Len(p) = IF n + 1 <= Len(q) THEN Len(q) - (n + 1) + 1 ELSE 0
        /\ \A i \in 1..(Len(q) - (n + 1) + 1) : p[i] = q[(n + 1) + i - 1]
    BY <1>1, SubSeqProperties
  <2> HIDE DEF p
  <2>2. QED
    BY <1>1, <2>1
<1> HIDE DEF p
<1>3. /\ Len(h) - Len(p) = gone + n
      /\ gone \in Nat
  BY <1>1, <1>2 DEF IsRecentHistory
<1>4. \A i \in 1..Len(p) : p[i] = h[(gone + n) + i].at
  <2> SUFFICES ASSUME NEW i \in 1..Len(p) PROVE p[i] = h[(gone + n) + i].at
    OBVIOUS
  <2>1. /\ n + i \in 1..Len(q)
        /\ gone + (n + i) = (gone + n) + i
    BY <1>1, <1>2, <1>3
  <2>2. q[n + i] = h[gone + (n + i)].at
    BY <2>1 DEF IsRecentHistory
  <2>3. QED
    BY <1>2, <2>1, <2>2
<1>5. \A i \in 1..(gone + n) : h[i].at < now - Window
  <2> SUFFICES ASSUME NEW i \in 1..(gone + n) PROVE h[i].at < now - Window
    OBVIOUS
  <2>1. CASE i <= gone
    BY <2>1, <1>1 DEF IsRecentHistory
  <2>2. CASE i > gone
    <3>1. /\ i - gone \in 1..n
          /\ i - gone \in 1..Len(q)
          /\ gone + (i - gone) = i
      BY <2>2, <1>1
    <3>2. q[i - gone] = h[gone + (i - gone)].at
      BY <3>1 DEF IsRecentHistory
    <3>3. QED
      BY <3>1, <3>2
  <2>3. QED
    BY <2>1, <2>2, <1>1
<1>6. /\ \A i, j \in 1..Len(h) : i <= j => h[i].at <= h[j].at
      /\ \A i \in 1..Len(h) : h[i].at <= now
  BY DEF IsRecentHistory
<1> HIDE DEF gone
<1>7. IsRecentHistory(p, h, now)
  BY <1>3, <1>4, <1>5, <1>6 DEF IsRecentHistory
<1>8. QED
  BY <1>7 DEF p

(* So does charging an admission to both at the current time. *)
LEMMA RecentCharged ==
    ASSUME NEW q \in Seq(Nat), NEW h \in Seq(Admission), NEW now \in Nat,
           IsRecentHistory(q, h, now),
           NEW a \in Admission, a.at = now
    PROVE  IsRecentHistory(Append(q, now), Append(h, a), now)
<1> DEFINE q2 == Append(q, now)
           h2 == Append(h, a)
           gone == Len(h) - Len(q)
<1>1. /\ Len(q) \in Nat
      /\ Len(h) \in Nat
      /\ Window \in Nat
      /\ \A i \in 1..Len(h) : h[i].at \in Nat
  BY HistoryType, QueueType, WindowType
<1>2. /\ Len(q2) = Len(q) + 1
      /\ Len(h2) = Len(h) + 1
      /\ \A i \in 1..Len(q) : q2[i] = q[i]
      /\ \A i \in 1..Len(h) : h2[i] = h[i]
      /\ q2[Len(q) + 1] = now
      /\ h2[Len(h) + 1] = a
  BY AppendProperties
<1> HIDE DEF q2, h2
<1>3. Len(h2) - Len(q2) = gone
  BY <1>1, <1>2
<1>4. gone \in Nat
  BY <1>1 DEF IsRecentHistory
<1>5. \A i \in 1..Len(q2) : q2[i] = h2[gone + i].at
  <2> SUFFICES ASSUME NEW i \in 1..Len(q2) PROVE q2[i] = h2[gone + i].at
    OBVIOUS
  <2>1. CASE i <= Len(q)
    <3>1. /\ i \in 1..Len(q)
          /\ gone + i \in 1..Len(h)
      BY <2>1, <1>1, <1>2, <1>4
    <3>2. q[i] = h[gone + i].at
      BY <3>1 DEF IsRecentHistory
    <3>3. QED
      BY <3>1, <3>2, <1>2
  <2>2. CASE i = Len(q) + 1
    BY <2>2, <1>1, <1>2
  <2>3. QED
    BY <2>1, <2>2, <1>1, <1>2
<1>6. \A i \in 1..gone : h2[i].at < now - Window
  BY <1>1, <1>2, <1>4 DEF IsRecentHistory
<1>7. \A i, j \in 1..Len(h2) : i <= j => h2[i].at <= h2[j].at
  <2> SUFFICES ASSUME NEW i \in 1..Len(h2), NEW j \in 1..Len(h2), i <= j
               PROVE  h2[i].at <= h2[j].at
    OBVIOUS
  <2>1. CASE j <= Len(h)
    BY <2>1, <1>1, <1>2 DEF IsRecentHistory
  <2>2. CASE j = Len(h) + 1 /\ i <= Len(h)
    BY <2>2, <1>1, <1>2 DEF IsRecentHistory
  <2>3. CASE j = Len(h) + 1 /\ i = Len(h) + 1
    BY <2>3, <1>1, <1>2
  <2>4. QED
    BY <2>1, <2>2, <2>3, <1>1, <1>2
<1>8. \A i \in 1..Len(h2) : h2[i].at <= now
  BY <1>1, <1>2 DEF IsRecentHistory
<1>9. QED
  BY <1>3, <1>4, <1>5, <1>6, <1>7, <1>8 DEF IsRecentHistory, q2, h2

(* And so does the passing of time. *)
LEMMA RecentLater ==
    ASSUME NEW q \in Seq(Nat), NEW h \in Seq(Admission), NEW now \in Nat,
           IsRecentHistory(q, h, now),
           NEW later \in Nat, now <= later
    PROVE  IsRecentHistory(q, h, later)
<1>1. /\ Len(q) \in Nat
      /\ Len(h) \in Nat
      /\ Window \in Nat
      /\ \A i \in 1..Len(h) : h[i].at \in Nat
  BY HistoryType, QueueType, WindowType
<1>2. \A i \in 1..(Len(h) - Len(q)) : i \in 1..Len(h)
  BY <1>1
<1>3. QED
  BY <1>1, <1>2 DEF IsRecentHistory
LEMMA HistoryInit == Init => QueueIsRecentHistory
<1> SUFFICES ASSUME Init, NEW b \in Buckets
             PROVE  IsRecentHistory(hits[b], admitted[b], clock)
  BY DEF QueueIsRecentHistory
<1>1. hits[b] = <<>> /\ admitted[b] = <<>>
  BY DEF Init
<1>2. Len(<<>>) = 0
  BY EmptySeq
<1>3. QED
  BY <1>1, <1>2 DEF IsRecentHistory

(* The pruned queue of any bucket is still a recent history. *)
LEMMA PrunedIsRecent ==
    ASSUME TypeOK, QueueIsRecentHistory, NEW limits, NEW b \in Buckets
    PROVE  IsRecentHistory(Pruned(limits)[b], admitted[b], clock)
<1>1. PICK n \in 0..Len(hits[b]) :
        /\ Pruned(limits)[b] = SubSeq(hits[b], n + 1, Len(hits[b]))
        /\ \A i \in 1..n : hits[b][i] < clock - Window
  BY PrunedBucket DEF TypeOK
<1>2. QED
  BY <1>1, RecentPruned DEF TypeOK, QueueIsRecentHistory

LEMMA HistoryNext ==
    TypeOK /\ QueueIsRecentHistory /\ [Next]_vars => QueueIsRecentHistory'
<1> SUFFICES ASSUME TypeOK, QueueIsRecentHistory, [Next]_vars, NEW b \in Buckets
             PROVE  IsRecentHistory(hits[b], admitted[b], clock)'
  BY DEF QueueIsRecentHistory
<1>1. /\ hits[b] \in Seq(Nat)
      /\ admitted[b] \in Seq(Admission)
      /\ clock \in Nat
      /\ IsRecentHistory(hits[b], admitted[b], clock)
  BY DEF TypeOK, QueueIsRecentHistory
<1>2. ASSUME NEW r \in Requests, CheckMany(r)
      PROVE  IsRecentHistory(hits[b], admitted[b], clock)'
  <2> DEFINE limits == request[r]
             p == Pruned(limits)[b]
  <2>1. /\ p \in Seq(Nat)
        /\ IsRecentHistory(p, admitted[b], clock)
        /\ clock' = clock
    BY <1>2, PrunedType, PrunedIsRecent DEF CheckMany, TypeOK
  <2>2. CASE Admit(r) /\ b \in Charged(limits)
    <3> DEFINE a == [at |-> clock, limit |-> LimitFor(limits, b)]
    <3>1. a \in Admission /\ a.at = clock
      BY <2>2, LimitForCharged DEF TypeOK, Admission
    <3>2. hits'[b] = Append(p, clock) /\ admitted'[b] = Append(admitted[b], a)
      BY <2>2 DEF Admit
    <3> HIDE DEF a, p
    <3>3. IsRecentHistory(Append(p, clock), Append(admitted[b], a), clock)
      BY <1>1, <2>1, <3>1, RecentCharged
    <3>4. QED
      BY <2>1, <3>2, <3>3 DEF IsRecentHistory
  <2>3. CASE Admit(r) /\ b \notin Charged(limits)
    BY <1>1, <2>1, <2>3 DEF Admit
  <2>4. CASE Deny(r)
    BY <2>1, <2>4 DEF Deny
  <2>5. QED
    BY <1>2, <2>2, <2>3, <2>4 DEF CheckMany
<1>3. CASE Tick
  <2>1. hits' = hits /\ admitted' = admitted /\ clock' \in Nat /\ clock <= clock'
    BY <1>1, <1>3 DEF Tick
  <2>2. QED
    BY <1>1, <2>1, RecentLater
<1>4. CASE UNCHANGED <<hits, admitted, clock>>
  BY <1>1, <1>4
<1>5. QED
  BY <1>2, <1>3, <1>4 DEF Next, vars, Authenticate, UpdateRpm

(* Each queue of ratelimit._hits holds every admission that still counts. *)
THEOREM QueueKeepsWindow == Spec => []QueueIsRecentHistory
BY TypeCorrect, HistoryInit, HistoryNext, PTL DEF Spec

-----------------------------------------------------------------------------
(* The limit itself. *)

(* Charging a bucket whose pruned queue is shorter than the limit keeps its
   history spaced: the admission `limit` places back has been pruned. *)
LEMMA SpacedCharged ==
    ASSUME NEW q \in Seq(Nat), NEW h \in Seq(Admission), NEW now \in Nat,
           IsRecentHistory(q, h, now), IsSpaced(h),
           NEW a \in Admission, a.at = now, Len(q) < a.limit
    PROVE  IsSpaced(Append(h, a))
<1> DEFINE h2 == Append(h, a)
           gone == Len(h) - Len(q)
<1>1. /\ Len(q) \in Nat
      /\ Len(h) \in Nat
      /\ Window \in Nat
      /\ \A i \in 1..Len(h) : h[i].at \in Nat /\ h[i].limit \in Nat \ {0}
      /\ a.limit \in Nat \ {0}
  BY HistoryType, QueueType, WindowType, RateLimitAssumption DEF Admission
<1>2. /\ Len(h2) = Len(h) + 1
      /\ \A i \in 1..Len(h) : h2[i] = h[i]
      /\ h2[Len(h) + 1] = a
  BY AppendProperties
<1> HIDE DEF h2
<1>3. SUFFICES ASSUME NEW i \in 1..Len(h2), i > h2[i].limit
               PROVE  h2[i].at - h2[i - h2[i].limit].at > Window
  BY DEF IsSpaced, h2
<1>4. CASE i <= Len(h)
  <2>1. /\ i \in 1..Len(h)
        /\ i - h[i].limit \in 1..Len(h)
        /\ h2[i] = h[i]
    BY <1>1, <1>2, <1>3, <1>4
  <2>2. h2[i - h[i].limit] = h[i - h[i].limit]
    BY <1>2, <2>1
  <2>3. QED
    BY <1>3, <2>1, <2>2 DEF IsSpaced
<1>5. CASE i = Len(h) + 1
  <2>1. /\ h2[i] = a
        /\ i - a.limit \in 1..gone
        /\ i - a.limit \in 1..Len(h)
    BY <1>1, <1>2, <1>3, <1>5
  <2>2. h2[i - a.limit] = h[i - a.limit]
    BY <1>2, <2>1
  <2>3. h[i - a.limit].at < now - Window
    BY <2>1 DEF IsRecentHistory
  <2>4. QED
    BY <1>1, <2>1, <2>2, <2>3
<1>6. QED
  BY <1>1, <1>2, <1>4, <1>5

LEMMA SpacedInit == Init => WindowRespected
<1>1. Len(<<>>) = 0
  BY EmptySeq
<1>2. QED
  BY <1>1 DEF Init, WindowRespected, IsSpaced

LEMMA SpacedNext ==
    TypeOK /\ QueueIsRecentHistory /\ WindowRespected /\ [Next]_vars
      => WindowRespected'
<1> SUFFICES ASSUME TypeOK, QueueIsRecentHistory, WindowRespected, [Next]_vars,
                    NEW b \in Buckets
             PROVE  IsSpaced(admitted'[b])
  BY DEF WindowRespected, IsSpaced
<1>1. /\ admitted[b] \in Seq(Admission)
      /\ IsSpaced(admitted[b])
  BY DEF TypeOK, WindowRespected
<1>2. ASSUME NEW r \in Requests, Admit(r), b \in Charged(request[r])
      PROVE  IsSpaced(admitted'[b])
  <2> DEFINE limits == request[r]
             p == Pruned(limits)[b]
             a == [at |-> clock, limit |-> LimitFor(limits, b)]
  <2>1. PICK i \in 1..Len(limits) :
          /\ limits[i].bucket = b
          /\ LimitFor(limits, b) = limits[i].limit
          /\ limits[i].limit \in RpmLimits
    BY <1>2, LimitForCharged DEF TypeOK
  <2>2. a \in Admission /\ a.at = clock /\ a.limit = limits[i].limit
    BY <2>1 DEF TypeOK, Admission
  <2>3. p \in Seq(Nat) /\ IsRecentHistory(p, admitted[b], clock)
    BY PrunedType, PrunedIsRecent DEF TypeOK
  <2>4. Len(p) < a.limit
    <3>1. i \in DOMAIN limits /\ Exhausted(limits) = {}
      BY <1>2, <2>1, LenProperties DEF Admit, TypeOK
    <3>2. ~(Len(p) >= limits[i].limit)
      BY <2>1, <3>1 DEF Exhausted
    <3>3. Len(p) \in Nat /\ limits[i].limit \in Nat
      BY <2>1, <2>3, QueueType, RateLimitAssumption
    <3>4. QED
      BY <2>2, <3>2, <3>3
  <2>5. admitted'[b] = Append(admitted[b], a)
    BY <1>2 DEF Admit
  <2>6. clock \in Nat
    BY DEF TypeOK
  <2> HIDE DEF a, p
  <2>7. QED
    BY <1>1, <2>2, <2>3, <2>4, <2>5, <2>6, SpacedCharged
<1>3. ASSUME NEW r \in Requests, Admit(r), b \notin Charged(request[r])
      PROVE  IsSpaced(admitted'[b])
  BY <1>1, <1>3 DEF Admit
<1>4. CASE UNCHANGED admitted
  BY <1>1, <1>4
<1>5. QED
  BY <1>2, <1>3, <1>4
     DEF Next, vars, CheckMany, Deny, Authenticate, UpdateRpm, Tick

(* No bucket is ever charged more often within a window than the limit its
   last admission was held to allows. *)
THEOREM WindowIsRespected == Spec => []WindowRespected
BY TypeCorrect, QueueKeepsWindow, SpacedInit, SpacedNext, PTL DEF Spec

-----------------------------------------------------------------------------
(* The limiter implements the abstract quota. *)

(* A request brings at most one limit for a bucket. *)
OneLimitPerBucket(limits) ==
    \A i, j \in DOMAIN limits : limits[i].bucket = limits[j].bucket => i = j

RequestsBringOneLimitPerBucket == \A r \in Requests : OneLimitPerBucket(request[r])

LEMMA DistinctConcat ==
    ASSUME NEW S, NEW limits \in Seq(S), NEW l \in S, OneLimitPerBucket(limits),
           \A i \in 1..Len(limits) : limits[i].bucket # l.bucket
    PROVE  /\ limits \o <<l>> \in Seq(S)
           /\ OneLimitPerBucket(limits \o <<l>>)
           /\ Len(limits \o <<l>>) = Len(limits) + 1
           /\ \A i \in 1..Len(limits) : (limits \o <<l>>)[i] = limits[i]
           /\ (limits \o <<l>>)[Len(limits) + 1] = l
<1> DEFINE longer == limits \o <<l>>
<1>1. /\ longer \in Seq(S)
      /\ Len(longer) = Len(limits) + 1
      /\ \A i \in 1..Len(limits) : longer[i] = limits[i]
      /\ longer[Len(limits) + 1] = l
      /\ Len(limits) \in Nat
  OBVIOUS
<1>2. DOMAIN longer = 1..Len(longer) /\ DOMAIN limits = 1..Len(limits)
  BY <1>1, LenProperties
<1> HIDE DEF longer
<1>3. OneLimitPerBucket(longer)
  <2> SUFFICES ASSUME NEW i \in 1..Len(longer), NEW j \in 1..Len(longer),
                      longer[i].bucket = longer[j].bucket
               PROVE  i = j
    BY <1>2 DEF OneLimitPerBucket
  <2>1. CASE i \in 1..Len(limits) /\ j \in 1..Len(limits)
    BY <1>1, <1>2, <2>1 DEF OneLimitPerBucket
  <2>2. CASE i = Len(limits) + 1 \/ j = Len(limits) + 1
    BY <1>1, <2>2
  <2>3. QED
    BY <1>1, <2>1, <2>2
<1>4. QED
  BY <1>1, <1>3 DEF longer

LEMMA LimitsOfDistinct ==
    ASSUME NEW k \in Keys
    PROVE  OneLimitPerBucket(LimitsOf(k))
<1> DEFINE m == [bucket |-> KeyMember[k], limit |-> rpm[KeyMember[k]]]
           o == [bucket |-> KeyOrg[k], limit |-> rpm[KeyOrg[k]]]
           own == KeyLimit(k)
           S == {own, m, o}
           first == IF KeyMember[k] = None THEN <<own>> ELSE <<own>> \o <<m>>
<1>1. /\ own.bucket = k
      /\ m.bucket = KeyMember[k]
      /\ o.bucket = KeyOrg[k]
  BY DEF KeyLimit
<1>2. /\ KeyMember[k] = None \/ KeyMember[k] \in Members
      /\ KeyOrg[k] = None \/ KeyOrg[k] \in Orgs
  BY RateLimitAssumption
<1>3. /\ KeyMember[k] # None => KeyMember[k] # k
      /\ KeyOrg[k] # None => KeyOrg[k] # k
      /\ KeyMember[k] # None /\ KeyOrg[k] # None => KeyMember[k] # KeyOrg[k]
  BY <1>2, RateLimitAssumption
<1>4. LimitsOf(k) = (<<own>> \o (IF KeyMember[k] = None THEN <<>> ELSE <<m>>))
                           \o (IF KeyOrg[k] = None THEN <<>> ELSE <<o>>)
  BY DEF LimitsOf
<1>5. /\ <<own>> \in Seq(S) /\ own \in S /\ m \in S /\ o \in S
      /\ Len(<<own>>) = 1 /\ <<own>>[1] = own
      /\ OneLimitPerBucket(<<own>>)
  BY DEF OneLimitPerBucket
<1> HIDE DEF m, o, own, S
<1>6. /\ first \in Seq(S)
      /\ OneLimitPerBucket(first)
      /\ Len(first) \in Nat
      /\ \A i \in 1..Len(first) :
           \/ first[i] = own
           \/ KeyMember[k] # None /\ first[i] = m
  <2>1. CASE KeyMember[k] = None
    BY <1>5, <2>1
  <2>2. CASE KeyMember[k] # None
    <3>1. \A i \in 1..Len(<<own>>) : <<own>>[i].bucket # m.bucket
      BY <1>1, <1>3, <1>5, <2>2
    <3>2. /\ <<own>> \o <<m>> \in Seq(S)
          /\ OneLimitPerBucket(<<own>> \o <<m>>)
          /\ Len(<<own>> \o <<m>>) = 2
          /\ (<<own>> \o <<m>>)[1] = own
          /\ (<<own>> \o <<m>>)[2] = m
      <4> DEFINE alone == <<own>>
      <4>1. /\ alone \in Seq(S) /\ m \in S /\ OneLimitPerBucket(alone)
            /\ Len(alone) = 1 /\ alone[1] = own
            /\ \A i \in 1..Len(alone) : alone[i].bucket # m.bucket
        BY <1>5, <3>1
      <4> HIDE DEF alone
      <4>2. /\ alone \o <<m>> \in Seq(S)
            /\ OneLimitPerBucket(alone \o <<m>>)
            /\ Len(alone \o <<m>>) = Len(alone) + 1
            /\ \A i \in 1..Len(alone) : (alone \o <<m>>)[i] = alone[i]
            /\ (alone \o <<m>>)[Len(alone) + 1] = m
        BY <4>1, DistinctConcat
      <4>3. QED
        BY <4>1, <4>2 DEF alone
    <3>3. QED
      BY <2>2, <3>2
  <2>3. QED
    BY <2>1, <2>2
<1>7. LimitsOf(k) = first \o (IF KeyOrg[k] = None THEN <<>> ELSE <<o>>)
  BY <1>4, <1>5, ConcatEmptySeq
<1> HIDE DEF first
<1>8. CASE KeyOrg[k] = None
  BY <1>6, <1>7, <1>8, ConcatEmptySeq
<1>9. CASE KeyOrg[k] # None
  <2>1. \A i \in 1..Len(first) : first[i].bucket # o.bucket
    BY <1>1, <1>3, <1>6, <1>9
  <2>2. QED
    BY <1>5, <1>6, <1>7, <1>9, <2>1, DistinctConcat
<1>10. QED
  BY <1>8, <1>9

LEMMA DistinctInvariant == Spec => []RequestsBringOneLimitPerBucket
<1> USE DEF RequestsBringOneLimitPerBucket
<1>1. OneLimitPerBucket(Idle)
  BY DEF OneLimitPerBucket, Idle
<1>2. Init => RequestsBringOneLimitPerBucket
  BY <1>1 DEF Init
<1>3. TypeOK /\ RequestsBringOneLimitPerBucket /\ [Next]_vars
        => RequestsBringOneLimitPerBucket'
  <2> SUFFICES ASSUME TypeOK, RequestsBringOneLimitPerBucket, [Next]_vars,
                      NEW r \in Requests
               PROVE  OneLimitPerBucket(request'[r])
    BY DEF OneLimitPerBucket
  <2>1. ASSUME NEW s \in Requests, NEW k \in Keys, Authenticate(s, k)
        PROVE  OneLimitPerBucket(request'[r])
    BY <2>1, LimitsOfDistinct DEF Authenticate, TypeOK
  <2>2. ASSUME NEW s \in Requests, CheckMany(s)
        PROVE  OneLimitPerBucket(request'[r])
    BY <2>2, <1>1 DEF CheckMany, TypeOK
  <2>3. CASE UNCHANGED request
    BY <2>3
  <2>4. QED
    BY <2>1, <2>2, <2>3 DEF Next, vars, UpdateRpm, Tick
<1>4. QED
  BY <1>2, <1>3, TypeCorrect, PTL DEF Spec

LEMMA ChargedConcat ==
    ASSUME NEW S, NEW s \in Seq(S), NEW t \in Seq(S)
    PROVE  Charged(s \o t) = Charged(s) \cup Charged(t)
<1>1. PICK u : u = s \o t
  OBVIOUS
<1>2. /\ u \in Seq(S) /\ Len(u) = Len(s) + Len(t)
      /\ \A i \in 1..(Len(s) + Len(t)) :
           u[i] = IF i <= Len(s) THEN s[i] ELSE t[i - Len(s)]
  BY <1>1, ConcatProperties
<1>3. /\ Len(s) \in Nat /\ Len(t) \in Nat
      /\ DOMAIN s = 1..Len(s) /\ DOMAIN t = 1..Len(t)
      /\ DOMAIN u = 1..(Len(s) + Len(t))
  BY <1>2, LenProperties
<1>4. ASSUME NEW i \in DOMAIN u PROVE u[i].bucket \in Charged(s) \cup Charged(t)
  <2>1. CASE i <= Len(s)
    <3>1. i \in DOMAIN s /\ u[i] = s[i]
      BY <1>2, <1>3, <2>1
    <3>2. QED
      BY <3>1 DEF Charged
  <2>2. CASE ~(i <= Len(s))
    <3>1. i - Len(s) \in DOMAIN t /\ u[i] = t[i - Len(s)]
      BY <1>2, <1>3, <2>2
    <3>2. QED
      BY <3>1 DEF Charged
  <2>3. QED
    BY <2>1, <2>2
<1>5. ASSUME NEW i \in DOMAIN s PROVE s[i].bucket \in Charged(u)
  <2>1. i \in DOMAIN u /\ u[i] = s[i]
    BY <1>2, <1>3
  <2>2. QED
    BY <2>1 DEF Charged
<1>6. ASSUME NEW i \in DOMAIN t PROVE t[i].bucket \in Charged(u)
  <2>1. PICK j : j = i + Len(s)
    OBVIOUS
  <2>2. j \in DOMAIN u /\ ~(j <= Len(s)) /\ j - Len(s) = i
    BY <1>3, <2>1
  <2>3. u[j] = t[i]
    BY <1>2, <1>3, <2>2
  <2>4. QED
    BY <2>2, <2>3 DEF Charged
<1>7. Charged(u) \subseteq Charged(s) \cup Charged(t)
  <2>1. ASSUME NEW x \in Charged(u) PROVE x \in Charged(s) \cup Charged(t)
    <3>1. PICK i \in DOMAIN u : x = u[i].bucket
      BY DEF Charged
    <3>2. QED
      BY <1>4, <3>1
  <2>2. QED
    BY <2>1
<1>8. Charged(s) \subseteq Charged(u)
  BY <1>5 DEF Charged
<1>9. Charged(t) \subseteq Charged(u)
  BY <1>6 DEF Charged
<1>10. QED
  BY <1>1, <1>7, <1>8, <1>9

LEMMA LimitsOfCharged ==
    ASSUME NEW k \in Keys
    PROVE  Charged(LimitsOf(k)) = BucketsOf[k]
<1> DEFINE m == [bucket |-> KeyMember[k], limit |-> rpm[KeyMember[k]]]
           o == [bucket |-> KeyOrg[k], limit |-> rpm[KeyOrg[k]]]
           own == KeyLimit(k)
           ofMember == IF KeyMember[k] = None THEN <<>> ELSE <<m>>
           ofOrg == IF KeyOrg[k] = None THEN <<>> ELSE <<o>>
           S == {own, m, o}
<1>1. own.bucket = k /\ m.bucket = KeyMember[k] /\ o.bucket = KeyOrg[k]
  BY DEF KeyLimit
<1>2. LimitsOf(k) = (<<own>> \o ofMember) \o ofOrg
  BY DEF LimitsOf
<1>3. own \in S /\ m \in S /\ o \in S
  OBVIOUS
<1> HIDE DEF m, o, own, S
<1>4. \A x \in S : <<x>> \in Seq(S) /\ Charged(<<x>>) = {x.bucket}
  BY DEF Charged
<1>5. <<>> \in Seq(S) /\ Charged(<<>>) = {}
  BY DEF Charged
<1>6. /\ ofMember \in Seq(S)
      /\ Charged(ofMember) = {KeyMember[k]} \ {None}
  BY <1>1, <1>3, <1>4, <1>5
<1>7. /\ ofOrg \in Seq(S)
      /\ Charged(ofOrg) = {KeyOrg[k]} \ {None}
  BY <1>1, <1>3, <1>4, <1>5
<1>8. PICK first : first = <<own>>
  OBVIOUS
<1>9. first \in Seq(S) /\ Charged(first) = {k}
  BY <1>1, <1>3, <1>4, <1>8
<1> HIDE DEF ofMember, ofOrg
<1>10. /\ first \o ofMember \in Seq(S)
       /\ Charged(first \o ofMember) = {k} \cup ({KeyMember[k]} \ {None})
  BY <1>6, <1>9, ChargedConcat, ConcatProperties
<1>11. Charged((first \o ofMember) \o ofOrg)
         = ({k} \cup ({KeyMember[k]} \ {None})) \cup ({KeyOrg[k]} \ {None})
  <2>1. PICK both : both = first \o ofMember
    OBVIOUS
  <2>2. both \in Seq(S) /\ Charged(both) = {k} \cup ({KeyMember[k]} \ {None})
    BY <1>10, <2>1
  <2>3. Charged(both \o ofOrg) = Charged(both) \cup Charged(ofOrg)
    BY <1>7, <2>2, ChargedConcat
  <2>4. QED
    BY <1>7, <2>1, <2>2, <2>3
<1>12. QED
  BY <1>2, <1>8, <1>11 DEF BucketsOf

(* The limits of key k are those in force for its buckets. *)
LEMMA LimitsOfInForce ==
    ASSUME rpm \in RpmColumns, NEW k \in Keys
    PROVE  AsQuota(LimitsOf(k)) = [b \in BucketsOf[k] |-> InForce[b]]
<1> DEFINE Fitting == {l \in Limit : l.limit = InForce[l.bucket]}
           m == [bucket |-> KeyMember[k], limit |-> rpm[KeyMember[k]]]
           o == [bucket |-> KeyOrg[k], limit |-> rpm[KeyOrg[k]]]
           own == <<KeyLimit(k)>>
           ofMember == IF KeyMember[k] = None THEN <<>> ELSE <<m>>
           ofOrg == IF KeyOrg[k] = None THEN <<>> ELSE <<o>>
<1>1. own \in Seq(Fitting)
  <2>1. KeyLimit(k) \in Fitting
    BY RateLimitAssumption DEF KeyLimit, Limit, RpmColumns, Buckets, InForce
  <2>2. QED
    BY <2>1
<1>2. ofMember \in Seq(Fitting)
  <2>1. CASE KeyMember[k] = None
    BY <2>1
  <2>2. CASE KeyMember[k] # None
    <3>1. m \in Fitting
      BY <2>2, RateLimitAssumption DEF Limit, RpmColumns, Buckets, InForce
    <3>2. QED
      BY <2>2, <3>1
  <2>3. QED
    BY <2>1, <2>2
<1>3. ofOrg \in Seq(Fitting)
  <2>1. CASE KeyOrg[k] = None
    BY <2>1
  <2>2. CASE KeyOrg[k] # None
    <3>1. o \in Fitting
      BY <2>2, RateLimitAssumption DEF Limit, RpmColumns, Buckets, InForce
    <3>2. QED
      BY <2>2, <3>1
  <2>3. QED
    BY <2>1, <2>2
<1>4. LimitsOf(k) = own \o ofMember \o ofOrg
  BY DEF LimitsOf
<1> HIDE DEF own, ofMember, ofOrg, m, o
<1>5. PICK limits : limits = LimitsOf(k)
  OBVIOUS
<1>6. limits \in Seq(Fitting)
  BY <1>1, <1>2, <1>3, <1>4, <1>5, ConcatProperties
<1>7. \A i \in DOMAIN limits : limits[i] \in Limit /\ limits[i].limit = InForce[limits[i].bucket]
  BY <1>6, LenProperties, ElementOfSeq
<1>8. limits \in Seq(Limit) /\ Charged(limits) = BucketsOf[k]
  BY <1>5, LimitsOfType, LimitsOfCharged
<1> HIDE DEF Fitting
<1>9. ASSUME NEW b \in Charged(limits) PROVE LimitFor(limits, b) = InForce[b]
  <2>1. PICK i \in DOMAIN limits : limits[i].bucket = b /\ LimitFor(limits, b) = limits[i].limit
    BY <1>8, LimitForCharged, LenProperties
  <2>2. QED
    BY <1>7, <2>1
<1>10. QED
  BY <1>5, <1>8, <1>9 DEF AsQuota

(* The pruned queue of a charged bucket is as long as the bucket is used. *)
LEMMA PrunedLengthIsUse ==
    ASSUME TypeOK, QueueIsRecentHistory,
           NEW limits, NEW b \in Buckets, b \in Charged(limits)
    PROVE  Quota!Used(b) = Len(Pruned(limits)[b])
<1> DEFINE q == hits[b]
           h == admitted[b]
           p == Pruned(limits)[b]
           gone == Len(h) - Len(p)
<1>1. PICK n \in 0..Len(q) :
        /\ p = SubSeq(q, n + 1, Len(q))
        /\ n < Len(q) => q[n + 1] >= clock - Window
  BY PrunedBucket DEF TypeOK
<1>2. /\ q \in Seq(Nat) /\ h \in Seq(Admission) /\ p \in Seq(Nat)
      /\ Len(q) \in Nat /\ Len(h) \in Nat /\ Len(p) \in Nat
      /\ \A i \in 1..Len(h) : h[i].at \in Nat
      /\ clock \in Nat /\ Window \in Nat
  BY PrunedType, QueueType, HistoryType, WindowType DEF TypeOK
<1>3. /\ Len(p) = Len(q) - n
      /\ Len(p) > 0 => p[1] = q[n + 1]
  <2>1. \A i \in (n + 1)..Len(q) : q[i] \in Nat
    BY <1>2, QueueType
  <2>2. /\ Len(p) = IF n + 1 <= Len(q) THEN Len(q) - (n + 1) + 1 ELSE 0
        /\ \A i \in 1..(Len(q) - (n + 1) + 1) : p[i] = q[(n + 1) + i - 1]
    BY <1>1, <1>2, <2>1, SubSeqProperties
  <2> HIDE DEF p, q
  <2>3. Len(p) = Len(q) - n
    BY <1>2, <2>2
  <2>4. ASSUME Len(p) > 0
        PROVE  p[1] = q[n + 1]
    <3>1. 1 \in 1..(Len(q) - (n + 1) + 1)
      BY <1>2, <2>3, <2>4
    <3>2. p[1] = q[(n + 1) + 1 - 1]
      BY <2>2, <3>1
    <3>3. (n + 1) + 1 - 1 = n + 1
      OBVIOUS
    <3>4. QED
      BY <3>2, <3>3
  <2>5. QED
    BY <2>3, <2>4
<1>4. IsRecentHistory(p, h, clock)
  BY PrunedIsRecent
<1>5. DOMAIN h = 1..Len(h)
  BY <1>2, LenProperties
<1> HIDE DEF p, q, h
<1>6. gone \in Nat /\ gone <= Len(h)
  BY <1>2, <1>4 DEF IsRecentHistory
<1>7. \A i \in 1..gone : h[i].at < clock - Window
  BY <1>4 DEF IsRecentHistory
<1>8. \A i \in (gone + 1)..Len(h) : h[i].at >= clock - Window
  <2> SUFFICES ASSUME NEW i \in (gone + 1)..Len(h)
               PROVE  h[i].at >= clock - Window
    OBVIOUS
  <2>1. Len(p) > 0 /\ n < Len(q)
    BY <1>2, <1>3, <1>6
  <2>2. p[1] = h[gone + 1].at /\ p[1] >= clock - Window
    <3>1. 1 \in 1..Len(p)
      BY <1>2, <2>1
    <3>2. p[1] = h[gone + 1].at
      BY <1>4, <3>1 DEF IsRecentHistory
    <3>3. p[1] = q[n + 1]
      BY <1>3, <2>1
    <3>4. q[n + 1] >= clock - Window
      BY <1>1, <2>1
    <3>5. QED
      BY <3>2, <3>3, <3>4
  <2>3. /\ gone + 1 \in 1..Len(h)
        /\ i \in 1..Len(h)
        /\ gone + 1 <= i
    BY <1>2, <1>6
  <2>4. h[gone + 1].at <= h[i].at
    BY <1>4, <2>3 DEF IsRecentHistory
  <2>5. QED
    BY <1>2, <2>2, <2>3, <2>4
<1>9. Quota!InWindow(b) = (gone + 1)..Len(h)
  <2>1. Quota!InWindow(b) = {i \in 1..Len(h) : h[i].at >= clock - Window}
    BY <1>5 DEF Quota!InWindow, h
  <2> HIDE DEF gone
  <2>2. ASSUME NEW i \in 1..Len(h), h[i].at >= clock - Window
        PROVE  i \in (gone + 1)..Len(h)
    <3>1. i \in Int /\ h[i].at \in Nat
      BY <1>2
    <3>2. ~(i <= gone)
      <4>1. SUFFICES ASSUME i <= gone PROVE FALSE
        OBVIOUS
      <4>2. i \in 1..gone
        BY <1>6, <4>1
      <4>3. h[i].at < clock - Window
        BY <1>7, <4>2
      <4>4. QED
        BY <1>2, <2>2, <3>1, <4>3
    <3>3. QED
      BY <1>2, <1>6, <3>1, <3>2
  <2>3. ASSUME NEW i \in (gone + 1)..Len(h)
        PROVE  i \in 1..Len(h) /\ h[i].at >= clock - Window
    BY <1>2, <1>6, <1>8
  <2>4. QED
    BY <2>1, <2>2, <2>3
<1>10. Cardinality((gone + 1)..Len(h)) = Len(p)
  <2>1. /\ gone + 1 \in Int
        /\ Len(h) \in Int
        /\ Len(p) = Len(h) - gone
        /\ gone + 1 > Len(h) => Len(p) = 0
        /\ Len(h) - (gone + 1) + 1 = Len(p)
    BY <1>2, <1>6
  <2> HIDE DEF gone
  <2>2. Cardinality((gone + 1)..Len(h))
          = IF gone + 1 > Len(h) THEN 0 ELSE Len(h) - (gone + 1) + 1
    BY <2>1, FS_Interval
  <2>3. QED
    BY <2>1, <2>2
<1>11. QED
  <2>1. Quota!Used(b) = Cardinality(Quota!InWindow(b))
    BY DEF Quota!Used, Quota!Cardinality, Cardinality
  <2>2. QED
    BY <1>9, <1>10, <2>1 DEF p

(* A request brings something exactly as long as it waits to be decided. *)
LEMMA AskedNothing ==
    ASSUME NEW limits \in Seq(Limit)
    PROVE  AsQuota(limits) = Quota!Nothing <=> limits = Idle
<1>1. CASE limits = Idle
  <2>1. Charged(limits) = {}
    BY <1>1 DEF Idle, Charged
  <2>2. QED
    BY <1>1, <2>1 DEF AsQuota, Quota!Nothing
<1>2. CASE limits # Idle
  <2>1. Len(limits) \in Nat /\ Len(limits) # 0
    BY <1>2, EmptySeq, LenProperties DEF Idle
  <2>2. limits[1].bucket \in Charged(limits)
    BY <2>1, LenProperties DEF Charged
  <2>3. DOMAIN AsQuota(limits) # {}
    BY <2>2 DEF AsQuota
  <2>4. DOMAIN Quota!Nothing = {}
    BY DEF Quota!Nothing
  <2>5. QED
    BY <1>2, <2>3, <2>4
<1>3. QED
  BY <1>1, <1>2

LEMMA AsQuotaType ==
    ASSUME NEW limits \in Seq(Limit)
    PROVE  /\ Charged(limits) \in SUBSET Buckets
           /\ AsQuota(limits) \in [Charged(limits) -> RpmLimits]
<1>1. \A b \in Charged(limits) : LimitFor(limits, b) \in RpmLimits /\ b \in Buckets
  BY LimitForCharged
<1>2. QED
  BY <1>1 DEF AsQuota

LEMMA AdmitImplementsAdmit ==
    ASSUME TypeOK, QueueIsRecentHistory, NEW r \in Requests,
           Admit(r), clock' = clock
    PROVE  Quota!Admit(AsQuota(request[r]))
<1> DEFINE limits == request[r]
           quota == AsQuota(limits)
<1>1. limits \in Seq(Limit) /\ DOMAIN quota = Charged(limits)
  BY DEF TypeOK, AsQuota
<1>2. ASSUME NEW b \in DOMAIN quota PROVE Quota!Used(b) < quota[b]
  <2>1. PICK i \in 1..Len(limits) :
          /\ limits[i].bucket = b
          /\ LimitFor(limits, b) = limits[i].limit
          /\ limits[i].limit \in RpmLimits
          /\ b \in Buckets
    BY <1>1, <1>2, LimitForCharged
  <2>2. i \in DOMAIN limits /\ Exhausted(limits) = {}
    BY <1>1, <2>1, LenProperties DEF Admit
  <2>3. ~(Len(Pruned(limits)[b]) >= limits[i].limit)
    BY <2>1, <2>2 DEF Exhausted
  <2>4. Len(Pruned(limits)[b]) \in Nat /\ limits[i].limit \in Nat
    BY <2>1, PrunedType, QueueType, RateLimitAssumption DEF TypeOK
  <2>5. Quota!Used(b) = Len(Pruned(limits)[b]) /\ quota[b] = limits[i].limit
    BY <1>1, <1>2, <2>1, PrunedLengthIsUse DEF AsQuota
  <2>6. QED
    BY <2>3, <2>4, <2>5
<1>3. admitted' = [b \in Buckets |->
                     IF b \in DOMAIN quota
                     THEN Append(admitted[b], [at |-> clock, limit |-> quota[b]])
                     ELSE admitted[b]]
  BY <1>1 DEF Admit, AsQuota
<1>4. reply'.verdict = "admitted"
  BY DEF Admit, Admitted
<1>5. QED
  BY <1>2, <1>3, <1>4 DEF Quota!Admit

LEMMA DenyImplementsDeny ==
    ASSUME TypeOK, QueueIsRecentHistory, RequestsBringOneLimitPerBucket,
           NEW r \in Requests, Deny(r), clock' = clock
    PROVE  Quota!Deny(AsQuota(request[r]))
<1> DEFINE limits == request[r]
           quota == AsQuota(limits)
<1>1. limits \in Seq(Limit) /\ DOMAIN quota = Charged(limits)
  BY DEF TypeOK, AsQuota
<1>2. PICK i \in Exhausted(limits) : admitted' = admitted /\ reply'.verdict = "denied"
  BY DEF Deny, Denied
<1>3. /\ i \in DOMAIN limits
      /\ Len(Pruned(limits)[limits[i].bucket]) >= limits[i].limit
  BY <1>2 DEF Exhausted
<1> DEFINE b == limits[i].bucket
<1>4. b \in Charged(limits) /\ b \in Buckets
  BY <1>1, <1>3, AsQuotaType DEF Charged
<1>5. LimitFor(limits, b) = limits[i].limit
  <2>1. PICK j \in DOMAIN limits :
          limits[j].bucket = b /\ LimitFor(limits, b) = limits[j].limit
    BY <1>1, <1>4, LimitForCharged, LenProperties
  <2>2. i = j
    BY <1>3, <2>1 DEF RequestsBringOneLimitPerBucket, OneLimitPerBucket
  <2>3. QED
    BY <2>1, <2>2
<1>6. Quota!Used(b) >= quota[b]
  BY <1>3, <1>4, <1>5, PrunedLengthIsUse DEF AsQuota
<1>7. QED
  BY <1>1, <1>2, <1>4, <1>6 DEF Quota!Deny

(* Authentication, enforcement and a PATCH, as steps of the abstract quota. *)
LEMMA AuthenticateImplementsAsk ==
    ASSUME TypeOK, NEW r \in Requests, NEW k \in Keys, Authenticate(r, k)
    PROVE  Quota!Ask(r, k)
<1>1. /\ request \in [Requests -> Seq(Limit)] /\ rpm \in RpmColumns
      /\ request[r] = Idle
      /\ request' = [request EXCEPT ![r] = LimitsOf(k)]
      /\ UNCHANGED <<clock, rpm, admitted, reply>>
  BY DEF TypeOK, Authenticate
<1>2. Asked[r] = Quota!Nothing
  BY <1>1, AskedNothing DEF Asked
<1>3. Asked' = [Asked EXCEPT ![r] = [b \in BucketsOf[k] |-> InForce[b]]]
  BY <1>1, LimitsOfInForce DEF Asked
<1>4. InForce' = InForce
  BY <1>1 DEF InForce
<1>5. QED
  BY <1>1, <1>2, <1>3, <1>4 DEF Quota!Ask

LEMMA CheckManyImplementsDecide ==
    ASSUME TypeOK, QueueIsRecentHistory, RequestsBringOneLimitPerBucket,
           NEW r \in Requests, CheckMany(r)
    PROVE  Quota!Decide(r)
<1>1. /\ request \in [Requests -> Seq(Limit)]
      /\ request[r] # Idle
      /\ request' = [request EXCEPT ![r] = Idle]
      /\ clock' = clock /\ rpm' = rpm
      /\ Admit(r) \/ Deny(r)
  BY DEF CheckMany, TypeOK
<1>2. Asked[r] = AsQuota(request[r])
  BY DEF Asked
<1>3. Asked[r] # Quota!Nothing
  BY <1>1, <1>2, AskedNothing
<1>4. Quota!Admit(Asked[r]) \/ Quota!Deny(Asked[r])
  BY <1>1, <1>2, AdmitImplementsAdmit, DenyImplementsDeny
<1>5. AsQuota(Idle) = Quota!Nothing
  BY AskedNothing, EmptySeq DEF Idle
<1>6. Asked' = [Asked EXCEPT ![r] = Quota!Nothing]
  BY <1>1, <1>5 DEF Asked
<1>7. InForce' = InForce
  BY <1>1 DEF InForce
<1>8. QED
  BY <1>1, <1>3, <1>4, <1>6, <1>7 DEF Quota!Decide

LEMMA UpdateImplementsSetLimit ==
    ASSUME TypeOK, NEW b \in Buckets, NEW limit \in RpmLimits \cup {None}, UpdateRpm(b, limit)
    PROVE  \E l \in RpmLimits : Quota!SetLimit(b, l)
<1> DEFINE l == IF limit = None THEN DefaultRpm ELSE limit
<1>1. l \in RpmLimits
  BY RateLimitAssumption
<1>2. InForce' = [InForce EXCEPT ![b] = l]
  BY DEF InForce, UpdateRpm, TypeOK, RpmColumns
<1>3. Asked' = Asked /\ UNCHANGED <<clock, admitted, reply>>
  BY DEF Asked, UpdateRpm
<1>4. QED
  BY <1>1, <1>2, <1>3 DEF Quota!SetLimit

LEMMA StepImplementsQuota ==
    TypeOK /\ QueueIsRecentHistory /\ RequestsBringOneLimitPerBucket /\ [Next]_vars
      => [Quota!QuotaNext]_(Quota!quotaVars)
<1> SUFFICES ASSUME TypeOK, QueueIsRecentHistory, RequestsBringOneLimitPerBucket,
                    [Next]_vars
             PROVE  Quota!QuotaNext \/ UNCHANGED Quota!quotaVars
  OBVIOUS
<1>1. ASSUME NEW r \in Requests, NEW k \in Keys, Authenticate(r, k)
      PROVE  Quota!QuotaNext
  BY <1>1, AuthenticateImplementsAsk DEF Quota!QuotaNext
<1>2. ASSUME NEW r \in Requests, CheckMany(r)
      PROVE  Quota!QuotaNext
  BY <1>2, CheckManyImplementsDecide DEF Quota!QuotaNext
<1>3. ASSUME NEW b \in Buckets, NEW limit \in RpmLimits \cup {None}, UpdateRpm(b, limit)
      PROVE  Quota!QuotaNext
  BY <1>3, UpdateImplementsSetLimit DEF Quota!QuotaNext
<1>4. CASE Tick
  <2>1. /\ clock' \in Nat
        /\ clock' > clock
        /\ UNCHANGED <<rpm, request, admitted, reply>>
    BY <1>4 DEF Tick, TypeOK
  <2>2. InForce' = InForce /\ Asked' = Asked
    BY <2>1 DEF InForce, Asked
  <2>3. QED
    BY <2>1, <2>2 DEF Quota!QuotaNext, Quota!Advance
<1>5. CASE UNCHANGED vars
  <2>1. InForce' = InForce /\ Asked' = Asked
    BY <1>5 DEF InForce, Asked, vars
  <2>2. QED
    BY <1>5, <2>1 DEF Quota!quotaVars, vars
<1>6. QED
  BY <1>1, <1>2, <1>3, <1>4, <1>5 DEF Next

(* The limiter, with its pruned queues and its list of limits, implements
   WindowQuota: each request is decided on the limits that were in force when
   it was authenticated, for exactly the buckets of its key, as a count over
   the whole history of these buckets would decide it, and is charged to all
   of them or to none. *)
THEOREM LimiterImplementsQuota == Spec => ImplementsQuota
<1>1. Init => Quota!QuotaInit
  <2> SUFFICES ASSUME Init PROVE Quota!QuotaInit
    OBVIOUS
  <2>1. InForce \in [Buckets -> RpmLimits]
    BY StartRpmAssumption, RateLimitAssumption DEF Init, InForce, RpmColumns
  <2>2. AsQuota(Idle) = Quota!Nothing
    BY AskedNothing, EmptySeq DEF Idle
  <2>3. Asked = [r \in Requests |-> Quota!Nothing]
    BY <2>2 DEF Init, Asked
  <2>4. QED
    BY <2>1, <2>3 DEF Init, NoReply, Quota!QuotaInit
<1>2. QED
  BY <1>1, StepImplementsQuota, TypeCorrect, QueueKeepsWindow, DistinctInvariant,
     PTL DEF Spec, ImplementsQuota, Quota!QuotaSpec

-----------------------------------------------------------------------------
(* The three levels count the same requests. *)

LEMMA SameSize ==
    ASSUME NEW S, NEW T, IsFiniteSet(S), NEW f \in [S -> T],
           \A x, y \in S : f[x] = f[y] => x = y,
           \A z \in T : \E x \in S : f[x] = z
    PROVE  IsFiniteSet(T) /\ Cardinality(T) = Cardinality(S)
<1>1. f \in Bijection(S, T)
  BY DEF Bijection, Injection, Surjection, IsInjective
<1>2. ExistsBijection(S, T)
  BY <1>1 DEF ExistsBijection
<1>3. QED
  BY <1>2, FS_Bijection

(* A request is charged to the buckets of one key. *)

RequestsAreOfKeys ==
    \A r \in Requests :
        request[r] # Idle => \E k \in Keys : Charged(request[r]) = BucketsOf[k]

LEMMA RequestsOfKeysInvariant == Spec => []RequestsAreOfKeys
<1>1. Init => RequestsAreOfKeys
  BY DEF Init, RequestsAreOfKeys
<1>2. TypeOK /\ RequestsAreOfKeys /\ [Next]_vars => RequestsAreOfKeys'
  <2> SUFFICES ASSUME TypeOK, RequestsAreOfKeys, [Next]_vars,
                      NEW r \in Requests, request'[r] # Idle
               PROVE  \E k \in Keys : Charged(request'[r]) = BucketsOf[k]
    BY DEF RequestsAreOfKeys, Charged
  <2>1. ASSUME NEW s \in Requests, NEW k \in Keys, Authenticate(s, k)
        PROVE  \E key \in Keys : Charged(request'[r]) = BucketsOf[key]
    <3>1. request' = [request EXCEPT ![s] = LimitsOf(k)]
          /\ request \in [Requests -> Seq(Limit)]
      BY <2>1 DEF Authenticate, TypeOK
    <3>2. CASE r = s
      BY <3>1, <3>2, LimitsOfCharged
    <3>3. CASE r # s
      BY <3>1, <3>3 DEF RequestsAreOfKeys
    <3>4. QED
      BY <3>2, <3>3
  <2>2. ASSUME NEW s \in Requests, CheckMany(s)
        PROVE  \E key \in Keys : Charged(request'[r]) = BucketsOf[key]
    <3>1. request' = [request EXCEPT ![s] = Idle]
          /\ request \in [Requests -> Seq(Limit)]
      BY <2>2 DEF CheckMany, TypeOK
    <3>2. QED
      BY <3>1 DEF RequestsAreOfKeys
  <2>3. CASE UNCHANGED request
    BY <2>3 DEF RequestsAreOfKeys
  <2>4. QED
    BY <2>1, <2>2, <2>3 DEF Next, vars, UpdateRpm, Tick
<1>3. QED
  BY <1>1, <1>2, TypeCorrect, PTL DEF Spec

(* The admissions of a history at or after time t. *)
Since(h, t) == {i \in 1..Len(h) : h[i].at >= t}

(* Those of all the keys of a member or of an organization. *)
UnderSince(b, t) == UNION {{k} \X Since(admitted[k], t) : k \in KeysUnder(b)}

ChargedTogether ==
    \A b \in Members \cup Orgs, t \in Int :
        /\ IsFiniteSet(UnderSince(b, t))
        /\ Cardinality(UnderSince(b, t)) = Cardinality(Since(admitted[b], t))

LEMMA SinceFinite ==
    ASSUME NEW h \in Seq(Admission), NEW t \in Int
    PROVE  IsFiniteSet(Since(h, t)) /\ Since(h, t) \subseteq 1..Len(h)
<1>1. Since(h, t) \subseteq 1..Len(h)
  BY DEF Since
<1>2. IsFiniteSet(1..Len(h))
  BY HistoryType, FS_Interval
<1>3. QED
  BY <1>1, <1>2, FS_Subset

LEMMA SinceAppended ==
    ASSUME NEW h \in Seq(Admission), NEW e \in Admission, NEW t \in Int
    PROVE  /\ Since(Append(h, e), t)
                = Since(h, t) \cup (IF e.at >= t THEN {Len(h) + 1} ELSE {})
           /\ Len(h) + 1 \notin Since(h, t)
<1>1. PICK n : n = Len(h)
  OBVIOUS
<1>2. PICK g : g = Append(h, e)
  OBVIOUS
<1>3. /\ n \in Nat /\ Len(g) = n + 1 /\ g[n + 1] = e
      /\ \A i \in 1..n : g[i] = h[i]
  BY <1>1, <1>2, HistoryType, AppendProperties
<1>4. \A i : i \in 1..(n + 1) <=> i \in 1..n \/ i = n + 1
  BY <1>3
<1>5. n + 1 \notin 1..n
  BY <1>3
<1>6. Since(g, t) = Since(h, t) \cup (IF e.at >= t THEN {n + 1} ELSE {})
  BY <1>1, <1>3, <1>4 DEF Since
<1>7. QED
  BY <1>1, <1>2, <1>5, <1>6 DEF Since

LEMMA OneLarger ==
    ASSUME NEW S, IsFiniteSet(S), NEW x, x \notin S
    PROVE  IsFiniteSet(S \cup {x}) /\ Cardinality(S \cup {x}) = Cardinality(S) + 1
BY FS_AddElement

(* Whose buckets a request of key k is charged to, seen from bucket b. *)
LEMMA ChargedAbove ==
    ASSUME NEW k \in Keys, NEW b \in Members \cup Orgs
    PROVE  /\ b \in BucketsOf[k] <=> k \in KeysUnder(b)
           /\ \A key \in Keys : key \in BucketsOf[k] <=> key = k
<1>1. /\ b # None /\ b \notin Keys
  BY RateLimitAssumption
<1>2. /\ KeyMember[k] = None \/ KeyMember[k] \in Members
      /\ KeyOrg[k] = None \/ KeyOrg[k] \in Orgs
      /\ Keys \cap Members = {} /\ Keys \cap Orgs = {}
  BY RateLimitAssumption
<1>3. QED
  BY <1>1, <1>2 DEF BucketsOf, KeysUnder

(* An admission of key k is one more for the key and for all above it. *)
LEMMA AdmittedTogether ==
    ASSUME TypeOK, ChargedTogether, NEW k \in Keys,
           admitted' \in [Buckets -> Seq(Admission)],
           \A c \in Buckets : admitted'[c] = admitted[c] \/ c \in BucketsOf[k],
           \A c \in BucketsOf[k] : c \in Buckets => \E e \in Admission :
               e.at = clock /\ admitted'[c] = Append(admitted[c], e)
    PROVE  ChargedTogether'
<1> SUFFICES ASSUME NEW b \in Members \cup Orgs, NEW t \in Int
             PROVE  /\ IsFiniteSet(UnderSince(b, t)')
                    /\ Cardinality(UnderSince(b, t)') = Cardinality(Since(admitted'[b], t))
  BY DEF ChargedTogether, UnderSince, Since, KeysUnder
<1>1. /\ IsFiniteSet(UnderSince(b, t))
      /\ Cardinality(UnderSince(b, t)) = Cardinality(Since(admitted[b], t))
  BY DEF ChargedTogether
<1>2. /\ b \in Buckets /\ k \in Buckets /\ KeysUnder(b) \subseteq Keys
      /\ Keys \subseteq Buckets
      /\ UnderSince(b, t)' = UNION {{key} \X Since(admitted'[key], t) : key \in KeysUnder(b)}
  BY DEF Buckets, KeysUnder, UnderSince, Since
<1>3. \A key \in Keys : key # k => admitted'[key] = admitted[key]
  BY <1>2, ChargedAbove
<1>4. CASE k \notin KeysUnder(b)
  <2>1. UnderSince(b, t)' = UnderSince(b, t)
    BY <1>2, <1>3, <1>4 DEF UnderSince
  <2>2. admitted'[b] = admitted[b]
    BY <1>2, <1>4, ChargedAbove
  <2>3. QED
    BY <1>1, <2>1, <2>2
<1>5. CASE k \in KeysUnder(b)
  <2>1. PICK e \in Admission : e.at = clock /\ admitted'[b] = Append(admitted[b], e)
    BY <1>2, <1>5, ChargedAbove
  <2>2. PICK d \in Admission : d.at = clock /\ admitted'[k] = Append(admitted[k], d)
    BY <1>2 DEF BucketsOf
  <2>3. /\ admitted[b] \in Seq(Admission) /\ admitted[k] \in Seq(Admission)
    BY <1>2 DEF TypeOK
  <2>4. PICK x : x = Len(admitted[b]) + 1
    OBVIOUS
  <2>5. PICK y : y = Len(admitted[k]) + 1
    OBVIOUS
  <2>6. /\ x \notin Since(admitted[b], t)
        /\ Since(admitted'[b], t)
             = Since(admitted[b], t) \cup (IF clock >= t THEN {x} ELSE {})
    BY <2>1, <2>3, <2>4, SinceAppended
  <2>7. /\ y \notin Since(admitted[k], t)
        /\ Since(admitted'[k], t)
             = Since(admitted[k], t) \cup (IF clock >= t THEN {y} ELSE {})
    BY <2>2, <2>3, <2>5, SinceAppended
  <2>8. CASE ~(clock >= t)
    <3>1. /\ Since(admitted'[b], t) = Since(admitted[b], t)
          /\ Since(admitted'[k], t) = Since(admitted[k], t)
      BY <2>6, <2>7, <2>8
    <3>2. UnderSince(b, t)' = UnderSince(b, t)
      BY <1>2, <1>3, <3>1 DEF UnderSince
    <3>3. QED
      BY <1>1, <3>1, <3>2
  <2>9. CASE clock >= t
    <3>1. /\ Since(admitted'[b], t) = Since(admitted[b], t) \cup {x}
          /\ Since(admitted'[k], t) = Since(admitted[k], t) \cup {y}
      BY <2>6, <2>7, <2>9
    <3>2. \A key \in KeysUnder(b) :
            {key} \X Since(admitted'[key], t)
              = ({key} \X Since(admitted[key], t)) \cup (IF key = k THEN {<<k, y>>} ELSE {})
      BY <1>2, <1>3, <3>1
    <3>3. UnderSince(b, t)' = UnderSince(b, t) \cup {<<k, y>>}
      BY <1>2, <1>5, <3>2 DEF UnderSince
    <3>4. <<k, y>> \notin UnderSince(b, t)
      BY <2>7 DEF UnderSince
    <3>5. /\ IsFiniteSet(UnderSince(b, t)')
          /\ Cardinality(UnderSince(b, t)') = Cardinality(UnderSince(b, t)) + 1
      <4>1. PICK under : under = UnderSince(b, t)
        OBVIOUS
      <4>2. PICK later : later = UnderSince(b, t)'
        OBVIOUS
      <4>3. IsFiniteSet(under) /\ <<k, y>> \notin under /\ later = under \cup {<<k, y>>}
        BY <1>1, <3>3, <3>4, <4>1, <4>2
      <4>4. IsFiniteSet(later) /\ Cardinality(later) = Cardinality(under) + 1
        BY <4>3, OneLarger
      <4>5. QED
        BY <4>1, <4>2, <4>4
    <3>6. Cardinality(Since(admitted'[b], t)) = Cardinality(Since(admitted[b], t)) + 1
      BY <2>3, <2>6, <3>1, SinceFinite, OneLarger
    <3>7. QED
      BY <1>1, <3>5, <3>6
  <2>10. QED
    BY <2>8, <2>9
<1>6. QED
  BY <1>4, <1>5

LEMMA ChargedTogetherInvariant == Spec => []ChargedTogether
<1>1. Init => ChargedTogether
  <2> SUFFICES ASSUME Init, NEW b \in Members \cup Orgs, NEW t \in Int
               PROVE  /\ IsFiniteSet(UnderSince(b, t))
                      /\ Cardinality(UnderSince(b, t)) = Cardinality(Since(admitted[b], t))
    BY DEF ChargedTogether
  <2>1. \A c \in Buckets : Since(admitted[c], t) = {}
    BY DEF Init, Since
  <2>2. b \in Buckets /\ KeysUnder(b) \subseteq Buckets
    BY DEF Buckets, KeysUnder
  <2>3. UnderSince(b, t) = {}
    BY <2>1, <2>2 DEF UnderSince
  <2>4. QED
    BY <2>1, <2>2, <2>3, FS_EmptySet
<1>2. TypeOK /\ TypeOK' /\ RequestsAreOfKeys /\ ChargedTogether /\ [Next]_vars
        => ChargedTogether'
  <2> SUFFICES ASSUME TypeOK, TypeOK', RequestsAreOfKeys, ChargedTogether,
                      [Next]_vars
               PROVE  ChargedTogether'
    OBVIOUS
  <2>1. CASE UNCHANGED admitted
    BY <2>1 DEF ChargedTogether, UnderSince
  <2>2. ASSUME NEW r \in Requests, request[r] # Idle, Admit(r)
        PROVE  ChargedTogether'
    <3>1. PICK k \in Keys : Charged(request[r]) = BucketsOf[k]
      BY <2>2 DEF RequestsAreOfKeys
    <3>2. admitted' = [b \in Buckets |->
                         IF b \in BucketsOf[k]
                         THEN Append(admitted[b],
                                     [at |-> clock, limit |-> LimitFor(request[r], b)])
                         ELSE admitted[b]]
      BY <2>2, <3>1 DEF Admit
    <3>3. admitted' \in [Buckets -> Seq(Admission)]
      BY DEF TypeOK
    <3>4. \A c \in Buckets : admitted'[c] = admitted[c] \/ c \in BucketsOf[k]
      BY <3>2
    <3>5. ASSUME NEW c \in BucketsOf[k], c \in Buckets
          PROVE  \E e \in Admission :
                   e.at = clock /\ admitted'[c] = Append(admitted[c], e)
      <4>1. admitted'[c] = Append(admitted[c],
                                  [at |-> clock, limit |-> LimitFor(request[r], c)])
        BY <3>2, <3>5
      <4>2. c \in Charged(request[r]) /\ request[r] \in Seq(Limit) /\ clock \in Nat
        BY <3>1, <3>5 DEF TypeOK
      <4>3. LimitFor(request[r], c) \in RpmLimits
        BY <4>2, LimitForCharged
      <4>4. [at |-> clock, limit |-> LimitFor(request[r], c)] \in Admission
        BY <4>2, <4>3 DEF Admission
      <4>5. QED
        BY <4>1, <4>4
    <3>6. QED
      BY <3>3, <3>4, <3>5, AdmittedTogether
  <2>3. ASSUME NEW r \in Requests, CheckMany(r)
        PROVE  ChargedTogether'
    BY <2>1, <2>2, <2>3 DEF CheckMany, Deny
  <2>4. QED
    BY <2>1, <2>3 DEF Next, vars, Authenticate, UpdateRpm, Tick
<1>3. QED
  BY <1>1, <1>2, TypeCorrect, RequestsOfKeysInvariant, PTL DEF Spec

(* What a queue holds inside the window is what its history holds there. *)
LEMMA LiveIsRecent ==
    ASSUME TypeOK, QueueIsRecentHistory, NEW b \in Buckets
    PROVE  /\ Len(admitted[b]) - Len(hits[b]) \in Nat
           /\ Live(b) \subseteq 1..Len(hits[b]) /\ IsFiniteSet(Live(b))
           /\ \A i : i \in Live(b)
                <=> /\ i \in Int
                    /\ i + (Len(admitted[b]) - Len(hits[b]))
                          \in Since(admitted[b], clock - Window)
<1>1. PICK q : q = hits[b]
  OBVIOUS
<1>2. PICK h : h = admitted[b]
  OBVIOUS
<1>3. /\ q \in Seq(Nat) /\ h \in Seq(Admission) /\ clock \in Nat
      /\ IsRecentHistory(q, h, clock)
  BY <1>1, <1>2 DEF TypeOK, QueueIsRecentHistory
<1>4. /\ Len(q) \in Nat /\ Len(h) \in Nat /\ Window \in Nat
      /\ \A i \in 1..Len(q) : q[i] \in Nat
      /\ \A i \in 1..Len(h) : h[i].at \in Nat
  BY <1>3, HistoryType, QueueType, WindowType
<1>5. PICK gone : gone = Len(h) - Len(q)
  OBVIOUS
<1>6. /\ gone \in Nat
      /\ \A i \in 1..Len(q) : q[i] = h[gone + i].at
      /\ \A i \in 1..gone : h[i].at < clock - Window
  BY <1>3, <1>4, <1>5 DEF IsRecentHistory
<1>7. Live(b) = {i \in 1..Len(q) : q[i] >= clock - Window}
  BY <1>1 DEF Live
<1>8. Since(h, clock - Window) = {i \in 1..Len(h) : h[i].at >= clock - Window}
  BY DEF Since
<1>9. ASSUME NEW i, i \in Live(b)
      PROVE  i \in Int /\ i + gone \in Since(h, clock - Window)
  <2>1. i \in 1..Len(q) /\ q[i] >= clock - Window
    BY <1>7, <1>9
  <2>2. i \in Int /\ i + gone \in 1..Len(h) /\ gone + i = i + gone
    BY <1>4, <1>5, <1>6, <2>1
  <2>3. QED
    BY <1>6, <1>8, <2>1, <2>2
<1>10. ASSUME NEW i \in Int, i + gone \in Since(h, clock - Window)
       PROVE  i \in Live(b)
  <2>1. i + gone \in 1..Len(h) /\ h[i + gone].at >= clock - Window
    BY <1>8, <1>10
  <2>2. i + gone \notin 1..gone
    <3>1. h[i + gone].at \in Nat /\ clock - Window \in Int
      BY <1>3, <1>4, <2>1
    <3>2. QED
      BY <1>6, <2>1, <3>1
  <2>3. i \in 1..Len(q) /\ gone + i = i + gone
    BY <1>4, <1>5, <1>6, <2>1, <2>2
  <2>4. QED
    BY <1>6, <1>7, <2>1, <2>3
<1>11. /\ Live(b) \subseteq 1..Len(q) /\ IsFiniteSet(Live(b))
  <2>1. Live(b) \subseteq 1..Len(q)
    BY <1>7
  <2>2. IsFiniteSet(1..Len(q))
    BY <1>4, FS_Interval
  <2>3. QED
    BY <2>1, <2>2, FS_Subset
<1>12. QED
  BY <1>1, <1>2, <1>5, <1>6, <1>9, <1>10, <1>11

LEMMA LiveAgrees ==
    ASSUME TypeOK, QueueIsRecentHistory, ChargedTogether
    PROVE  ScopesAgree
<1> SUFFICES ASSUME NEW b \in Members \cup Orgs
             PROVE  Cardinality(Live(b))
                      = Cardinality(UNION {{k} \X Live(k) : k \in KeysUnder(b)})
  BY DEF ScopesAgree
<1>1. PICK t : t = clock - Window
  OBVIOUS
<1>2. t \in Int
  BY <1>1, WindowType DEF TypeOK
<1>3. b \in Buckets /\ KeysUnder(b) \subseteq Keys /\ Keys \subseteq Buckets
  BY DEF Buckets, KeysUnder
<1>4. PICK gone : gone = [c \in Buckets |-> Len(admitted[c]) - Len(hits[c])]
  OBVIOUS
<1>5. \A c \in Buckets :
        /\ gone[c] \in Nat
        /\ Live(c) \subseteq 1..Len(hits[c]) /\ IsFiniteSet(Live(c))
        /\ \A i : i \in Live(c) <=> i \in Int /\ i + gone[c] \in Since(admitted[c], t)
  BY <1>1, <1>4, LiveIsRecent
<1>6. \A c \in Buckets : Since(admitted[c], t) \subseteq Int
  BY DEF Since
<1>7. Cardinality(Live(b)) = Cardinality(Since(admitted[b], t))
  <2>1. PICK f : f = [i \in Live(b) |-> i + gone[b]]
    OBVIOUS
  <2>2. f \in [Live(b) -> Since(admitted[b], t)]
    BY <1>3, <1>5, <2>1
  <2>3. \A x, y \in Live(b) : f[x] = f[y] => x = y
    BY <1>3, <1>5, <2>1
  <2>4. ASSUME NEW z \in Since(admitted[b], t) PROVE \E x \in Live(b) : f[x] = z
    <3>1. z - gone[b] \in Int /\ (z - gone[b]) + gone[b] = z
      BY <1>3, <1>5, <1>6
    <3>2. z - gone[b] \in Live(b)
      BY <1>3, <1>5, <3>1
    <3>3. QED
      BY <2>1, <3>1, <3>2
  <2>5. IsFiniteSet(Live(b))
    BY <1>3, <1>5
  <2>6. QED
    BY <2>2, <2>3, <2>4, <2>5, SameSize
<1>8. PICK all : all = UNION {{k} \X Live(k) : k \in KeysUnder(b)}
  OBVIOUS
<1>9. IsFiniteSet(UnderSince(b, t))
      /\ Cardinality(UnderSince(b, t)) = Cardinality(Since(admitted[b], t))
  BY <1>2 DEF ChargedTogether
<1>10. Cardinality(all) = Cardinality(UnderSince(b, t))
  <2>1. PICK f : f = [x \in UnderSince(b, t) |-> <<x[1], x[2] - gone[x[1]]>>]
    OBVIOUS
  <2>2. \A x \in UnderSince(b, t) :
          /\ x = <<x[1], x[2]>> /\ x[1] \in KeysUnder(b)
          /\ x[2] \in Since(admitted[x[1]], t)
    BY DEF UnderSince
  <2>3. \A k \in KeysUnder(b) : \A i :
          /\ i \in Since(admitted[k], t) => <<k, i>> \in UnderSince(b, t)
          /\ i \in Live(k) => <<k, i>> \in all
    BY <1>8 DEF UnderSince
  <2>4. ASSUME NEW k \in KeysUnder(b), NEW i \in Since(admitted[k], t)
        PROVE  i - gone[k] \in Live(k)
    <3>1. i - gone[k] \in Int /\ (i - gone[k]) + gone[k] = i
      BY <1>3, <1>5, <1>6
    <3>2. QED
      BY <1>3, <1>5, <3>1
  <2>5. f \in [UnderSince(b, t) -> all]
    BY <2>1, <2>2, <2>3, <2>4
  <2>6. ASSUME NEW x \in UnderSince(b, t), NEW y \in UnderSince(b, t), f[x] = f[y]
        PROVE  x = y
    <3>1. x[1] = y[1] /\ x[2] - gone[x[1]] = y[2] - gone[y[1]]
      BY <2>1, <2>6
    <3>2. x[2] \in Int /\ y[2] \in Int /\ gone[x[1]] \in Int
      BY <1>3, <1>5, <1>6, <2>2
    <3>3. x[2] = y[2]
      BY <3>1, <3>2
    <3>4. QED
      BY <2>2, <3>1, <3>3
  <2>7. ASSUME NEW z \in all PROVE \E x \in UnderSince(b, t) : f[x] = z
    <3>1. PICK k \in KeysUnder(b) : \E i \in Live(k) : z = <<k, i>>
      BY <1>8
    <3>2. PICK i \in Live(k) : z = <<k, i>>
      BY <3>1
    <3>3. i \in Int /\ gone[k] \in Int /\ i + gone[k] \in Since(admitted[k], t)
      BY <1>3, <1>5
    <3>4. <<k, i + gone[k]>> \in UnderSince(b, t)
      BY <2>3, <3>3
    <3>5. (i + gone[k]) - gone[k] = i
      BY <3>3
    <3>6. f[<<k, i + gone[k]>>] = z
      BY <2>1, <3>2, <3>4, <3>5
    <3>7. QED
      BY <3>4, <3>6
  <2>8. QED
    BY <1>9, <2>5, <2>6, <2>7, SameSize
<1>11. QED
  BY <1>7, <1>8, <1>9, <1>10

(* The queues of a key, of its member and of its organization count the same
   requests inside the window: a refusal at one level charged none
   (ratelimit.check_many, _enforce_limit). *)
THEOREM ScopesCountTheSame == Spec => []ScopesAgree
<1>1. TypeOK /\ QueueIsRecentHistory /\ ChargedTogether => ScopesAgree
  BY LiveAgrees
<1>2. QED
  BY <1>1, TypeCorrect, QueueKeepsWindow, ChargedTogetherInvariant, PTL

-----------------------------------------------------------------------------
(* The wait a refusal asks for. *)

(* The wait is rounded up to whole seconds, never down. *)
LEMMA RoundedUp ==
    ASSUME NEW ticks \in Nat
    PROVE  /\ ticks \div Second \in Nat
           /\ ticks < (ticks \div Second + 1) * Second
           /\ (ticks \div Second) * Second <= ticks
<1>1. Second \in Nat \ {0}
  BY RateLimitAssumption
<1>2. PICK s \in Nat \ {0} : s = Second
  BY <1>1
<1>3. /\ ticks = s * (ticks \div s) + (ticks % s)
      /\ ticks % s \in 0..(s - 1)
      /\ ticks \div s \in Int
  OBVIOUS
<1>4. PICK d \in Int : d = ticks \div s
  BY <1>3
<1>5. PICK m \in 0..(s - 1) : m = ticks % s
  BY <1>3
<1>6. ticks = s * d + m
  BY <1>3, <1>4, <1>5
<1>7. d \in Nat
  BY <1>6
<1>8. ticks < (d + 1) * s /\ d * s <= ticks
  BY <1>6, <1>7
<1>9. QED
  BY <1>2, <1>4, <1>7, <1>8

(* What a refusal by a full bucket says about it. *)
LEMMA DenyIsExact ==
    ASSUME TypeOK, TypeOK', QueueIsRecentHistory', NEW r \in Requests,
           request[r] # Idle, Deny(r), clock' = clock,
           Len(hits'[reply'.bucket]) = reply'.limit
    PROVE  /\ RoomAfter(reply'.bucket, reply'.limit, reply'.retryAfter)
           /\ ~RoomAfter(reply'.bucket, reply'.limit, reply'.retryAfter - 1)
<1>1. PICK i \in Exhausted(request[r]) :
        /\ hits' = Pruned(request[r])
        /\ reply' = Denied(request[r][i],
                           RetryAfter(Pruned(request[r])[request[r][i].bucket][1]))
  BY DEF Deny
<1>2. PICK c : c = request[r][i].bucket
  OBVIOUS
<1>3. PICK limit : limit = request[r][i].limit
  OBVIOUS
<1>4. PICK q : q = hits'[c]
  OBVIOUS
<1>5. /\ i \in DOMAIN request[r] /\ request[r] \in Seq(Limit)
      /\ request[r][i] \in Limit
  <2>1. i \in DOMAIN request[r] /\ request[r] \in Seq(Limit)
    BY DEF Exhausted, TypeOK
  <2>2. QED
    BY <2>1, LenProperties, ElementOfSeq
<1>6. /\ c \in Buckets /\ limit \in Nat \ {0}
      /\ c \in Charged(request[r])
  BY <1>2, <1>3, <1>5, RateLimitAssumption DEF Limit, Charged
<1>7. /\ reply'.bucket = c /\ reply'.limit = limit
      /\ reply'.retryAfter = RetryAfter(q[1])
  BY <1>1, <1>2, <1>3, <1>4 DEF Denied
<1>8. q \in Seq(Nat) /\ Len(q) = limit
  BY <1>4, <1>6, <1>7 DEF TypeOK
<1>9. \A j \in 1..limit : q[j] \in Nat
  BY <1>8, QueueType
<1>10. /\ clock \in Nat /\ Window \in Nat \ {0} /\ Second \in Nat \ {0}
  BY WindowType, RateLimitAssumption DEF TypeOK
<1>11. q[1] >= clock - Window
  <2>1. hits \in [Buckets -> Seq(Nat)]
    BY DEF TypeOK
  <2>2. PICK n \in 0..Len(hits[c]) :
          /\ q = SubSeq(hits[c], n + 1, Len(hits[c]))
          /\ n < Len(hits[c]) => hits[c][n + 1] >= clock - Window
    BY <1>1, <1>4, <1>6, <1>10, <2>1, PrunedBucket
  <2>3. Len(hits[c]) \in Nat /\ \A k \in 1..Len(hits[c]) : hits[c][k] \in Nat
    BY <1>6, <2>1, QueueType
  <2>4. /\ Len(q) = IF n + 1 <= Len(hits[c]) THEN Len(hits[c]) - (n + 1) + 1 ELSE 0
        /\ \A k \in 1..(Len(hits[c]) - (n + 1) + 1) : q[k] = hits[c][(n + 1) + k - 1]
    BY <2>2, <2>3, SubSeqProperties
  <2>5. n < Len(hits[c])
    BY <1>6, <1>8, <2>3, <2>4
  <2>6. q[1] = hits[c][n + 1]
    <3>1. 1 \in 1..(Len(hits[c]) - (n + 1) + 1) /\ (n + 1) + 1 - 1 = n + 1
      BY <2>3, <2>5
    <3>2. QED
      BY <2>4, <3>1
  <2>7. QED
    BY <2>2, <2>5, <2>6
<1>12. \A j \in 1..limit : q[j] >= q[1]
  <2>1. PICK h : h = admitted'[c]
    OBVIOUS
  <2>2. h \in Seq(Admission) /\ IsRecentHistory(q, h, clock)
    BY <1>4, <1>6, <2>1 DEF TypeOK, QueueIsRecentHistory, IsRecentHistory
  <2>3. Len(h) \in Nat /\ \A k \in 1..Len(h) : h[k].at \in Nat
    BY <2>2, HistoryType
  <2>4. PICK gone : gone = Len(h) - limit
    OBVIOUS
  <2>5. /\ gone >= 0 /\ gone \in Int
        /\ \A k \in 1..limit : q[k] = h[gone + k].at
        /\ \A k, j \in 1..Len(h) : k <= j => h[k].at <= h[j].at
    BY <1>6, <1>8, <2>2, <2>3, <2>4 DEF IsRecentHistory
  <2>6. \A k \in 1..limit : gone + k \in 1..Len(h)
    BY <1>6, <2>3, <2>4, <2>5
  <2> SUFFICES ASSUME NEW j \in 1..limit PROVE q[j] >= q[1]
    OBVIOUS
  <2>7. 1 \in 1..limit /\ gone + 1 <= gone + j
    BY <1>6, <2>5
  <2>8. h[gone + 1].at <= h[gone + j].at
    BY <2>5, <2>6, <2>7
  <2>9. q[1] = h[gone + 1].at /\ q[j] = h[gone + j].at
    BY <2>5, <2>7
  <2>10. QED
    BY <1>9, <2>7, <2>8, <2>9
<1>13. 1 \in 1..limit /\ q[1] \in Nat
  BY <1>6, <1>9
<1>14. PICK ticks \in Nat : ticks = q[1] + Window - clock
  BY <1>10, <1>11, <1>13
<1>15. PICK whole \in Nat : whole = ticks \div Second
  BY RoundedUp
<1>16. reply'.retryAfter = whole + 1
  BY <1>7, <1>14, <1>15 DEF RetryAfter
<1>17. ticks < (whole + 1) * Second /\ whole * Second <= ticks
  BY <1>15, RoundedUp
<1>18. PICK long \in Nat : long = (whole + 1) * Second
  BY <1>10
<1>19. PICK short \in Nat : short = whole * Second
  BY <1>10
<1>20. IsFiniteSet(1..limit) /\ Cardinality(1..limit) = limit
  BY <1>6, FS_Interval
<1>21. RoomAfter(c, limit, whole + 1)
  <2>1. PICK kept : kept = {j \in 1..limit : q[j] >= clock + long - Window}
    OBVIOUS
  <2>2. ~(q[1] >= clock + long - Window)
    BY <1>10, <1>13, <1>14, <1>17, <1>18
  <2>3. kept \subseteq 1..limit /\ kept # 1..limit
    BY <1>13, <2>1, <2>2
  <2>4. /\ Cardinality(kept) <= limit /\ Cardinality(kept) # limit
        /\ Cardinality(kept) \in Nat
    BY <1>20, <2>3, FS_Subset, FS_CardinalityType
  <2>5. Cardinality(kept) < limit
    BY <1>6, <2>4
  <2>6. QED
    BY <1>4, <1>8, <1>18, <2>1, <2>5 DEF RoomAfter
<1>22. ~RoomAfter(c, limit, (whole + 1) - 1)
  <2>1. \A j \in 1..limit : q[j] >= clock + short - Window
    BY <1>9, <1>10, <1>12, <1>13, <1>14, <1>17, <1>19
  <2>2. {j \in 1..limit : q[j] >= clock + short - Window} = 1..limit
    BY <2>1
  <2>3. (whole + 1) - 1 = whole
    OBVIOUS
  <2>4. RoomAfter(c, limit, whole) <=> limit < limit
    BY <1>4, <1>8, <1>19, <1>20, <2>2 DEF RoomAfter
  <2>5. QED
    BY <1>6, <2>3, <2>4
<1>23. QED
  BY <1>7, <1>16, <1>21, <1>22

LEMMA RefusalIsDeny ==
    ASSUME TypeOK, [Next]_vars, NEW r \in Requests, Refuses(r)
    PROVE  \E s \in Requests : request[s] # Idle /\ Deny(s) /\ clock' = clock
<1>1. /\ request[r] # Idle /\ request'[r] = Idle /\ reply'.verdict = "denied"
      /\ request \in [Requests -> Seq(Limit)]
  BY DEF Refuses, TypeOK
<1>2. ASSUME NEW s \in Requests, NEW k \in Keys, Authenticate(s, k) PROVE FALSE
  <2>1. request[s] = Idle /\ request' = [request EXCEPT ![s] = LimitsOf(k)]
    BY <1>2 DEF Authenticate
  <2>2. QED
    BY <1>1, <2>1
<1>3. ASSUME request' = request PROVE FALSE
  BY <1>1, <1>3
<1>4. ASSUME NEW s \in Requests, CheckMany(s)
      PROVE  request[s] # Idle /\ Deny(s) /\ clock' = clock
  <2>1. reply' # Admitted
    BY <1>1 DEF Admitted
  <2>2. QED
    BY <1>4, <2>1 DEF CheckMany, Admit
<1>5. QED
  BY <1>2, <1>3, <1>4 DEF Next, vars, UpdateRpm, Tick

(* The Retry-After of a refusal is, for the bucket it names when that holds
   just its limit, the smallest whole number of seconds that makes room
   (ratelimit.check_many). *)
THEOREM RetryAfterIsExact == Spec => RetryAfterExact
<1>1. TypeOK /\ TypeOK' /\ QueueIsRecentHistory' /\ [Next]_vars =>
        [(\E r \in Requests : Refuses(r))
            /\ Len(hits'[reply'.bucket]) = reply'.limit =>
           /\ RoomAfter(reply'.bucket, reply'.limit, reply'.retryAfter)
           /\ ~RoomAfter(reply'.bucket, reply'.limit, reply'.retryAfter - 1)]_vars
  BY RefusalIsDeny, DenyIsExact
<1>2. QED
  BY <1>1, TypeCorrect, QueueKeepsWindow, PTL DEF Spec, RetryAfterExact
=============================================================================

-------------------------- MODULE InferenceProofs --------------------------
(***************************************************************************)
(* Proofs about the inference slots and the usage log of module Inference, *)
(* for every number of slots, requests and streams.                        *)
(***************************************************************************)
EXTENDS Inference, TLAPS, FiniteSetTheorems, SequenceTheorems

-----------------------------------------------------------------------------
(* Sets of requests, by the stage they are in *)

LEMMA OneMore ==
    ASSUME NEW S, NEW x, IsFiniteSet(S), x \notin S
    PROVE  /\ IsFiniteSet(S \cup {x})
           /\ Cardinality(S \cup {x}) = Cardinality(S) + 1
           /\ Cardinality(S) \in Nat
BY FS_AddElement, FS_CardinalityType

LEMMA OneLess ==
    ASSUME NEW S, NEW x, IsFiniteSet(S), x \in S
    PROVE  /\ IsFiniteSet(S \ {x})
           /\ Cardinality(S \ {x}) = Cardinality(S) - 1
           /\ Cardinality(S) \in Nat
           /\ Cardinality(S \ {x}) \in Nat
BY FS_RemoveElement, FS_CardinalityType

Left == {r \in Requests : stage[r] = "left"}
Sleepers == {r \in Requests : stage[r] = Waiting}

\* What a request's move does to these sets.
LEMMA StageMoves ==
    ASSUME stage \in [Requests -> Stages], NEW r \in Requests, NEW from,
           NEW to \in Stages, Move(r, from, to)
    PROVE  /\ stage' \in [Requests -> Stages]
           /\ Holders' = IF to \in InSlot THEN Holders \cup {r} ELSE Holders \ {r}
           /\ Left' = IF to = "left" THEN Left \cup {r} ELSE Left \ {r}
           /\ Sleepers' = IF to = Waiting THEN Sleepers \cup {r} ELSE Sleepers \ {r}
           /\ r \in Holders <=> from \in InSlot
           /\ r \in Left <=> from = "left"
           /\ r \in Sleepers <=> from = Waiting
<1>1. /\ stage' = [stage EXCEPT ![r] = to] /\ stage[r] = from
  BY DEF Move
<1>2. \A q \in Requests : stage'[q] = IF q = r THEN to ELSE stage[q]
  BY <1>1
<1>3. stage' \in [Requests -> Stages]
  BY <1>1
<1>4. /\ Holders' = {q \in Requests : stage'[q] \in InSlot}
      /\ Left' = {q \in Requests : stage'[q] = "left"}
      /\ Sleepers' = {q \in Requests : stage'[q] = Waiting}
  BY DEF Holders, Left, Sleepers, InSlot
<1>5. QED
  BY <1>1, <1>2, <1>3, <1>4 DEF Holders, Left, Sleepers

-----------------------------------------------------------------------------
(* The queue *)

Once(queue) ==
    \A i, j \in DOMAIN queue : queue[i] = queue[j] => i = j

Elements(queue) == {queue[i] : i \in DOMAIN queue}

LEMMA QueueDomain ==
    ASSUME NEW queue \in Seq(Requests)
    PROVE  /\ Len(queue) \in Nat /\ DOMAIN queue = 1..Len(queue)
           /\ Elements(queue) \subseteq Requests
BY LenProperties, ElementOfSeq DEF Elements

LEMMA QueueLonger ==
    ASSUME waiters \in Seq(Requests), Once(waiters), NEW r \in Requests,
           r \notin Elements(waiters)
    PROVE  /\ Append(waiters, r) \in Seq(Requests)
           /\ Once(Append(waiters, r))
           /\ Elements(Append(waiters, r)) = Elements(waiters) \cup {r}
           /\ Len(Append(waiters, r)) = Len(waiters) + 1
<1> DEFINE longer == Append(waiters, r)
           last == Len(waiters) + 1
<1>1. /\ longer \in Seq(Requests) /\ Len(longer) = last
      /\ \A i \in 1..Len(waiters) : longer[i] = waiters[i]
      /\ longer[last] = r
  BY AppendProperties
<1>2. /\ Len(waiters) \in Nat /\ DOMAIN waiters = 1..Len(waiters)
      /\ DOMAIN longer = 1..last
  BY <1>1, QueueDomain
<1>3. /\ \A i : i \in DOMAIN longer <=> i \in DOMAIN waiters \/ i = last
      /\ \A i \in DOMAIN waiters : longer[i] = waiters[i]
  BY <1>1, <1>2
<1> HIDE DEF longer, last
<1>4. Elements(longer) = Elements(waiters) \cup {r}
  BY <1>1, <1>3 DEF Elements
<1>5. Once(longer)
  BY <1>1, <1>3 DEF Once, Elements
<1>6. QED
  BY <1>1, <1>4, <1>5 DEF longer, last

(* Taking out the entry of one place. *)
Without(seq, i) == SubSeq(seq, 1, i - 1) \o SubSeq(seq, i + 1, Len(seq))

LEMMA WithoutProperties ==
    ASSUME NEW S, NEW seq \in Seq(S), NEW i \in 1..Len(seq)
    PROVE  /\ Without(seq, i) \in Seq(S)
           /\ Len(Without(seq, i)) = Len(seq) - 1
           /\ \A k \in 1..(Len(seq) - 1) :
                Without(seq, i)[k] = IF k < i THEN seq[k] ELSE seq[k + 1]
<1> DEFINE front == SubSeq(seq, 1, i - 1)
           back == SubSeq(seq, i + 1, Len(seq))
<1>1. /\ Len(seq) \in Nat
      /\ \A k \in 1..Len(seq) : seq[k] \in S
  BY LenProperties, ElementOfSeq
<1>2. /\ front \in Seq(S)
      /\ Len(front) = i - 1
      /\ \A k \in 1..(i - 1) : front[k] = seq[k]
  <2>1. \A k \in 1..(i - 1) : seq[k] \in S
    BY <1>1
  <2>2. QED
    BY <1>1, <2>1, SubSeqProperties
<1>3. /\ back \in Seq(S)
      /\ Len(back) = Len(seq) - i
      /\ \A k \in 1..(Len(seq) - i) : back[k] = seq[k + i]
  <2>1. \A k \in (i + 1)..Len(seq) : seq[k] \in S
    BY <1>1
  <2>2. /\ back \in Seq(S)
        /\ Len(back) = IF i + 1 <= Len(seq) THEN Len(seq) - (i + 1) + 1 ELSE 0
        /\ \A k \in 1..(Len(seq) - (i + 1) + 1) : back[k] = seq[(i + 1) + k - 1]
    BY <1>1, <2>1, SubSeqProperties
  <2>3. \A k \in 1..(Len(seq) - i) : (i + 1) + k - 1 = k + i
    BY <1>1
  <2>4. QED
    BY <1>1, <2>2, <2>3
<1> HIDE DEF front, back
<1>4. /\ front \o back \in Seq(S)
      /\ Len(front \o back) = Len(front) + Len(back)
      /\ \A k \in 1..(Len(front) + Len(back)) :
           (front \o back)[k] = IF k <= Len(front) THEN front[k] ELSE back[k - Len(front)]
  BY <1>2, <1>3, ConcatProperties
<1>5. \A k \in 1..(Len(seq) - 1) :
        (front \o back)[k] = IF k < i THEN seq[k] ELSE seq[k + 1]
  <2> SUFFICES ASSUME NEW k \in 1..(Len(seq) - 1)
               PROVE  (front \o back)[k] = IF k < i THEN seq[k] ELSE seq[k + 1]
    OBVIOUS
  <2>1. CASE k < i
    BY <2>1, <1>1, <1>2, <1>3, <1>4
  <2>2. CASE ~(k < i)
    <3>1. /\ k - (i - 1) \in 1..(Len(seq) - i)
          /\ (k - (i - 1)) + i = k + 1
      BY <2>2, <1>1
    <3>2. ~(k <= Len(front)) /\ k \in 1..(Len(front) + Len(back))
      BY <2>2, <1>1, <1>2, <1>3
    <3>3. (front \o back)[k] = back[k - (i - 1)]
      BY <3>2, <1>2, <1>4
    <3>4. back[k - (i - 1)] = seq[k + 1]
      BY <3>1, <1>3
    <3>5. QED
      BY <2>2, <3>3, <3>4
  <2>3. QED
    BY <2>1, <2>2
<1>6. Len(front \o back) = Len(seq) - 1
  BY <1>1, <1>2, <1>3, <1>4
<1>7. Without(seq, i) = front \o back
  BY DEF Without, front, back
<1>8. QED
  BY <1>4, <1>5, <1>6, <1>7

LEMMA QueueShorter ==
    ASSUME waiters \in Seq(Requests), Once(waiters), NEW r \in Elements(waiters)
    PROVE  /\ WithoutWaiter(r) \in Seq(Requests)
           /\ Once(WithoutWaiter(r))
           /\ Elements(WithoutWaiter(r)) = Elements(waiters) \ {r}
           /\ Len(WithoutWaiter(r)) = Len(waiters) - 1
<1>1. PICK place \in DOMAIN waiters :
        waiters[place] = r /\ WithoutWaiter(r) = Without(waiters, place)
  <2>1. \E i \in DOMAIN waiters : waiters[i] = r
    BY DEF Elements
  <2>2. QED
    BY <2>1 DEF WithoutWaiter, Without
<1>2. PICK rest : rest = WithoutWaiter(r)
  OBVIOUS
<1>3. PICK n : n = Len(waiters)
  OBVIOUS
<1>4. n \in Nat /\ DOMAIN waiters = 1..n /\ place \in 1..n
  BY <1>1, <1>3, QueueDomain
<1>5. /\ rest \in Seq(Requests) /\ Len(rest) = n - 1
      /\ \A k \in 1..(n - 1) : rest[k] = IF k < place THEN waiters[k] ELSE waiters[k + 1]
  BY <1>1, <1>2, <1>3, <1>4, WithoutProperties
<1>6. DOMAIN rest = 1..(n - 1)
  BY <1>5, QueueDomain
<1>7. \A i, j \in 1..n : waiters[i] = waiters[j] => i = j
  BY <1>4 DEF Once
<1>8. \A i \in 1..(n - 1) :
        \E k \in 1..n : /\ k # place /\ rest[i] = waiters[k]
                        /\ k = IF i < place THEN i ELSE i + 1
  <2> SUFFICES ASSUME NEW i \in 1..(n - 1)
               PROVE  \E k \in 1..n : /\ k # place /\ rest[i] = waiters[k]
                                      /\ k = IF i < place THEN i ELSE i + 1
    OBVIOUS
  <2>1. CASE i < place
    <3>1. i \in 1..n /\ i # place /\ rest[i] = waiters[i]
      BY <1>4, <1>5, <2>1
    <3>2. QED
      BY <2>1, <3>1
  <2>2. CASE ~(i < place)
    <3>1. i + 1 \in 1..n /\ i + 1 # place /\ rest[i] = waiters[i + 1]
      BY <1>4, <1>5, <2>2
    <3>2. QED
      BY <2>2, <3>1
  <2>3. QED
    BY <2>1, <2>2
<1>9. \A k \in 1..n : k # place => \E i \in 1..(n - 1) : rest[i] = waiters[k]
  <2> SUFFICES ASSUME NEW k \in 1..n, k # place
               PROVE  \E i \in 1..(n - 1) : rest[i] = waiters[k]
    OBVIOUS
  <2>1. CASE k < place
    <3>1. k \in 1..(n - 1) /\ rest[k] = waiters[k]
      BY <1>4, <1>5, <2>1
    <3>2. QED
      BY <3>1
  <2>2. CASE ~(k < place)
    <3>1. k - 1 \in 1..(n - 1) /\ ~(k - 1 < place) /\ (k - 1) + 1 = k
      BY <1>4, <2>2
    <3>2. rest[k - 1] = waiters[(k - 1) + 1]
      BY <1>5, <3>1
    <3>3. QED
      BY <3>1, <3>2
  <2>3. QED
    BY <2>1, <2>2
<1>10. Once(rest)
  <2> SUFFICES ASSUME NEW i \in 1..(n - 1), NEW j \in 1..(n - 1), rest[i] = rest[j]
               PROVE  i = j
    BY <1>6 DEF Once
  <2>1. PICK k \in 1..n : rest[i] = waiters[k] /\ k = IF i < place THEN i ELSE i + 1
    BY <1>8
  <2>2. PICK m \in 1..n : rest[j] = waiters[m] /\ m = IF j < place THEN j ELSE j + 1
    BY <1>8
  <2>3. k = m
    BY <1>7, <2>1, <2>2
  <2>4. QED
    BY <1>4, <2>1, <2>2, <2>3
<1>11. Elements(rest) = Elements(waiters) \ {r}
  <2>1. Elements(rest) \subseteq Elements(waiters) \ {r}
    BY <1>1, <1>4, <1>6, <1>7, <1>8 DEF Elements
  <2>2. Elements(waiters) \ {r} \subseteq Elements(rest)
    BY <1>1, <1>4, <1>6, <1>9 DEF Elements
  <2>3. QED
    BY <2>1, <2>2
<1>12. QED
  BY <1>2, <1>3, <1>5, <1>10, <1>11

-----------------------------------------------------------------------------
(* Waking one more waiter *)

\* A permit is handed to a sleeper of the queue, or everyone is awake.
LEMMA WakeUpGives ==
    ASSUME NEW value \in Nat \ {0}, NEW queue \in Seq(Requests), NEW awake,
           IsFiniteSet(awake), awake \subseteq Elements(queue),
           WakeUpNext(value, queue, awake)
    PROVE  /\ permits' \in Nat
           /\ IsFiniteSet(granted')
           /\ granted' \subseteq Elements(queue)
           /\ permits' + Cardinality(granted') = value + Cardinality(awake)
           /\ Asleep(queue, granted') # {} => granted' # {}
<1>1. Cardinality(awake) \in Nat
  BY FS_CardinalityType
<1>2. CASE Asleep(queue, awake) = {} /\ permits' = value /\ granted' = awake
  BY <1>1, <1>2
<1>3. CASE \E i \in Asleep(queue, awake) :
             permits' = value - 1 /\ granted' = awake \cup {queue[i]}
  <2>1. PICK i \in Asleep(queue, awake) :
          permits' = value - 1 /\ granted' = awake \cup {queue[i]}
    BY <1>3
  <2>2. queue[i] \in Elements(queue) /\ queue[i] \notin awake
    BY DEF Asleep, Elements
  <2>3. /\ IsFiniteSet(granted')
        /\ Cardinality(granted') = Cardinality(awake) + 1
    BY <2>1, <2>2, OneMore
  <2>4. QED
    BY <1>1, <2>1, <2>2, <2>3
<1>4. QED
  BY <1>2, <1>3 DEF WakeUpNext

-----------------------------------------------------------------------------
(* The invariant of the slots *)

SlotInv ==
    /\ stage \in [Requests -> Stages]
    /\ permits \in Nat
    /\ waiters \in Seq(Requests)
    /\ Once(waiters)
    /\ Elements(waiters) = Sleepers
    /\ granted \subseteq Elements(waiters)
    /\ IsFiniteSet(granted)
    /\ IsFiniteSet(Holders)
    /\ IsFiniteSet(Left)
    /\ PermitsConserved
    /\ CountersExplained
    /\ NoIdlePermit

\* The numbers the arithmetic of the steps is about.
LEMMA SlotNumbers ==
    ASSUME SlotInv
    PROVE  /\ permits \in Nat
           /\ Cardinality(granted) \in Nat
           /\ Cardinality(Holders) \in Nat
           /\ Cardinality(Left) \in Nat
           /\ Len(waiters) \in Nat
           /\ permits + Cardinality(granted) + Cardinality(Holders) = MaxConcurrent
           /\ active = Cardinality(Holders)
           /\ queued = Len(waiters) + Cardinality(Left)
BY FS_CardinalityType, QueueDomain
   DEF SlotInv, PermitsConserved, CountersExplained, Left

\* What is left to show of a step that moves the permits.
LEMMA SlotInvNext ==
    ASSUME stage' \in [Requests -> Stages],
           permits' \in Nat,
           waiters' \in Seq(Requests), Once(waiters'),
           Elements(waiters') = Sleepers',
           granted' \subseteq Elements(waiters'), IsFiniteSet(granted'),
           IsFiniteSet(Holders'), IsFiniteSet(Left'),
           permits' + Cardinality(granted') + Cardinality(Holders') = MaxConcurrent,
           active' = Cardinality(Holders'),
           queued' = Len(waiters') + Cardinality(Left'),
           permits' > 0 /\ Asleep(waiters', granted') # {} => granted' # {}
    PROVE  SlotInv'
<1>1. PermitsConserved'
  BY DEF PermitsConserved
<1>2. CountersExplained'
  BY DEF CountersExplained, Left
<1>3. NoIdlePermit'
  BY DEF NoIdlePermit, Asleep
<1>4. QED
  BY <1>1, <1>2, <1>3 DEF SlotInv, Once, Elements

LEMMA EnterFreeKeeps ==
    ASSUME SlotAssumption, SlotInv, NEW r \in Requests, EnterFree(r),
           Move(r, "new", Asking)
    PROVE  SlotInv'
<1>1. /\ stage' \in [Requests -> Stages]
      /\ Holders' = Holders \cup {r} /\ Left' = Left \ {r}
      /\ Sleepers' = Sleepers \ {r}
      /\ r \notin Holders /\ r \notin Left /\ r \notin Sleepers
  BY StageMoves DEF SlotInv, Stages, InSlot, Waiting, Asking, Relaying, Sending,
                    Failing, Orphaned, Logging
<1>2. Left' = Left /\ Sleepers' = Sleepers
  BY <1>1
<1>3. /\ permits # 0 /\ waiters = <<>>
      /\ permits' = permits - 1 /\ active' = active + 1
      /\ waiters' = waiters /\ granted' = granted /\ queued' = queued
  BY DEF EnterFree, Locked
<1>4. /\ IsFiniteSet(Holders')
      /\ Cardinality(Holders') = Cardinality(Holders) + 1
  BY <1>1, OneMore DEF SlotInv
<1>5. Asleep(waiters', granted') = {}
  BY <1>3 DEF Asleep
<1>6. permits' \in Nat
  BY <1>3, SlotNumbers
<1>7. permits' + Cardinality(granted') + Cardinality(Holders') = MaxConcurrent
  BY <1>3, <1>4, SlotNumbers
<1>8. active' = Cardinality(Holders') /\ queued' = Len(waiters') + Cardinality(Left')
  BY <1>2, <1>3, <1>4, SlotNumbers
<1>9. /\ waiters' \in Seq(Requests) /\ Once(waiters')
      /\ Elements(waiters') = Sleepers' /\ granted' \subseteq Elements(waiters')
      /\ IsFiniteSet(granted') /\ IsFiniteSet(Left')
  BY <1>2, <1>3 DEF SlotInv
<1>10. QED
  BY <1>1, <1>4, <1>5, <1>6, <1>7, <1>8, <1>9, SlotInvNext

LEMMA EnqueueKeeps ==
    ASSUME SlotAssumption, SlotInv, NEW r \in Requests, Enqueue(r),
           Move(r, "new", Waiting)
    PROVE  SlotInv'
<1>1. /\ stage' \in [Requests -> Stages]
      /\ Holders' = Holders \ {r} /\ Left' = Left \ {r}
      /\ Sleepers' = Sleepers \cup {r}
      /\ r \notin Holders /\ r \notin Left /\ r \notin Sleepers
  BY StageMoves DEF SlotInv, Stages, InSlot, Waiting, Asking, Relaying, Sending,
                    Failing, Orphaned, Logging
<1>2. Left' = Left /\ Holders' = Holders
  BY <1>1
<1>3. /\ permits = 0 \/ waiters # <<>>
      /\ waiters' = Append(waiters, r) /\ queued' = queued + 1
      /\ permits' = permits /\ granted' = granted /\ active' = active
  BY DEF Enqueue, Locked
<1>4. /\ waiters' \in Seq(Requests) /\ Once(waiters')
      /\ Elements(waiters') = Elements(waiters) \cup {r}
      /\ Len(waiters') = Len(waiters) + 1
  BY <1>1, <1>3, QueueLonger DEF SlotInv
<1>5. permits' > 0 => granted' # {}
  <2> SUFFICES ASSUME permits > 0 PROVE granted # {}
    BY <1>3
  <2>1. /\ waiters \in Seq(Requests) /\ waiters # <<>>
    BY <1>3, SlotNumbers DEF SlotInv
  <2>2. Len(waiters) \in Nat /\ Len(waiters) # 0 /\ DOMAIN waiters = 1..Len(waiters)
    BY <2>1, QueueDomain, EmptySeq
  <2>3. 1 \in DOMAIN waiters
    BY <2>2
  <2>4. CASE waiters[1] \in granted
    BY <2>4
  <2>5. CASE waiters[1] \notin granted
    BY <2>3, <2>5 DEF SlotInv, NoIdlePermit, Asleep
  <2>6. QED
    BY <2>4, <2>5
<1>6. /\ permits' \in Nat
      /\ permits' + Cardinality(granted') + Cardinality(Holders') = MaxConcurrent
      /\ active' = Cardinality(Holders')
  BY <1>2, <1>3, SlotNumbers
<1>7. queued' = Len(waiters') + Cardinality(Left')
  BY <1>2, <1>3, <1>4, SlotNumbers
<1>8. /\ Elements(waiters') = Sleepers' /\ granted' \subseteq Elements(waiters')
      /\ IsFiniteSet(granted') /\ IsFiniteSet(Left') /\ IsFiniteSet(Holders')
  BY <1>1, <1>2, <1>3, <1>4 DEF SlotInv
<1>9. QED
  BY <1>1, <1>4, <1>5, <1>6, <1>7, <1>8, SlotInvNext

\* A waiter leaves the queue: the rest of the queue is in order.
LEMMA WaiterGone ==
    ASSUME SlotInv, NEW r \in Elements(waiters)
    PROVE  /\ WithoutWaiter(r) \in Seq(Requests)
           /\ Once(WithoutWaiter(r))
           /\ Elements(WithoutWaiter(r)) = Sleepers \ {r}
           /\ Len(WithoutWaiter(r)) = Len(waiters) - 1
           /\ IsFiniteSet(granted \ {r})
           /\ granted \ {r} \subseteq Elements(WithoutWaiter(r))
           /\ r \in granted => Cardinality(granted \ {r}) = Cardinality(granted) - 1
<1>1. /\ WithoutWaiter(r) \in Seq(Requests) /\ Once(WithoutWaiter(r))
      /\ Elements(WithoutWaiter(r)) = Elements(waiters) \ {r}
      /\ Len(WithoutWaiter(r)) = Len(waiters) - 1
  BY QueueShorter DEF SlotInv
<1>2. r \in granted => /\ IsFiniteSet(granted \ {r})
                       /\ Cardinality(granted \ {r}) = Cardinality(granted) - 1
  BY OneLess DEF SlotInv
<1>3. r \notin granted => granted \ {r} = granted
  OBVIOUS
<1>4. QED
  BY <1>1, <1>2, <1>3 DEF SlotInv

LEMMA ResumeKeeps ==
    ASSUME SlotAssumption, SlotInv, NEW r \in Requests, Resume(r),
           Move(r, Waiting, Asking)
    PROVE  SlotInv'
<1>1. /\ stage' \in [Requests -> Stages]
      /\ Holders' = Holders \cup {r} /\ Left' = Left \ {r}
      /\ Sleepers' = Sleepers \ {r}
      /\ r \notin Holders /\ r \notin Left
  BY StageMoves DEF SlotInv, Stages, InSlot, Waiting, Asking, Relaying, Sending,
                    Failing, Orphaned, Logging
<1>2. Left' = Left
  BY <1>1
<1>3. /\ r \in granted /\ waiters' = WithoutWaiter(r)
      /\ queued' = queued - 1 /\ active' = active + 1
  BY DEF Resume
<1>4. /\ waiters' \in Seq(Requests) /\ Once(waiters')
      /\ Elements(waiters') = Sleepers'
      /\ Len(waiters') = Len(waiters) - 1
      /\ IsFiniteSet(granted \ {r})
      /\ granted \ {r} \subseteq Elements(waiters')
      /\ Cardinality(granted \ {r}) = Cardinality(granted) - 1
  BY <1>1, <1>3, WaiterGone DEF SlotInv
<1>5. /\ IsFiniteSet(Holders')
      /\ Cardinality(Holders') = Cardinality(Holders) + 1
  BY <1>1, OneMore DEF SlotInv
<1>6. /\ permits' \in Nat
      /\ IsFiniteSet(granted')
      /\ granted' \subseteq Elements(waiters')
      /\ permits' + Cardinality(granted') = permits + Cardinality(granted \ {r})
      /\ permits' > 0 /\ Asleep(waiters', granted') # {} => granted' # {}
  <2>1. CASE permits > 0
    <3>1. WakeUpNext(permits, waiters', granted \ {r})
      BY <1>3, <2>1 DEF Resume
    <3>2. permits \in Nat \ {0}
      BY <2>1, SlotNumbers
    <3>3. QED
      BY <1>4, <3>1, <3>2, WakeUpGives
  <2>2. CASE ~(permits > 0)
    <3>1. granted' = granted \ {r} /\ permits' = permits
      BY <2>2 DEF Resume
    <3>2. QED
      BY <1>4, <2>2, <3>1, SlotNumbers
  <2>3. QED
    BY <2>1, <2>2
<1>7. permits' + Cardinality(granted') + Cardinality(Holders') = MaxConcurrent
  BY <1>4, <1>5, <1>6, SlotNumbers
<1>8. active' = Cardinality(Holders') /\ queued' = Len(waiters') + Cardinality(Left')
  BY <1>2, <1>3, <1>4, <1>5, SlotNumbers
<1>9. IsFiniteSet(Left')
  BY <1>2 DEF SlotInv
<1>10. QED
  BY <1>1, <1>4, <1>5, <1>6, <1>7, <1>8, <1>9, SlotInvNext

LEMMA LeaveQueueKeeps ==
    ASSUME SlotAssumption, SlotInv, NEW r \in Requests, LeaveQueue(r),
           Move(r, Waiting, "left")
    PROVE  SlotInv'
<1>1. /\ stage' \in [Requests -> Stages]
      /\ Holders' = Holders \ {r} /\ Left' = Left \cup {r}
      /\ Sleepers' = Sleepers \ {r}
      /\ r \notin Holders /\ r \notin Left
  BY StageMoves DEF SlotInv, Stages, InSlot, Waiting, Asking, Relaying, Sending,
                    Failing, Orphaned, Logging
<1>2. Holders' = Holders
  BY <1>1
<1>3. /\ r \in Elements(waiters) /\ waiters' = WithoutWaiter(r)
      /\ queued' = queued /\ active' = active
  BY DEF LeaveQueue, InQueue, Elements
<1>4. /\ waiters' \in Seq(Requests) /\ Once(waiters')
      /\ Elements(waiters') = Sleepers'
      /\ Len(waiters') = Len(waiters) - 1
      /\ IsFiniteSet(granted \ {r})
      /\ granted \ {r} \subseteq Elements(waiters')
      /\ r \in granted => Cardinality(granted \ {r}) = Cardinality(granted) - 1
  BY <1>1, <1>3, WaiterGone
<1>5. /\ IsFiniteSet(Left')
      /\ Cardinality(Left') = Cardinality(Left) + 1
  BY <1>1, OneMore DEF SlotInv
<1>6. /\ permits' \in Nat
      /\ IsFiniteSet(granted')
      /\ granted' \subseteq Elements(waiters')
      /\ permits' + Cardinality(granted') = permits + Cardinality(granted)
      /\ permits' > 0 /\ Asleep(waiters', granted') # {} => granted' # {}
  <2>1. CASE r \in granted
    <3>1. WakeUpNext(permits + 1, waiters', granted \ {r})
      BY <1>3, <2>1 DEF LeaveQueue
    <3>2. permits + 1 \in Nat \ {0}
      BY SlotNumbers
    <3>3. /\ permits' \in Nat /\ IsFiniteSet(granted')
          /\ granted' \subseteq Elements(waiters')
          /\ permits' + Cardinality(granted') = (permits + 1) + Cardinality(granted \ {r})
          /\ Asleep(waiters', granted') # {} => granted' # {}
      BY <1>4, <3>1, <3>2, WakeUpGives
    <3>4. (permits + 1) + Cardinality(granted \ {r}) = permits + Cardinality(granted)
      BY <1>4, <2>1, SlotNumbers
    <3>5. QED
      BY <3>3, <3>4
  <2>2. CASE r \notin granted
    <3>1. granted' = granted /\ permits' = permits /\ granted \ {r} = granted
      BY <2>2 DEF LeaveQueue
    <3>2. Elements(waiters') \subseteq Elements(waiters)
      BY <1>1, <1>4 DEF SlotInv
    <3>3. Asleep(waiters', granted') # {} => Asleep(waiters, granted) # {}
      BY <3>1, <3>2 DEF Asleep, Elements
    <3>4. QED
      BY <1>4, <3>1, <3>3, SlotNumbers DEF SlotInv, NoIdlePermit
  <2>3. QED
    BY <2>1, <2>2
<1>7. permits' + Cardinality(granted') + Cardinality(Holders') = MaxConcurrent
  BY <1>2, <1>6, SlotNumbers
<1>8. active' = Cardinality(Holders') /\ queued' = Len(waiters') + Cardinality(Left')
  BY <1>2, <1>3, <1>4, <1>5, SlotNumbers
<1>9. IsFiniteSet(Holders')
  BY <1>2 DEF SlotInv
<1>10. QED
  BY <1>1, <1>4, <1>5, <1>6, <1>7, <1>8, <1>9, SlotInvNext

\* Every stage a request gives its slot back for.
LEMMA ReleaseKeeps ==
    ASSUME SlotAssumption, SlotInv, NEW r \in Requests, Release,
           NEW from \in InSlot, NEW to \in {Replying, "done"}, Move(r, from, to)
    PROVE  SlotInv'
<1>1. /\ stage' \in [Requests -> Stages]
      /\ Holders' = Holders \ {r} /\ Left' = Left \ {r}
      /\ Sleepers' = Sleepers \ {r}
      /\ r \in Holders /\ r \notin Left /\ r \notin Sleepers
  <2>1. /\ to \in Stages /\ to \notin InSlot /\ to # "left" /\ to # Waiting
        /\ from # "left" /\ from # Waiting
    BY DEF Stages, InSlot, Waiting, Asking, Relaying, Sending, Failing, Orphaned,
           Logging, Replying
  <2>2. QED
    BY <2>1, StageMoves DEF SlotInv
<1>2. Left' = Left /\ Sleepers' = Sleepers
  BY <1>1
<1>3. /\ active' = active - 1 /\ waiters' = waiters /\ queued' = queued
      /\ WakeUpNext(permits + 1, waiters, granted)
  BY DEF Release
<1>4. /\ IsFiniteSet(Holders')
      /\ Cardinality(Holders') = Cardinality(Holders) - 1
  BY <1>1, OneLess DEF SlotInv
<1>5. permits + 1 \in Nat \ {0}
  BY SlotNumbers
<1>6. /\ permits' \in Nat
      /\ IsFiniteSet(granted')
      /\ granted' \subseteq Elements(waiters)
      /\ permits' + Cardinality(granted') = (permits + 1) + Cardinality(granted)
      /\ Asleep(waiters, granted') # {} => granted' # {}
  BY <1>3, <1>5, WakeUpGives DEF SlotInv
<1>7. permits' + Cardinality(granted') + Cardinality(Holders') = MaxConcurrent
  <2>1. Cardinality(granted') \in Nat
    BY <1>6, FS_CardinalityType
  <2>2. QED
    BY <1>4, <1>6, <2>1, SlotNumbers
<1>8. active' = Cardinality(Holders') /\ queued' = Len(waiters') + Cardinality(Left')
  BY <1>2, <1>3, <1>4, SlotNumbers
<1>9. /\ waiters' \in Seq(Requests) /\ Once(waiters')
      /\ Elements(waiters') = Sleepers' /\ IsFiniteSet(Left')
  BY <1>2, <1>3 DEF SlotInv
<1>10. QED
  BY <1>1, <1>3, <1>4, <1>6, <1>7, <1>8, <1>9, SlotInvNext

\* A request moves on, within its slot or without one.
LEMMA MoveKeeps ==
    ASSUME SlotAssumption, SlotInv, NEW r \in Requests, UNCHANGED slotVars,
           NEW from, NEW to, Move(r, from, to),
           (from \in InSlot /\ to \in InSlot) \/ (from = Replying /\ to = "done")
    PROVE  SlotInv'
<1>1. /\ stage' \in [Requests -> Stages]
      /\ Holders' = Holders /\ Left' = Left /\ Sleepers' = Sleepers
  <2>1. /\ to \in Stages /\ (to \in InSlot <=> from \in InSlot)
        /\ to # "left" /\ to # Waiting /\ from # "left" /\ from # Waiting
    BY DEF Stages, InSlot, Waiting, Asking, Relaying, Sending, Failing, Orphaned,
           Logging, Replying
  <2>2. /\ stage' \in [Requests -> Stages]
        /\ Holders' = IF to \in InSlot THEN Holders \cup {r} ELSE Holders \ {r}
        /\ Left' = Left \ {r} /\ Sleepers' = Sleepers \ {r}
        /\ r \in Holders <=> from \in InSlot
        /\ r \notin Left /\ r \notin Sleepers
    BY <2>1, StageMoves DEF SlotInv
  <2>3. QED
    BY <2>1, <2>2
<1>2. /\ permits' = permits /\ waiters' = waiters /\ granted' = granted
      /\ active' = active /\ queued' = queued
  BY DEF slotVars
<1>3. QED
  BY <1>1, <1>2, SlotNumbers, SlotInvNext DEF SlotInv, NoIdlePermit

\* The actions of a request, as moves from stage to stage.
LEMMA SlotInvStep ==
    ASSUME SlotAssumption, SlotInv, [Next]_vars
    PROVE  SlotInv'
<1> DEFINE Kept(r) == \E from, to :
             /\ Move(r, from, to) /\ UNCHANGED slotVars
             /\ \/ from \in InSlot /\ to \in InSlot
                \/ from = Replying /\ to = "done"
<1>1. ASSUME NEW r \in Requests, Kept(r)
      PROVE  SlotInv'
  BY <1>1, MoveKeeps
<1> HIDE DEF Kept
<1> USE DEF InSlot, Asking, Relaying, Sending, Failing, Orphaned, Logging
<1>2. ASSUME NEW r \in Requests, Enter(r)
      PROVE  SlotInv'
  BY <1>2, EnterFreeKeeps, EnqueueKeeps DEF Enter, Asking
<1>3. ASSUME NEW r \in Requests, YieldChunk(r)
      PROVE  SlotInv'
  BY <1>1, <1>3 DEF YieldChunk, Kept
<1>4. ASSUME NEW r \in Requests, ModelSteps(r)
      PROVE  SlotInv'
  <2>1. CASE PostReturns(r)
    BY <2>1, ReleaseKeeps DEF PostReturns
  <2>2. CASE PostFails(r)
    BY <1>1, <2>2 DEF PostFails, Kept
  <2>3. CASE StreamOpens(r)
    BY <1>1, <2>3 DEF StreamOpens, Kept
  <2>4. CASE StreamEnds(r)
    BY <1>1, <2>4 DEF StreamEnds, Kept
  <2>5. CASE StreamBreaks(r)
    BY <1>1, <2>5 DEF StreamBreaks, Kept
  <2>6. QED
    BY <1>4, <2>1, <2>2, <2>3, <2>4, <2>5 DEF ModelSteps
<1>5. ASSUME NEW r \in Requests, GatewaySteps(r)
      PROVE  SlotInv'
  <2>1. CASE TakeSlot(r)
    BY <2>1, ResumeKeeps DEF TakeSlot
  <2>2. CASE Reply(r)
    BY <1>1, <2>2 DEF Reply, Kept
  <2>3. CASE Finish(r)
    BY <2>3, ReleaseKeeps DEF Finish
  <2>4. CASE Finalise(r)
    BY <1>1, <2>4 DEF Finalise, Kept
  <2>5. QED
    BY <1>5, <2>1, <2>2, <2>3, <2>4 DEF GatewaySteps
<1>6. ASSUME NEW r \in Requests, ClientSteps(r)
      PROVE  SlotInv'
  <2>1. CASE ChunkSent(r)
    BY <1>1, <2>1 DEF ChunkSent, Kept
  <2>2. CASE ErrorSent(r)
    BY <1>1, <2>2 DEF ErrorSent, Kept
  <2>3. CASE DisconnectSending(r)
    BY <1>1, <2>3 DEF DisconnectSending, Kept
  <2>4. CASE DisconnectWaiting(r)
    BY <2>4, LeaveQueueKeeps DEF DisconnectWaiting
  <2>5. CASE DisconnectReading(r)
    BY <1>1, <2>5 DEF DisconnectReading, Kept
  <2>6. QED
    BY <1>6, <2>1, <2>2, <2>3, <2>4, <2>5 DEF ClientSteps, ClientTakes
<1>7. CASE UNCHANGED vars
  <2>1. /\ permits' = permits /\ waiters' = waiters /\ granted' = granted
        /\ active' = active /\ queued' = queued /\ stage' = stage
    BY <1>7 DEF vars
  <2>2. Holders' = Holders /\ Left' = Left /\ Sleepers' = Sleepers
    BY <2>1 DEF Holders, Left, Sleepers
  <2>3. QED
    BY <2>1, <2>2, SlotNumbers, SlotInvNext DEF SlotInv, NoIdlePermit
<1>8. QED
  BY <1>2, <1>3, <1>4, <1>5, <1>6, <1>7 DEF Next, Terminated

LEMMA SlotInvInit ==
    ASSUME SlotAssumption, Init
    PROVE  SlotInv
<1>1. /\ permits = MaxConcurrent /\ waiters = <<>> /\ granted = {}
      /\ active = 0 /\ queued = 0 /\ stage = [r \in Requests |-> "new"]
  BY DEF Init, SlotInit
<1>2. Holders = {} /\ Left = {} /\ Sleepers = {}
  BY <1>1 DEF Holders, Left, Sleepers, InSlot, Waiting, Asking, Relaying, Sending,
              Failing, Orphaned, Logging
<1>3. /\ Cardinality({}) = 0 /\ IsFiniteSet({})
  BY FS_EmptySet
<1>4. /\ waiters \in Seq(Requests) /\ Len(waiters) = 0
      /\ DOMAIN waiters = {}
  BY <1>1
<1>5. PermitsConserved /\ CountersExplained
  <2>1. permits + Cardinality(granted) + Cardinality(Holders) = MaxConcurrent
    BY <1>1, <1>2, <1>3 DEF SlotAssumption
  <2>2. active = Cardinality(Holders) /\ queued = Len(waiters) + Cardinality(Left)
    BY <1>1, <1>2, <1>3, <1>4
  <2>3. QED
    BY <2>1, <2>2 DEF PermitsConserved, CountersExplained, Left
<1>6. NoIdlePermit /\ Once(waiters) /\ Elements(waiters) = {}
  BY <1>4 DEF NoIdlePermit, Asleep, Once, Elements
<1>7. QED
  BY <1>1, <1>2, <1>3, <1>4, <1>5, <1>6 DEF SlotInv, SlotAssumption, Stages

THEOREM SlotsInvariant == Spec => []SlotInv
<1>1. SlotAssumption
  BY SlotAssumption
<1>2. Init => SlotInv
  BY <1>1, SlotInvInit
<1>3. SlotInv /\ [Next]_vars => SlotInv'
  BY <1>1, SlotInvStep
<1>4. QED
  BY <1>2, <1>3, PTL DEF Spec

(* The permits are never lost and never invented, whichever way the requests
   that held them ended (monitoring.request_slot under upstream.forward). *)
THEOREM PermitsAreConserved == Spec => []PermitsConserved
<1>1. SlotInv => PermitsConserved
  BY DEF SlotInv
<1>2. QED
  BY <1>1, SlotsInvariant, PTL

(* A free permit and a sleeping request exist together only while a woken
   waiter is about to pass the permit on (Semaphore.release, acquire). *)
THEOREM NoPermitIdles == Spec => []NoIdlePermit
<1>1. SlotInv => NoIdlePermit
  BY DEF SlotInv
<1>2. QED
  BY <1>1, SlotsInvariant, PTL

(* The active counter is the slots in use; the queue counter is the queue and
   every stream that was left while it waited (monitoring.runtime_snapshot). *)
THEOREM CountersAreExplained == Spec => []CountersExplained
<1>1. SlotInv => CountersExplained
  BY DEF SlotInv
<1>2. QED
  BY <1>1, SlotsInvariant, PTL

-----------------------------------------------------------------------------
(* What the clients and the usage log are told *)

DataInv ==
    /\ status \in [Requests -> StatusCodes]
    /\ rows \in [Requests -> Seq(StatusCodes)]
    /\ answer \in [Requests -> StatusCodes \cup {Silence}]
    /\ UsageLogged

\* No step but the last of a request writes its row.
LEMMA NoRowYet ==
    ASSUME DataInv, stage \in [Requests -> Stages], NEW r \in Requests,
           NEW from, NEW to, Move(r, from, to), from # "done", to # "done",
           NEW code \in StatusCodes, status' = [status EXCEPT ![r] = code],
           NEW told \in StatusCodes \cup {Silence},
           answer' = [answer EXCEPT ![r] = told],
           rows' = rows
    PROVE  DataInv'
<1>1. /\ stage[r] = from
      /\ \A q \in Requests : stage'[q] = IF q = r THEN to ELSE stage[q]
  BY DEF Move
<1>2. /\ status' \in [Requests -> StatusCodes]
      /\ \A q \in Requests : q # r => status'[q] = status[q]
  BY DEF DataInv
<1>3. /\ answer' \in [Requests -> StatusCodes \cup {Silence}]
      /\ \A q \in Requests : q # r => answer'[q] = answer[q]
  BY DEF DataInv
<1>4. rows[r] = <<>>
  BY <1>1 DEF DataInv, UsageLogged
<1>5. UsageLogged'
  <2> SUFFICES ASSUME NEW q \in Requests
               PROVE  /\ rows'[q] # <<>> => /\ rows'[q] = <<status'[q]>>
                                            /\ stage'[q] = "done"
                      /\ stage'[q] = "done" /\ q \notin Streams =>
                           AgreesWithLog(rows'[q], answer'[q])
    BY DEF UsageLogged, AgreesWithLog
  <2>1. CASE q = r
    BY <1>1, <1>4, <2>1
  <2>2. CASE q # r
    <3>1. /\ rows[q] # <<>> => rows[q] = <<status[q]>> /\ stage[q] = "done"
          /\ stage[q] = "done" /\ q \notin Streams => AgreesWithLog(rows[q], answer[q])
      BY DEF DataInv, UsageLogged
    <3>2. QED
      BY <1>1, <1>2, <1>3, <2>2, <3>1
  <2>3. QED
    BY <2>1, <2>2
<1>6. rows' \in [Requests -> Seq(StatusCodes)]
  BY DEF DataInv
<1>7. QED
  BY <1>2, <1>3, <1>5, <1>6 DEF DataInv

\* The last step of a request, which writes its row or fails to.
LEMMA RowWritten ==
    ASSUME DataInv, stage \in [Requests -> Stages], NEW r \in Requests,
           NEW from, Move(r, from, "done"), from # "done",
           NEW written \in BOOLEAN, RecordUsage(r, written),
           \/ Answer(r, written)
           \/ written /\ AnswerSpoilt(r)
           \/ r \in Streams /\ answer' = answer,
           status' = status
    PROVE  DataInv'
<1>1. /\ stage[r] = from
      /\ \A q \in Requests : stage'[q] = IF q = r THEN "done" ELSE stage[q]
  BY DEF Move
<1>2. rows[r] = <<>> /\ status[r] \in StatusCodes
  BY <1>1 DEF DataInv, UsageLogged
<1>3. <<status[r]>> \in Seq(StatusCodes) /\ Append(<<>>, status[r]) = <<status[r]>>
  BY <1>2
<1>4. /\ rows' \in [Requests -> Seq(StatusCodes)]
      /\ rows'[r] = IF written THEN <<status[r]>> ELSE <<>>
      /\ \A q \in Requests : q # r => rows'[q] = rows[q]
  <2>1. rows' = [rows EXCEPT ![r] = IF written THEN <<status[r]>> ELSE <<>>]
    BY <1>2, <1>3 DEF RecordUsage
  <2>2. <<>> \in Seq(StatusCodes)
    OBVIOUS
  <2>3. QED
    BY <1>3, <2>1, <2>2 DEF DataInv
<1>5. /\ answer' \in [Requests -> StatusCodes \cup {Silence}]
      /\ \A q \in Requests : q # r => answer'[q] = answer[q]
      /\ r \notin Streams =>
           \/ answer'[r] = IF written THEN status[r] ELSE 500
           \/ written /\ answer'[r] \in {500, 502}
  <2>1. CASE Answer(r, written)
    <3>1. answer' = [answer EXCEPT ![r] = IF written THEN status[r] ELSE 500]
      BY <2>1 DEF Answer
    <3>2. 500 \in StatusCodes
      BY DEF StatusCodes
    <3>3. PICK code \in StatusCodes : code = IF written THEN status[r] ELSE 500
      BY <1>2, <3>2
    <3>4. answer' = [answer EXCEPT ![r] = code]
      BY <3>1, <3>3
    <3>5. answer \in [Requests -> StatusCodes \cup {Silence}]
      BY DEF DataInv
    <3>6. /\ answer' \in [Requests -> StatusCodes \cup {Silence}]
          /\ \A q \in Requests : q # r => answer'[q] = answer[q]
          /\ answer'[r] = code
      BY <3>4, <3>5
    <3>7. QED
      BY <3>3, <3>6
  <2>2. CASE written /\ AnswerSpoilt(r)
    <3>1. PICK code \in {500, 502} : answer' = [answer EXCEPT ![r] = code]
      BY <2>2 DEF AnswerSpoilt
    <3>2. code \in StatusCodes
      BY DEF StatusCodes
    <3>3. QED
      BY <2>2, <3>1, <3>2 DEF DataInv
  <2>3. CASE r \in Streams /\ answer' = answer
    BY <2>3 DEF DataInv
  <2>4. QED
    BY <2>1, <2>2, <2>3
<1>6. UsageLogged'
  <2> SUFFICES ASSUME NEW q \in Requests
               PROVE  /\ rows'[q] # <<>> => /\ rows'[q] = <<status'[q]>>
                                            /\ stage'[q] = "done"
                      /\ stage'[q] = "done" /\ q \notin Streams =>
                           AgreesWithLog(rows'[q], answer'[q])
    BY DEF UsageLogged, AgreesWithLog
  <2>1. CASE q = r
    <3>1. rows'[r] = IF written THEN <<status'[r]>> ELSE <<>>
      BY <1>4
    <3>2. r \notin Streams =>
            \/ answer'[r] = IF written THEN status'[r] ELSE 500
            \/ written /\ answer'[r] \in {500, 502}
      BY <1>5
    <3>3. stage'[r] = "done"
      BY <1>1
    <3>4. <<status'[r]>> # <<>>
      OBVIOUS
    <3>5. CASE written
      BY <2>1, <3>1, <3>2, <3>3, <3>4, <3>5 DEF AgreesWithLog
    <3>6. CASE ~written
      BY <2>1, <3>1, <3>2, <3>3, <3>6 DEF AgreesWithLog
    <3>7. QED
      BY <3>5, <3>6
  <2>2. CASE q # r
    <3>1. /\ rows[q] # <<>> => rows[q] = <<status[q]>> /\ stage[q] = "done"
          /\ stage[q] = "done" /\ q \notin Streams => AgreesWithLog(rows[q], answer[q])
      BY DEF DataInv, UsageLogged
    <3>2. QED
      BY <1>1, <1>4, <1>5, <2>2, <3>1
  <2>3. QED
    BY <2>1, <2>2
<1>7. status' \in [Requests -> StatusCodes]
  BY DEF DataInv
<1>8. QED
  BY <1>4, <1>5, <1>6, <1>7 DEF DataInv

\* A step that leaves the client's answer, and perhaps the status, alone.
LEMMA QuietMove ==
    ASSUME DataInv, stage \in [Requests -> Stages], NEW r \in Requests,
           NEW from, NEW to, Move(r, from, to), from # "done", to # "done",
           \/ status' = status
           \/ \E code \in StatusCodes : status' = [status EXCEPT ![r] = code],
           answer' = answer, rows' = rows
    PROVE  DataInv'
<1>1. answer' = [answer EXCEPT ![r] = answer[r]]
      /\ answer[r] \in StatusCodes \cup {Silence}
  BY DEF DataInv
<1>2. PICK code \in StatusCodes : status' = [status EXCEPT ![r] = code]
  <2>1. CASE status' = status
    <3>1. status' = [status EXCEPT ![r] = status[r]] /\ status[r] \in StatusCodes
      BY <2>1 DEF DataInv
    <3>2. QED
      BY <3>1
  <2>2. QED
    BY <2>1
<1>3. QED
  BY <1>1, <1>2, NoRowYet

LEMMA DataInvStep ==
    ASSUME DataInv, stage \in [Requests -> Stages], [Next]_vars
    PROVE  DataInv'
<1> DEFINE Quiet(r) == \E from, to :
             /\ Move(r, from, to) /\ from # "done" /\ to # "done"
             /\ \/ status' = status
                \/ \E code \in StatusCodes : status' = [status EXCEPT ![r] = code]
             /\ answer' = answer /\ rows' = rows
<1>1. ASSUME NEW r \in Requests, Quiet(r)
      PROVE  DataInv'
  BY <1>1, QuietMove
<1> HIDE DEF Quiet
<1> USE DEF Waiting, Asking, Relaying, Sending, Failing, Orphaned, Logging, Replying
<1>2. ModelCodes \subseteq StatusCodes /\ {200, 500, 502, 504} \subseteq StatusCodes
  BY DEF StatusCodes
<1>3. ASSUME NEW r \in Requests, Enter(r)
      PROVE  DataInv'
  <2>1. PICK told \in StatusCodes \cup {Silence} :
          answer' = [answer EXCEPT ![r] = told]
    <3>1. answer' = [answer EXCEPT ![r] = IF r \in Streams THEN 200 ELSE Silence]
      BY <1>3 DEF Enter
    <3>2. (IF r \in Streams THEN 200 ELSE Silence) \in StatusCodes \cup {Silence}
      BY <1>2
    <3>3. QED
      BY <3>1, <3>2
  <2>2. PICK to \in {Asking, Waiting} : Move(r, "new", to)
    BY <1>3 DEF Enter
  <2>3. /\ status' = [status EXCEPT ![r] = status[r]] /\ status[r] \in StatusCodes
        /\ rows' = rows
    BY <1>3 DEF Enter, DataInv
  <2>4. QED
    BY <2>1, <2>2, <2>3, NoRowYet
<1>4. ASSUME NEW r \in Requests, YieldChunk(r)
      PROVE  DataInv'
  BY <1>1, <1>4 DEF YieldChunk, Quiet
<1>5. ASSUME NEW r \in Requests, ModelSteps(r)
      PROVE  DataInv'
  <2>1. CASE PostReturns(r)
    BY <1>1, <1>2, <2>1 DEF PostReturns, Quiet
  <2>2. CASE PostFails(r)
    <3>1. \E code \in StatusCodes : status' = [status EXCEPT ![r] = code]
      <4>1. PICK code \in {502, 504} : status' = [status EXCEPT ![r] = code]
        BY <2>2 DEF PostFails
      <4>2. code \in StatusCodes
        BY <1>2
      <4>3. QED
        BY <4>1, <4>2
    <3>2. Move(r, Asking, Logging) /\ answer' = answer /\ rows' = rows
      BY <2>2 DEF PostFails
    <3>3. QED
      BY <1>1, <3>1, <3>2 DEF Quiet
  <2>3. CASE StreamOpens(r)
    BY <1>1, <1>2, <2>3 DEF StreamOpens, Quiet
  <2>4. CASE StreamEnds(r)
    BY <1>1, <2>4 DEF StreamEnds, Quiet
  <2>5. CASE StreamBreaks(r)
    <3>1. status' = [status EXCEPT ![r] = 502] /\ 502 \in StatusCodes
      BY <1>2, <2>5 DEF StreamBreaks
    <3>2. PICK from \in {Asking, Relaying} : Move(r, from, Failing)
      BY <2>5 DEF StreamBreaks
    <3>3. answer' = answer /\ rows' = rows
      BY <2>5 DEF StreamBreaks
    <3>4. \E code \in StatusCodes : status' = [status EXCEPT ![r] = code]
      BY <3>1
    <3>5. QED
      BY <1>1, <3>2, <3>3, <3>4 DEF Quiet
  <2>6. QED
    BY <1>5, <2>1, <2>2, <2>3, <2>4, <2>5 DEF ModelSteps
<1>6. ASSUME NEW r \in Requests, GatewaySteps(r)
      PROVE  DataInv'
  <2>1. CASE TakeSlot(r)
    BY <1>1, <2>1 DEF TakeSlot, Quiet
  <2>2. CASE Reply(r)
    <3>1. PICK written \in BOOLEAN :
            /\ RecordUsage(r, written)
            /\ Answer(r, written) \/ (written /\ AnswerSpoilt(r))
      BY <2>2 DEF Reply
    <3>2. Move(r, Replying, "done") /\ status' = status
      BY <2>2 DEF Reply
    <3>3. QED
      BY <3>1, <3>2, RowWritten
  <2>3. CASE Finish(r)
    <3>1. PICK written \in BOOLEAN :
            /\ RecordUsage(r, written)
            /\ Answer(r, written) \/ (r \in Streams /\ answer' = answer)
      BY <2>3 DEF Finish
    <3>2. Move(r, Logging, "done") /\ status' = status
      BY <2>3 DEF Finish
    <3>3. QED
      BY <3>1, <3>2, RowWritten
  <2>4. CASE Finalise(r)
    BY <1>1, <2>4 DEF Finalise, Quiet
  <2>5. QED
    BY <1>6, <2>1, <2>2, <2>3, <2>4 DEF GatewaySteps
<1>7. ASSUME NEW r \in Requests, ClientSteps(r)
      PROVE  DataInv'
  <2>1. CASE ChunkSent(r)
    BY <1>1, <2>1 DEF ChunkSent, Quiet
  <2>2. CASE ErrorSent(r)
    BY <1>1, <2>2 DEF ErrorSent, Quiet
  <2>3. CASE DisconnectSending(r)
    BY <1>1, <2>3 DEF DisconnectSending, Quiet
  <2>4. CASE DisconnectWaiting(r)
    BY <1>1, <2>4 DEF DisconnectWaiting, Quiet
  <2>5. CASE DisconnectReading(r)
    BY <1>1, <2>5 DEF DisconnectReading, Quiet
  <2>6. QED
    BY <1>7, <2>1, <2>2, <2>3, <2>4, <2>5 DEF ClientSteps, ClientTakes
<1>8. CASE UNCHANGED vars
  BY <1>8 DEF vars, DataInv, UsageLogged, AgreesWithLog
<1>9. QED
  BY <1>3, <1>4, <1>5, <1>6, <1>7, <1>8 DEF Next, Terminated

LEMMA DataInvInit ==
    ASSUME Init
    PROVE  DataInv
<1>1. /\ status = [r \in Requests |-> 200] /\ rows = [r \in Requests |-> <<>>]
      /\ answer = [r \in Requests |-> Silence] /\ stage = [r \in Requests |-> "new"]
  BY DEF Init
<1>2. 200 \in StatusCodes /\ <<>> \in Seq(StatusCodes)
  BY DEF StatusCodes
<1>3. QED
  BY <1>1, <1>2 DEF DataInv, UsageLogged

LEMMA DataInvariant == Spec => []DataInv
<1>1. Init => DataInv
  BY DataInvInit
<1>2. SlotInv /\ DataInv /\ [Next]_vars => DataInv'
  BY DataInvStep DEF SlotInv
<1>3. QED
  BY <1>1, <1>2, SlotsInvariant, PTL DEF Spec

(* A request is logged at most once, at its end, with the status the model or
   the failure to reach it gave it; a JSON client is answered as its row says,
   or with an error of the gateway's own, and with 500 when there is no row
   (forward, record_usage, _protect_json_response). *)
THEOREM UsageIsLogged == Spec => []UsageLogged
<1>1. DataInv => UsageLogged
  BY DEF DataInv
<1>2. QED
  BY <1>1, DataInvariant, PTL

(* The variables keep their types; the permits of the semaphore never exceed
   max_concurrent_requests and its counters never fall below zero. *)
THEOREM TypeCorrect == Spec => []TypeOK
<1>1. SlotAssumption
  BY SlotAssumption
<1>2. SlotInv /\ DataInv => TypeOK
  <2> SUFFICES ASSUME SlotInv, DataInv
               PROVE  TypeOK
    OBVIOUS
  <2>1. /\ permits \in 0..MaxConcurrent
        /\ active \in Nat /\ queued \in Nat
    BY <1>1, SlotNumbers DEF SlotAssumption
  <2>2. waiters \in Seq(Requests) /\ granted \subseteq Requests
    BY QueueDomain DEF SlotInv
  <2>3. QED
    BY <2>1, <2>2 DEF TypeOK, SlotInv, DataInv
<1>3. QED
  BY <1>2, SlotsInvariant, DataInvariant, PTL

-----------------------------------------------------------------------------
(* First come, first served: the slots implement SlotQueue *)

(* The waiters that are awake are the first ones; the others are in line. *)
AwakeFirst(queue, awake) ==
    /\ Cardinality(awake) <= Len(queue)
    /\ awake = {queue[i] : i \in 1..Cardinality(awake)}

Sleeping(queue, awake) == SubSeq(queue, Cardinality(awake) + 1, Len(queue))

\* Two sequences are the same when they agree place by place.
LEMMA SamePlaces ==
    ASSUME NEW S, NEW s \in Seq(S), NEW t \in Seq(S), Len(s) = Len(t),
           \A k \in 1..Len(s) : s[k] = t[k]
    PROVE  s = t
BY SeqEqual

\* The sequence of the sleepers, place by place.
LEMMA SleepingPlaces ==
    ASSUME NEW queue \in Seq(Requests), NEW awake, IsFiniteSet(awake),
           Cardinality(awake) <= Len(queue)
    PROVE  /\ Cardinality(awake) \in Nat /\ Len(queue) \in Nat
           /\ Sleeping(queue, awake) \in Seq(Requests)
           /\ Len(Sleeping(queue, awake)) = Len(queue) - Cardinality(awake)
           /\ \A k \in 1..(Len(queue) - Cardinality(awake)) :
                Sleeping(queue, awake)[k] = queue[k + Cardinality(awake)]
<1>1. PICK m : m = Cardinality(awake)
  OBVIOUS
<1>2. PICK n : n = Len(queue)
  OBVIOUS
<1>3. m \in Nat /\ n \in Nat /\ m <= n
  BY <1>1, <1>2, FS_CardinalityType, QueueDomain
<1>4. \A k \in (m + 1)..n : queue[k] \in Requests
  BY <1>2, <1>3, ElementOfSeq
<1>5. PICK line : line = SubSeq(queue, m + 1, n)
  OBVIOUS
<1>6. /\ line \in Seq(Requests)
      /\ Len(line) = IF m + 1 <= n THEN n - (m + 1) + 1 ELSE 0
      /\ \A k \in 1..(n - (m + 1) + 1) : line[k] = queue[(m + 1) + k - 1]
  BY <1>3, <1>4, <1>5, SubSeqProperties
<1>7. Len(line) = n - m
  BY <1>3, <1>6
<1>8. \A k \in 1..(n - m) : line[k] = queue[k + m]
  <2>1. n - (m + 1) + 1 = n - m
    BY <1>3
  <2>2. \A k \in 1..(n - m) : (m + 1) + k - 1 = k + m
    BY <1>3
  <2>3. QED
    BY <1>6, <2>1, <2>2
<1>9. line = Sleeping(queue, awake)
  BY <1>1, <1>2, <1>5 DEF Sleeping
<1>10. QED
  BY <1>1, <1>2, <1>3, <1>6, <1>7, <1>8, <1>9

\* Who is asleep in a queue whose first waiters are awake.
LEMMA SleepersBehind ==
    ASSUME NEW queue \in Seq(Requests), Once(queue), NEW awake, IsFiniteSet(awake),
           AwakeFirst(queue, awake)
    PROVE  Asleep(queue, awake) = (Cardinality(awake) + 1)..Len(queue)
<1>1. PICK m : m = Cardinality(awake)
  OBVIOUS
<1>2. PICK n : n = Len(queue)
  OBVIOUS
<1>3. m \in Nat /\ n \in Nat /\ m <= n /\ DOMAIN queue = 1..n
  BY <1>1, <1>2, FS_CardinalityType, QueueDomain DEF AwakeFirst
<1>4. \A i \in 1..n : queue[i] \in awake <=> i <= m
  <2> SUFFICES ASSUME NEW i \in 1..n
               PROVE  queue[i] \in awake <=> i <= m
    OBVIOUS
  <2>1. awake = {queue[j] : j \in 1..m}
    BY <1>1 DEF AwakeFirst
  <2>2. ASSUME i <= m PROVE queue[i] \in awake
    BY <1>3, <2>1, <2>2
  <2>3. ASSUME queue[i] \in awake PROVE i <= m
    <3>1. PICK j \in 1..m : queue[j] = queue[i]
      BY <2>1, <2>3
    <3>2. j \in 1..n
      BY <1>3
    <3>3. i = j
      BY <1>3, <3>1, <3>2 DEF Once
    <3>4. QED
      BY <1>3, <3>3
  <2>4. QED
    BY <2>2, <2>3
<1>5. QED
  BY <1>1, <1>2, <1>3, <1>4 DEF Asleep

\* A woken waiter is the first in line; nobody is woken when the line is empty.
LEMMA WakeUpServes ==
    ASSUME NEW value \in Nat \ {0}, NEW queue \in Seq(Requests), Once(queue),
           NEW awake, IsFiniteSet(awake), AwakeFirst(queue, awake),
           WakeUpNext(value, queue, awake)
    PROVE  /\ AwakeFirst(queue, granted')
           /\ \/ /\ granted' = awake
                 /\ permits' = value
                 /\ Sleeping(queue, awake) = <<>>
              \/ /\ permits' = value - 1
                 /\ Sleeping(queue, awake) # <<>>
                 /\ Head(Sleeping(queue, awake)) \in Elements(queue) \ awake
                 /\ granted' = awake \cup {Head(Sleeping(queue, awake))}
                 /\ Sleeping(queue, granted') = Tail(Sleeping(queue, awake))
<1>1. PICK m : m = Cardinality(awake)
  OBVIOUS
<1>2. PICK n : n = Len(queue)
  OBVIOUS
<1>3. m \in Nat /\ n \in Nat /\ m <= n /\ DOMAIN queue = 1..n
  BY <1>1, <1>2, FS_CardinalityType, QueueDomain DEF AwakeFirst
<1>4. awake = {queue[j] : j \in 1..m}
  BY <1>1 DEF AwakeFirst
<1>5. Asleep(queue, awake) = (m + 1)..n
  BY <1>1, <1>2, SleepersBehind
<1>6. PICK line : line = Sleeping(queue, awake)
  OBVIOUS
<1>7. /\ line \in Seq(Requests) /\ Len(line) = n - m
      /\ \A k \in 1..(n - m) : line[k] = queue[k + m]
  BY <1>1, <1>2, <1>6, SleepingPlaces DEF AwakeFirst
<1>8. CASE Asleep(queue, awake) = {} /\ permits' = value /\ granted' = awake
  <2>1. n = m
    <3>1. m < n => n \in (m + 1)..n
      BY <1>3
    <3>2. ~(m < n)
      BY <1>5, <1>8, <3>1
    <3>3. QED
      BY <1>3, <3>2
  <2>2. line = <<>>
    BY <1>3, <1>7, <2>1, EmptySeq
  <2>3. QED
    BY <1>6, <1>8, <2>2
<1>9. ASSUME NEW i \in Asleep(queue, awake),
             \A j \in Asleep(queue, awake) : i <= j,
             permits' = value - 1, granted' = awake \cup {queue[i]}
      PROVE  /\ AwakeFirst(queue, granted')
             /\ line # <<>>
             /\ Head(line) \in Elements(queue) \ awake
             /\ granted' = awake \cup {Head(line)}
             /\ Sleeping(queue, granted') = Tail(line)
  <2>1. i = m + 1 /\ i \in 1..n /\ m < n
    <3>1. i \in (m + 1)..n
      BY <1>5
    <3>2. i \in Nat /\ m + 1 <= i /\ i <= n
      BY <1>3, <3>1
    <3>3. m + 1 \in (m + 1)..n
      BY <1>3, <3>2
    <3>4. i <= m + 1
      BY <1>5, <1>9, <3>3
    <3>5. QED
      BY <1>3, <3>2, <3>4
  <2>2. queue[i] \in Elements(queue) \ awake
    BY <1>9 DEF Asleep, Elements
  <2>3. /\ IsFiniteSet(granted') /\ Cardinality(granted') = m + 1
    BY <1>1, <1>9, <2>2, OneMore
  <2>4. AwakeFirst(queue, granted')
    <3>1. \A j : j \in 1..(m + 1) <=> j \in 1..m \/ j = m + 1
      BY <1>3
    <3>2. granted' = {queue[j] : j \in 1..(m + 1)}
      BY <1>4, <1>9, <2>1, <3>1
    <3>3. m + 1 <= n
      BY <1>3, <2>1
    <3>4. QED
      BY <1>2, <2>3, <3>2, <3>3 DEF AwakeFirst
  <2>5. /\ line # <<>> /\ Len(line) > 0
    BY <1>3, <1>7, <2>1, EmptySeq
  <2>6. Head(line) = queue[i]
    <3>1. Head(line) = line[1]
      BY <1>7, <2>5, HeadTailProperties
    <3>2. 1 \in 1..(n - m) /\ 1 + m = i
      BY <1>3, <2>1
    <3>3. QED
      BY <1>7, <3>1, <3>2
  <2>7. Sleeping(queue, granted') = Tail(line)
    <3>1. PICK rest : rest = Sleeping(queue, granted')
      OBVIOUS
    <3>2. /\ rest \in Seq(Requests) /\ Len(rest) = n - (m + 1)
          /\ \A k \in 1..(n - (m + 1)) : rest[k] = queue[k + (m + 1)]
      BY <1>2, <2>3, <2>4, <3>1, SleepingPlaces DEF AwakeFirst
    <3>3. /\ Tail(line) \in Seq(Requests)
          /\ Len(Tail(line)) = (n - m) - 1
          /\ \A k \in 1..((n - m) - 1) : Tail(line)[k] = line[k + 1]
      BY <1>7, <2>5, HeadTailProperties
    <3>4. \A k \in 1..(n - (m + 1)) : rest[k] = Tail(line)[k]
      <4> SUFFICES ASSUME NEW k \in 1..(n - (m + 1))
                   PROVE  rest[k] = Tail(line)[k]
        OBVIOUS
      <4>1. k \in 1..((n - m) - 1) /\ k + 1 \in 1..(n - m) /\ (k + 1) + m = k + (m + 1)
        BY <1>3
      <4>2. line[k + 1] = queue[(k + 1) + m]
        BY <1>7, <4>1
      <4>3. QED
        BY <3>2, <3>3, <4>1, <4>2
    <3>5. Len(rest) = Len(Tail(line))
      BY <1>3, <3>2, <3>3
    <3>6. QED
      BY <3>1, <3>2, <3>3, <3>4, <3>5, SamePlaces
  <2>8. QED
    BY <1>9, <2>2, <2>4, <2>5, <2>6, <2>7
<1>10. CASE \E i \in Asleep(queue, awake) :
              /\ \A j \in Asleep(queue, awake) : i <= j
              /\ permits' = value - 1 /\ granted' = awake \cup {queue[i]}
  <2>1. PICK i \in Asleep(queue, awake) :
          /\ \A j \in Asleep(queue, awake) : i <= j
          /\ permits' = value - 1 /\ granted' = awake \cup {queue[i]}
    BY <1>10
  <2>2. /\ AwakeFirst(queue, granted') /\ line # <<>>
        /\ Head(line) \in Elements(queue) \ awake
        /\ granted' = awake \cup {Head(line)}
        /\ Sleeping(queue, granted') = Tail(line)
    BY <1>9, <2>1
  <2>3. QED
    BY <1>6, <2>1, <2>2
<1>11. QED
  BY <1>8, <1>10 DEF WakeUpNext

\* A newcomer joins the end of the line.
LEMMA JoinsLine ==
    ASSUME waiters \in Seq(Requests), IsFiniteSet(granted),
           AwakeFirst(waiters, granted), NEW r \in Requests
    PROVE  /\ AwakeFirst(Append(waiters, r), granted)
           /\ Sleeping(Append(waiters, r), granted) = Append(Sleeping(waiters, granted), r)
<1>1. PICK m : m = Cardinality(granted)
  OBVIOUS
<1>2. PICK n : n = Len(waiters)
  OBVIOUS
<1>3. m \in Nat /\ n \in Nat /\ m <= n
  BY <1>1, <1>2, FS_CardinalityType, QueueDomain DEF AwakeFirst
<1>4. PICK longer : longer = Append(waiters, r)
  OBVIOUS
<1>5. /\ longer \in Seq(Requests) /\ Len(longer) = n + 1
      /\ \A k \in 1..n : longer[k] = waiters[k]
      /\ longer[n + 1] = r
  BY <1>2, <1>4, AppendProperties
<1>6. AwakeFirst(longer, granted)
  <2>1. granted = {waiters[k] : k \in 1..m}
    BY <1>1 DEF AwakeFirst
  <2>2. \A k \in 1..m : longer[k] = waiters[k]
    BY <1>3, <1>5
  <2>3. granted = {longer[k] : k \in 1..m}
    BY <2>1, <2>2
  <2>4. m <= n + 1
    BY <1>3
  <2>5. QED
    BY <1>1, <1>5, <2>3, <2>4 DEF AwakeFirst
<1>7. PICK line : line = Sleeping(waiters, granted)
  OBVIOUS
<1>8. /\ line \in Seq(Requests) /\ Len(line) = n - m
      /\ \A k \in 1..(n - m) : line[k] = waiters[k + m]
  BY <1>1, <1>2, <1>7, SleepingPlaces DEF AwakeFirst
<1>9. PICK other : other = Sleeping(longer, granted)
  OBVIOUS
<1>10. /\ other \in Seq(Requests) /\ Len(other) = (n + 1) - m
       /\ \A k \in 1..((n + 1) - m) : other[k] = longer[k + m]
  BY <1>1, <1>5, <1>6, <1>9, SleepingPlaces DEF AwakeFirst
<1>11. /\ Append(line, r) \in Seq(Requests) /\ Len(Append(line, r)) = (n - m) + 1
       /\ \A k \in 1..(n - m) : Append(line, r)[k] = line[k]
       /\ Append(line, r)[(n - m) + 1] = r
  BY <1>8, AppendProperties
<1>12. \A k \in 1..((n + 1) - m) : other[k] = Append(line, r)[k]
  <2> SUFFICES ASSUME NEW k \in 1..((n + 1) - m)
               PROVE  other[k] = Append(line, r)[k]
    OBVIOUS
  <2>1. CASE k \in 1..(n - m)
    <3>1. k + m \in 1..n
      BY <1>3, <2>1
    <3>2. QED
      BY <1>5, <1>8, <1>10, <1>11, <2>1, <3>1
  <2>2. CASE k = (n - m) + 1
    <3>1. k + m = n + 1
      BY <1>3, <2>2
    <3>2. other[k] = longer[n + 1]
      BY <1>10, <3>1
    <3>3. QED
      BY <1>5, <1>11, <2>2, <3>2
  <2>3. k \in 1..(n - m) \/ k = (n - m) + 1
    BY <1>3
  <2>4. QED
    BY <2>1, <2>2, <2>3
<1>13. Len(other) = Len(Append(line, r))
  BY <1>3, <1>10, <1>11
<1>14. other = Append(line, r)
  BY <1>10, <1>11, <1>12, <1>13, SamePlaces
<1>15. QED
  BY <1>4, <1>6, <1>7, <1>9, <1>14

LEMMA RemovedPlace ==
    ASSUME waiters \in Seq(Requests), NEW r \in Elements(waiters)
    PROVE  \E place \in 1..Len(waiters) :
             waiters[place] = r /\ WithoutWaiter(r) = Without(waiters, place)
<1>1. \E i \in DOMAIN waiters : waiters[i] = r
  BY DEF Elements
<1>2. DOMAIN waiters = 1..Len(waiters)
  BY QueueDomain
<1>3. QED
  BY <1>1, <1>2 DEF WithoutWaiter, Without

\* A waiter that is awake leaves the queue: the line is not touched.
LEMMA AwakeGone ==
    ASSUME waiters \in Seq(Requests), Once(waiters), IsFiniteSet(granted),
           AwakeFirst(waiters, granted), NEW r \in granted, r \in Elements(waiters)
    PROVE  /\ AwakeFirst(WithoutWaiter(r), granted \ {r})
           /\ Sleeping(WithoutWaiter(r), granted \ {r}) = Sleeping(waiters, granted)
<1>1. PICK m : m = Cardinality(granted)
  OBVIOUS
<1>2. PICK n : n = Len(waiters)
  OBVIOUS
<1>3. m \in Nat /\ n \in Nat /\ m <= n /\ DOMAIN waiters = 1..n
  BY <1>1, <1>2, FS_CardinalityType, QueueDomain DEF AwakeFirst
<1>4. granted = {waiters[j] : j \in 1..m}
  BY <1>1 DEF AwakeFirst
<1>5. PICK place \in 1..n : waiters[place] = r /\ WithoutWaiter(r) = Without(waiters, place)
  BY <1>2, RemovedPlace
<1>6. place \in 1..m
  <2>1. PICK j \in 1..m : waiters[j] = r
    BY <1>4
  <2>2. j \in 1..n
    BY <1>3
  <2>3. QED
    BY <1>3, <1>5, <2>1, <2>2 DEF Once
<1>7. PICK rest : rest = WithoutWaiter(r)
  OBVIOUS
<1>8. /\ rest \in Seq(Requests) /\ Len(rest) = n - 1
      /\ \A k \in 1..(n - 1) : rest[k] = IF k < place THEN waiters[k] ELSE waiters[k + 1]
  BY <1>2, <1>5, <1>7, WithoutProperties
<1>9. /\ IsFiniteSet(granted \ {r}) /\ Cardinality(granted \ {r}) = m - 1
      /\ m - 1 \in Nat /\ m - 1 <= n - 1
  <2>1. IsFiniteSet(granted \ {r}) /\ Cardinality(granted \ {r}) = m - 1
    BY <1>1, OneLess
  <2>2. QED
    BY <1>3, <1>6, <2>1
<1>10. granted \ {r} = {rest[k] : k \in 1..(m - 1)}
  <2>1. ASSUME NEW k \in 1..(m - 1) PROVE rest[k] \in granted \ {r}
    <3>1. k \in 1..(n - 1) /\ k \in 1..m /\ k + 1 \in 1..m /\ k \in 1..n /\ k + 1 \in 1..n
      BY <1>3
    <3>2. CASE k < place
      <4>1. rest[k] = waiters[k] /\ k # place
        BY <1>3, <1>8, <3>1, <3>2
      <4>2. waiters[k] # r
        BY <1>3, <1>5, <3>1, <4>1 DEF Once
      <4>3. QED
        BY <1>4, <3>1, <4>1, <4>2
    <3>3. CASE ~(k < place)
      <4>1. rest[k] = waiters[k + 1] /\ k + 1 # place
        BY <1>3, <1>8, <3>1, <3>3
      <4>2. waiters[k + 1] # r
        BY <1>3, <1>5, <3>1, <4>1 DEF Once
      <4>3. QED
        BY <1>4, <3>1, <4>1, <4>2
    <3>4. QED
      BY <3>2, <3>3
  <2>2. ASSUME NEW q \in granted \ {r} PROVE \E k \in 1..(m - 1) : rest[k] = q
    <3>1. PICK j \in 1..m : waiters[j] = q
      BY <1>4
    <3>2. j # place
      BY <1>5, <3>1
    <3>3. CASE j < place
      <4>1. j \in 1..(m - 1) /\ j \in 1..(n - 1)
        BY <1>3, <1>6, <3>3
      <4>2. rest[j] = q
        BY <1>8, <3>1, <3>3, <4>1
      <4>3. QED
        BY <4>1, <4>2
    <3>4. CASE place < j
      <4>1. /\ j - 1 \in 1..(m - 1) /\ j - 1 \in 1..(n - 1)
            /\ ~(j - 1 < place) /\ (j - 1) + 1 = j
        BY <1>3, <1>6, <3>4
      <4>2. rest[j - 1] = waiters[(j - 1) + 1]
        BY <1>8, <4>1
      <4>3. QED
        BY <3>1, <4>1, <4>2
    <3>5. j < place \/ place < j
      BY <1>3, <3>2
    <3>6. QED
      BY <3>3, <3>4, <3>5
  <2>3. QED
    BY <2>1, <2>2
<1>11. AwakeFirst(rest, granted \ {r})
  BY <1>8, <1>9, <1>10 DEF AwakeFirst
<1>12. PICK line : line = Sleeping(waiters, granted)
  OBVIOUS
<1>13. /\ line \in Seq(Requests) /\ Len(line) = n - m
       /\ \A k \in 1..(n - m) : line[k] = waiters[k + m]
  BY <1>1, <1>2, <1>12, SleepingPlaces DEF AwakeFirst
<1>14. PICK other : other = Sleeping(rest, granted \ {r})
  OBVIOUS
<1>15. /\ other \in Seq(Requests) /\ Len(other) = (n - 1) - (m - 1)
       /\ \A k \in 1..((n - 1) - (m - 1)) : other[k] = rest[k + (m - 1)]
  <2>1. PICK awake : awake = granted \ {r}
    OBVIOUS
  <2>2. IsFiniteSet(awake) /\ Cardinality(awake) <= Len(rest)
    BY <1>8, <1>9, <2>1
  <2>3. /\ Sleeping(rest, awake) \in Seq(Requests)
        /\ Len(Sleeping(rest, awake)) = Len(rest) - Cardinality(awake)
        /\ \A k \in 1..(Len(rest) - Cardinality(awake)) :
             Sleeping(rest, awake)[k] = rest[k + Cardinality(awake)]
    BY <1>8, <2>2, SleepingPlaces
  <2>4. Cardinality(awake) = m - 1 /\ other = Sleeping(rest, awake)
    BY <1>9, <1>14, <2>1
  <2>5. QED
    BY <1>8, <2>3, <2>4
<1>16. (n - 1) - (m - 1) = n - m
  BY <1>3
<1>17. \A k \in 1..(n - m) : other[k] = line[k]
  <2> SUFFICES ASSUME NEW k \in 1..(n - m)
               PROVE  other[k] = line[k]
    OBVIOUS
  <2>1. /\ k + (m - 1) \in 1..(n - 1) /\ ~(k + (m - 1) < place)
        /\ (k + (m - 1)) + 1 = k + m
    BY <1>3, <1>6
  <2>2. rest[k + (m - 1)] = waiters[k + m]
    BY <1>8, <2>1
  <2>3. other[k] = rest[k + (m - 1)]
    BY <1>15, <1>16
  <2>4. QED
    BY <1>13, <2>2, <2>3
<1>18. Len(other) = n - m
  BY <1>15, <1>16
<1>19. other = line
  BY <1>13, <1>15, <1>17, <1>18, SamePlaces
<1>20. QED
  BY <1>7, <1>11, <1>12, <1>14, <1>19

\* A sleeper leaves the queue, from any place of the line.
LEMMA SleeperGone ==
    ASSUME waiters \in Seq(Requests), Once(waiters), IsFiniteSet(granted),
           AwakeFirst(waiters, granted), NEW r \in Elements(waiters), r \notin granted
    PROVE  /\ AwakeFirst(WithoutWaiter(r), granted)
           /\ \E i \in 1..Len(Sleeping(waiters, granted)) :
                /\ Sleeping(waiters, granted)[i] = r
                /\ Sleeping(WithoutWaiter(r), granted)
                     = Without(Sleeping(waiters, granted), i)
<1>1. PICK m : m = Cardinality(granted)
  OBVIOUS
<1>2. PICK n : n = Len(waiters)
  OBVIOUS
<1>3. m \in Nat /\ n \in Nat /\ m <= n /\ DOMAIN waiters = 1..n
  BY <1>1, <1>2, FS_CardinalityType, QueueDomain DEF AwakeFirst
<1>4. granted = {waiters[j] : j \in 1..m}
  BY <1>1 DEF AwakeFirst
<1>5. PICK place \in 1..n : waiters[place] = r /\ WithoutWaiter(r) = Without(waiters, place)
  BY <1>2, RemovedPlace
<1>6. m < place
  <2>1. ASSUME place <= m PROVE FALSE
    <3>1. place \in 1..m
      BY <1>3, <2>1
    <3>2. QED
      BY <1>4, <1>5, <3>1
  <2>2. QED
    BY <1>3, <2>1
<1>7. PICK rest : rest = WithoutWaiter(r)
  OBVIOUS
<1>8. /\ rest \in Seq(Requests) /\ Len(rest) = n - 1
      /\ \A k \in 1..(n - 1) : rest[k] = IF k < place THEN waiters[k] ELSE waiters[k + 1]
  BY <1>2, <1>5, <1>7, WithoutProperties
<1>9. AwakeFirst(rest, granted)
  <2>1. \A k \in 1..m : rest[k] = waiters[k]
    <3> SUFFICES ASSUME NEW k \in 1..m PROVE rest[k] = waiters[k]
      OBVIOUS
    <3>1. k \in 1..(n - 1) /\ k < place
      BY <1>3, <1>6
    <3>2. QED
      BY <1>8, <3>1
  <2>2. granted = {rest[k] : k \in 1..m}
    BY <1>4, <2>1
  <2>3. m <= n - 1
    BY <1>3, <1>6
  <2>4. QED
    BY <1>1, <1>8, <2>2, <2>3 DEF AwakeFirst
<1>10. PICK line : line = Sleeping(waiters, granted)
  OBVIOUS
<1>11. /\ line \in Seq(Requests) /\ Len(line) = n - m
       /\ \A k \in 1..(n - m) : line[k] = waiters[k + m]
  BY <1>1, <1>2, <1>10, SleepingPlaces DEF AwakeFirst
<1>12. PICK other : other = Sleeping(rest, granted)
  OBVIOUS
<1>13. /\ other \in Seq(Requests) /\ Len(other) = (n - 1) - m
       /\ \A k \in 1..((n - 1) - m) : other[k] = rest[k + m]
  BY <1>1, <1>8, <1>9, <1>12, SleepingPlaces DEF AwakeFirst
<1>14. PICK i : i = place - m
  OBVIOUS
<1>15. i \in 1..(n - m) /\ i + m = place /\ line[i] = r
  <2>1. i \in 1..(n - m) /\ i + m = place
    BY <1>3, <1>6, <1>14
  <2>2. QED
    BY <1>5, <1>11, <2>1
<1>16. PICK less : less = Without(line, i)
  OBVIOUS
<1>17. /\ less \in Seq(Requests) /\ Len(less) = (n - m) - 1
       /\ \A k \in 1..((n - m) - 1) : less[k] = IF k < i THEN line[k] ELSE line[k + 1]
  <2>1. i \in 1..Len(line) /\ Len(line) = n - m
    BY <1>11, <1>15
  <2>2. /\ Without(line, i) \in Seq(Requests)
        /\ Len(Without(line, i)) = Len(line) - 1
        /\ \A k \in 1..(Len(line) - 1) :
              Without(line, i)[k] = IF k < i THEN line[k] ELSE line[k + 1]
    BY <1>11, <2>1, WithoutProperties
  <2>3. QED
    BY <1>16, <2>1, <2>2
<1>18. (n - 1) - m = (n - m) - 1
  BY <1>3
<1>19. \A k \in 1..((n - m) - 1) : other[k] = less[k]
  <2> SUFFICES ASSUME NEW k \in 1..((n - m) - 1)
               PROVE  other[k] = less[k]
    OBVIOUS
  <2>1. other[k] = rest[k + m]
    BY <1>13, <1>18
  <2>2. k + m \in 1..(n - 1) /\ (k < i <=> k + m < place) /\ (k + m) + 1 = (k + 1) + m
    BY <1>3, <1>15
  <2>3. k \in 1..(n - m) /\ k + 1 \in 1..(n - m)
    BY <1>3
  <2>4. CASE k < i
    <3>1. rest[k + m] = waiters[k + m]
      BY <1>8, <2>2, <2>4
    <3>2. less[k] = line[k]
      BY <1>17, <2>4
    <3>3. QED
      BY <1>11, <2>1, <2>3, <3>1, <3>2
  <2>5. CASE ~(k < i)
    <3>1. rest[k + m] = waiters[(k + 1) + m]
      BY <1>8, <2>2, <2>5
    <3>2. less[k] = line[k + 1]
      BY <1>17, <2>5
    <3>3. line[k + 1] = waiters[(k + 1) + m]
      BY <1>11, <2>3
    <3>4. QED
      BY <2>1, <3>1, <3>2, <3>3
  <2>6. QED
    BY <2>4, <2>5
<1>20. Len(other) = Len(less)
  BY <1>13, <1>17, <1>18
<1>21. other = less
  BY <1>13, <1>17, <1>18, <1>19, <1>20, SamePlaces
<1>22. QED
  BY <1>7, <1>9, <1>10, <1>11, <1>12, <1>15, <1>16, <1>21

Owners == Holders \cup granted
Line == Sleeping(waiters, granted)

\* The step is one of SlotQueue, or none.
ServedInTurn == Queue!QueueNext \/ (Owners' = Owners /\ Line' = Line)

LEMMA NewcomerArrives ==
    ASSUME NEW r \in Requests, r \notin Owners, r \notin Elements(Line),
           \/ /\ Line = <<>> /\ Cardinality(Owners) < MaxConcurrent
              /\ Owners' = Owners \cup {r} /\ Line' = Line
           \/ Line' = Append(Line, r) /\ Owners' = Owners
    PROVE  ServedInTurn
<1>1. Queue!Cardinality(Owners) = Cardinality(Owners)
  BY DEF Cardinality, Queue!Cardinality
<1>2. Queue!Arrive(r)
  BY <1>1 DEF Queue!Arrive, Queue!InLine, Elements, Owners, Line, Sleeping
<1>3. QED
  BY <1>2 DEF ServedInTurn, Queue!QueueNext

LEMMA FirstIsServed ==
    ASSUME Line # <<>>, Cardinality(Owners) < MaxConcurrent,
           Owners' = Owners \cup {Head(Line)}, Line' = Tail(Line)
    PROVE  ServedInTurn
<1>1. Queue!Cardinality(Owners) = Cardinality(Owners)
  BY DEF Cardinality, Queue!Cardinality
<1>2. Queue!ServeFirst
  BY <1>1 DEF Queue!ServeFirst, Owners, Line, Sleeping
<1>3. QED
  BY <1>2 DEF ServedInTurn, Queue!QueueNext

LEMMA OwnerDeparts ==
    ASSUME NEW r \in Requests, r \in Owners,
           \/ Owners' = Owners \ {r} /\ Line' = Line
           \/ /\ Line # <<>>
              /\ Owners' = (Owners \ {r}) \cup {Head(Line)}
              /\ Line' = Tail(Line)
    PROVE  ServedInTurn
<1>1. Queue!Depart(r)
  BY DEF Queue!Depart, Owners, Line, Sleeping
<1>2. QED
  BY <1>1 DEF ServedInTurn, Queue!QueueNext

LEMMA OneGivesUp ==
    ASSUME NEW r \in Requests, NEW i \in DOMAIN Line, Line[i] = r,
           Line' = Without(Line, i), Owners' = Owners
    PROVE  ServedInTurn
<1>1. Queue!GiveUp(r)
  BY DEF Queue!GiveUp, Without, Owners, Line, Sleeping
<1>2. QED
  BY <1>1 DEF ServedInTurn, Queue!QueueNext

\* What is free is what is not taken, a woken waiter having taken its slot.
LEMMA SlotsTaken ==
    ASSUME SlotAssumption, SlotInv
    PROVE  /\ permits > 0 => Cardinality(Owners) < MaxConcurrent
           /\ Holders \cap Sleepers = {}
           /\ granted \subseteq Sleepers
           /\ Sleepers = Elements(waiters)
<1>1. Holders \cap Sleepers = {}
  BY DEF Holders, Sleepers, InSlot, Waiting, Asking, Relaying, Sending, Failing,
         Orphaned, Logging
<1>2. granted \subseteq Sleepers /\ Sleepers = Elements(waiters)
  BY DEF SlotInv
<1>3. Cardinality(Owners) = Cardinality(Holders) + Cardinality(granted)
  <2>1. /\ IsFiniteSet(Holders) /\ IsFiniteSet(granted)
        /\ Holders \cap granted = {}
    BY <1>1, <1>2 DEF SlotInv
  <2>2. Cardinality(Holders \cup granted)
          = Cardinality(Holders) + Cardinality(granted) - Cardinality(Holders \cap granted)
    BY <2>1, FS_Union
  <2>3. Cardinality(Holders \cap granted) = 0
    BY <2>1, FS_EmptySet
  <2>4. QED
    BY <2>2, <2>3, SlotNumbers DEF Owners
<1>4. permits > 0 => Cardinality(Owners) < MaxConcurrent
  BY <1>3, SlotNumbers
<1>5. QED
  BY <1>1, <1>2, <1>4

LEMMA LineInQueue ==
    ASSUME SlotInv, AwakeFirst(waiters, granted)
    PROVE  /\ Line \in Seq(Requests)
           /\ Elements(Line) \subseteq Elements(waiters)
<1>1. PICK m : m = Cardinality(granted)
  OBVIOUS
<1>2. PICK n : n = Len(waiters)
  OBVIOUS
<1>3. /\ m \in Nat /\ n \in Nat /\ Line \in Seq(Requests) /\ Len(Line) = n - m
      /\ \A k \in 1..(n - m) : Line[k] = waiters[k + m]
  BY <1>1, <1>2, SleepingPlaces DEF AwakeFirst, SlotInv, Line
<1>4. DOMAIN Line = 1..(n - m) /\ DOMAIN waiters = 1..n
  BY <1>2, <1>3, QueueDomain DEF SlotInv
<1>5. \A k \in 1..(n - m) : k + m \in 1..n
  BY <1>3
<1>6. Elements(Line) \subseteq Elements(waiters)
  BY <1>3, <1>4, <1>5 DEF Elements
<1>7. QED
  BY <1>3, <1>6

LEMMA EnterFreeServes ==
    ASSUME SlotAssumption, SlotInv, AwakeFirst(waiters, granted),
           NEW r \in Requests, EnterFree(r), Move(r, "new", Asking)
    PROVE  AwakeFirst(waiters, granted)' /\ ServedInTurn
<1>1. Holders' = Holders \cup {r} /\ r \notin Holders /\ r \notin Sleepers
  BY StageMoves DEF SlotInv, Stages, InSlot, Waiting, Asking, Relaying, Sending,
                    Failing, Orphaned, Logging
<1>2. /\ permits # 0 /\ waiters = <<>>
      /\ waiters' = waiters /\ granted' = granted
  BY DEF EnterFree, Locked
<1>3. permits > 0
  BY <1>2, SlotNumbers
<1>4. r \notin Owners /\ r \notin Elements(Line)
  BY <1>1, SlotsTaken, LineInQueue DEF Owners
<1>5. Line = <<>>
  <2>1. Elements(waiters) = {}
    BY <1>2 DEF Elements
  <2>2. Line \in Seq(Requests) /\ DOMAIN Line = {}
    BY <2>1, LineInQueue DEF Elements
  <2>3. Len(Line) \in Nat /\ DOMAIN Line = 1..Len(Line)
    BY <2>2, LenProperties
  <2>4. Len(Line) = 0
    <3>1. Len(Line) > 0 => 1 \in 1..Len(Line)
      BY <2>3
    <3>2. QED
      BY <2>2, <2>3, <3>1
  <2>5. QED
    BY <2>2, <2>4, EmptySeq
<1>6. Owners' = Owners \cup {r} /\ Line' = Line
  BY <1>1, <1>2 DEF Owners, Line, Sleeping
<1>7. Cardinality(Owners) < MaxConcurrent
  BY <1>3, SlotsTaken
<1>8. ServedInTurn
  BY <1>4, <1>5, <1>6, <1>7, NewcomerArrives
<1>9. QED
  BY <1>2, <1>8 DEF AwakeFirst

LEMMA EnqueueServes ==
    ASSUME SlotAssumption, SlotInv, AwakeFirst(waiters, granted),
           NEW r \in Requests, Enqueue(r), Move(r, "new", Waiting)
    PROVE  AwakeFirst(waiters, granted)' /\ ServedInTurn
<1>1. Holders' = Holders \ {r} /\ r \notin Holders /\ r \notin Sleepers
  BY StageMoves DEF SlotInv, Stages, InSlot, Waiting, Asking, Relaying, Sending,
                    Failing, Orphaned, Logging
<1>2. waiters' = Append(waiters, r) /\ granted' = granted
  BY DEF Enqueue
<1>3. r \notin Owners /\ r \notin Elements(Line)
  BY <1>1, SlotsTaken, LineInQueue DEF Owners
<1>4. /\ AwakeFirst(Append(waiters, r), granted)
      /\ Sleeping(Append(waiters, r), granted) = Append(Line, r)
  BY JoinsLine DEF SlotInv, Line
<1>5. Owners' = Owners /\ Line' = Append(Line, r)
  BY <1>1, <1>2, <1>4 DEF Owners, Line, Sleeping
<1>6. ServedInTurn
  BY <1>3, <1>5, NewcomerArrives
<1>7. QED
  BY <1>2, <1>4, <1>6 DEF AwakeFirst

LEMMA ResumeServes ==
    ASSUME SlotAssumption, SlotInv, AwakeFirst(waiters, granted),
           NEW r \in Requests, Resume(r), Move(r, Waiting, Asking)
    PROVE  AwakeFirst(waiters, granted)' /\ ServedInTurn
<1>1. Holders' = Holders \cup {r} /\ r \notin Holders
  BY StageMoves DEF SlotInv, Stages, InSlot, Waiting, Asking, Relaying, Sending,
                    Failing, Orphaned, Logging
<1>2. r \in granted /\ r \in Elements(waiters) /\ waiters' = WithoutWaiter(r)
  BY DEF Resume, SlotInv
<1>3. /\ AwakeFirst(waiters', granted \ {r})
      /\ Sleeping(waiters', granted \ {r}) = Line
  BY <1>2, AwakeGone DEF SlotInv, Line
<1>4. /\ waiters' \in Seq(Requests) /\ Once(waiters')
      /\ IsFiniteSet(granted \ {r})
  BY <1>2, WaiterGone
<1>5. CASE permits > 0
  <2>1. WakeUpNext(permits, waiters', granted \ {r})
    BY <1>2, <1>5 DEF Resume
  <2>2. permits \in Nat \ {0}
    BY <1>5, SlotNumbers
  <2>3. /\ AwakeFirst(waiters', granted')
        /\ \/ granted' = granted \ {r} /\ Line = <<>>
           \/ /\ Line # <<>>
              /\ granted' = (granted \ {r}) \cup {Head(Line)}
              /\ Sleeping(waiters', granted') = Tail(Line)
    BY <1>3, <1>4, <2>1, <2>2, WakeUpServes
  <2>4. CASE granted' = granted \ {r} /\ Line = <<>>
    <3>1. Owners' = Owners /\ Line' = Line
      BY <1>1, <1>2, <1>3, <2>4 DEF Owners, Line, Sleeping
    <3>2. QED
      BY <2>3, <3>1 DEF ServedInTurn, AwakeFirst
  <2>5. CASE /\ Line # <<>>
             /\ granted' = (granted \ {r}) \cup {Head(Line)}
             /\ Sleeping(waiters', granted') = Tail(Line)
    <3>1. Owners' = Owners \cup {Head(Line)}
      BY <1>1, <1>2, <2>5 DEF Owners
    <3>2. Line' = Tail(Line)
      BY <2>5 DEF Line, Sleeping
    <3>3. ServedInTurn
      BY <1>5, <2>5, <3>1, <3>2, SlotsTaken, FirstIsServed
    <3>4. QED
      BY <2>3, <3>3 DEF AwakeFirst
  <2>6. QED
    BY <2>3, <2>4, <2>5
<1>6. CASE ~(permits > 0)
  <2>1. granted' = granted \ {r}
    BY <1>6 DEF Resume
  <2>2. Owners' = Owners /\ Line' = Line
    BY <1>1, <1>2, <1>3, <2>1 DEF Owners, Line, Sleeping
  <2>3. QED
    BY <1>3, <2>1, <2>2 DEF ServedInTurn, AwakeFirst
<1>7. QED
  BY <1>5, <1>6

LEMMA LeaveQueueServes ==
    ASSUME SlotAssumption, SlotInv, AwakeFirst(waiters, granted),
           NEW r \in Requests, LeaveQueue(r), Move(r, Waiting, "left")
    PROVE  AwakeFirst(waiters, granted)' /\ ServedInTurn
<1>1. Holders' = Holders \ {r} /\ r \notin Holders
  BY StageMoves DEF SlotInv, Stages, InSlot, Waiting, Asking, Relaying, Sending,
                    Failing, Orphaned, Logging
<1>2. r \in Elements(waiters) /\ waiters' = WithoutWaiter(r)
  BY DEF LeaveQueue, InQueue, Elements
<1>3. CASE r \in granted
  <2>1. /\ AwakeFirst(waiters', granted \ {r})
        /\ Sleeping(waiters', granted \ {r}) = Line
    BY <1>2, <1>3, AwakeGone DEF SlotInv, Line
  <2>2. /\ waiters' \in Seq(Requests) /\ Once(waiters')
        /\ IsFiniteSet(granted \ {r})
    BY <1>2, WaiterGone
  <2>3. WakeUpNext(permits + 1, waiters', granted \ {r})
    BY <1>2, <1>3 DEF LeaveQueue
  <2>4. permits + 1 \in Nat \ {0}
    BY SlotNumbers
  <2>5. /\ AwakeFirst(waiters', granted')
        /\ \/ granted' = granted \ {r} /\ Line = <<>>
           \/ /\ Line # <<>>
              /\ granted' = (granted \ {r}) \cup {Head(Line)}
              /\ Sleeping(waiters', granted') = Tail(Line)
    BY <2>1, <2>2, <2>3, <2>4, WakeUpServes
  <2>6. r \in Owners /\ Owners \ {r} = Holders' \cup (granted \ {r})
    BY <1>1, <1>3 DEF Owners
  <2>7. CASE granted' = granted \ {r} /\ Line = <<>>
    <3>1. Owners' = Owners \ {r} /\ Line' = Line
      BY <2>1, <2>6, <2>7 DEF Owners, Line, Sleeping
    <3>2. QED
      BY <2>5, <2>6, <3>1, OwnerDeparts DEF AwakeFirst
  <2>8. CASE /\ Line # <<>>
             /\ granted' = (granted \ {r}) \cup {Head(Line)}
             /\ Sleeping(waiters', granted') = Tail(Line)
    <3>1. Owners' = (Owners \ {r}) \cup {Head(Line)}
      BY <2>6, <2>8 DEF Owners
    <3>2. Line' = Tail(Line)
      BY <2>8 DEF Line, Sleeping
    <3>3. QED
      BY <2>5, <2>6, <2>8, <3>1, <3>2, OwnerDeparts DEF AwakeFirst
  <2>9. QED
    BY <2>5, <2>7, <2>8
<1>4. CASE r \notin granted
  <2>1. granted' = granted
    BY <1>4 DEF LeaveQueue
  <2>2. /\ AwakeFirst(waiters', granted)
        /\ \E i \in 1..Len(Line) :
             Line[i] = r /\ Sleeping(waiters', granted) = Without(Line, i)
    BY <1>2, <1>4, SleeperGone DEF SlotInv, Line
  <2>3. PICK i \in 1..Len(Line) :
          Line[i] = r /\ Sleeping(waiters', granted) = Without(Line, i)
    BY <2>2
  <2>4. i \in DOMAIN Line
    BY LineInQueue, LenProperties
  <2>5. Owners' = Owners /\ Line' = Without(Line, i)
    BY <1>1, <2>1, <2>3 DEF Owners, Line, Sleeping
  <2>6. ServedInTurn
    BY <2>3, <2>4, <2>5, OneGivesUp
  <2>7. QED
    BY <2>1, <2>2, <2>6 DEF AwakeFirst
<1>5. QED
  BY <1>3, <1>4

LEMMA ReleaseServes ==
    ASSUME SlotAssumption, SlotInv, AwakeFirst(waiters, granted),
           NEW r \in Requests, Release,
           NEW from \in InSlot, NEW to \in {Replying, "done"}, Move(r, from, to)
    PROVE  AwakeFirst(waiters, granted)' /\ ServedInTurn
<1>1. Holders' = Holders \ {r} /\ r \in Holders
  <2>1. to \in Stages /\ to \notin InSlot
    BY DEF Stages, InSlot, Waiting, Asking, Relaying, Sending, Failing, Orphaned,
           Logging, Replying
  <2>2. QED
    BY <2>1, StageMoves DEF SlotInv
<1>2. waiters' = waiters /\ WakeUpNext(permits + 1, waiters, granted)
  BY DEF Release
<1>3. permits + 1 \in Nat \ {0}
  BY SlotNumbers
<1>4. /\ AwakeFirst(waiters, granted')
      /\ \/ granted' = granted /\ Line = <<>>
         \/ /\ Line # <<>>
            /\ granted' = granted \cup {Head(Line)}
            /\ Sleeping(waiters, granted') = Tail(Line)
  BY <1>2, <1>3, WakeUpServes DEF SlotInv, Line
<1>5. r \in Owners /\ Owners \ {r} = Holders' \cup granted
  BY <1>1, SlotsTaken DEF Owners
<1>6. CASE granted' = granted /\ Line = <<>>
  <2>1. Owners' = Owners \ {r} /\ Line' = Line
    BY <1>2, <1>5, <1>6 DEF Owners, Line, Sleeping
  <2>2. QED
    BY <1>2, <1>4, <1>5, <2>1, OwnerDeparts DEF AwakeFirst
<1>7. CASE /\ Line # <<>>
           /\ granted' = granted \cup {Head(Line)}
           /\ Sleeping(waiters, granted') = Tail(Line)
  <2>1. Owners' = (Owners \ {r}) \cup {Head(Line)}
    BY <1>5, <1>7 DEF Owners
  <2>2. Line' = Tail(Line)
    BY <1>2, <1>7 DEF Line, Sleeping
  <2>3. QED
    BY <1>2, <1>4, <1>5, <1>7, <2>1, <2>2, OwnerDeparts DEF AwakeFirst
<1>8. QED
  BY <1>4, <1>6, <1>7

\* A request moves on, within its slot or without one: nobody else notices.
LEMMA MoveServes ==
    ASSUME SlotInv, AwakeFirst(waiters, granted), NEW r \in Requests,
           UNCHANGED slotVars, NEW from, NEW to, Move(r, from, to),
           (from \in InSlot /\ to \in InSlot) \/ (from = Replying /\ to = "done")
    PROVE  AwakeFirst(waiters, granted)' /\ ServedInTurn
<1>1. Holders' = Holders
  <2>1. /\ to \in Stages /\ (to \in InSlot <=> from \in InSlot)
    BY DEF Stages, InSlot, Waiting, Asking, Relaying, Sending, Failing, Orphaned,
           Logging, Replying
  <2>2. /\ Holders' = IF to \in InSlot THEN Holders \cup {r} ELSE Holders \ {r}
        /\ r \in Holders <=> from \in InSlot
    BY <2>1, StageMoves DEF SlotInv
  <2>3. QED
    BY <2>1, <2>2
<1>2. waiters' = waiters /\ granted' = granted
  BY DEF slotVars
<1>3. QED
  BY <1>1, <1>2 DEF ServedInTurn, Owners, Line, Sleeping, AwakeFirst

LEMMA ServedInTurnStep ==
    ASSUME SlotAssumption, SlotInv, AwakeFirst(waiters, granted), [Next]_vars
    PROVE  AwakeFirst(waiters, granted)' /\ ServedInTurn
<1> DEFINE Kept(r) == \E from, to :
             /\ Move(r, from, to) /\ UNCHANGED slotVars
             /\ \/ from \in InSlot /\ to \in InSlot
                \/ from = Replying /\ to = "done"
           Goal == AwakeFirst(waiters, granted)' /\ ServedInTurn
<1>1. ASSUME NEW r \in Requests, Kept(r)
      PROVE  Goal
  BY <1>1, MoveServes
<1>2. ASSUME NEW r \in Requests, Enter(r)
      PROVE  Goal
  BY <1>2, EnterFreeServes, EnqueueServes DEF Enter
<1>3. ASSUME NEW r \in Requests, Release,
             NEW from \in InSlot, NEW to \in {Replying, "done"}, Move(r, from, to)
      PROVE  Goal
  BY <1>3, ReleaseServes
<1>4. ASSUME NEW r \in Requests, TakeSlot(r)
      PROVE  Goal
  BY <1>4, ResumeServes DEF TakeSlot
<1>5. ASSUME NEW r \in Requests, DisconnectWaiting(r)
      PROVE  Goal
  BY <1>5, LeaveQueueServes DEF DisconnectWaiting
<1>6. ASSUME UNCHANGED vars
      PROVE  Goal
  <2>1. waiters' = waiters /\ granted' = granted /\ stage' = stage
    BY <1>6 DEF vars
  <2>2. QED
    BY <2>1 DEF ServedInTurn, Owners, Holders, Line, Sleeping, AwakeFirst
<1> HIDE DEF Kept, Goal
<1> USE DEF InSlot, Asking, Relaying, Sending, Failing, Orphaned, Logging
<1>7. ASSUME NEW r \in Requests, YieldChunk(r)
      PROVE  Goal
  BY <1>1, <1>7 DEF YieldChunk, Kept
<1>8. ASSUME NEW r \in Requests, ModelSteps(r)
      PROVE  Goal
  <2>1. CASE PostReturns(r)
    BY <1>3, <2>1 DEF PostReturns
  <2>2. CASE PostFails(r)
    BY <1>1, <2>2 DEF PostFails, Kept
  <2>3. CASE StreamOpens(r)
    BY <1>1, <2>3 DEF StreamOpens, Kept
  <2>4. CASE StreamEnds(r)
    BY <1>1, <2>4 DEF StreamEnds, Kept
  <2>5. CASE StreamBreaks(r)
    BY <1>1, <2>5 DEF StreamBreaks, Kept
  <2>6. QED
    BY <1>8, <2>1, <2>2, <2>3, <2>4, <2>5 DEF ModelSteps
<1>9. ASSUME NEW r \in Requests, GatewaySteps(r)
      PROVE  Goal
  <2>1. CASE Reply(r)
    BY <1>1, <2>1 DEF Reply, Kept
  <2>2. CASE Finish(r)
    BY <1>3, <2>2 DEF Finish
  <2>3. CASE Finalise(r)
    BY <1>1, <2>3 DEF Finalise, Kept
  <2>4. QED
    BY <1>4, <1>9, <2>1, <2>2, <2>3 DEF GatewaySteps
<1>10. ASSUME NEW r \in Requests, ClientSteps(r)
       PROVE  Goal
  <2>1. CASE ChunkSent(r)
    BY <1>1, <2>1 DEF ChunkSent, Kept
  <2>2. CASE ErrorSent(r)
    BY <1>1, <2>2 DEF ErrorSent, Kept
  <2>3. CASE DisconnectSending(r)
    BY <1>1, <2>3 DEF DisconnectSending, Kept
  <2>4. CASE DisconnectReading(r)
    BY <1>1, <2>4 DEF DisconnectReading, Kept
  <2>5. QED
    BY <1>5, <1>10, <2>1, <2>2, <2>3, <2>4 DEF ClientSteps, ClientTakes
<1>11. Goal
  BY <1>2, <1>6, <1>7, <1>8, <1>9, <1>10 DEF Next, Terminated
<1>12. QED
  BY <1>11 DEF Goal

LEMMA ServedInTurnInit ==
    ASSUME SlotAssumption, Init
    PROVE  AwakeFirst(waiters, granted) /\ Queue!QueueInit
<1>1. /\ waiters = <<>> /\ granted = {} /\ stage = [r \in Requests |-> "new"]
  BY DEF Init, SlotInit
<1>2. Holders = {}
  BY <1>1 DEF Holders, InSlot, Asking, Relaying, Sending, Failing, Orphaned, Logging
<1>3. Cardinality(granted) = 0 /\ Len(waiters) = 0 /\ waiters \in Seq(Requests)
  BY <1>1, FS_EmptySet
<1>4. AwakeFirst(waiters, granted)
  BY <1>1, <1>3 DEF AwakeFirst
<1>5. Line = <<>>
  <2>1. SlotInv
    BY SlotInvInit
  <2>2. IsFiniteSet(granted) /\ Cardinality(granted) <= Len(waiters)
    BY <1>3, <2>1 DEF SlotInv
  <2>3. Line \in Seq(Requests) /\ Len(Line) = Len(waiters) - Cardinality(granted)
    BY <1>3, <2>2, SleepingPlaces DEF Line
  <2>4. QED
    BY <1>3, <2>3, EmptySeq
<1>6. Queue!QueueInit
  BY <1>1, <1>2, <1>5 DEF Queue!QueueInit, Line, Sleeping
<1>7. QED
  BY <1>4, <1>6

(* Inference slots are given first come, first served, and never to more
   requests at a time than there are slots, through every wake-up, failure and
   disconnection (monitoring.request_slot and the semaphore it awaits). *)
THEOREM SlotsAreServedInTurn == Spec => ImplementsQueue
<1>1. SlotAssumption
  BY SlotAssumption
<1>2. Init => AwakeFirst(waiters, granted) /\ Queue!QueueInit
  BY <1>1, ServedInTurnInit
<1>3. SlotInv /\ AwakeFirst(waiters, granted) /\ [Next]_vars
        => AwakeFirst(waiters, granted)' /\ [Queue!QueueNext]_(Queue!queueVars)
  <2>1. ASSUME SlotInv, AwakeFirst(waiters, granted), [Next]_vars
        PROVE  AwakeFirst(waiters, granted)' /\ ServedInTurn
    BY <1>1, <2>1, ServedInTurnStep
  <2>2. ServedInTurn => [Queue!QueueNext]_(Queue!queueVars)
    BY DEF ServedInTurn, Queue!queueVars, Owners, Line, Sleeping
  <2>3. QED
    BY <2>1, <2>2
<1>4. QED
  BY <1>2, <1>3, SlotsInvariant, PTL DEF Spec, ImplementsQueue, Queue!QueueSpec
=============================================================================

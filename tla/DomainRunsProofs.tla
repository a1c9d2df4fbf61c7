------------------------- MODULE DomainRunsProofs -------------------------
(***************************************************************************)
(* Proofs about the domain runs of module DomainRuns, for every number of  *)
(* runs, threads and process slots and every interval.                     *)
(***************************************************************************)
EXTENDS DomainRuns, TLAPS, FiniteSetTheorems, SequenceTheorems

-----------------------------------------------------------------------------
(* Taking out one element of a sequence. *)

Without(seq, i) == SubSeq(seq, 1, i - 1) \o SubSeq(seq, i + 1, Len(seq))

LEMMA WithoutProperties ==
    ASSUME NEW S, NEW seq \in Seq(S), NEW i \in 1..Len(seq)
    PROVE  /\ Without(seq, i) \in Seq(S)
           /\ Len(Without(seq, i)) = Len(seq) - 1
           /\ \A k \in 1..(Len(seq) - 1) :
                Without(seq, i)[k] = IF k < i THEN seq[k] ELSE seq[k + 1]
<1> DEFINE front == SubSeq(seq, 1, i - 1)
           back == SubSeq(seq, i + 1, Len(seq))
<1>1. /\ Len(seq) \in Nat
      /\ \A k \in 1..Len(seq) : seq[k] \in S
  BY LenProperties, ElementOfSeq
<1>2. /\ front \in Seq(S)
      /\ Len(front) = i - 1
      /\ \A k \in 1..(i - 1) : front[k] = seq[k]
  <2>1. \A k \in 1..(i - 1) : seq[k] \in S
    BY <1>1
  <2>2. QED
    BY <1>1, <2>1, SubSeqProperties
<1>3. /\ back \in Seq(S)
      /\ Len(back) = Len(seq) - i
      /\ \A k \in 1..(Len(seq) - i) : back[k] = seq[k + i]
  <2>1. \A k \in (i + 1)..Len(seq) : seq[k] \in S
    BY <1>1
  <2>2. /\ back \in Seq(S)
        /\ Len(back) = IF i + 1 <= Len(seq) THEN Len(seq) - (i + 1) + 1 ELSE 0
        /\ \A k \in 1..(Len(seq) - (i + 1) + 1) : back[k] = seq[(i + 1) + k - 1]
    BY <1>1, <2>1, SubSeqProperties
  <2>3. \A k \in 1..(Len(seq) - i) : (i + 1) + k - 1 = k + i
    BY <1>1
  <2>4. QED
    BY <1>1, <2>2, <2>3
<1> HIDE DEF front, back
<1>4. /\ front \o back \in Seq(S)
      /\ Len(front \o back) = Len(front) + Len(back)
      /\ \A k \in 1..(Len(front) + Len(back)) :
           (front \o back)[k] = IF k <= Len(front) THEN front[k] ELSE back[k - Len(front)]
  BY <1>2, <1>3, ConcatProperties
<1>5. \A k \in 1..(Len(seq) - 1) :
        (front \o back)[k] = IF k < i THEN seq[k] ELSE seq[k + 1]
  <2> SUFFICES ASSUME NEW k \in 1..(Len(seq) - 1)
               PROVE  (front \o back)[k] = IF k < i THEN seq[k] ELSE seq[k + 1]
    OBVIOUS
  <2>1. CASE k < i
    BY <2>1, <1>1, <1>2, <1>3, <1>4
  <2>2. CASE ~(k < i)
    <3>1. /\ k - (i - 1) \in 1..(Len(seq) - i)
          /\ (k - (i - 1)) + i = k + 1
      BY <2>2, <1>1
    <3>2. ~(k <= Len(front)) /\ k \in 1..(Len(front) + Len(back))
      BY <2>2, <1>1, <1>2, <1>3
    <3>3. (front \o back)[k] = back[k - (i - 1)]
      BY <3>2, <1>2, <1>4
    <3>4. back[k - (i - 1)] = seq[k + 1]
      BY <3>1, <1>3
    <3>5. QED
      BY <2>2, <3>3, <3>4
  <2>3. QED
    BY <2>1, <2>2
<1>6. Len(front \o back) = Len(seq) - 1
  BY <1>1, <1>2, <1>3, <1>4
<1>7. Without(seq, i) = front \o back
  BY DEF Without, front, back
<1>8. QED
  BY <1>4, <1>5, <1>6, <1>7

-----------------------------------------------------------------------------
(* The thread pool. *)

PoolTyped == backlog \in Seq(Work) /\ running \in SUBSET Work

LEMMA JobTyped == \A r \in Runs : \A op \in Operations : Job(r, op) \in Work
BY DEF Job, Work

LEMMA PoolStep ==
    ASSUME PoolTyped, NEW job \in Work, NEW next \in Work
    PROVE  /\ Submit(job) => PoolTyped'
           /\ BeginWork => PoolTyped'
           /\ Finish(job) => PoolTyped'
           /\ FinishAndSubmit(job, next) => PoolTyped'
           /\ AbandonAndSubmit(job, next) => PoolTyped'
<1>1. Submit(job) => PoolTyped'
  BY DEF Submit, PoolTyped
<1>2. BeginWork => PoolTyped'
  BY HeadTailProperties DEF BeginWork, PoolTyped
<1>3. Finish(job) => PoolTyped'
  BY DEF Finish, PoolTyped
<1>4. FinishAndSubmit(job, next) => PoolTyped'
  BY DEF FinishAndSubmit, PoolTyped
<1>5. ASSUME AbandonAndSubmit(job, next) PROVE PoolTyped'
  <2>1. CASE backlog' = Append(backlog, next)
    BY <2>1, <1>5 DEF AbandonAndSubmit, PoolTyped
  <2>2. ASSUME NEW i \in DOMAIN backlog,
               backlog' = SubSeq(backlog, 1, i - 1)
                            \o SubSeq(backlog, i + 1, Len(backlog)) \o <<next>>
        PROVE  PoolTyped'
    <3>1. i \in 1..Len(backlog)
      BY LenProperties DEF PoolTyped
    <3>2. Without(backlog, i) \in Seq(Work)
      BY <3>1, WithoutProperties DEF PoolTyped
    <3>3. backlog' = Without(backlog, i) \o <<next>>
      BY <2>2 DEF Without
    <3>4. QED
      BY <3>2, <3>3, <1>5, ConcatProperties DEF AbandonAndSubmit, PoolTyped
  <2>3. QED
    BY <2>1, <2>2, <1>5 DEF AbandonAndSubmit
<1>6. QED
  BY <1>1, <1>2, <1>3, <1>4, <1>5

-----------------------------------------------------------------------------
(* The process slots: the queue is in order, nobody is in it twice, and there
   are at most MarketSlots owners. *)

InLine == {line[i] : i \in DOMAIN line}

QueueTyped ==
    /\ owners \in SUBSET Runs
    /\ line \in Seq(Runs)

QueueInv ==
    /\ QueueTyped
    /\ IsFiniteSet(owners)
    /\ Cardinality(owners) <= MarketSlots
    /\ owners \cap InLine = {}
    /\ \A i \in 1..Len(line), j \in 1..Len(line) : line[i] = line[j] => i = j

(* The line without its first. *)
LEMMA ServedLine ==
    ASSUME QueueInv, line # <<>>
    PROVE  /\ Head(line) \in InLine
           /\ Head(line) \in Runs \ owners
           /\ Tail(line) \in Seq(Runs)
           /\ {Tail(line)[i] : i \in DOMAIN Tail(line)} = InLine \ {Head(line)}
           /\ \A i \in 1..Len(Tail(line)), j \in 1..Len(Tail(line)) :
                Tail(line)[i] = Tail(line)[j] => i = j
<1>1. /\ Len(line) \in Nat
      /\ Len(line) > 0
      /\ DOMAIN line = 1..Len(line)
  BY LenProperties, EmptySeq DEF QueueInv, QueueTyped
<1>2. /\ Head(line) = line[1]
      /\ Tail(line) \in Seq(Runs)
      /\ Len(Tail(line)) = Len(line) - 1
      /\ DOMAIN Tail(line) = 1..(Len(line) - 1)
      /\ \A i \in 1..(Len(line) - 1) : Tail(line)[i] = line[i + 1]
  BY <1>1, HeadTailProperties, LenProperties DEF QueueInv, QueueTyped
<1>3. line[1] \in Runs /\ line[1] \in InLine /\ line[1] \notin owners
  BY <1>1, ElementOfSeq DEF QueueInv, QueueTyped, InLine
<1> DEFINE served == {Tail(line)[i] : i \in DOMAIN Tail(line)}
<1>4. ASSUME NEW x \in served PROVE x \in InLine \ {line[1]}
  <2>1. PICK i \in 1..(Len(line) - 1) : x = line[i + 1]
    BY <1>2
  <2>2. i + 1 \in 1..Len(line) /\ i + 1 # 1
    BY <1>1
  <2>3. line[i + 1] # line[1]
    BY <2>2, <1>1 DEF QueueInv
  <2>4. QED
    BY <2>1, <2>2, <2>3, <1>1 DEF InLine
<1>5. ASSUME NEW x \in InLine \ {line[1]} PROVE x \in served
  <2>1. PICK i \in 1..Len(line) : x = line[i]
    BY <1>1 DEF InLine
  <2>2. i - 1 \in 1..(Len(line) - 1) /\ (i - 1) + 1 = i
    BY <2>1, <1>1
  <2>3. x = Tail(line)[i - 1]
    BY <2>1, <2>2, <1>2
  <2>4. QED
    BY <2>2, <2>3, <1>2
<1>6. \A i \in 1..(Len(line) - 1), j \in 1..(Len(line) - 1) :
        line[i + 1] = line[j + 1] => i = j
  <2> SUFFICES ASSUME NEW i \in 1..(Len(line) - 1), NEW j \in 1..(Len(line) - 1),
                      line[i + 1] = line[j + 1]
               PROVE  i = j
    OBVIOUS
  <2>1. i + 1 \in 1..Len(line) /\ j + 1 \in 1..Len(line)
    BY <1>1
  <2>2. i + 1 = j + 1
    BY <2>1 DEF QueueInv
  <2>3. QED
    BY <2>2
<1>7. \A i \in 1..Len(Tail(line)), j \in 1..Len(Tail(line)) :
        Tail(line)[i] = Tail(line)[j] => i = j
  BY <1>2, <1>6
<1>8. served = InLine \ {Head(line)}
  BY <1>2, <1>4, <1>5
<1>9. QED
  BY <1>2, <1>3, <1>7, <1>8

(* The line without one that gave up. *)
LEMMA ShortenedLine ==
    ASSUME QueueInv, NEW k \in 1..Len(line)
    PROVE  LET rest == Without(line, k)
           IN  /\ rest \in Seq(Runs)
               /\ {rest[i] : i \in DOMAIN rest} = InLine \ {line[k]}
               /\ \A i \in 1..Len(rest), j \in 1..Len(rest) : rest[i] = rest[j] => i = j
<1> DEFINE rest == Without(line, k)
           place(i) == IF i < k THEN i ELSE i + 1
<1>1. /\ Len(line) \in Nat
      /\ DOMAIN line = 1..Len(line)
  BY LenProperties DEF QueueInv, QueueTyped
<1>2. /\ rest \in Seq(Runs)
      /\ Len(rest) = Len(line) - 1
      /\ \A i \in 1..(Len(line) - 1) : rest[i] = IF i < k THEN line[i] ELSE line[i + 1]
  BY WithoutProperties DEF QueueInv, QueueTyped
<1>3. DOMAIN rest = 1..(Len(line) - 1)
  BY <1>2, LenProperties
<1> HIDE DEF rest
<1>4. \A i \in 1..(Len(line) - 1) :
        place(i) \in 1..Len(line) \ {k} /\ rest[i] = line[place(i)]
  BY <1>1, <1>2
<1>5. ASSUME NEW i \in 1..(Len(line) - 1), NEW j \in 1..(Len(line) - 1), rest[i] = rest[j]
      PROVE  i = j
  <2>1. place(i) = place(j)
    BY <1>4, <1>5 DEF QueueInv
  <2>2. QED
    BY <2>1
<1>6. ASSUME NEW x \in {rest[i] : i \in DOMAIN rest} PROVE x \in InLine \ {line[k]}
  <2>1. PICK i \in 1..(Len(line) - 1) : x = rest[i]
    BY <1>3
  <2> DEFINE p == place(i)
  <2>2. p \in 1..Len(line) /\ p # k /\ x = line[p]
    BY <2>1, <1>4
  <2> HIDE DEF p
  <2>3. line[p] # line[k]
    BY <2>2 DEF QueueInv
  <2>4. QED
    BY <2>2, <2>3, <1>1 DEF InLine
<1>7. ASSUME NEW x \in InLine \ {line[k]} PROVE x \in {rest[i] : i \in DOMAIN rest}
  <2>1. PICK p \in 1..Len(line) : x = line[p]
    BY <1>1 DEF InLine
  <2> DEFINE i == IF p < k THEN p ELSE p - 1
  <2>2. i \in 1..(Len(line) - 1) /\ place(i) = p
    BY <2>1, <1>1, <1>7
  <2>3. x = rest[i]
    BY <2>1, <2>2, <1>4
  <2>4. QED
    BY <2>2, <2>3, <1>3
<1>8. QED
  BY <1>2, <1>3, <1>5, <1>6, <1>7 DEF rest

(* What SlotQueue counts is what this module counts. *)
LEMMA SameCardinality == ProcessSlots!Cardinality(owners) = Cardinality(owners)
BY DEF Cardinality, ProcessSlots!Cardinality

LEMMA ServeFirstStep ==
    ASSUME QueueInv, ProcessSlots!ServeFirst
    PROVE  /\ QueueInv'
           /\ owners \subseteq owners'
           /\ owners' \cup InLine' = owners \cup InLine
<1>1. /\ line # <<>>
      /\ Cardinality(owners) < MarketSlots
      /\ owners' = owners \cup {Head(line)}
      /\ line' = Tail(line)
  BY SameCardinality DEF ProcessSlots!ServeFirst
<1>2. /\ Head(line) \in InLine
      /\ Head(line) \in Runs \ owners
      /\ line' \in Seq(Runs)
      /\ InLine' = InLine \ {Head(line)}
      /\ \A i \in 1..Len(line'), j \in 1..Len(line') : line'[i] = line'[j] => i = j
  BY <1>1, ServedLine DEF InLine
<1>3. /\ IsFiniteSet(owners')
      /\ Cardinality(owners') = Cardinality(owners) + 1
      /\ Cardinality(owners) \in Nat
  BY <1>1, <1>2, FS_AddElement, FS_CardinalityType DEF QueueInv
<1>4. Cardinality(owners') <= MarketSlots
  BY <1>1, <1>3, DomainAssumption
<1>5. QED
  BY <1>1, <1>2, <1>3, <1>4 DEF QueueInv, QueueTyped

LEMMA DepartStep ==
    ASSUME QueueInv, NEW r \in owners, ProcessSlots!Depart(r)
    PROVE  /\ QueueInv'
           /\ owners \ {r} \subseteq owners'
           /\ owners' \cup InLine' = (owners \cup InLine) \ {r}
<1>1. /\ IsFiniteSet(owners \ {r})
      /\ Cardinality(owners \ {r}) = Cardinality(owners) - 1
      /\ Cardinality(owners) \in Nat
      /\ Cardinality(owners) <= MarketSlots
      /\ r \notin InLine
  BY FS_RemoveElement, FS_CardinalityType DEF QueueInv
<1>2. CASE owners' = owners \ {r} /\ UNCHANGED line
  <2>1. InLine' = InLine
    BY <1>2 DEF InLine
  <2>2. Cardinality(owners') <= MarketSlots
    BY <1>1, <1>2, DomainAssumption
  <2>3. QED
    BY <1>1, <1>2, <2>1, <2>2 DEF QueueInv, QueueTyped
<1>3. CASE /\ line # <<>>
           /\ owners' = (owners \ {r}) \cup {Head(line)}
           /\ line' = Tail(line)
  <2>1. /\ Head(line) \in InLine
        /\ Head(line) \in Runs \ owners
        /\ line' \in Seq(Runs)
        /\ InLine' = InLine \ {Head(line)}
        /\ \A i \in 1..Len(line'), j \in 1..Len(line') : line'[i] = line'[j] => i = j
    BY <1>3, ServedLine DEF InLine
  <2>2. /\ IsFiniteSet(owners')
        /\ Cardinality(owners') = (Cardinality(owners) - 1) + 1
    BY <1>1, <1>3, <2>1, FS_AddElement
  <2>3. Cardinality(owners') <= MarketSlots
    BY <1>1, <2>2, DomainAssumption
  <2>4. QED
    BY <1>1, <1>3, <2>1, <2>2, <2>3 DEF QueueInv, QueueTyped
<1>4. QED
  BY <1>2, <1>3 DEF ProcessSlots!Depart

LEMMA GiveUpStep ==
    ASSUME QueueInv, NEW r \in Runs, ProcessSlots!GiveUp(r)
    PROVE  /\ QueueInv'
           /\ owners' = owners
           /\ InLine' = InLine \ {r}
<1>1. PICK k \in DOMAIN line :
        /\ line[k] = r
        /\ line' = SubSeq(line, 1, k - 1) \o SubSeq(line, k + 1, Len(line))
  BY DEF ProcessSlots!GiveUp
<1>2. k \in 1..Len(line) /\ line' = Without(line, k)
  BY <1>1, LenProperties DEF QueueInv, QueueTyped, Without
<1>3. /\ line' \in Seq(Runs)
      /\ InLine' = InLine \ {r}
      /\ \A i \in 1..Len(line'), j \in 1..Len(line') : line'[i] = line'[j] => i = j
  BY <1>1, <1>2, ShortenedLine DEF InLine
<1>4. QED
  BY <1>3 DEF QueueInv, QueueTyped, ProcessSlots!GiveUp

LEMMA ArriveStep ==
    ASSUME QueueInv, NEW r \in Runs, ProcessSlots!Arrive(r)
    PROVE  /\ QueueInv'
           /\ owners \subseteq owners'
           /\ owners' \cup InLine' = owners \cup InLine \cup {r}
           /\ r \notin owners \cup InLine
<1>1. r \notin owners \cup InLine
  BY DEF ProcessSlots!Arrive, ProcessSlots!InLine, InLine
<1>2. CASE /\ Cardinality(owners) < MarketSlots
           /\ owners' = owners \cup {r}
           /\ UNCHANGED line
  <2>1. InLine' = InLine
    BY <1>2 DEF InLine
  <2>2. /\ IsFiniteSet(owners')
        /\ Cardinality(owners') = Cardinality(owners) + 1
        /\ Cardinality(owners) \in Nat
    BY <1>1, <1>2, FS_AddElement, FS_CardinalityType DEF QueueInv
  <2>3. Cardinality(owners') <= MarketSlots
    BY <1>2, <2>2, DomainAssumption
  <2>4. QED
    BY <1>1, <1>2, <2>1, <2>2, <2>3 DEF QueueInv, QueueTyped
<1>3. CASE line' = Append(line, r) /\ UNCHANGED owners
  <2>1. /\ Len(line) \in Nat
        /\ DOMAIN line = 1..Len(line)
        /\ line' \in Seq(Runs)
        /\ Len(line') = Len(line) + 1
        /\ DOMAIN line' = 1..(Len(line) + 1)
        /\ \A i \in 1..Len(line) : line'[i] = line[i]
        /\ line'[Len(line) + 1] = r
    BY <1>3, LenProperties, AppendProperties DEF QueueInv, QueueTyped
  <2>2. InLine' = InLine \cup {r}
    BY <2>1 DEF InLine
  <2>3. ASSUME NEW i \in 1..(Len(line) + 1), NEW j \in 1..(Len(line) + 1),
               line'[i] = line'[j]
        PROVE  i = j
    <3>1. \A k \in 1..Len(line) : line'[k] # r
      BY <1>1, <2>1 DEF InLine
    <3>2. CASE i \in 1..Len(line) /\ j \in 1..Len(line)
      BY <3>2, <2>1, <2>3 DEF QueueInv
    <3>3. CASE ~(i \in 1..Len(line) /\ j \in 1..Len(line))
      BY <3>1, <3>3, <2>1, <2>3
    <3>4. QED
      BY <3>2, <3>3
  <2>4. QED
    BY <1>1, <1>3, <2>1, <2>2, <2>3 DEF QueueInv, QueueTyped
<1>4. QED
  BY <1>1, <1>2, <1>3, SameCardinality DEF ProcessSlots!Arrive

-----------------------------------------------------------------------------
(* Types. *)

RunsTyped ==
    /\ stage \in [Runs -> Stages]
    /\ outcome \in [Runs -> Statuses \cup {Pending}]
    /\ row \in [Runs -> Statuses \cup {Pending}]
    /\ reply \in [Runs -> Statuses \cup {Pending}]
    /\ late \in SUBSET Runs
    /\ leaked \in SUBSET Runs
    /\ worker \in [Runs -> {"none", "unstarted", "alive", "told", "dead"}]
    /\ sent \in [Runs -> {"ok", "error", Pending}]
    /\ clock \in Nat
    /\ lastPurge \in Nat
    /\ gate \in Nat \cup {Unlocked}
    /\ purges \in Seq(Nat)
    /\ recorded \in [Runs -> Nat]

LEMMA TypeParts == TypeOK <=> PoolTyped /\ QueueTyped /\ RunsTyped
BY DEF TypeOK, PoolTyped, QueueTyped, RunsTyped

LEMMA PoolActions ==
    ASSUME PoolTyped, NEW r \in Runs
    PROVE  RunNext(r) \/ MarketNext(r) => PoolTyped'
<1> SUFFICES ASSUME RunNext(r) \/ MarketNext(r) PROVE PoolTyped'
  OBVIOUS
<1>1. \A op \in Operations : Job(r, op) \in Work
  BY JobTyped
<1> DEFINE pooled(a, b) == Submit(Job(r, a)) \/ Finish(Job(r, a))
                             \/ FinishAndSubmit(Job(r, a), Job(r, b))
                             \/ AbandonAndSubmit(Job(r, a), Job(r, b))
<1>2. \A a, b \in Operations : pooled(a, b) => PoolTyped'
  BY <1>1, PoolStep
<1>3. UNCHANGED poolVars => PoolTyped'
  BY DEF poolVars, PoolTyped
<1>4. UNCHANGED poolVars \/ \E a, b \in Operations : pooled(a, b)
  <2>1. CASE RunNext(r)
    BY <2>1 DEF RunNext, Operations, Begin, Refuse, BodyLost, Analyze, AnalysisEnds, AnalysisTimesOut, AbandonedAnalysisEnds, RowInserted, InsertFails, EnterGate, RowsDeleted, DeleteFails
  <2>2. CASE MarketNext(r)
    BY <2>2 DEF MarketNext, Operations, AskSlot, WaitTimesOut, PipeFails, StartWorker, StartFails, WorkerAnswers, WorkerExits, DeadlinePasses, ReceiveEnds, ReceiveTimesOut, AbandonedReceiveEnds, JoinEnds, RejoinEnds
  <2>3. QED
    BY <2>1, <2>2
<1>5. QED
  BY <1>2, <1>3, <1>4

LEMMA RunsActions ==
    ASSUME RunsTyped, NEW r \in Runs, stage[r] = "purging" => gate # Unlocked
    PROVE  RunNext(r) \/ MarketNext(r) => RunsTyped'
<1> SUFFICES ASSUME RunNext(r) \/ MarketNext(r) PROVE RunsTyped'
  OBVIOUS
<1> USE DEF RunsTyped, Stages, Statuses, runVars, slotVars, workerVars, purgeVars
<1>1. CASE Begin(r)
  BY <1>1 DEF Begin, Move
<1>2. CASE Refuse(r)
  BY <1>2 DEF Refuse, GoRecord, Move
<1>3. CASE BodyLost(r)
  BY <1>3 DEF BodyLost, GoRecord, Move, Answer
<1>4. CASE Analyze(r)
  BY <1>4 DEF Analyze, Move
<1>5. CASE AnalysisEnds(r)
  BY <1>5 DEF AnalysisEnds, GoRecord, Move
<1>6. CASE AnalysisTimesOut(r)
  BY <1>6 DEF AnalysisTimesOut, GoRecord, Move
<1>7. CASE AbandonedAnalysisEnds(r)
  BY <1>7 DEF AbandonedAnalysisEnds
<1>8. CASE RowInserted(r)
  BY <1>8 DEF RowInserted, Move, Close, Answer
<1>9. CASE InsertFails(r)
  BY <1>9 DEF InsertFails, Move, Answer
<1>10. CASE EnterGate(r)
  BY <1>10 DEF EnterGate, Move, Close, Answer, Unlocked
<1>11. CASE RowsDeleted(r)
  <2>1. gate \in Nat
    BY <1>11 DEF RowsDeleted, Close, Move
  <2>2. purges' = Append(purges, gate)
    BY <1>11 DEF RowsDeleted
  <2>3. purges' \in Seq(Nat)
    BY <2>1, <2>2, AppendProperties
  <2>4. QED
    BY <1>11, <2>1, <2>3 DEF RowsDeleted, Move, Close, Answer
<1>12. CASE DeleteFails(r)
  BY <1>12 DEF DeleteFails, Move, Answer, Unlocked
<1>13. CASE AskSlot(r)
  BY <1>13 DEF AskSlot, GoRecord, Move
<1>14. CASE WaitTimesOut(r)
  BY <1>14 DEF WaitTimesOut, GoRecord, Move
<1>15. CASE PipeFails(r)
  BY <1>15 DEF PipeFails, GoRecord, Move
<1>16. CASE StartWorker(r)
  BY <1>16 DEF StartWorker, CleanUp, Move, Terminated
<1>17. CASE StartFails(r)
  BY <1>17 DEF StartFails, CleanUp, Move, Terminated
<1>18. CASE WorkerAnswers(r)
  BY <1>18 DEF WorkerAnswers
<1>19. CASE WorkerExits(r)
  BY <1>19 DEF WorkerExits
<1>20. CASE DeadlinePasses(r)
  BY <1>20 DEF DeadlinePasses
<1>21. CASE ReceiveEnds(r)
  <2>1. PICK status \in {"error", sent[r]} \ {Pending} :
          CleanUp(r, "receiving", status, worker[r])
    BY <1>21 DEF ReceiveEnds
  <2>2. status \in Statuses
    OBVIOUS
  <2>3. QED
    BY <1>21, <2>1, <2>2 DEF ReceiveEnds, CleanUp, Move, Terminated
<1>22. CASE ReceiveTimesOut(r)
  BY <1>22 DEF ReceiveTimesOut, CleanUp, Move, Terminated
<1>23. CASE AbandonedReceiveEnds(r)
  BY <1>23 DEF AbandonedReceiveEnds
<1>24. CASE JoinEnds(r)
  BY <1>24 DEF JoinEnds, CleanedUp, CleanUpFails, GoRecord, Move
<1>25. CASE RejoinEnds(r)
  BY <1>25 DEF RejoinEnds, CleanedUp, CleanUpFails, GoRecord, Move
<1>26. QED
  BY <1>1, <1>2, <1>3, <1>4, <1>5, <1>6, <1>7, <1>8, <1>9, <1>10, <1>11, <1>12, <1>13, <1>14, <1>15, <1>16, <1>17, <1>18, <1>19, <1>20, <1>21, <1>22, <1>23, <1>24, <1>25 DEF RunNext, MarketNext

-----------------------------------------------------------------------------
(* The row and the reply. *)

RecordInv ==
    \A r \in Runs :
       /\ stage[r] \in {"purge due", "purging"} => row[r] = outcome[r]
       /\ stage[r] = "done" => reply[r] \in {row[r], "error"}

LEMMA RecordActions ==
    ASSUME RunsTyped, RecordInv, NEW r \in Runs
    PROVE  RunNext(r) \/ MarketNext(r) => RecordInv'
<1> SUFFICES ASSUME RunNext(r) \/ MarketNext(r) PROVE RecordInv'
  OBVIOUS
<1> USE DEF RunsTyped, RecordInv, runVars
<1>1. CASE Begin(r)
  BY <1>1 DEF Begin, Move
<1>2. CASE Refuse(r)
  BY <1>2 DEF Refuse, GoRecord, Move
<1>3. CASE BodyLost(r)
  BY <1>3 DEF BodyLost, GoRecord, Move, Answer
<1>4. CASE Analyze(r)
  BY <1>4 DEF Analyze, Move
<1>5. CASE AnalysisEnds(r)
  BY <1>5 DEF AnalysisEnds, GoRecord, Move
<1>6. CASE AnalysisTimesOut(r)
  BY <1>6 DEF AnalysisTimesOut, GoRecord, Move
<1>7. CASE AbandonedAnalysisEnds(r)
  BY <1>7 DEF AbandonedAnalysisEnds
<1>8. CASE RowInserted(r)
  BY <1>8 DEF RowInserted, Move, Close, Answer
<1>9. CASE InsertFails(r)
  BY <1>9 DEF InsertFails, Move, Answer
<1>10. CASE EnterGate(r)
  BY <1>10 DEF EnterGate, Move, Close, Answer
<1>11. CASE RowsDeleted(r)
  BY <1>11 DEF RowsDeleted, Move, Close, Answer
<1>12. CASE DeleteFails(r)
  BY <1>12 DEF DeleteFails, Move, Answer
<1>13. CASE AskSlot(r)
  BY <1>13 DEF AskSlot, GoRecord, Move
<1>14. CASE WaitTimesOut(r)
  BY <1>14 DEF WaitTimesOut, GoRecord, Move
<1>15. CASE PipeFails(r)
  BY <1>15 DEF PipeFails, GoRecord, Move
<1>16. CASE StartWorker(r)
  BY <1>16 DEF StartWorker, CleanUp, Move, Terminated
<1>17. CASE StartFails(r)
  BY <1>17 DEF StartFails, CleanUp, Move, Terminated
<1>18. CASE WorkerAnswers(r)
  BY <1>18 DEF WorkerAnswers
<1>19. CASE WorkerExits(r)
  BY <1>19 DEF WorkerExits
<1>20. CASE DeadlinePasses(r)
  BY <1>20 DEF DeadlinePasses
<1>21. CASE ReceiveEnds(r)
  BY <1>21 DEF ReceiveEnds, CleanUp, Move, Terminated
<1>22. CASE ReceiveTimesOut(r)
  BY <1>22 DEF ReceiveTimesOut, CleanUp, Move, Terminated
<1>23. CASE AbandonedReceiveEnds(r)
  BY <1>23 DEF AbandonedReceiveEnds
<1>24. CASE JoinEnds(r)
  BY <1>24 DEF JoinEnds, CleanedUp, CleanUpFails, GoRecord, Move
<1>25. CASE RejoinEnds(r)
  BY <1>25 DEF RejoinEnds, CleanedUp, CleanUpFails, GoRecord, Move
<1>26. QED
  BY <1>1, <1>2, <1>3, <1>4, <1>5, <1>6, <1>7, <1>8, <1>9, <1>10, <1>11, <1>12, <1>13, <1>14, <1>15, <1>16, <1>17, <1>18, <1>19, <1>20, <1>21, <1>22, <1>23, <1>24, <1>25 DEF RunNext, MarketNext

-----------------------------------------------------------------------------
(* The purge: one run at a time has the lock, what it was after is still due,
   and the purges so far were apart. *)

GateInv ==
    /\ gate # Unlocked => gate - lastPurge >= Interval /\ gate <= clock
    /\ lastPurge <= clock
    /\ \A r \in Runs :
         /\ recorded[r] <= clock
         /\ stage[r] = "purging" => gate # Unlocked /\ recorded[r] <= gate
         /\ stage[r] = "done" /\ reply[r] # "error" => recorded[r] - lastPurge < Interval
    /\ \A r, q \in Runs : stage[r] = "purging" /\ stage[q] = "purging" => r = q

LEMMA GateActions ==
    ASSUME RunsTyped, GateInv, NEW r \in Runs
    PROVE  RunNext(r) \/ MarketNext(r) => GateInv'
<1> SUFFICES ASSUME RunNext(r) \/ MarketNext(r) PROVE GateInv'
  OBVIOUS
<1> USE DomainAssumption DEF RunsTyped, GateInv, Unlocked, runVars, purgeVars
<1>1. CASE Begin(r)
  BY <1>1 DEF Begin, Move
<1>2. CASE Refuse(r)
  BY <1>2 DEF Refuse, GoRecord, Move
<1>3. CASE BodyLost(r)
  <2>1. CASE GoRecord(r, "reading", "error")
    BY <1>3, <2>1 DEF BodyLost, GoRecord, Move
  <2>2. CASE Move(r, "reading", "done") /\ Answer(r, "error") /\ UNCHANGED row
    BY <1>3, <2>2 DEF BodyLost, Move, Answer
  <2>3. QED
    BY <1>3, <2>1, <2>2 DEF BodyLost
<1>4. CASE Analyze(r)
  BY <1>4 DEF Analyze, Move
<1>5. CASE AnalysisEnds(r)
  BY <1>5 DEF AnalysisEnds, GoRecord, Move
<1>6. CASE AnalysisTimesOut(r)
  BY <1>6 DEF AnalysisTimesOut, GoRecord, Move
<1>7. CASE AbandonedAnalysisEnds(r)
  BY <1>7 DEF AbandonedAnalysisEnds
<1>8. CASE RowInserted(r)
  <2>1. CASE PurgeDue
    <3>1. /\ stage' = [stage EXCEPT ![r] = "purge due"]
          /\ recorded' = [recorded EXCEPT ![r] = clock]
          /\ UNCHANGED <<reply, lastPurge, gate, clock>>
      BY <1>8, <2>1 DEF RowInserted, Move
    <3>2. ASSUME NEW q \in Runs
          PROVE  recorded'[q] \in Nat /\ recorded'[q] <= clock
      <4>1. recorded'[q] = IF q = r THEN clock ELSE recorded[q]
        BY <3>1
      <4>2. recorded[q] \in Nat /\ recorded[q] <= clock /\ clock \in Nat
        OBVIOUS
      <4>3. QED
        BY <4>1, <4>2
    <3>3. \A q \in Runs : stage'[q] \in {"purging", "done"} =>
            stage'[q] = stage[q] /\ recorded'[q] = recorded[q]
      BY <3>1
    <3>4. QED
      BY <3>1, <3>2, <3>3
  <2>2. CASE ~PurgeDue
    BY <1>8, <2>2 DEF RowInserted, PurgeDue, Move, Close, Answer
  <2>3. QED
    BY <1>8, <2>1, <2>2 DEF RowInserted
<1>9. CASE InsertFails(r)
  BY <1>9 DEF InsertFails, Move, Answer
<1>10. CASE EnterGate(r)
  <2>1. CASE PurgeDue
    <3>1. /\ stage' = [stage EXCEPT ![r] = "purging"]
          /\ gate = Unlocked
          /\ gate' = clock
          /\ UNCHANGED <<reply, lastPurge, recorded, clock>>
      BY <1>10, <2>1 DEF EnterGate, Move
    <3>2. clock - lastPurge >= Interval
      BY <2>1 DEF PurgeDue
    <3>3. \A q \in Runs : stage[q] # "purging"
      BY <3>1
    <3>4. QED
      BY <3>1, <3>2, <3>3
  <2>2. CASE ~PurgeDue
    <3>1. /\ stage' = [stage EXCEPT ![r] = "done"]
          /\ UNCHANGED <<lastPurge, gate, recorded, clock>>
          /\ reply' = [reply EXCEPT ![r] = outcome[r]]
      BY <1>10, <2>2 DEF EnterGate, Move, Close, Answer
    <3>2. recorded[r] - lastPurge < Interval
      BY <2>2 DEF PurgeDue
    <3>3. QED
      BY <3>1, <3>2
  <2>3. QED
    BY <1>10, <2>1, <2>2 DEF EnterGate
<1>11. CASE RowsDeleted(r)
  BY <1>11 DEF RowsDeleted, Move, Close, Answer
<1>12. CASE DeleteFails(r)
  BY <1>12 DEF DeleteFails, Move, Answer
<1>13. CASE AskSlot(r)
  BY <1>13 DEF AskSlot, GoRecord, Move
<1>14. CASE WaitTimesOut(r)
  BY <1>14 DEF WaitTimesOut, GoRecord, Move
<1>15. CASE PipeFails(r)
  BY <1>15 DEF PipeFails, GoRecord, Move
<1>16. CASE StartWorker(r)
  BY <1>16 DEF StartWorker, CleanUp, Move, Terminated
<1>17. CASE StartFails(r)
  BY <1>17 DEF StartFails, CleanUp, Move, Terminated
<1>18. CASE WorkerAnswers(r)
  BY <1>18 DEF WorkerAnswers
<1>19. CASE WorkerExits(r)
  BY <1>19 DEF WorkerExits
<1>20. CASE DeadlinePasses(r)
  BY <1>20 DEF DeadlinePasses
<1>21. CASE ReceiveEnds(r)
  BY <1>21 DEF ReceiveEnds, CleanUp, Move, Terminated
<1>22. CASE ReceiveTimesOut(r)
  BY <1>22 DEF ReceiveTimesOut, CleanUp, Move, Terminated
<1>23. CASE AbandonedReceiveEnds(r)
  BY <1>23 DEF AbandonedReceiveEnds
<1>24. CASE JoinEnds(r)
  <2>1. CASE \E status \in Statuses \cup {Pending} : GoRecord(r, "joining", status)
    BY <1>24, <2>1 DEF JoinEnds, GoRecord, Move
  <2>2. CASE Move(r, "joining", "rejoining") /\ UNCHANGED reply
    BY <1>24, <2>2 DEF JoinEnds, Move
  <2>3. QED
    BY <1>24, <2>1, <2>2 DEF JoinEnds, CleanedUp, CleanUpFails, Statuses
<1>25. CASE RejoinEnds(r)
  <2>1. \E status \in Statuses \cup {Pending} : GoRecord(r, "rejoining", status)
    BY <1>25 DEF RejoinEnds, CleanedUp, CleanUpFails, Statuses
  <2>2. QED
    BY <1>25, <2>1 DEF RejoinEnds, GoRecord, Move
<1>26. QED
  BY <1>1, <1>2, <1>3, <1>4, <1>5, <1>6, <1>7, <1>8, <1>9, <1>10, <1>11, <1>12, <1>13, <1>14, <1>15, <1>16, <1>17, <1>18, <1>19, <1>20, <1>21, <1>22, <1>23, <1>24, <1>25 DEF RunNext, MarketNext

-----------------------------------------------------------------------------
(* The history of the purges. *)

HistoryInv == lastPurge = LatestPurge /\ PurgesSpaced

(* Only a purge adds to it, and what the lock's holder is after was due. *)
LEMMA HistoryActions ==
    ASSUME RunsTyped, GateInv, HistoryInv, NEW r \in Runs
    PROVE  RunNext(r) \/ MarketNext(r) => HistoryInv'
<1> SUFFICES ASSUME RunNext(r) \/ MarketNext(r) PROVE HistoryInv'
  OBVIOUS
<1>1. CASE RowsDeleted(r)
  <2>1. /\ gate \in Nat
        /\ gate - lastPurge >= Interval
        /\ lastPurge' = gate
        /\ purges' = Append(purges, gate)
    BY <1>1 DEF RowsDeleted, Close, Move, GateInv, RunsTyped
  <2>2. /\ Len(purges) \in Nat
        /\ Len(purges') = Len(purges) + 1
        /\ \A i \in 1..Len(purges) : purges'[i] = purges[i]
        /\ purges'[Len(purges) + 1] = gate
        /\ purges' # <<>>
    BY <2>1, AppendProperties, LenProperties DEF RunsTyped
  <2>3. LatestPurge' = gate
    BY <2>2 DEF LatestPurge
  <2>4. ASSUME NEW i \in 1..Len(purges) PROVE purges'[i + 1] - purges'[i] >= Interval
    <3>1. CASE i = Len(purges)
      <4>1. purges # <<>>
        BY <3>1, <2>2, EmptySeq
      <4>2. purges'[i] = lastPurge /\ purges'[i + 1] = gate
        BY <3>1, <4>1, <2>2 DEF HistoryInv, LatestPurge
      <4>3. QED
        BY <4>2, <2>1
    <3>2. CASE i # Len(purges)
      <4>1. i \in 1..(Len(purges) - 1) /\ i + 1 \in 1..Len(purges)
        BY <3>2, <2>2
      <4>2. QED
        BY <4>1, <2>2 DEF HistoryInv, PurgesSpaced
    <3>3. QED
      BY <3>1, <3>2
  <2>5. PurgesSpaced'
    BY <2>2, <2>4 DEF PurgesSpaced
  <2>6. QED
    BY <2>1, <2>3, <2>5 DEF HistoryInv
<1>2. CASE UNCHANGED <<lastPurge, purges>>
  BY <1>2 DEF HistoryInv, LatestPurge, PurgesSpaced
<1>3. RunNext(r) => RowsDeleted(r) \/ UNCHANGED <<lastPurge, purges>>
  BY DEF RunNext, purgeVars, Begin, Refuse, BodyLost, Analyze, AnalysisEnds, AnalysisTimesOut, AbandonedAnalysisEnds, RowInserted, InsertFails, EnterGate, DeleteFails
<1>4. MarketNext(r) => UNCHANGED <<lastPurge, purges>>
  BY DEF MarketNext, purgeVars, AskSlot, WaitTimesOut, PipeFails, StartWorker, StartFails, WorkerAnswers, WorkerExits, DeadlinePasses, ReceiveEnds, ReceiveTimesOut, AbandonedReceiveEnds, JoinEnds, RejoinEnds
<1>5. QED
  BY <1>1, <1>2, <1>3, <1>4

-----------------------------------------------------------------------------
(* The slots: who waits is waiting, who is inside the try owns a slot, and so
   does whoever has a process. *)

StageInv ==
    /\ \A r \in InLine : stage[r] = "waiting"
    /\ SlotsExplained
    /\ \A r \in Runs :
         /\ stage[r] \in {"receiving", "joining", "rejoining"} => r \in owners
         /\ worker[r] \in {"alive", "told"} => r \in owners
         /\ stage[r] \in {"new", "reading", "waiting"} => worker[r] = "none"

LEMMA QueueUnchanged ==
    UNCHANGED <<owners, line>> =>
      /\ QueueInv => QueueInv'
      /\ InLine' = InLine
BY DEF QueueInv, QueueTyped, InLine

LEMMA SlotActions ==
    ASSUME RunsTyped, QueueInv, StageInv, NEW r \in Runs
    PROVE  RunNext(r) \/ MarketNext(r) => QueueInv' /\ StageInv'
<1> SUFFICES ASSUME RunNext(r) \/ MarketNext(r) PROVE QueueInv' /\ StageInv'
  OBVIOUS
<1> USE DEF RunsTyped, StageInv, SlotsExplained, runVars, workerVars
<1>a. \A q \in InLine : q \in Runs
  BY ElementOfSeq, LenProperties DEF QueueInv, QueueTyped, InLine
<1>b. owners \subseteq Runs
  BY DEF QueueInv, QueueTyped
<1>1. CASE Begin(r)
  BY <1>1, <1>a, <1>b, QueueUnchanged DEF Begin, Move, slotVars
<1>2. CASE Refuse(r)
  BY <1>2, <1>a, <1>b, QueueUnchanged DEF Refuse, GoRecord, Move, slotVars
<1>3. CASE BodyLost(r)
  BY <1>3, <1>a, <1>b, QueueUnchanged DEF BodyLost, GoRecord, Move, Answer, slotVars
<1>4. CASE Analyze(r)
  BY <1>4, <1>a, <1>b, QueueUnchanged DEF Analyze, Move, slotVars
<1>5. CASE AnalysisEnds(r)
  BY <1>5, <1>a, <1>b, QueueUnchanged DEF AnalysisEnds, GoRecord, Move, slotVars
<1>6. CASE AnalysisTimesOut(r)
  BY <1>6, <1>a, <1>b, QueueUnchanged DEF AnalysisTimesOut, GoRecord, Move, slotVars
<1>7. CASE AbandonedAnalysisEnds(r)
  BY <1>7, <1>a, <1>b, QueueUnchanged DEF AbandonedAnalysisEnds, slotVars
<1>8. CASE RowInserted(r)
  <2>1. /\ stage[r] = "recording"
        /\ \/ stage' = [stage EXCEPT ![r] = "purge due"]
           \/ stage' = [stage EXCEPT ![r] = "done"]
        /\ UNCHANGED <<owners, line, leaked, worker>>
    BY <1>8 DEF RowInserted, Move, Close, slotVars
  <2>2. QED
    BY <2>1, <1>a, <1>b, QueueUnchanged
<1>9. CASE InsertFails(r)
  BY <1>9, <1>a, <1>b, QueueUnchanged DEF InsertFails, Move, Answer, slotVars
<1>10. CASE EnterGate(r)
  BY <1>10, <1>a, <1>b, QueueUnchanged DEF EnterGate, Move, Close, Answer, slotVars
<1>11. CASE RowsDeleted(r)
  BY <1>11, <1>a, <1>b, QueueUnchanged DEF RowsDeleted, Move, Close, Answer, slotVars
<1>12. CASE DeleteFails(r)
  BY <1>12, <1>a, <1>b, QueueUnchanged DEF DeleteFails, Move, Answer, slotVars
<1>13. CASE AskSlot(r)
  <2>1. CASE r \in late
    <3>1. GoRecord(r, "reading", "timeout") /\ UNCHANGED slotVars /\ UNCHANGED worker
      BY <1>13, <2>1 DEF AskSlot
    <3>2. QED
      BY <3>1, <1>a, <1>b, QueueUnchanged DEF GoRecord, Move, slotVars
  <2>2. CASE r \notin late
    <3>1. /\ Move(r, "reading", "waiting")
          /\ ProcessSlots!Arrive(r)
          /\ UNCHANGED <<leaked, worker>>
      BY <1>13, <2>2 DEF AskSlot
    <3>2. /\ QueueInv'
          /\ owners \subseteq owners'
          /\ owners' \cup InLine' = owners \cup InLine \cup {r}
          /\ r \notin owners \cup InLine
      BY <3>1, ArriveStep
    <3>3. InLine' \cap owners' = {}
      BY <3>2 DEF QueueInv
    <3>4. \A q \in InLine' : q \in InLine \/ q = r
      BY <3>2, <3>3
    <3>5. \A q \in owners' : q \in owners \/ q = r \/ q \in InLine
      BY <3>2
    <3>6. QED
      BY <3>1, <3>2, <3>4, <3>5, <1>a, <1>b DEF Move
  <2>3. QED
    BY <2>1, <2>2
<1>14. CASE WaitTimesOut(r)
  <2>1. CASE r \in owners
    <3>1. /\ stage[r] = "waiting"
          /\ stage' = [stage EXCEPT ![r] = "recording"]
          /\ r \in owners
          /\ ProcessSlots!Depart(r)
          /\ UNCHANGED <<leaked, worker>>
      BY <1>14, <2>1 DEF WaitTimesOut, GoRecord, Move
    <3>2. /\ QueueInv'
          /\ owners \ {r} \subseteq owners'
          /\ owners' \cup InLine' = (owners \cup InLine) \ {r}
      BY <3>1, DepartStep
    <3>3. /\ \A q \in InLine' : q \in InLine /\ q # r
          /\ \A q \in owners' : q # r /\ (q \in owners \/ q \in InLine)
      BY <3>2 DEF QueueInv
    <3>4. worker[r] = "none"
      BY <3>1
    <3>5. QED
      BY <3>1, <3>2, <3>3, <3>4, <1>a, <1>b
  <2>2. CASE r \notin owners
    <3>1. /\ stage[r] = "waiting"
          /\ stage' = [stage EXCEPT ![r] = "recording"]
          /\ ProcessSlots!GiveUp(r)
          /\ UNCHANGED <<leaked, worker>>
      BY <1>14, <2>2 DEF WaitTimesOut, GoRecord, Move
    <3>2. /\ QueueInv'
          /\ owners' = owners
          /\ InLine' = InLine \ {r}
      BY <3>1, GiveUpStep
    <3>3. QED
      BY <3>1, <3>2, <2>2, <1>a, <1>b
  <2>3. QED
    BY <2>1, <2>2
<1>15. CASE PipeFails(r)
  <2>1. /\ stage[r] = "waiting"
        /\ stage' = [stage EXCEPT ![r] = "recording"]
        /\ r \in owners
        /\ ProcessSlots!Depart(r)
        /\ UNCHANGED <<leaked, worker>>
    BY <1>15 DEF PipeFails, GoRecord, Move
  <2>2. /\ QueueInv'
        /\ owners \ {r} \subseteq owners'
        /\ owners' \cup InLine' = (owners \cup InLine) \ {r}
    BY <2>1, DepartStep
  <2>3. /\ \A q \in InLine' : q \in InLine /\ q # r
        /\ \A q \in owners' : q # r /\ (q \in owners \/ q \in InLine)
    BY <2>2 DEF QueueInv
  <2>4. worker[r] = "none"
    BY <2>1
  <2>5. QED
    BY <2>1, <2>2, <2>3, <2>4, <1>a, <1>b
<1>16. CASE StartWorker(r)
  <2>1. /\ r \in owners
        /\ stage[r] = "waiting"
        /\ UNCHANGED <<owners, line, leaked>>
    BY <1>16 DEF StartWorker, CleanUp, Move, slotVars
  <2>2. PICK to \in {"joining", "receiving"}, process \in {"alive", "told"} :
          /\ stage' = [stage EXCEPT ![r] = to]
          /\ worker' = [worker EXCEPT ![r] = process]
    BY <1>16 DEF StartWorker, CleanUp, Move, Terminated
  <2>3. r \notin InLine
    BY <2>1 DEF QueueInv
  <2>4. QED
    BY <2>1, <2>2, <2>3, <1>a, <1>b, QueueUnchanged
<1>17. CASE StartFails(r)
  <2>1. /\ r \in owners
        /\ stage[r] = "waiting"
        /\ stage' = [stage EXCEPT ![r] = "joining"]
        /\ worker' = [worker EXCEPT ![r] = "unstarted"]
        /\ UNCHANGED <<owners, line, leaked>>
    BY <1>17 DEF StartFails, CleanUp, Move, Terminated, slotVars
  <2>2. r \notin InLine
    BY <2>1 DEF QueueInv
  <2>3. QED
    BY <2>1, <2>2, <1>a, <1>b, QueueUnchanged
<1>18. CASE WorkerAnswers(r)
  BY <1>18, <1>a, <1>b, QueueUnchanged DEF WorkerAnswers, slotVars
<1>19. CASE WorkerExits(r)
  BY <1>19, <1>a, <1>b, QueueUnchanged DEF WorkerExits, slotVars
<1>20. CASE DeadlinePasses(r)
  BY <1>20, <1>a, <1>b, QueueUnchanged DEF DeadlinePasses, slotVars
<1>21. CASE ReceiveEnds(r)
  BY <1>21, <1>a, <1>b, QueueUnchanged DEF ReceiveEnds, CleanUp, Move, Terminated, slotVars
<1>22. CASE ReceiveTimesOut(r)
  BY <1>22, <1>a, <1>b, QueueUnchanged DEF ReceiveTimesOut, CleanUp, Move, Terminated, slotVars
<1>23. CASE AbandonedReceiveEnds(r)
  BY <1>23, <1>a, <1>b, QueueUnchanged DEF AbandonedReceiveEnds, slotVars
<1>24. CASE JoinEnds(r)
  <2>1. CASE CleanedUp(r, "joining") /\ UNCHANGED worker
    <3>1. /\ stage[r] = "joining"
          /\ stage' = [stage EXCEPT ![r] = "recording"]
          /\ r \in owners
          /\ ProcessSlots!Depart(r)
          /\ UNCHANGED <<leaked, worker>>
      BY <2>1 DEF CleanedUp, GoRecord, Move
    <3>2. /\ QueueInv'
          /\ owners \ {r} \subseteq owners'
          /\ owners' \cup InLine' = (owners \cup InLine) \ {r}
      BY <3>1, DepartStep
    <3>3. /\ \A q \in InLine' : q \in InLine /\ q # r
          /\ \A q \in owners' : q # r /\ (q \in owners \/ q \in InLine)
      BY <3>2 DEF QueueInv
    <3>4. worker[r] = "dead"
      BY <2>1 DEF CleanedUp
    <3>5. QED
      BY <3>1, <3>2, <3>3, <3>4, <1>a, <1>b
  <2>2. CASE CleanUpFails(r, "joining") /\ UNCHANGED worker
    <3>1. /\ stage[r] = "joining"
          /\ stage' = [stage EXCEPT ![r] = "recording"]
          /\ leaked' = leaked \cup {r}
          /\ UNCHANGED <<owners, line, worker>>
      BY <2>2 DEF CleanUpFails, GoRecord, Move
    <3>2. QueueInv' /\ InLine' = InLine
      BY <3>1, QueueUnchanged
    <3>3. QED
      BY <3>1, <3>2, <1>a, <1>b
  <2>3. CASE /\ Move(r, "joining", "rejoining")
             /\ worker' = [worker EXCEPT ![r] = "told"]
             /\ UNCHANGED slotVars
    BY <2>3, <1>a, <1>b, QueueUnchanged DEF Move, slotVars
  <2>4. QED
    BY <1>24, <2>1, <2>2, <2>3 DEF JoinEnds
<1>25. CASE RejoinEnds(r)
  <2>1. CASE CleanedUp(r, "rejoining") /\ UNCHANGED worker
    <3>1. /\ stage[r] = "rejoining"
          /\ stage' = [stage EXCEPT ![r] = "recording"]
          /\ r \in owners
          /\ ProcessSlots!Depart(r)
          /\ UNCHANGED <<leaked, worker>>
      BY <2>1 DEF CleanedUp, GoRecord, Move
    <3>2. /\ QueueInv'
          /\ owners \ {r} \subseteq owners'
          /\ owners' \cup InLine' = (owners \cup InLine) \ {r}
      BY <3>1, DepartStep
    <3>3. /\ \A q \in InLine' : q \in InLine /\ q # r
          /\ \A q \in owners' : q # r /\ (q \in owners \/ q \in InLine)
      BY <3>2 DEF QueueInv
    <3>4. worker[r] = "dead"
      BY <2>1 DEF CleanedUp
    <3>5. QED
      BY <3>1, <3>2, <3>3, <3>4, <1>a, <1>b
  <2>2. CASE CleanUpFails(r, "rejoining") /\ UNCHANGED worker
    <3>1. /\ stage[r] = "rejoining"
          /\ stage' = [stage EXCEPT ![r] = "recording"]
          /\ leaked' = leaked \cup {r}
          /\ UNCHANGED <<owners, line, worker>>
      BY <2>2 DEF CleanUpFails, GoRecord, Move
    <3>2. QueueInv' /\ InLine' = InLine
      BY <3>1, QueueUnchanged
    <3>3. QED
      BY <3>1, <3>2, <1>a, <1>b
  <2>3. QED
    BY <1>25, <2>1, <2>2 DEF RejoinEnds
<1>26. QED
  BY <1>1, <1>2, <1>3, <1>4, <1>5, <1>6, <1>7, <1>8, <1>9, <1>10, <1>11, <1>12, <1>13, <1>14, <1>15, <1>16, <1>17, <1>18, <1>19, <1>20, <1>21, <1>22, <1>23, <1>24, <1>25 DEF RunNext, MarketNext

-----------------------------------------------------------------------------
(* The inductive invariant. *)

Inv ==
    /\ PoolTyped
    /\ RunsTyped
    /\ QueueInv
    /\ StageInv
    /\ RecordInv
    /\ GateInv

LEMMA Initially == Init => Inv /\ HistoryInv
<1> SUFFICES ASSUME Init PROVE Inv /\ HistoryInv
  OBVIOUS
<1> USE DEF Init
<1>1. PoolTyped
  BY DEF PoolInit, PoolTyped
<1>2. RunsTyped
  <2>1. clock \in Nat
    BY DomainAssumption
  <2>2. QED
    BY <2>1 DEF RunsTyped, Stages, Statuses, Pending, Unlocked
<1>3. owners = {} /\ line = <<>> /\ InLine = {}
  BY EmptySeq DEF ProcessSlots!QueueInit, InLine
<1>4. QueueInv
  BY <1>3, FS_EmptySet, DomainAssumption DEF QueueInv, QueueTyped
<1>5. StageInv
  BY <1>3 DEF StageInv, SlotsExplained
<1>6. RecordInv
  BY DEF RecordInv
<1>7. GateInv
  BY DomainAssumption DEF GateInv, Unlocked
<1>8. HistoryInv
  BY EmptySeq DEF HistoryInv, LatestPurge, PurgesSpaced
<1>9. QED
  BY <1>1, <1>2, <1>4, <1>5, <1>6, <1>7, <1>8 DEF Inv

LEMMA Inductive == Inv /\ [Next]_vars => Inv'
<1> SUFFICES ASSUME Inv, [Next]_vars PROVE Inv'
  OBVIOUS
<1> USE DEF Inv
<1>1. ASSUME NEW r \in Runs, RunNext(r) \/ MarketNext(r) PROVE Inv'
  <2>1. stage[r] = "purging" => gate # Unlocked
    BY DEF GateInv
  <2>2. PoolTyped'
    BY <1>1, PoolActions
  <2>3. RunsTyped'
    BY <1>1, <2>1, RunsActions
  <2>4. QueueInv' /\ StageInv'
    BY <1>1, SlotActions
  <2>5. RecordInv' /\ GateInv'
    BY <1>1, RecordActions, GateActions
  <2>6. QED
    BY <2>2, <2>3, <2>4, <2>5
<1>2. CASE PoolBegins
  <2>1. PoolTyped'
    BY <1>2, PoolStep, JobTyped DEF PoolBegins, BeginWork, PoolTyped
  <2>2. UNCHANGED <<runVars, slotVars, workerVars, purgeVars, late, clock>>
    BY <1>2 DEF PoolBegins
  <2>3. RunsTyped' /\ RecordInv' /\ GateInv'
    BY <2>2 DEF RunsTyped, RecordInv, GateInv, runVars, slotVars, workerVars, purgeVars
  <2>4. QueueInv' /\ StageInv'
    BY <2>2, QueueUnchanged DEF StageInv, SlotsExplained, runVars, slotVars, workerVars
  <2>5. QED
    BY <2>1, <2>3, <2>4
<1>3. CASE SlotServed
  <2>1. /\ ProcessSlots!ServeFirst
        /\ UNCHANGED <<poolVars, runVars, leaked, workerVars, purgeVars, late, clock>>
    BY <1>3 DEF SlotServed
  <2>2. PoolTyped' /\ RunsTyped' /\ RecordInv' /\ GateInv'
    BY <2>1 DEF PoolTyped, RunsTyped, RecordInv, GateInv, poolVars, runVars, workerVars,
                purgeVars
  <2>3. /\ QueueInv'
        /\ owners \subseteq owners'
        /\ owners' \cup InLine' = owners \cup InLine
    BY <2>1, ServeFirstStep
  <2>4. /\ \A q \in InLine' : q \in InLine
        /\ \A q \in owners' : q \in owners \/ q \in InLine
    BY <2>3 DEF QueueInv
  <2>5. StageInv'
    BY <2>1, <2>3, <2>4 DEF StageInv, SlotsExplained, runVars, workerVars
  <2>6. QED
    BY <2>2, <2>3, <2>5
<1>4. CASE Tick
  <2>1. /\ clock' = clock + 1
        /\ UNCHANGED <<poolVars, runVars, slotVars, workerVars, purgeVars, late>>
    BY <1>4 DEF Tick
  <2>2. PoolTyped' /\ RecordInv'
    BY <2>1 DEF PoolTyped, RecordInv, poolVars, runVars
  <2>3. clock' \in Nat
    BY <2>1 DEF RunsTyped
  <2>4. RunsTyped'
    BY <2>1, <2>3 DEF RunsTyped, runVars, slotVars, workerVars, purgeVars
  <2>5. GateInv'
    BY <2>1 DEF GateInv, RunsTyped, Unlocked, runVars, purgeVars
  <2>6. QueueInv' /\ StageInv'
    BY <2>1, QueueUnchanged DEF StageInv, SlotsExplained, runVars, slotVars, workerVars
  <2>7. QED
    BY <2>2, <2>4, <2>5, <2>6
<1>5. CASE UNCHANGED vars
  <2>1. PoolTyped' /\ RunsTyped' /\ RecordInv' /\ GateInv'
    BY <1>5 DEF vars, PoolTyped, RunsTyped, RecordInv, GateInv, poolVars, runVars, slotVars,
                workerVars, purgeVars
  <2>2. QueueInv' /\ StageInv'
    BY <1>5, QueueUnchanged DEF vars, StageInv, SlotsExplained, runVars, slotVars, workerVars
  <2>3. QED
    BY <2>1, <2>2
<1>6. QED
  BY <1>1, <1>2, <1>3, <1>4, <1>5 DEF Next

LEMMA HistoryInductive == Inv /\ HistoryInv /\ [Next]_vars => HistoryInv'
<1> SUFFICES ASSUME Inv, HistoryInv, [Next]_vars PROVE HistoryInv'
  OBVIOUS
<1>1. ASSUME NEW r \in Runs, RunNext(r) \/ MarketNext(r) PROVE HistoryInv'
  BY <1>1, HistoryActions DEF Inv
<1>2. CASE UNCHANGED <<lastPurge, purges>>
  BY <1>2 DEF HistoryInv, LatestPurge, PurgesSpaced
<1>3. PoolBegins \/ SlotServed \/ Tick \/ UNCHANGED vars => UNCHANGED <<lastPurge, purges>>
  BY DEF PoolBegins, SlotServed, Tick, vars, purgeVars
<1>4. QED
  BY <1>1, <1>2, <1>3 DEF Next

LEMMA Invariance == Spec => [](Inv /\ HistoryInv)
<1>1. QED
  BY Initially, Inductive, HistoryInductive, PTL DEF Spec

-----------------------------------------------------------------------------
(* Every state of the domain runs has the types of TypeOK. *)
THEOREM TypeCorrect == Spec => []TypeOK
<1>1. Inv => TypeOK
  BY TypeParts DEF Inv, QueueInv
<1>2. QED
  BY <1>1, Invariance, PTL

(* Every slot of _market_process_slots is held by a run that is still inside
   _run_in_killable_process(), or was lost by a clean-up that failed. *)
THEOREM SlotsAreExplained == Spec => []SlotsExplained
<1>1. Inv => SlotsExplained
  BY DEF Inv, StageInv
<1>2. QED
  BY <1>1, Invariance, PTL

(* A gateway never has more market processes than MARKET_PROCESS_CAPACITY,
   those included that were told to go and have not gone. *)
THEOREM ProcessesAreBounded == Spec => []ProcessesBounded
<1>1. ASSUME Inv PROVE ProcessesBounded
  <2>1. Processes \subseteq owners
    BY <1>1 DEF Processes, Inv, StageInv
  <2>2. /\ IsFiniteSet(owners)
        /\ Cardinality(owners) <= MarketSlots
        /\ Cardinality(owners) \in Nat
    BY <1>1, FS_CardinalityType DEF Inv, QueueInv
  <2>3. /\ IsFiniteSet(Processes)
        /\ Cardinality(Processes) <= Cardinality(owners)
    BY <2>1, <2>2, FS_Subset
  <2>4. QED
    BY <2>2, <2>3, FS_CardinalityType, DomainAssumption DEF ProcessesBounded
<1>2. QED
  BY <1>1, Invariance, PTL

(* Whoever is told anything but an error is told what the audit row says. *)
THEOREM AuditIsTruthful == Spec => []AuditTruthful
<1>1. Inv => AuditTruthful
  BY DEF Inv, RecordInv, AuditTruthful
<1>2. QED
  BY <1>1, Invariance, PTL

(* However many runs find the purge due at once, two purges are an interval
   apart: _domain_audit_purge_lock and the second look under it see to that. *)
THEOREM PurgesAreSpaced == Spec => []PurgesSpaced
<1>1. HistoryInv => PurgesSpaced
  BY DEF HistoryInv
<1>2. QED
  BY <1>1, Invariance, PTL

(* A run that answers with what it recorded leaves no purge overdue. *)
THEOREM PurgeIsNotOverdue == Spec => []PurgeNotOverdue
<1>1. Inv /\ HistoryInv => PurgeNotOverdue
  BY DEF Inv, GateInv, HistoryInv, PurgeNotOverdue
<1>2. QED
  BY <1>1, Invariance, PTL
=============================================================================

---------------------- MODULE ContractComparisonProofs ----------------------
(***************************************************************************)
(* Proofs about the pairing of clauses in module ContractComparison, for   *)
(* documents, taxonomies, caps and playbooks of any size.                  *)
(*                                                                         *)
(* That a clause is reported once rests on the order of the four steps and *)
(* on the test for what is still free; which of the candidates is the best *)
(* one plays no part.  That a clause finds its copy rests on the score: it *)
(* is a share of the words of two clauses, a quotient of sums, which count *)
(* the same units in whatever order they are taken.                        *)
(***************************************************************************)
EXTENDS ContractComparison, TLAPS, SequenceTheorems, FunctionTheorems,
        FiniteSetTheorems, WellFoundedInduction

-----------------------------------------------------------------------------
(* Numbers *)

LEMMA LeastNumber ==
    ASSUME NEW T \in SUBSET Nat, T # {}
    PROVE  \E m \in T : \A k \in T : m <= k
<1>1. PICK m \in T : \A y \in T : ~ (<<y, m>> \in OpToRel(<, Nat))
  BY NatLessThanWellFounded, WFMin
<1>2. m \in Nat /\ \A y \in T : y \in Nat
  OBVIOUS
<1>3. \A y \in T : ~(y < m)
  BY <1>1, <1>2 DEF OpToRel
<1>4. \A y \in T : m <= y
  BY <1>2, <1>3
<1>5. QED
  BY <1>4

\* A finite set of numbers has a greatest one: there is no least k such that no
\* member is as great as the first k of them.
LEMMA GreatestOf ==
    ASSUME NEW S, IsFiniteSet(S), S # {}, \A x \in S : x \in Int
    PROVE  \E m \in S : \A y \in S : y <= m
<1>1. PICK n \in Nat : ExistsBijection(1..n, S)
  BY FS_NatBijection
<1>2. PICK f \in Bijection(1..n, S) : TRUE
  BY <1>1 DEF ExistsBijection
<1>3. f \in [1..n -> S] /\ \A y \in S : \E k \in 1..n : f[k] = y
  BY <1>2 DEF Bijection, Injection, Surjection
<1> DEFINE Above(k) == \E x \in S : \A i \in 1..k : f[i] <= x
           Bad == {k \in 0..n : ~Above(k)}
<1>4. ASSUME Bad # {} PROVE FALSE
  <2>0. Bad \in SUBSET Nat
    OBVIOUS
  <2>1. PICK m \in Bad : \A k \in Bad : m <= k
    BY <1>4, <2>0, LeastNumber
  <2>2. m # 0
    <3>1. Above(0)
      BY <1>1
    <3>2. QED
      BY <2>1, <3>1
  <2>3. m - 1 \in 0..n /\ ~(m <= m - 1) /\ m \in 1..n
    BY <2>1, <2>2
  <2>4. PICK x \in S : \A i \in 1..(m-1) : f[i] <= x
    BY <2>1, <2>3
  <2>5. f[m] \in S /\ f[m] \in Int /\ x \in Int
    BY <1>3, <2>3
  <2>6. \A i \in 1..m : i = m \/ i \in 1..(m-1)
    BY <2>3
  <2>7. \A i \in 1..m : f[i] \in Int
    BY <1>3, <2>3
  <2>8. CASE f[m] <= x
    <3>1. \A i \in 1..m : f[i] <= x
      BY <2>4, <2>6, <2>8
    <3>2. QED
      BY <2>1, <3>1
  <2>9. CASE ~(f[m] <= x)
    <3>1. \A i \in 1..m : f[i] <= f[m]
      BY <2>4, <2>5, <2>6, <2>7, <2>9
    <3>2. QED
      BY <2>1, <2>5, <3>1
  <2>10. QED
    BY <2>8, <2>9
<1>5. n \in 0..n
  OBVIOUS
<1>6. PICK x \in S : \A i \in 1..n : f[i] <= x
  BY <1>4, <1>5
<1>7. \A y \in S : y <= x
  BY <1>3, <1>6
<1>8. QED
  BY <1>7

-----------------------------------------------------------------------------
(* Lists *)

\* What FlattenSeq() has put together of the first n lists.
Joined(seqs, T, n, f) ==
    /\ f \in [1..n -> Seq(T)]
    /\ \A i \in 1..n : f[i] = IF i = 1 THEN seqs[i] ELSE f[i-1] \o seqs[i]

LEMMA JoinedExists ==
    ASSUME NEW T, NEW seqs \in Seq(Seq(T)), NEW n \in 0..Len(seqs)
    PROVE  \E f : Joined(seqs, T, n, f)
<1> DEFINE Bad == {k \in 0..Len(seqs) : ~ \E f : Joined(seqs, T, k, f)}
<1>0. /\ Len(seqs) \in Nat
      /\ \A i \in 1..Len(seqs) : seqs[i] \in Seq(T)
  BY LenProperties, ElementOfSeq
<1>1. SUFFICES ASSUME Bad # {} PROVE FALSE
  OBVIOUS
<1>2. Bad \in SUBSET Nat
  BY <1>0
<1>3. PICK m \in Bad : \A k \in Bad : m <= k
  BY <1>1, <1>2, LeastNumber
<1>4. m \in Nat /\ m <= Len(seqs) /\ ~ \E f : Joined(seqs, T, m, f)
  BY <1>0, <1>3
<1>5. CASE m = 0
  <2>1. Joined(seqs, T, 0, [i \in 1..0 |-> <<>>])
    BY DEF Joined
  <2>2. QED
    BY <1>4, <1>5, <2>1
<1>6. CASE m # 0
  <2>1. m - 1 \in 0..Len(seqs) /\ ~(m <= m - 1) /\ m \in 1..Len(seqs)
    BY <1>0, <1>4, <1>6
  <2>2. m - 1 \notin Bad
    BY <1>3, <2>1
  <2>3. PICK f : Joined(seqs, T, m - 1, f)
    BY <2>1, <2>2
  <2> DEFINE last == IF m = 1 THEN seqs[m] ELSE f[m-1] \o seqs[m]
             g == [i \in 1..m |-> IF i = m THEN last ELSE f[i]]
  <2>4. last \in Seq(T)
    <3>1. CASE m = 1
      BY <1>0, <2>1, <3>1
    <3>2. CASE m # 1
      <4>1. m - 1 \in 1..(m-1)
        BY <1>4, <1>6, <3>2
      <4>2. f[m-1] \in Seq(T) /\ seqs[m] \in Seq(T)
        BY <1>0, <2>1, <2>3, <4>1 DEF Joined
      <4>3. QED
        BY <3>2, <4>2, ConcatProperties
    <3>3. QED
      BY <3>1, <3>2
  <2>5. \A i \in 1..m : i = m \/ i \in 1..(m-1)
    BY <1>4
  <2>6. g \in [1..m -> Seq(T)]
    BY <2>3, <2>4, <2>5 DEF Joined
  <2>7. \A i \in 1..m : g[i] = IF i = 1 THEN seqs[i] ELSE g[i-1] \o seqs[i]
    <3>1. ASSUME NEW i \in 1..m PROVE g[i] = IF i = 1 THEN seqs[i] ELSE g[i-1] \o seqs[i]
      <4>1. CASE i = 1
        <5>1. i = m \/ f[i] = seqs[i]
          BY <2>3, <2>5, <4>1 DEF Joined
        <5>2. QED
          BY <4>1, <5>1
      <4>2. CASE i # 1
        <5>1. i - 1 \in 1..m /\ i - 1 # m
          BY <1>4, <4>2
        <5>2. g[i-1] = f[i-1]
          BY <5>1
        <5>3. i = m \/ f[i] = f[i-1] \o seqs[i]
          BY <2>3, <2>5, <4>2 DEF Joined
        <5>4. QED
          BY <4>2, <5>2, <5>3
      <4>3. QED
        BY <4>1, <4>2
    <3>2. QED
      BY <3>1
  <2> HIDE DEF g
  <2>8. Joined(seqs, T, m, g)
    BY <2>6, <2>7 DEF Joined
  <2>9. QED
    BY <1>4, <2>8
<1>7. QED
  BY <1>5, <1>6

\* Lists of things of one kind make a list of things of that kind.
LEMMA FlattenedIsList ==
    ASSUME NEW T, NEW seqs \in Seq(Seq(T))
    PROVE  FlattenSeq(seqs) \in Seq(T)
<1>0. Len(seqs) \in Nat
  BY LenProperties
<1>1. CASE Len(seqs) = 0
  <2>1. seqs = << >>
    BY <1>1, EmptySeq
  <2>2. FlattenSeq(seqs) = seqs
    BY <1>1 DEF FlattenSeq
  <2>3. << >> \in Seq(T)
    BY EmptySeq
  <2>4. QED
    BY <2>1, <2>2, <2>3
<1>2. CASE Len(seqs) # 0
  <2> DEFINE F(f) == [i \in 1..Len(seqs) |->
                        IF i = 1 THEN seqs[i] ELSE f[i-1] \o seqs[i]]
             flat == CHOOSE f : f = F(f)
  <2>1. FlattenSeq(seqs) = flat[Len(seqs)]
    BY <1>2 DEF FlattenSeq
  <2>2. PICK f : Joined(seqs, T, Len(seqs), f)
    <3>1. Len(seqs) \in 0..Len(seqs)
      BY <1>0
    <3>2. QED
      BY <3>1, JoinedExists
  <2>3. f = F(f)
    BY <2>2 DEF Joined
  <2>4. flat = F(flat)
    BY <2>3
  <2> HIDE DEF flat
  <2>5. /\ flat \in [1..Len(seqs) -> {flat[i] : i \in 1..Len(seqs)}]
        /\ \A i \in 1..Len(seqs) :
              flat[i] = IF i = 1 THEN seqs[i] ELSE flat[i-1] \o seqs[i]
    BY <2>4
  <2> DEFINE Bad == {k \in 1..Len(seqs) : flat[k] \notin Seq(T)}
  <2>6. ASSUME Bad # {} PROVE FALSE
    <3>1. Bad \in SUBSET Nat
      BY <1>0
    <3>2. PICK m \in Bad : \A k \in Bad : m <= k
      BY <2>6, <3>1, LeastNumber
    <3>3. m \in 1..Len(seqs) /\ flat[m] \notin Seq(T)
      BY <3>2
    <3>4. seqs[m] \in Seq(T)
      BY <3>3, ElementOfSeq
    <3>5. m # 1
      BY <2>5, <3>3, <3>4
    <3>6. m - 1 \in 1..Len(seqs) /\ ~(m <= m - 1)
      BY <1>0, <3>3, <3>5
    <3>7. flat[m-1] \in Seq(T)
      BY <3>2, <3>6
    <3>8. flat[m] = flat[m-1] \o seqs[m]
      BY <2>5, <3>3, <3>5
    <3>9. QED
      BY <3>3, <3>4, <3>7, <3>8, ConcatProperties
  <2>7. Len(seqs) \in 1..Len(seqs)
    BY <1>0, <1>2
  <2>8. QED
    BY <2>1, <2>6, <2>7
<1>3. QED
  BY <1>1, <1>2

\* Whatever is in it was in one of them.
LEMMA FlattenedParts ==
    ASSUME NEW seqs, IsList(seqs), \A i \in DOMAIN seqs : IsList(seqs[i])
    PROVE  /\ IsList(FlattenSeq(seqs))
           /\ \A x \in ToSet(FlattenSeq(seqs)) :
                 \E i \in DOMAIN seqs : x \in ToSet(seqs[i])
<1> DEFINE T == UNION {ToSet(seqs[i]) : i \in DOMAIN seqs}
           flat == FlattenSeq(seqs)
<1>1. /\ Len(seqs) \in Nat
      /\ DOMAIN seqs = 1..Len(seqs)
      /\ seqs \in [1..Len(seqs) -> ToSet(seqs)]
  BY LenProperties DEF IsList
<1>2. \A i \in DOMAIN seqs : seqs[i] \in Seq(T)
  <2>1. ASSUME NEW i \in DOMAIN seqs PROVE seqs[i] \in Seq(T)
    <3>1. ToSet(seqs[i]) \subseteq T
      OBVIOUS
    <3>2. seqs[i] \in Seq(ToSet(seqs[i]))
      BY DEF IsList
    <3>3. QED
      BY <3>1, <3>2, SeqDef
  <2>2. QED
    BY <2>1
<1>3. seqs \in Seq(Seq(T))
  BY <1>1, <1>2, SeqDef
<1>4. flat \in Seq(T)
  BY <1>3, FlattenedIsList
<1> HIDE DEF flat, T
<1>5. /\ Len(flat) \in Nat
      /\ flat \in [1..Len(flat) -> T]
      /\ DOMAIN flat = 1..Len(flat)
  BY <1>4, LenProperties
<1>6. flat \in [1..Len(flat) -> ToSet(flat)]
  BY <1>5 DEF ToSet
<1>7. IsList(flat)
  BY <1>5, <1>6, SeqDef DEF IsList
<1>8. ToSet(flat) \subseteq T
  BY <1>5 DEF ToSet
<1>9. QED
  BY <1>7, <1>8 DEF flat, T

\* A list of what is made of each member of a list, or of an interval.
LEMMA ListOfInterval ==
    ASSUME NEW n \in Nat, NEW f, NEW T, f \in [1..n -> T]
    PROVE  IsList(f) /\ Len(f) = n /\ DOMAIN f = 1..n
<1>1. f \in [1..n -> ToSet(f)]
  BY DEF ToSet
<1>2. f \in Seq(ToSet(f))
  BY <1>1, SeqDef
<1>3. QED
  BY <1>1, <1>2, LenProperties DEF IsList

LEMMA ListDomain ==
    ASSUME NEW s, IsList(s)
    PROVE  /\ Len(s) \in Nat
           /\ DOMAIN s = 1..Len(s)
           /\ s \in [1..Len(s) -> ToSet(s)]
BY LenProperties DEF IsList

\* The list that is cut off, what is left of it, and what is left out.
LEMMA CutOff ==
    ASSUME NEW s, IsList(s), NEW limit \in Nat
    PROVE  /\ ToSet(AtMost(s, limit)) \subseteq ToSet(s)
           /\ Len(AtMost(s, limit)) <= Len(s)
           /\ Len(AtMost(s, limit)) \in Nat
           /\ Len(AtMost(s, limit)) <= limit
           /\ IsList(AtMost(s, limit))
           /\ Len(s) = Len(AtMost(s, limit)) => AtMost(s, limit) = s
           /\ Len(s) # Len(AtMost(s, limit)) => Len(s) > limit
<1> DEFINE n == IF Len(s) < limit THEN Len(s) ELSE limit
<1>1. /\ Len(s) \in Nat
      /\ s \in Seq(ToSet(s))
      /\ DOMAIN s = 1..Len(s)
      /\ s \in [1..Len(s) -> ToSet(s)]
  BY ListDomain DEF IsList
<1>2. n \in Nat /\ n <= Len(s)
  BY <1>1
<1>3. AtMost(s, limit) = SubSeq(s, 1, n)
  BY DEF AtMost
<1>4. /\ SubSeq(s, 1, n) \in Seq(ToSet(s))
      /\ Len(SubSeq(s, 1, n)) = n
      /\ \A i \in 1..n : SubSeq(s, 1, n)[i] = s[i]
  <2> HIDE DEF n
  <2>1. \A i \in 1..n : i \in 1..Len(s) /\ s[i] \in ToSet(s)
    BY <1>1, <1>2
  <2>2. /\ SubSeq(s, 1, n) \in Seq(ToSet(s))
        /\ Len(SubSeq(s, 1, n)) = IF 1 <= n THEN n - 1 + 1 ELSE 0
        /\ \A i \in 1 .. n - 1 + 1 : SubSeq(s, 1, n)[i] = s[1 + i - 1]
    BY <1>2, <2>1, SubSeqProperties
  <2>3. (IF 1 <= n THEN n - 1 + 1 ELSE 0) = n /\ n - 1 + 1 = n
    BY <1>2
  <2>4. \A i \in 1..n : 1 + i - 1 = i
    BY <1>2
  <2>5. QED
    BY <2>2, <2>3, <2>4
<1> HIDE DEF n
<1>5. ToSet(SubSeq(s, 1, n)) \subseteq ToSet(s)
  BY <1>4, ElementOfSeq DEF ToSet
<1>6. n = Len(s) => SubSeq(s, 1, n) = s
  BY <1>1, <1>4, SeqEqual
<1>7. n # Len(s) => Len(s) > limit
  <2>1. PICK l \in Nat : l = Len(s)
    BY <1>1
  <2>2. n = IF l < limit THEN l ELSE limit
    BY <2>1 DEF n
  <2>3. n # l => l > limit
    BY <2>2
  <2>4. QED
    BY <2>1, <2>3
<1>8. n <= limit
  BY <1>1 DEF n
<1>9. IsList(SubSeq(s, 1, n))
  <2>1. PICK t : t = SubSeq(s, 1, n)
    OBVIOUS
  <2>2. t \in [1..n -> ToSet(t)]
    BY <1>2, <1>4, <2>1, LenProperties DEF ToSet
  <2>3. IsList(t)
    BY <1>2, <2>2, ListOfInterval
  <2>4. QED
    BY <2>1, <2>3
<1>10. QED
  BY <1>2, <1>3, <1>4, <1>5, <1>6, <1>7, <1>8, <1>9

\* What is made of each member of a list is a list.
LEMMA MadeOfList ==
    ASSUME NEW s, IsList(s), NEW f, f = [i \in DOMAIN s |-> f[i]]
    PROVE  IsList(f) /\ DOMAIN f = DOMAIN s
<1>1. Len(s) \in Nat /\ DOMAIN s = 1..Len(s)
  BY ListDomain
<1>2. f \in [1..Len(s) -> {f[i] : i \in 1..Len(s)}]
  BY <1>1
<1>3. QED
  BY <1>1, <1>2, ListOfInterval

-----------------------------------------------------------------------------
(* Finite sets *)

LEMMA FiniteImage ==
    ASSUME NEW S, IsFiniteSet(S), NEW f, DOMAIN f = S
    PROVE  IsFiniteSet({f[x] : x \in S})
<1> DEFINE T == {f[x] : x \in S}
           g == [x \in S |-> f[x]]
<1>1. g \in Surjection(S, T)
  BY DEF Surjection
<1>2. QED
  BY <1>1, FS_Surjection

\* Two members of a set that does not differ are the same.
LEMMA NoDifference ==
    ASSUME NEW S, IsFiniteSet(S), ~(Cardinality(S) > 1), NEW x \in S, NEW y \in S
    PROVE  x = y
<1>1. Cardinality(S) \in Nat /\ Cardinality(S) # 0
  BY FS_CardinalityType, FS_EmptySet
<1>2. Cardinality(S) = 1
  BY <1>1
<1>3. PICK z : S = {z}
  BY <1>2, FS_Singleton
<1>4. QED
  BY <1>3

\* A strict order, by which any two members of S can be told apart.
StrictOrder(R, S) ==
    /\ \A x \in S : <<x, x>> \notin R
    /\ \A x, y, z \in S : <<x, y>> \in R /\ <<y, z>> \in R => <<x, z>> \in R
    /\ \A x, y \in S : x # y => <<x, y>> \in R \/ <<y, x>> \in R

\* The numbers from 0, one for each member of S.
Ranking(rank, S) ==
    /\ \A x \in S : rank[x] \in 0..(Cardinality(S) - 1)
    /\ \A x, y \in S : rank[x] = rank[y] => x = y
    /\ \A k \in 1..Cardinality(S) : \E x \in S : rank[x] = k - 1

\* The members of S, one at each place.
Lists(places, S) ==
    /\ DOMAIN places = 1..Cardinality(S)
    /\ \A k \in DOMAIN places : places[k] \in S
    /\ \A x \in S : \E k \in DOMAIN places : places[k] = x
    /\ \A j, k \in DOMAIN places : places[j] = places[k] => j = k

PlacedBy(rank, places, S) ==
    /\ DOMAIN places = 1..Cardinality(S)
    /\ \A k \in 1..Cardinality(S) : places[k] \in S /\ rank[places[k]] = k - 1

\* How many are before a member of a finite set is its rank.
LEMMA Ranks ==
    ASSUME NEW S, IsFiniteSet(S), NEW R, StrictOrder(R, S), NEW rank,
           \A x \in S : rank[x] = Cardinality({y \in S : <<y, x>> \in R})
    PROVE  Ranking(rank, S)
<1> DEFINE m == Cardinality(S)
           below(x) == {y \in S : <<y, x>> \in R}
           place == [x \in S |-> Cardinality(below(x)) + 1]
<1>0. /\ \A x \in S : <<x, x>> \notin R
      /\ \A x, y, z \in S : <<x, y>> \in R /\ <<y, z>> \in R => <<x, z>> \in R
      /\ \A x, y \in S : x # y => <<x, y>> \in R \/ <<y, x>> \in R
  BY DEF StrictOrder
<1>1. m \in Nat
  BY FS_CardinalityType
<1>2. ASSUME NEW x \in S
      PROVE  IsFiniteSet(below(x)) /\ Cardinality(below(x)) \in Nat
             /\ Cardinality(below(x)) < m
  <2>1. below(x) \in SUBSET S /\ x \notin below(x)
    BY <1>0
  <2> HIDE DEF below
  <2>2. IsFiniteSet(below(x)) /\ Cardinality(below(x)) <= m
        /\ (m = Cardinality(below(x)) => S = below(x))
    BY <2>1, FS_Subset
  <2>3. Cardinality(below(x)) \in Nat
    BY <2>2, FS_CardinalityType
  <2>4. Cardinality(below(x)) # m
    BY <1>2, <2>1, <2>2
  <2>5. QED
    BY <1>1, <2>2, <2>3, <2>4
<1>3. ASSUME NEW x \in S, NEW y \in S, <<x, y>> \in R
      PROVE  Cardinality(below(x)) # Cardinality(below(y))
  <2>1. below(x) \in SUBSET below(y) /\ x \in below(y) /\ x \notin below(x)
    BY <1>0, <1>3
  <2>2. below(x) # below(y)
    BY <2>1
  <2>3. IsFiniteSet(below(y))
    BY <1>2
  <2> HIDE DEF below
  <2>4. QED
    BY <2>1, <2>2, <2>3, FS_Subset
<1>4. ASSUME NEW x \in S, NEW y \in S, x # y
      PROVE  Cardinality(below(x)) # Cardinality(below(y))
  <2>1. <<x, y>> \in R \/ <<y, x>> \in R
    BY <1>0, <1>4
  <2> HIDE DEF below
  <2>2. QED
    BY <1>3, <2>1
<1> HIDE DEF below, m
<1>5. place \in [S -> 1..m]
  <2>1. \A x \in S : Cardinality(below(x)) + 1 \in 1..m
    BY <1>1, <1>2
  <2>2. QED
    BY <2>1
<1>6. \A x, y \in S : place[x] = place[y] => x = y
  BY <1>2, <1>4
<1>7. place \in Injection(S, 1..m)
  <2> HIDE DEF place
  <2>1. QED
    BY <1>5, <1>6 DEF Injection, IsInjective
<1>8. IsFiniteSet(1..m) /\ Cardinality(1..m) = m
  <2>1. IsFiniteSet(1..m) /\ Cardinality(1..m) = IF 1 > m THEN 0 ELSE m - 1 + 1
    BY <1>1, FS_Interval
  <2>2. (IF 1 > m THEN 0 ELSE m - 1 + 1) = m
    BY <1>1
  <2>3. QED
    BY <2>1, <2>2
<1>9. place \in Surjection(S, 1..m)
  BY <1>7, <1>8, FS_Injection DEF m
<1>10. ASSUME NEW k \in 1..m PROVE \E x \in S : Cardinality(below(x)) = k - 1
  <2>1. PICK x \in S : place[x] = k
    BY <1>9 DEF Surjection
  <2>2. Cardinality(below(x)) + 1 = k
    BY <2>1
  <2>3. Cardinality(below(x)) = k - 1
    BY <1>1, <1>2, <2>2
  <2>4. QED
    BY <2>3
<1>11. \A x \in S : Cardinality(below(x)) \in 0..(m - 1)
  BY <1>1, <1>2
<1>12. \A x \in S : rank[x] = Cardinality(below(x))
  BY DEF below
<1>13. QED
  BY <1>1, <1>4, <1>10, <1>11, <1>12 DEF Ranking, m

\* A finite set in the order of its ranks has each member at one place.
LEMMA ByRank ==
    ASSUME NEW S, IsFiniteSet(S), NEW rank, Ranking(rank, S),
           NEW places, PlacedBy(rank, places, S)
    PROVE  Lists(places, S)
<1> DEFINE m == Cardinality(S)
<1>0. /\ m \in Nat
      /\ DOMAIN places = 1..m
      /\ \A k \in 1..m : places[k] \in S /\ rank[places[k]] = k - 1
  BY FS_CardinalityType DEF PlacedBy
<1>1. ASSUME NEW x \in S PROVE \E k \in 1..m : places[k] = x
  <2>1. rank[x] \in 0..(m - 1)
    BY DEF Ranking
  <2>2. PICK k \in 1..m : k = rank[x] + 1
    BY <1>0, <2>1
  <2>3. rank[x] = k - 1
    BY <1>0, <2>1, <2>2
  <2>4. places[k] \in S /\ rank[places[k]] = rank[x]
    BY <1>0, <2>3
  <2>5. places[k] = x
    BY <2>4 DEF Ranking
  <2>6. QED
    BY <2>5
<1>2. ASSUME NEW j \in 1..m, NEW k \in 1..m, places[j] = places[k] PROVE j = k
  <2>1. j - 1 = k - 1
    BY <1>0, <1>2
  <2>2. QED
    BY <1>0, <2>1
<1>3. QED
  BY <1>0, <1>1, <1>2 DEF Lists

\* A finite set of numbers in order has each of them at one place.
LEMMA Ascending ==
    ASSUME NEW S, IsFiniteSet(S), S \subseteq Nat
    PROVE  Lists(InOrder(S, <), S)
<1> DEFINE m == Cardinality(S)
<1>1. PICK R : R = {p \in Nat \X Nat : p[1] < p[2]}
  OBVIOUS
<1>2. PICK rank : rank = [x \in S |-> Cardinality({y \in S : y < x})]
  OBVIOUS
<1>3. PICK places :
         places = [k \in 1..m |-> CHOOSE x \in S : Cardinality({y \in S : y < x}) = k - 1]
  OBVIOUS
<1>4. ASSUME NEW x \in S
      PROVE  rank[x] = Cardinality({y \in S : <<y, x>> \in R})
  <2>1. {y \in S : <<y, x>> \in R} = {y \in S : y < x}
    BY <1>1
  <2>2. QED
    BY <1>2, <2>1
<1>5. StrictOrder(R, S)
  BY <1>1 DEF StrictOrder
<1>6. Ranking(rank, S)
  BY <1>4, <1>5, Ranks
<1>7. ASSUME NEW k \in 1..m
      PROVE  places[k] \in S /\ rank[places[k]] = k - 1
  <2>1. \A x \in S : rank[x] = Cardinality({y \in S : y < x})
    BY <1>2
  <2>2. \E x \in S : rank[x] = k - 1
    BY <1>6 DEF Ranking
  <2>3. \E x \in S : Cardinality({y \in S : y < x}) = k - 1
    BY <2>1, <2>2
  <2>4. places[k] \in S /\ Cardinality({y \in S : y < places[k]}) = k - 1
    BY <1>3, <2>3
  <2>5. QED
    BY <2>1, <2>4
<1>8. DOMAIN places = 1..m
  BY <1>3
<1>9. Lists(places, S)
  <2>1. PlacedBy(rank, places, S)
    BY <1>7, <1>8 DEF PlacedBy
  <2>2. QED
    BY <1>6, <2>1, ByRank
<1>10. InOrder(S, <) = places
  BY <1>3 DEF InOrder
<1>11. QED
  BY <1>9, <1>10

\* Where a list has a member of S.
Within(list, S) == {n \in DOMAIN list : list[n] \in S}

\* The elements that are picked from a list are at places of their own.
LEMMA PickedOut ==
    ASSUME NEW list, IsList(list), NEW S
    PROVE  /\ IsFiniteSet(Within(list, S))
           /\ \E places :
                 /\ Lists(places, Within(list, S))
                 /\ Those(list, S) = [k \in DOMAIN places |-> list[places[k]]]
<1> DEFINE chosen == Within(list, S)
<1>1. Len(list) \in Nat /\ DOMAIN list = 1..Len(list)
  BY ListDomain
<1>2. IsFiniteSet(chosen) /\ chosen \subseteq Nat
  <2>1. chosen \in SUBSET (1..Len(list)) /\ \A n \in 1..Len(list) : n \in Nat
    BY <1>1 DEF Within
  <2>2. IsFiniteSet(1..Len(list))
    BY <1>1, FS_Interval
  <2> HIDE DEF chosen
  <2>3. QED
    BY <2>1, <2>2, FS_Subset
<1> DEFINE places == InOrder(chosen, <)
<1>3. Those(list, S) = [k \in DOMAIN places |-> list[places[k]]]
  BY DEF Those, Within
<1> HIDE DEF chosen
<1>4. Lists(places, chosen)
  BY <1>2, Ascending
<1> HIDE DEF places
<1>5. QED
  BY <1>2, <1>3, <1>4 DEF chosen

\* They are those of the list that are in S.
LEMMA PickedElements ==
    ASSUME NEW list, IsList(list), NEW S
    PROVE  /\ IsList(Those(list, S))
           /\ ToSet(Those(list, S)) = ToSet(list) \cap S
           /\ Distinct(list) => Distinct(Those(list, S))
<1>1. PICK chosen : chosen = Within(list, S)
  OBVIOUS
<1>2. PICK places : /\ Lists(places, chosen)
                    /\ Those(list, S) = [k \in DOMAIN places |-> list[places[k]]]
  BY <1>1, PickedOut
<1>3. PICK those : those = Those(list, S)
  OBVIOUS
<1>4. Cardinality(chosen) \in Nat
  BY <1>1, PickedOut, FS_CardinalityType
<1>5. /\ DOMAIN those = 1..Cardinality(chosen)
      /\ \A k \in DOMAIN those : /\ places[k] \in chosen
                                 /\ those[k] = list[places[k]]
      /\ \A n \in chosen : \E k \in DOMAIN those : places[k] = n
      /\ \A j, k \in DOMAIN those : places[j] = places[k] => j = k
  BY <1>2, <1>3 DEF Lists
<1>6. IsList(those)
  <2>1. those \in [1..Cardinality(chosen) -> ToSet(those)]
    BY <1>2, <1>3, <1>5 DEF ToSet
  <2>2. QED
    BY <1>4, <2>1, ListOfInterval
<1>7. ToSet(those) = ToSet(list) \cap S
  BY <1>1, <1>5 DEF ToSet, Within
<1>8. Distinct(list) => Distinct(those)
  BY <1>1, <1>5 DEF Distinct, Within
<1>9. QED
  BY <1>3, <1>6, <1>7, <1>8

-----------------------------------------------------------------------------
(* The segments of a text *)

LEMMA TextLines ==
    ASSUME NEW text, IsText(text)
    PROVE  /\ Len(text) \in Nat /\ Len(text) > 0
           /\ DOMAIN text = 1..Len(text)
           /\ Boundaries(text) \subseteq 1..Len(text)
           /\ 1 \in Boundaries(text)
           /\ IsFiniteSet(Boundaries(text))
           /\ DetectedSegmentCount(text) \in Nat
<1>1. Len(text) \in Nat /\ DOMAIN text = 1..Len(text) /\ text \in Seq(ToSet(text))
  BY ListDomain DEF IsText, IsList
<1>2. Len(text) # 0
  BY <1>1, EmptySeq DEF IsText
<1>3. Boundaries(text) \in SUBSET (1..Len(text)) /\ 1 \in Boundaries(text)
  BY <1>1, <1>2 DEF Boundaries
<1>4. IsFiniteSet(1..Len(text))
  BY <1>1, FS_Interval
<1>5. IsFiniteSet(Boundaries(text))
  BY <1>3, <1>4, FS_Subset
<1>6. QED
  BY <1>1, <1>2, <1>3, <1>5, FS_CardinalityType DEF DetectedSegmentCount

\* A segment ends before the next boundary, or with the text.
LEMMA SegmentEnd ==
    ASSUME NEW text, IsText(text), NEW b \in Boundaries(text)
    PROVE  /\ RawEnd(text, b) \in b..Len(text)
           /\ RawEnd(text, b) = Len(text) \/ RawEnd(text, b) + 1 \in Boundaries(text)
           /\ \A m \in (b + 1)..RawEnd(text, b) : m \notin Boundaries(text)
<1> DEFINE B == Boundaries(text)
           T == {n \in b..Len(text) : n = Len(text) \/ n + 1 \in B}
<1>1. Len(text) \in Nat /\ B \subseteq 1..Len(text)
  BY TextLines
<1> HIDE DEF B
<1>2. b \in B /\ b \in 1..Len(text)
  BY <1>1 DEF B
<1>3. Len(text) \in T /\ T \in SUBSET Nat
  BY <1>1, <1>2
<1>4. PICK n \in T : \A k \in T : n <= k
  BY <1>3, LeastNumber
<1>5. n \in b..Len(text) /\ (n = Len(text) \/ n + 1 \in B)
  BY <1>4
<1>6. ASSUME NEW m \in (b + 1)..n, m \in B PROVE FALSE
  <2>1. m - 1 \in b..Len(text) /\ (m - 1) + 1 = m /\ ~(n <= m - 1)
    BY <1>1, <1>2, <1>5, <1>6
  <2>2. m - 1 \in T
    BY <1>6, <2>1
  <2>3. QED
    BY <1>4, <2>1, <2>2
<1>7. \E k \in b..Len(text) :
         /\ k = Len(text) \/ k + 1 \in B
         /\ \A m \in (b + 1)..k : m \notin B
  BY <1>5, <1>6
<1>8. QED
  BY <1>7 DEF RawEnd, B

\* Every line is in the segment of one boundary, the last one up to it.
LEMMA LineHasSegment ==
    ASSUME NEW text, IsText(text), NEW n \in 1..Len(text)
    PROVE  \E b \in Boundaries(text) : n \in b..RawEnd(text, b)
<1> DEFINE S == {b \in Boundaries(text) : b <= n}
<1>1. /\ Len(text) \in Nat
      /\ Boundaries(text) \subseteq 1..Len(text)
      /\ 1 \in Boundaries(text)
      /\ IsFiniteSet(Boundaries(text))
  BY TextLines
<1>2. S \in SUBSET Boundaries(text) /\ 1 \in S /\ \A x \in S : x \in Int
  BY <1>1
<1>3. IsFiniteSet(S)
  BY <1>1, <1>2, FS_Subset
<1>4. \E b \in S : \A y \in S : y <= b
  BY <1>2, <1>3, GreatestOf
<1>5. PICK b \in S : \A y \in S : y <= b
  BY <1>4
<1>6. b \in Boundaries(text) /\ b <= n /\ b \in 1..Len(text)
  BY <1>1, <1>5
<1>7. /\ RawEnd(text, b) \in b..Len(text)
      /\ RawEnd(text, b) = Len(text) \/ RawEnd(text, b) + 1 \in Boundaries(text)
  BY <1>6, SegmentEnd
<1>8. ASSUME ~(n <= RawEnd(text, b)) PROVE FALSE
  <2> DEFINE e == RawEnd(text, b) + 1
  <2>1. e \in Boundaries(text)
    BY <1>1, <1>7, <1>8
  <2>2. e <= n /\ ~(e <= b)
    BY <1>1, <1>6, <1>7, <1>8
  <2>3. QED
    BY <1>5, <2>1, <2>2
<1>9. n \in b..RawEnd(text, b)
  BY <1>1, <1>6, <1>7, <1>8
<1>10. QED
  BY <1>6, <1>9

LEMMA LineHasOneSegment ==
    ASSUME NEW text, IsText(text), NEW n \in Int,
           NEW b \in Boundaries(text), n \in b..RawEnd(text, b),
           NEW c \in Boundaries(text), n \in c..RawEnd(text, c)
    PROVE  b = c
<1>1. b \in Int /\ c \in Int
  BY TextLines
<1>2. RawEnd(text, b) \in Int /\ RawEnd(text, c) \in Int
  <2>1. Len(text) \in Nat
    BY TextLines
  <2>2. QED
    BY <1>1, <2>1, SegmentEnd
<1>3. ~(c \in (b + 1)..RawEnd(text, b)) /\ ~(b \in (c + 1)..RawEnd(text, c))
  BY SegmentEnd
<1>4. QED
  BY <1>1, <1>2, <1>3

\* A segment that starts with a heading is not blank.
LEMMA HeadingIsWritten ==
    ASSUME NEW text, IsText(text), NEW b \in Boundaries(text), b # 1
    PROVE  Written(text, b) # {}
<1>1. b \in DOMAIN text /\ LooksLikeHeading(text[b])
  BY DEF Boundaries
<1>2. text[b].form # "blank"
  BY <1>1 DEF LooksLikeHeading
<1>3. b \in Int /\ Len(text) \in Nat
  BY TextLines
<1>4. b \in b..RawEnd(text, b)
  BY <1>3, SegmentEnd
<1>5. QED
  BY <1>2, <1>4 DEF Written

\* A clause is what is written in its segment: from the first line that is not
\* blank to the last.
LEMMA ClauseLines ==
    ASSUME NEW text, IsText(text), NEW b \in Boundaries(text), Written(text, b) # {}
    PROVE  LET clause == ClauseFrom(text, b)
           IN /\ clause.first \in b..RawEnd(text, b)
              /\ clause.last \in b..RawEnd(text, b)
              /\ \A n \in Written(text, b) : clause.first <= n /\ n <= clause.last
<1> DEFINE W == Written(text, b)
           first == CHOOSE n \in W : \A m \in W : n <= m
           last == CHOOSE n \in W : \A m \in W : m <= n
<1>1. ClauseFrom(text, b).first = first /\ ClauseFrom(text, b).last = last
  BY DEF ClauseFrom
<1>2. b \in 1..Len(text) /\ Len(text) \in Nat
  BY TextLines
<1>3. RawEnd(text, b) \in b..Len(text)
  BY SegmentEnd
<1>4. W \in SUBSET (b..RawEnd(text, b))
  BY DEF Written
<1> HIDE DEF W
<1>5. W \in SUBSET Nat
  BY <1>2, <1>3, <1>4
<1>6. W # {}
  BY DEF W
<1>7. \E n \in W : \A m \in W : n <= m
  BY <1>5, <1>6, LeastNumber
<1>8. IsFiniteSet(W)
  <2>1. IsFiniteSet(b..RawEnd(text, b))
    BY <1>2, <1>3, FS_Interval
  <2>2. QED
    BY <1>4, <2>1, FS_Subset
<1>9. \A x \in W : x \in Int
  BY <1>5
<1>10. \E n \in W : \A m \in W : m <= n
  BY <1>6, <1>8, <1>9, GreatestOf
<1>11. first \in W /\ \A m \in W : first <= m
  BY <1>7
<1>12. last \in W /\ \A m \in W : m <= last
  BY <1>10
<1> HIDE DEF first, last
<1>13. QED
  BY <1>1, <1>4, <1>11, <1>12 DEF W

\* The clauses are those of the segments that are kept, one each.
LEMMA SegmentsOfText ==
    ASSUME NEW text, IsText(text)
    PROVE  /\ IsList(Segments(text))
           /\ Len(Segments(text)) = Cardinality(Kept(text))
           /\ Cardinality(Kept(text)) \in Nat
           /\ Kept(text) \in SUBSET Boundaries(text)
           /\ \A k \in DOMAIN Segments(text) : \E b \in Kept(text) :
                 Segments(text)[k] = ClauseFrom(text, b)
<1> DEFINE starts == InOrder(Kept(text), <)
           m == Cardinality(Kept(text))
<1>1. /\ Boundaries(text) \subseteq 1..Len(text)
      /\ Len(text) \in Nat
      /\ IsFiniteSet(Boundaries(text))
  BY TextLines
<1>2. Kept(text) \in SUBSET Boundaries(text)
  BY DEF Kept
<1>3. IsFiniteSet(Kept(text)) /\ Kept(text) \subseteq Nat
  BY <1>1, <1>2, FS_Subset
<1>4. /\ m \in Nat
      /\ DOMAIN starts = 1..m
      /\ \A k \in DOMAIN starts : starts[k] \in Kept(text)
  <2>1. Lists(starts, Kept(text))
    BY <1>3, Ascending
  <2>2. QED
    BY <1>3, <2>1, FS_CardinalityType DEF Lists
<1>5. Segments(text) = [k \in DOMAIN starts |-> ClauseFrom(text, starts[k])]
  BY DEF Segments
<1> HIDE DEF starts, m
<1>6. Segments(text) \in [1..m -> {ClauseFrom(text, starts[k]) : k \in 1..m}]
  BY <1>4, <1>5
<1>7. IsList(Segments(text)) /\ Len(Segments(text)) = m /\ DOMAIN Segments(text) = 1..m
  BY <1>4, <1>6, ListOfInterval
<1>8. QED
  BY <1>2, <1>4, <1>5, <1>7 DEF m

\* Where nothing is omitted, every segment is kept, and every line that says
\* something is in its clause and in no other.
LEMMA NothingOmitted ==
    ASSUME NEW text, IsText(text), OmittedClauses(text) = 0
    PROVE  TextCovered(text, Segments(text))
<1> DEFINE starts == InOrder(Kept(text), <)
           clauses == Segments(text)
<1>1. /\ Boundaries(text) \subseteq 1..Len(text)
      /\ Len(text) \in Nat
      /\ DOMAIN text = 1..Len(text)
      /\ IsFiniteSet(Boundaries(text))
      /\ DetectedSegmentCount(text) \in Nat
  BY TextLines
<1>2. Kept(text) \in SUBSET Boundaries(text)
  BY DEF Kept
<1>3. Kept(text) = Boundaries(text)
  <2>1. DetectedSegmentCount(text) - Cardinality(Kept(text)) = 0
    BY SegmentsOfText DEF OmittedClauses
  <2>2. DetectedSegmentCount(text) = Cardinality(Kept(text))
    BY <1>1, <2>1, SegmentsOfText
  <2>3. QED
    BY <1>1, <1>2, <2>2, FS_Subset DEF DetectedSegmentCount
<1>4. IsFiniteSet(Kept(text)) /\ Kept(text) \subseteq Nat
  BY <1>1, <1>3
<1>5. /\ \A k \in DOMAIN starts : starts[k] \in Kept(text)
      /\ \A x \in Kept(text) : \E k \in DOMAIN starts : starts[k] = x
      /\ \A j, k \in DOMAIN starts : starts[j] = starts[k] => j = k
  <2>1. Lists(starts, Kept(text))
    BY <1>4, Ascending
  <2>2. QED
    BY <2>1 DEF Lists
<1>6. clauses = [k \in DOMAIN starts |-> ClauseFrom(text, starts[k])]
  BY DEF Segments
<1> HIDE DEF starts, clauses
<1>7. ASSUME NEW n \in DOMAIN text, text[n].form # "blank"
      PROVE  Cardinality({k \in DOMAIN clauses :
                 clauses[k].first <= n /\ n <= clauses[k].last}) = 1
  <2> DEFINE holders == {k \in DOMAIN clauses :
                            clauses[k].first <= n /\ n <= clauses[k].last}
  <2>1. n \in 1..Len(text) /\ n \in Int
    BY <1>1, <1>7
  <2>2. PICK b \in Boundaries(text) : n \in b..RawEnd(text, b)
    BY <2>1, LineHasSegment
  <2>3. PICK k \in DOMAIN starts : starts[k] = b
    BY <1>3, <1>5
  <2>4. n \in Written(text, b)
    BY <1>7, <2>2 DEF Written
  <2>5. ClauseFrom(text, b).first <= n /\ n <= ClauseFrom(text, b).last
    BY <2>4, ClauseLines
  <2>6. k \in holders
    BY <1>6, <2>3, <2>5
  <2>7. ASSUME NEW j \in holders PROVE j = k
    <3> DEFINE c == starts[j]
    <3>1. j \in DOMAIN starts /\ c \in Kept(text) /\ c \in Boundaries(text)
      BY <1>3, <1>5, <1>6
    <3>2. clauses[j] = ClauseFrom(text, c)
      BY <1>6, <3>1
    <3>3. Written(text, c) # {}
      BY <3>1 DEF Kept
    <3> HIDE DEF c
    <3>4. /\ ClauseFrom(text, c).first \in c..RawEnd(text, c)
          /\ ClauseFrom(text, c).last \in c..RawEnd(text, c)
      BY <3>1, <3>3, ClauseLines
    <3>5. ClauseFrom(text, c).first <= n /\ n <= ClauseFrom(text, c).last
      BY <3>2
    <3>6. c \in Int /\ RawEnd(text, c) \in Int
      <4>1. c \in Int
        BY <1>1, <3>1
      <4>2. QED
        BY <1>1, <3>1, <4>1, SegmentEnd
    <3>7. n \in c..RawEnd(text, c)
      BY <2>1, <3>4, <3>5, <3>6
    <3>8. c = b
      BY <2>1, <2>2, <3>1, <3>7, LineHasOneSegment
    <3>9. QED
      BY <1>5, <2>3, <3>1, <3>8 DEF c
  <2>8. holders = {k}
    BY <2>6, <2>7
  <2> HIDE DEF holders
  <2>9. Cardinality(holders) = 1
    BY <2>8, FS_Singleton
  <2>10. QED
    BY <2>9 DEF holders
<1>8. QED
  BY <1>7 DEF TextCovered, clauses

\* A segment is omitted behind the cap, or because it is the blank text before
\* the first heading.
LEMMA WhyOmitted ==
    ASSUME NEW text, IsText(text), OmittedClauses(text) # 0
    PROVE  DetectedSegmentCount(text) > MaxSegments \/ BlankPreamble(text)
<1>1. SUFFICES ASSUME ~(DetectedSegmentCount(text) > MaxSegments),
                      ~BlankPreamble(text)
               PROVE  FALSE
  OBVIOUS
<1>2. /\ IsFiniteSet(Boundaries(text))
      /\ DetectedSegmentCount(text) \in Nat
      /\ DetectedSegmentCount(text) = Cardinality(Boundaries(text))
      /\ MaxSegments \in Nat
  BY TextLines, TextAssumption DEF DetectedSegmentCount
<1>3. DetectedSegmentCount(text) <= MaxSegments /\ Written(text, 1) # {}
  BY <1>1, <1>2 DEF BlankPreamble
<1>4. ASSUME NEW b \in Boundaries(text) PROVE b \in Kept(text)
  <2>1. Written(text, b) # {}
    BY <1>3, HeadingIsWritten
  <2> DEFINE upTo == {a \in Boundaries(text) : a <= b}
  <2>2. upTo \in SUBSET Boundaries(text)
    OBVIOUS
  <2> HIDE DEF upTo
  <2>3. IsFiniteSet(upTo) /\ Cardinality(upTo) <= Cardinality(Boundaries(text))
    BY <1>2, <2>2, FS_Subset
  <2>4. Cardinality(upTo) \in Nat
    BY <2>3, FS_CardinalityType
  <2>5. Cardinality(upTo) <= MaxSegments
    BY <1>2, <1>3, <2>3, <2>4
  <2>6. QED
    BY <2>1, <2>5 DEF Kept, upTo
<1>5. Kept(text) = Boundaries(text)
  BY <1>4 DEF Kept
<1>6. OmittedClauses(text) = 0
  BY <1>2, <1>5, SegmentsOfText DEF OmittedClauses
<1>7. QED
  BY <1>6

-----------------------------------------------------------------------------
(* Sums *)

\* One pair for each unit of the numbers that f gives to the members of S.
Units(f, S) == UNION {{x} \X (1..f[x]) : x \in S}

LEMMA FiniteUnits ==
    ASSUME NEW T, IsFiniteSet(T), NEW f \in [T -> Nat]
    PROVE  IsFiniteSet(Units(f, T)) /\ Cardinality(Units(f, T)) \in Nat
<1> DEFINE parts == [x \in T |-> {x} \X (1..f[x])]
           images == {parts[x] : x \in T}
<1>1. ASSUME NEW x \in T
      PROVE  IsFiniteSet({x} \X (1..f[x]))
  <2>1. IsFiniteSet({x})
    BY FS_Singleton
  <2>2. IsFiniteSet(1..f[x])
    BY FS_Interval
  <2>3. QED
    BY <2>1, <2>2, FS_Product
<1>2. DOMAIN parts = T /\ \A x \in T : parts[x] = {x} \X (1..f[x])
  OBVIOUS
<1>3. Units(f, T) = UNION images
  BY DEF Units
<1> HIDE DEF parts
<1>4. IsFiniteSet(images)
  BY <1>2, FiniteImage
<1>5. \A X \in images : IsFiniteSet(X)
  BY <1>1, <1>2
<1> HIDE DEF images
<1>6. QED
  BY <1>3, <1>4, <1>5, FS_UNION, FS_CardinalityType

\* Without one member there are as many units less as that member has.
LEMMA UnitsOfOne ==
    ASSUME NEW T, IsFiniteSet(T), NEW f \in [T -> Nat], NEW x \in T
    PROVE  Cardinality(Units(f, T)) = f[x] + Cardinality(Units(f, T \ {x}))
<1> DEFINE own == {x} \X (1..f[x])
           rest == Units(f, T \ {x})
<1>1. f[x] \in Nat
  OBVIOUS
<1>2. IsFiniteSet(own) /\ Cardinality(own) = f[x]
  <2>1. IsFiniteSet({x}) /\ Cardinality({x}) = 1
    BY FS_Singleton
  <2>2. IsFiniteSet(1..f[x]) /\ Cardinality(1..f[x]) = f[x]
    BY <1>1, FS_Interval
  <2>3. IsFiniteSet(own) /\ Cardinality(own) = 1 * f[x]
    BY <2>1, <2>2, FS_Product
  <2>4. QED
    BY <1>1, <2>3
<1>3. IsFiniteSet(rest) /\ Cardinality(rest) \in Nat
  <2>1. IsFiniteSet(T \ {x})
    BY FS_RemoveElement
  <2>2. PICK g : g = [y \in T \ {x} |-> f[y]]
    OBVIOUS
  <2>3. g \in [T \ {x} -> Nat] /\ Units(g, T \ {x}) = rest
    BY <2>2 DEF Units
  <2>4. QED
    BY <2>1, <2>3, FiniteUnits
<1>4. Units(f, T) = own \cup rest
  BY DEF Units
<1>5. own \cap rest = {}
  BY DEF Units
<1> HIDE DEF own, rest
<1>6. Cardinality(own \cup rest)
        = Cardinality(own) + Cardinality(rest) - Cardinality({})
  BY <1>2, <1>3, <1>5, FS_Union
<1>7. QED
  BY <1>1, <1>2, <1>3, <1>4, <1>6, FS_EmptySet DEF rest

\* A sum counts the units, in whatever order it takes its terms.
LEMMA SumCountsUnits ==
    ASSUME NEW T, IsFiniteSet(T), NEW f \in [T -> Nat]
    PROVE  SumFunction(f) = Cardinality(Units(f, T))
<1> DEFINE F(g) == [s \in SUBSET T |->
                      IF s = {} THEN 0
                      ELSE f[CHOOSE x \in s : TRUE] + g[s \ {CHOOSE x \in s : TRUE}]]
           iter == CHOOSE g : g = F(g)
           count == [s \in SUBSET T |-> Cardinality(Units(f, s))]
<1>1. SumFunction(f) = iter[T]
  <2>1. DOMAIN f = T
    OBVIOUS
  <2>2. QED
    BY <2>1 DEF SumFunction, SumFunctionOnSet, FoldFunctionOnSet, MapThenFoldSet
<1>2. ASSUME NEW s \in SUBSET T, s # {}
      PROVE  \A x \in s : Cardinality(Units(f, s))
                            = f[x] + Cardinality(Units(f, s \ {x}))
  <2>1. IsFiniteSet(s)
    BY FS_Subset
  <2>2. PICK g : g = [y \in s |-> f[y]]
    OBVIOUS
  <2>3. g \in [s -> Nat] /\ \A y \in s : g[y] = f[y]
    BY <2>2
  <2>4. ASSUME NEW r \in SUBSET s
        PROVE  Units(g, r) = Units(f, r)
    BY <2>3 DEF Units
  <2>5. \A x \in s : Cardinality(Units(g, s)) = g[x] + Cardinality(Units(g, s \ {x}))
    BY <2>1, <2>3, UnitsOfOne
  <2>6. QED
    BY <2>3, <2>4, <2>5
<1>3. Units(f, {}) = {} /\ Cardinality({}) = 0
  BY FS_EmptySet DEF Units
<1>4. count = F(count)
  <2>1. ASSUME NEW s \in SUBSET T
        PROVE  count[s] = F(count)[s]
    <3>1. CASE s = {}
      BY <1>3, <3>1
    <3>2. CASE s # {}
      <4>1. PICK x \in s : x = CHOOSE y \in s : TRUE
        BY <3>2
      <4>2. s \ {x} \in SUBSET T
        OBVIOUS
      <4>3. count[s] = f[x] + count[s \ {x}]
        BY <1>2, <3>2, <4>2
      <4>4. F(count)[s] = f[x] + count[s \ {x}]
        BY <3>2, <4>1
      <4>5. QED
        BY <4>3, <4>4
    <3>3. QED
      BY <3>1, <3>2
  <2>2. QED
    BY <2>1
<1>5. iter = F(iter)
  <2> HIDE DEF count
  <2>1. QED
    BY <1>4
<1> HIDE DEF iter
<1>6. \A s \in SUBSET T :
         iter[s] = IF s = {} THEN 0
                   ELSE f[CHOOSE x \in s : TRUE] + iter[s \ {CHOOSE x \in s : TRUE}]
  BY <1>5
<1> DEFINE Bad == {Cardinality(s) : s \in {r \in SUBSET T : iter[r] # count[r]}}
<1>7. ASSUME NEW s \in SUBSET T, iter[s] # count[s]
      PROVE  FALSE
  <2>1. \A r \in SUBSET T : IsFiniteSet(r) /\ Cardinality(r) \in Nat
    BY FS_Subset, FS_CardinalityType
  <2>2. Bad \in SUBSET Nat
    BY <2>1
  <2>3. Cardinality(s) \in Bad
    BY <1>7
  <2>4. PICK m \in Bad : \A k \in Bad : m <= k
    BY <2>2, <2>3, LeastNumber
  <2>5. PICK r \in SUBSET T : iter[r] # count[r] /\ m = Cardinality(r)
    BY <2>4
  <2>6. r # {}
    BY <1>3, <1>6, <2>5
  <2>7. PICK x \in r : x = CHOOSE y \in r : TRUE
    BY <2>6
  <2>8. r \ {x} \in SUBSET T
    OBVIOUS
  <2>9. iter[r] = f[x] + iter[r \ {x}]
    BY <1>6, <2>6, <2>7
  <2>10. count[r] = f[x] + count[r \ {x}]
    BY <1>2, <2>6, <2>8
  <2>11. iter[r \ {x}] # count[r \ {x}]
    BY <2>5, <2>9, <2>10
  <2>12. Cardinality(r \ {x}) \in Bad
    BY <2>8, <2>11
  <2>13. Cardinality(r \ {x}) = Cardinality(r) - 1 /\ Cardinality(r) \in Nat
    BY <2>1, FS_RemoveElement
  <2>14. m \in Nat /\ m <= Cardinality(r \ {x})
    BY <2>2, <2>4, <2>12
  <2> HIDE DEF Bad
  <2>15. QED
    BY <2>5, <2>13, <2>14
<1>8. T \in SUBSET T
  OBVIOUS
<1>9. QED
  BY <1>1, <1>7, <1>8

\* A sum of numbers is a number, and one of no more terms that are no greater
\* is no greater.
LEMMA SumIsNumber ==
    ASSUME NEW T, IsFiniteSet(T), NEW f \in [T -> Nat]
    PROVE  SumFunction(f) \in Nat
BY FiniteUnits, SumCountsUnits

LEMMA SumIsMonotone ==
    ASSUME NEW T, IsFiniteSet(T), NEW f \in [T -> Nat],
           NEW S \in SUBSET T, NEW g \in [S -> Nat],
           \A x \in S : g[x] <= f[x]
    PROVE  SumFunction(g) <= SumFunction(f)
<1>1. Units(g, S) \in SUBSET Units(f, T)
  <2>1. ASSUME NEW z \in Units(g, S)
        PROVE  z \in Units(f, T)
    <3>1. PICK x \in S : z \in {x} \X (1..g[x])
      BY DEF Units
    <3>2. x \in T /\ f[x] \in Nat /\ g[x] \in Nat /\ g[x] <= f[x]
      OBVIOUS
    <3>3. \A n \in 1..g[x] : n \in 1..f[x]
      BY <3>2
    <3>4. z \in {x} \X (1..f[x])
      BY <3>1, <3>3
    <3>5. QED
      BY <3>2, <3>4 DEF Units
  <2>2. QED
    BY <2>1
<1>2. IsFiniteSet(S)
  BY FS_Subset
<1>3. IsFiniteSet(Units(f, T))
  BY FiniteUnits
<1>4. Cardinality(Units(g, S)) <= Cardinality(Units(f, T))
  BY <1>1, <1>3, FS_Subset
<1>5. QED
  BY <1>2, <1>4, SumCountsUnits

-----------------------------------------------------------------------------
(* The score of two clauses *)

\* Every word of a text occurs on some number of its lines.
LEMMA WordsAreCounted ==
    ASSUME NEW a, IsText(a.body)
    PROVE  /\ IsFiniteSet(ClauseWords(a))
           /\ WordCount(a) \in [ClauseWords(a) -> Nat]
<1> DEFINE body == a.body
<1>1. /\ IsFiniteSet(DOMAIN body)
      /\ \A n \in DOMAIN body : IsFiniteSet(body[n].words)
  BY ListDomain, FS_Interval DEF IsText
<1>2. IsFiniteSet(ClauseWords(a))
  <2>1. PICK f : f = [n \in DOMAIN body |-> body[n].words]
    OBVIOUS
  <2>2. DOMAIN f = DOMAIN body /\ \A n \in DOMAIN body : f[n] = body[n].words
    BY <2>1
  <2>3. IsFiniteSet({f[n] : n \in DOMAIN body})
    BY <1>1, <2>2, FiniteImage
  <2>4. \A S \in {f[n] : n \in DOMAIN body} : IsFiniteSet(S)
    BY <1>1, <2>2
  <2>5. ClauseWords(a) = UNION {f[n] : n \in DOMAIN body}
    BY <2>2 DEF ClauseWords, WordsOf
  <2>6. QED
    BY <2>3, <2>4, <2>5, FS_UNION
<1>3. ASSUME NEW w \in ClauseWords(a)
      PROVE  Cardinality({n \in DOMAIN body : w \in body[n].words}) \in Nat
  <2>1. {n \in DOMAIN body : w \in body[n].words} \in SUBSET DOMAIN body
    OBVIOUS
  <2>2. QED
    BY <1>1, <2>1, FS_Subset, FS_CardinalityType
<1>4. QED
  BY <1>2, <1>3 DEF WordCount

\* A score is a share of the whole, and the same text has all of it.
LEMMA ScoreIsShare ==
    ASSUME NEW a, IsText(a.body), NEW b, IsText(b.body)
    PROVE  /\ Similarity(a, b).num \in Nat
           /\ Similarity(a, b).den \in Nat
           /\ Similarity(a, b).den > 0
           /\ Similarity(a, b).num <= Similarity(a, b).den
           /\ a.body = b.body => Similarity(a, b) = [num |-> 1, den |-> 1]
<1>1. CASE a.body = b.body
  BY <1>1 DEF Similarity
<1>2. CASE a.body # b.body
  <2> DEFINE A == ClauseWords(a)
             B == ClauseWords(b)
  <2>1. PICK f : f = WordCount(a)
    OBVIOUS
  <2>2. PICK g : g = WordCount(b)
    OBVIOUS
  <2>3. IsFiniteSet(A) /\ IsFiniteSet(B) /\ f \in [A -> Nat] /\ g \in [B -> Nat]
    BY <2>1, <2>2, WordsAreCounted
  <2>4. PICK common : common = [w \in A \cap B |-> IF f[w] < g[w] THEN f[w] ELSE g[w]]
    OBVIOUS
  <2> HIDE DEF A, B
  <2>5. A \cap B \in SUBSET A /\ A \cap B \in SUBSET B /\ IsFiniteSet(A \cap B)
    BY <2>3, FS_Intersection
  <2>6. \A w \in A \cap B : /\ f[w] \in Nat /\ g[w] \in Nat
                            /\ common[w] = IF f[w] < g[w] THEN f[w] ELSE g[w]
    BY <2>3, <2>4, <2>5
  <2>7. /\ common \in [A \cap B -> Nat]
        /\ \A w \in A \cap B : common[w] <= f[w] /\ common[w] <= g[w]
    BY <2>4, <2>6
  <2>8. /\ SumFunction(f) \in Nat /\ SumFunction(g) \in Nat
        /\ SumFunction(common) \in Nat
    BY <2>3, <2>5, <2>7, SumIsNumber
  <2>9. SumFunction(common) <= SumFunction(f) /\ SumFunction(common) <= SumFunction(g)
    BY <2>3, <2>5, <2>7, SumIsMonotone
  <2>10. DOMAIN f = A /\ DOMAIN g = B
    BY <2>3
  <2>11. Similarity(a, b) = IF SumFunction(f) + SumFunction(g) = 0
                            THEN [num |-> 0, den |-> 1]
                            ELSE [num |-> 2 * SumFunction(common),
                                  den |-> SumFunction(f) + SumFunction(g)]
    BY <1>2, <2>1, <2>2, <2>4, <2>10 DEF Similarity
  <2>12. PICK n \in Nat : n = SumFunction(f)
    BY <2>8
  <2>13. PICK m \in Nat : m = SumFunction(g)
    BY <2>8
  <2>14. PICK c \in Nat : c = SumFunction(common)
    BY <2>8
  <2>15. CASE n + m = 0
    BY <1>2, <2>11, <2>12, <2>13, <2>15
  <2>16. CASE n + m # 0
    <3>1. /\ Similarity(a, b).num = 2 * c
          /\ Similarity(a, b).den = n + m
      BY <2>11, <2>12, <2>13, <2>14, <2>16
    <3>2. c <= n /\ c <= m
      BY <2>9, <2>12, <2>13, <2>14
    <3>3. QED
      BY <1>2, <2>16, <3>1, <3>2
  <2>17. QED
    BY <2>15, <2>16
<1>3. QED
  BY <1>1, <1>2

-----------------------------------------------------------------------------
(* What a clause is by its text *)

HeadingOf(body) == IF LooksLikeHeading(body[1]) THEN body[1].words ELSE NoHeading

\* A clause is a text of its own, and its heading and its category follow from
\* that text, wherever it stands.
LEMMA ClauseByText ==
    ASSUME NEW text, IsText(text), NEW k \in DOMAIN Segments(text)
    PROVE  LET clause == Segments(text)[k]
           IN /\ IsText(clause.body)
              /\ clause.heading = HeadingOf(clause.body)
              /\ clause.category
                   = Classify(HeadingOf(clause.body), WordsOf(clause.body))
<1>1. PICK b \in Kept(text) : Segments(text)[k] = ClauseFrom(text, b)
  BY SegmentsOfText
<1>2. b \in Boundaries(text) /\ Written(text, b) # {}
  BY DEF Kept
<1>3. PICK clause : clause = ClauseFrom(text, b)
  OBVIOUS
<1>4. /\ clause.first \in b..RawEnd(text, b)
      /\ clause.last \in b..RawEnd(text, b)
      /\ \A n \in Written(text, b) : clause.first <= n /\ n <= clause.last
  BY <1>2, <1>3, ClauseLines
<1>5. /\ Len(text) \in Nat /\ DOMAIN text = 1..Len(text) /\ b \in 1..Len(text)
      /\ RawEnd(text, b) \in b..Len(text)
      /\ \A m \in (b + 1)..RawEnd(text, b) : m \notin Boundaries(text)
  BY <1>2, TextLines, SegmentEnd
<1>6. PICK first \in 1..Len(text) : first = clause.first
  BY <1>4, <1>5
<1>7. PICK last \in 1..Len(text) : last = clause.last
  BY <1>4, <1>5
<1>8. b <= first /\ first <= last /\ first <= RawEnd(text, b)
  <2>1. PICK n \in Written(text, b) : TRUE
    BY <1>2
  <2>2. n \in Int /\ first <= n /\ n <= last
    BY <1>4, <1>5, <1>6, <1>7 DEF Written
  <2>3. QED
    BY <1>4, <1>5, <1>6, <2>2
<1>9. /\ clause.body = SubSeq(text, first, last)
      /\ clause.heading = IF LooksLikeHeading(text[b]) THEN text[b].words ELSE NoHeading
      /\ clause.category = Classify(clause.heading, WordsOf(clause.body))
  <2> DEFINE start == CHOOSE n \in Written(text, b) : \A m \in Written(text, b) : n <= m
             end == CHOOSE n \in Written(text, b) : \A m \in Written(text, b) : m <= n
             heading == IF LooksLikeHeading(text[b]) THEN text[b].words ELSE NoHeading
             lines == SubSeq(text, start, end)
             kind == Classify(heading, WordsOf(lines))
  <2>1. clause = [heading |-> heading, category |-> kind, first |-> start,
                  last |-> end, body |-> lines]
    BY <1>3 DEF ClauseFrom
  <2> HIDE DEF start, end, heading, kind
  <2>2. /\ clause.body = lines /\ clause.first = start /\ clause.last = end
        /\ clause.heading = heading /\ clause.category = kind
    BY <2>1
  <2>3. lines = SubSeq(text, first, last)
    BY <1>6, <1>7, <2>2
  <2>4. kind = Classify(heading, WordsOf(lines))
    BY DEF kind
  <2> HIDE DEF lines
  <2>5. QED
    BY <2>2, <2>3, <2>4 DEF heading
<1>10. PICK body : body = SubSeq(text, first, last)
  OBVIOUS
<1>11. /\ Len(body) = last - first + 1
       /\ body \in [1..Len(body) -> ToSet(text)]
       /\ \A n \in 1..Len(body) : body[n] = text[first + n - 1]
  <2>1. \A n \in first..last : n \in 1..Len(text)
    BY <1>6, <1>7
  <2>2. \A n \in first..last : text[n] \in ToSet(text)
    BY <2>1, <1>5 DEF ToSet
  <2>3. /\ body \in Seq(ToSet(text))
        /\ Len(body) = last - first + 1
        /\ \A n \in 1..(last - first + 1) : body[n] = text[first + n - 1]
    BY <1>8, <1>10, <2>2, SubSeqProperties
  <2>4. QED
    BY <2>3, LenProperties
<1>12. body[1] = text[first] /\ Len(body) \in Nat /\ Len(body) >= 1
  BY <1>8, <1>11
<1>13. IsText(body)
  <2>1. IsList(body) /\ DOMAIN body = 1..Len(body)
    BY <1>11, <1>12, ListOfInterval
  <2>2. body # <<>>
    BY <1>12
  <2>3. \A n \in DOMAIN body : first + n - 1 \in 1..Len(text)
    BY <1>6, <1>7, <1>8, <1>11, <2>1
  <2>4. \A n \in DOMAIN body : IsFiniteSet(body[n].words)
    BY <1>5, <1>11, <2>1, <2>3 DEF IsText
  <2>5. QED
    BY <2>1, <2>2, <2>4 DEF IsText
<1>14. clause.heading = HeadingOf(body)
  <2>1. CASE LooksLikeHeading(text[b])
    <3>1. text[b].form # "blank"
      BY <2>1 DEF LooksLikeHeading
    <3>2. b \in Written(text, b)
      BY <1>5, <3>1 DEF Written
    <3>3. first = b
      BY <1>4, <1>5, <1>6, <1>8, <3>2
    <3>4. QED
      BY <1>9, <1>12, <2>1, <3>3 DEF HeadingOf
  <2>2. CASE ~LooksLikeHeading(text[b])
    <3>1. CASE first = b
      BY <1>9, <1>12, <2>2, <3>1 DEF HeadingOf
    <3>2. CASE first # b
      <4>1. first \in (b + 1)..RawEnd(text, b)
        BY <1>5, <1>8, <3>2
      <4>2. ~LooksLikeHeading(text[first])
        BY <1>5, <1>6, <4>1 DEF Boundaries
      <4>3. QED
        BY <1>9, <1>12, <2>2, <4>2 DEF HeadingOf
    <3>3. QED
      BY <3>1, <3>2
  <2>3. QED
    BY <2>1, <2>2
<1>15. QED
  BY <1>1, <1>3, <1>9, <1>10, <1>13, <1>14

-----------------------------------------------------------------------------
(* The inductive invariant *)

Statuses == {"added", "removed", "modified", "unchanged", "ambiguous"}

ChangeSet ==
    [category : Categories(old) \cup Categories(new),
     status : Statuses,
     old : {0} \cup DOMAIN old,
     new : {0} \cup DOMAIN new,
     rivals : {0} \cup {Cardinality(X) : X \in SUBSET DOMAIN new}]

Fits(c) ==
    /\ c.old # 0 \/ c.new # 0
    /\ c.old # 0 => c.status # "added" /\ c.category = old[c.old].category
    /\ c.new # 0 => c.status # "removed" /\ c.category = new[c.new].category
    /\ c.category \in Finished

Olds(list) == {list[n].old : n \in DOMAIN list}
News(list) == {list[n].new : n \in DOMAIN list}

Sound(list) == \A n \in DOMAIN list : Fits(list[n])

OnceEach(list) ==
    \A m, n \in DOMAIN list :
        /\ list[m].old = list[n].old /\ list[m].old # 0 => m = n
        /\ list[m].new = list[n].new /\ list[m].new # 0 => m = n

Numbered == 0 \notin DOMAIN old /\ 0 \notin DOMAIN new

Covered(c) ==
    /\ \A k \in DOMAIN old : old[k].category = c => k \in Olds(changes)
    /\ \A k \in DOMAIN new : new[k].category = c => k \in News(changes)

IdleInv ==
    legal = "idle" => changes = <<>> /\ done = {} /\ tried = {}

PairInv ==
    legal = "pairing" =>
        /\ Numbered
        /\ changes \in Seq(ChangeSet)
        /\ Sound(changes)
        /\ OnceEach(changes)
        /\ \A i \in Untried : i \notin Olds(changes)
        /\ \A c \in done : Covered(c)

AccountInv == IdleInv /\ PairInv /\ EveryClauseAccounted

-----------------------------------------------------------------------------
(* Appending a change *)

\* What the code looks up by the name of a side.
LEMMA ReportedSides ==
    Reported("old") = Olds(changes) /\ Reported("new") = News(changes)
BY DEF Reported, Olds, News

\* A change of clauses that are not reported yet keeps the list sound.
LEMMA AppendedChange ==
    ASSUME NEW list \in Seq(ChangeSet), NEW c \in ChangeSet,
           Sound(list), OnceEach(list), Fits(c),
           c.old # 0 => c.old \notin Olds(list),
           c.new # 0 => c.new \notin News(list)
    PROVE  /\ Append(list, c) \in Seq(ChangeSet)
           /\ Sound(Append(list, c))
           /\ OnceEach(Append(list, c))
           /\ Olds(Append(list, c)) = Olds(list) \cup {c.old}
           /\ News(Append(list, c)) = News(list) \cup {c.new}
<1> DEFINE longer == Append(list, c)
           last == Len(list) + 1
<1>1. /\ longer \in Seq(ChangeSet)
      /\ Len(list) \in Nat
      /\ DOMAIN list = 1..Len(list)
      /\ DOMAIN longer = 1..last
      /\ \A n \in 1..Len(list) : longer[n] = list[n]
      /\ longer[last] = c
  BY AppendProperties, LenProperties
<1>2. \A n \in DOMAIN longer : n \in DOMAIN list \/ n = last
  BY <1>1
<1>3. last \notin DOMAIN list /\ last \in DOMAIN longer
  BY <1>1
<1> HIDE DEF longer, last
<1>4. \A n \in DOMAIN list : n \in DOMAIN longer /\ longer[n] = list[n]
  BY <1>1 DEF last
<1>5. Sound(longer)
  BY <1>1, <1>2 DEF Sound
<1>6. OnceEach(longer)
  BY <1>1, <1>2, <1>3, <1>4 DEF OnceEach, Olds, News
<1>7. Olds(longer) = Olds(list) \cup {c.old}
  BY <1>1, <1>2, <1>3, <1>4 DEF Olds
<1>8. News(longer) = News(list) \cup {c.new}
  BY <1>1, <1>2, <1>3, <1>4 DEF News
<1>9. QED
  BY <1>1, <1>5, <1>6, <1>7, <1>8 DEF longer

-----------------------------------------------------------------------------
(* The steps *)

LEMMA InitAccount == LegalInit => AccountInv
BY DEF LegalInit, AccountInv, IdleInv, PairInv, EveryClauseAccounted

\* A request starts with an empty list of changes, or ends at once.
LEMMA RequestAccount ==
    ASSUME AccountInv,
           \/ \E input \in Reviews : ReviewContract(input)
           \/ \E input \in Comparisons : CompareContracts(input)
    PROVE  AccountInv'
<1>1. /\ changes = <<>> /\ done = {} /\ tried = {}
      /\ changes' = <<>> /\ done' = {} /\ tried' = {}
  BY DEF AccountInv, IdleInv, ReviewContract, CompareContracts, End, pairVars
<1>2. legal' \in {"refused", "failed", "reviewed", "pairing"}
  BY DEF ReviewContract, CompareContracts, End
<1>3. ASSUME legal' = "pairing"
      PROVE  Numbered'
  <2>1. PICK input \in Comparisons : CompareContracts(input)
    BY <1>3 DEF ReviewContract, End
  <2>2. /\ old' = Segments(input.original.text)
        /\ new' = Segments(input.revised.text)
    BY <1>3, <2>1 DEF CompareContracts, End
  <2>3. QED
    BY <2>2 DEF Numbered, Segments, InOrder
<1>4. PairInv'
  BY <1>1, <1>3 DEF PairInv, Sound, OnceEach, Olds
<1>5. QED
  BY <1>1, <1>2, <1>4 DEF AccountInv, IdleInv, EveryClauseAccounted

\* The clause that looks for a pair has none yet, and it finds a free one.
LEMMA PairClauseAccount ==
    ASSUME AccountInv, PairClause
    PROVE  AccountInv'
<1>1. /\ legal = "pairing" /\ legal' = "pairing"
      /\ UNCHANGED <<old, new, category, done>>
  BY DEF PairClause
<1>2. /\ Numbered /\ changes \in Seq(ChangeSet)
      /\ Sound(changes) /\ OnceEach(changes)
      /\ \A i \in Untried : i \notin Olds(changes)
      /\ \A c \in done : Covered(c)
  BY <1>1 DEF AccountInv, PairInv
<1>3. PICK i \in Untried :
         /\ tried' = tried \cup {i}
         /\ \/ UNCHANGED changes
            \/ \E j \in Best(i) : changes' = Append(changes, Paired(i, j))
  BY DEF PairClause
<1>4. ChangeSet' = ChangeSet
  BY <1>1 DEF ChangeSet, Categories
<1>5. Untried' \subseteq Untried \ {i}
  BY <1>1, <1>3 DEF Untried, Group
<1>6. CASE UNCHANGED changes
  BY <1>1, <1>2, <1>4, <1>5, <1>6
     DEF AccountInv, IdleInv, PairInv, EveryClauseAccounted, Numbered, Sound,
         Fits, Finished, OnceEach, Olds, News, Covered
<1>7. ASSUME NEW j \in Best(i), changes' = Append(changes, Paired(i, j))
      PROVE  AccountInv'
  <2> DEFINE c == Paired(i, j)
  <2>1. /\ i \in DOMAIN old /\ old[i].category = category
        /\ i \notin Olds(changes)
    BY <1>2, <1>3 DEF Untried, Group
  <2>2. /\ j \in DOMAIN new /\ new[j].category = category
        /\ j \notin News(changes)
    BY <1>7, ReportedSides DEF Best, Candidates, Available, Group
  <2>3. Rivals(i, j) \in SUBSET DOMAIN new
    BY DEF Rivals, Candidates, Available, Group
  <2>4. /\ c.category = category /\ c.old = i /\ c.new = j
        /\ c.status \in {"unchanged", "ambiguous", "modified"}
        /\ c.rivals = Cardinality(Rivals(i, j))
        /\ c = [category |-> c.category, status |-> c.status, old |-> c.old,
                new |-> c.new, rivals |-> c.rivals]
    BY DEF Paired, Change
  <2>5. category \in Categories(old)
    BY <2>1 DEF Categories
  <2> HIDE DEF c
  <2>6. c \in ChangeSet
    BY <2>1, <2>2, <2>3, <2>4, <2>5 DEF ChangeSet, Statuses
  <2>7. Fits(c)
    BY <2>1, <2>2, <2>4, <1>2 DEF Fits, Numbered, Finished
  <2>8. /\ changes' \in Seq(ChangeSet) /\ Sound(Append(changes, c))
        /\ OnceEach(changes')
        /\ Olds(changes') = Olds(changes) \cup {i}
        /\ News(changes') = News(changes) \cup {j}
    BY <1>2, <1>7, <2>1, <2>2, <2>4, <2>6, <2>7, AppendedChange DEF c
  <2>9. Sound(changes)'
    BY <1>1, <1>7, <2>8 DEF Sound, Fits, Finished, c
  <2>10. \A u \in Untried' : u \notin Olds(changes')
    BY <1>2, <1>5, <2>8
  <2>11. \A d \in done' : Covered(d)'
    BY <1>1, <1>2, <2>8 DEF Covered, Olds, News
  <2>12. OnceEach(changes)' /\ Numbered'
    BY <1>1, <1>2, <2>8 DEF OnceEach, Numbered
  <2>13. QED
    BY <1>1, <1>4, <2>8, <2>9, <2>10, <2>11, <2>12
       DEF AccountInv, IdleInv, PairInv, EveryClauseAccounted, Olds
<1>8. QED
  BY <1>3, <1>6, <1>7

\* What ReportRemoved and ReportAdded have in common: they append a change of
\* one clause that is free, in a category whose clauses have all looked.
LEMMA ReportAccount ==
    ASSUME AccountInv, legal = "pairing", Untried = {},
           NEW c \in ChangeSet, Fits(c),
           c.old # 0 => c.old \notin Olds(changes),
           c.new # 0 => c.new \notin News(changes),
           changes' = Append(changes, c),
           UNCHANGED <<legal, contract, old, new, category, done, tried, report>>
    PROVE  AccountInv'
<1>1. /\ Numbered /\ changes \in Seq(ChangeSet)
      /\ Sound(changes) /\ OnceEach(changes)
      /\ \A d \in done : Covered(d)
  BY DEF AccountInv, PairInv
<1>2. /\ changes' \in Seq(ChangeSet) /\ Sound(Append(changes, c))
      /\ OnceEach(changes')
      /\ Olds(changes') = Olds(changes) \cup {c.old}
      /\ News(changes') = News(changes) \cup {c.new}
  BY <1>1, AppendedChange
<1>3. ChangeSet' = ChangeSet
  BY DEF ChangeSet, Categories
<1>4. Sound(changes)'
  BY <1>2 DEF Sound, Fits, Finished
<1>5. Untried' = {}
  BY DEF Untried, Group
<1>6. \A d \in done' : Covered(d)'
  BY <1>1, <1>2 DEF Covered, Olds, News
<1>7. OnceEach(changes)' /\ Numbered'
  BY <1>1, <1>2 DEF OnceEach, Numbered
<1>8. QED
  BY <1>2, <1>3, <1>4, <1>5, <1>6, <1>7
     DEF AccountInv, IdleInv, PairInv, EveryClauseAccounted

LEMMA ReportRemovedAccount ==
    ASSUME AccountInv, ReportRemoved
    PROVE  AccountInv'
<1>1. PICK i \in Unpaired :
         changes' = Append(changes, Change("removed", i, 0, 0))
  BY DEF ReportRemoved
<1> DEFINE c == Change("removed", i, 0, 0)
<1>2. /\ i \in DOMAIN old /\ old[i].category = category
      /\ i \notin Olds(changes)
  BY <1>1, ReportedSides DEF Unpaired, Group
<1>3. category \in Categories(old) /\ i # 0
  BY <1>2 DEF Categories, ReportRemoved, AccountInv, PairInv, Numbered
<1>4. c \in ChangeSet /\ Fits(c) /\ c.old = i /\ c.new = 0
  BY <1>2, <1>3 DEF Change, ChangeSet, Statuses, Fits, Finished
<1> HIDE DEF c
<1>5. QED
  BY <1>1, <1>2, <1>4, ReportAccount DEF ReportRemoved, c

LEMMA ReportAddedAccount ==
    ASSUME AccountInv, ReportAdded
    PROVE  AccountInv'
<1>1. PICK j \in Available :
         changes' = Append(changes, Change("added", 0, j, 0))
  BY DEF ReportAdded
<1> DEFINE c == Change("added", 0, j, 0)
<1>2. /\ j \in DOMAIN new /\ new[j].category = category
      /\ j \notin News(changes)
  BY <1>1, ReportedSides DEF Available, Group
<1>3. category \in Categories(new) /\ j # 0
  BY <1>2 DEF Categories, ReportAdded, AccountInv, PairInv, Numbered
<1>4. c \in ChangeSet /\ Fits(c) /\ c.old = 0 /\ c.new = j
  BY <1>2, <1>3 DEF Change, ChangeSet, Statuses, Fits, Finished
<1> HIDE DEF c
<1>5. QED
  BY <1>1, <1>2, <1>4, ReportAccount DEF ReportAdded, c

\* A category is left behind when none of its clauses is free any more.
LEMMA FinishedCovered ==
    ASSUME AccountInv, legal = "pairing", CategoryFinished, NEW d \in Finished
    PROVE  Covered(d)
<1>1. CASE d \in done
  BY <1>1 DEF AccountInv, PairInv
<1>2. CASE d = category
  BY <1>2, ReportedSides
     DEF CategoryFinished, Unpaired, Available, Group, Covered
<1>3. QED
  BY <1>1, <1>2 DEF Finished

\* The next category is new, so nothing of it is reported.
LEMMA NextCategoryAccount ==
    ASSUME AccountInv, NextCategory
    PROVE  AccountInv'
<1>1. /\ legal = "pairing" /\ legal' = "pairing" /\ CategoryFinished
      /\ UNCHANGED <<old, new, changes>>
      /\ done' = Finished /\ tried' = {}
  BY DEF NextCategory
<1>2. category' \notin Finished
  BY DEF NextCategory, Opens, Unfinished
<1>3. /\ Numbered /\ changes \in Seq(ChangeSet)
      /\ Sound(changes) /\ OnceEach(changes)
  BY <1>1 DEF AccountInv, PairInv
<1>4. ChangeSet' = ChangeSet
  BY <1>1 DEF ChangeSet, Categories
<1>5. Sound(changes)'
  BY <1>1, <1>3 DEF Sound, Fits, Finished
<1>6. ASSUME NEW i \in Untried'
      PROVE  i \notin Olds(changes)
  <2>1. i \in DOMAIN old /\ old[i].category = category' /\ i # 0
    BY <1>1, <1>3 DEF Untried, Group, Numbered
  <2>2. ASSUME NEW n \in DOMAIN changes, changes[n].old = i
        PROVE  FALSE
    <3>1. Fits(changes[n])
      BY <1>3 DEF Sound
    <3>2. old[i].category \in Finished
      BY <3>1, <2>1, <2>2 DEF Fits
    <3>3. QED
      BY <3>2, <2>1, <1>2
  <2>3. QED
    BY <2>2 DEF Olds
<1>7. \A d \in done' : Covered(d)'
  BY <1>1, FinishedCovered DEF Covered, Olds, News
<1>8. OnceEach(changes)' /\ Numbered'
  BY <1>1, <1>3 DEF OnceEach, Numbered
<1>9. QED
  BY <1>1, <1>3, <1>4, <1>5, <1>6, <1>7, <1>8
     DEF AccountInv, IdleInv, PairInv, EveryClauseAccounted, Olds

\* At the end of the last category every clause has its change.
LEMMA ReportComparisonAccount ==
    ASSUME AccountInv, ReportComparison
    PROVE  AccountInv'
<1>1. /\ legal = "pairing" /\ legal' = "compared" /\ CategoryFinished
      /\ Unfinished(old) = {} /\ Unfinished(new) = {}
      /\ UNCHANGED <<contract, old, new, pairVars>>
      /\ report' = Compared
  BY DEF ReportComparison
<1>2. /\ Numbered /\ changes \in Seq(ChangeSet)
      /\ Sound(changes) /\ OnceEach(changes)
  BY <1>1 DEF AccountInv, PairInv
<1>3. UNCHANGED changes
  BY <1>1 DEF pairVars
<1>4. Told(old, "old", "added")
  <2> SUFFICES ASSUME NEW k \in DOMAIN old
               PROVE  \E n \in DOMAIN changes :
                         /\ changes[n]["old"] = k
                         /\ changes[n].category = old[k].category
                         /\ changes[n].status # "added"
                         /\ Once(n, "old")
    BY DEF Told
  <2>1. old[k].category \in Finished
    BY <1>1 DEF Unfinished
  <2>2. k \in Olds(changes) /\ k # 0
    BY <1>1, <1>2, <2>1, FinishedCovered DEF Covered, Numbered
  <2>3. PICK n \in DOMAIN changes : changes[n].old = k
    BY <2>2 DEF Olds
  <2>4. Fits(changes[n])
    BY <1>2 DEF Sound
  <2>5. Once(n, "old")
    BY <1>2, <2>2, <2>3 DEF Once, OnceEach
  <2>6. QED
    BY <2>2, <2>3, <2>4, <2>5 DEF Fits
<1>5. Told(new, "new", "removed")
  <2> SUFFICES ASSUME NEW k \in DOMAIN new
               PROVE  \E n \in DOMAIN changes :
                         /\ changes[n]["new"] = k
                         /\ changes[n].category = new[k].category
                         /\ changes[n].status # "removed"
                         /\ Once(n, "new")
    BY DEF Told
  <2>1. new[k].category \in Finished
    BY <1>1 DEF Unfinished
  <2>2. k \in News(changes) /\ k # 0
    BY <1>1, <1>2, <2>1, FinishedCovered DEF Covered, Numbered
  <2>3. PICK n \in DOMAIN changes : changes[n].new = k
    BY <2>2 DEF News
  <2>4. Fits(changes[n])
    BY <1>2 DEF Sound
  <2>5. Once(n, "new")
    BY <1>2, <2>2, <2>3 DEF Once, OnceEach
  <2>6. QED
    BY <2>2, <2>3, <2>4, <2>5 DEF Fits
<1>6. ASSUME NEW n \in DOMAIN changes
      PROVE  changes[n].old \in DOMAIN old \/ changes[n].new \in DOMAIN new
  <2>1. changes[n] \in ChangeSet /\ Fits(changes[n])
    BY <1>2, ElementOfSeq, LenProperties DEF Sound
  <2>2. QED
    BY <2>1 DEF ChangeSet, Fits
<1>7. Len(report'.changes) + report'.omittedChanges = Len(changes)
  <2> DEFINE emitted == AtMost(changes, MaxComparisons)
  <2>1. Len(emitted) \in Nat /\ Len(changes) \in Nat
    <3>1. Len(changes) \in Nat /\ MaxComparisons \in Nat
      BY <1>2, LenProperties, ComparisonAssumption
    <3>2. PICK m \in 0..Len(changes) : emitted = SubSeq(changes, 1, m)
      BY <3>1 DEF AtMost
    <3>3. \A k \in 1..m : changes[k] \in ChangeSet
      BY <1>2, <3>1, <3>2, ElementOfSeq
    <3>4. emitted \in Seq(ChangeSet)
      BY <3>1, <3>2, <3>3, SubSeqProperties
    <3>5. QED
      BY <3>1, <3>4, LenProperties
  <2>2. /\ report'.changes = emitted
        /\ report'.omittedChanges = Len(changes) - Len(emitted)
    BY <1>1 DEF Compared
  <2> HIDE DEF emitted
  <2>3. QED
    BY <2>1, <2>2
<1>8. EveryClauseAccounted'
  BY <1>1, <1>3, <1>4, <1>5, <1>6, <1>7 DEF EveryClauseAccounted, Told, Once
<1>9. QED
  BY <1>1, <1>8 DEF AccountInv, IdleInv, PairInv

LEMMA NextAccount == AccountInv /\ [LegalNext]_legalVars => AccountInv'
<1> SUFFICES ASSUME AccountInv, [LegalNext]_legalVars
             PROVE  AccountInv'
  OBVIOUS
<1>1. CASE UNCHANGED legalVars
  <2>1. ChangeSet' = ChangeSet
    BY <1>1 DEF legalVars, ChangeSet, Categories
  <2>2. IdleInv'
    BY <1>1 DEF AccountInv, IdleInv, legalVars, pairVars
  <2>3. PairInv'
    BY <1>1, <2>1
       DEF AccountInv, PairInv, legalVars, pairVars, Numbered, Sound, Fits,
           Finished, OnceEach, Untried, Group, Covered, Olds, News
  <2>4. EveryClauseAccounted'
    BY <1>1
       DEF AccountInv, EveryClauseAccounted, legalVars, pairVars, Told, Once
  <2>5. QED
    BY <2>2, <2>3, <2>4 DEF AccountInv
<1>2. CASE \/ \E input \in Reviews : ReviewContract(input)
           \/ \E input \in Comparisons : CompareContracts(input)
  BY <1>2, RequestAccount
<1>3. CASE PairClause
  BY <1>3, PairClauseAccount
<1>4. CASE ReportRemoved
  BY <1>4, ReportRemovedAccount
<1>5. CASE ReportAdded
  BY <1>5, ReportAddedAccount
<1>6. CASE NextCategory
  BY <1>6, NextCategoryAccount
<1>7. CASE ReportComparison
  BY <1>7, ReportComparisonAccount
<1>8. QED
  BY <1>1, <1>2, <1>3, <1>4, <1>5, <1>6, <1>7 DEF LegalNext

-----------------------------------------------------------------------------
(* The theorem *)

\* Every clause of both documents is in exactly one change, under its own
\* category, and the changes that are cut off are counted, whatever the texts
\* and however the clauses are matched (_pair_clauses, compare_contracts).
THEOREM ClausesAreAccounted == LegalSpec => []EveryClauseAccounted
<1>1. AccountInv => EveryClauseAccounted
  BY DEF AccountInv
<1>2. QED
  BY <1>1, InitAccount, NextAccount, PTL DEF LegalSpec

-----------------------------------------------------------------------------
(* The documents of a comparison *)

LEMMA RequestsWellFormed ==
    /\ \A input \in Reviews :
          IsText(input.document.text) /\ IsPlaybook(input.playbook)
    /\ \A input \in Comparisons :
          /\ IsText(input.original.text)
          /\ IsText(input.revised.text)
          /\ IsPlaybook(input.playbook)
BY ContractAssumption

\* While the clauses are paired they are those of the two documents.
PairsDocuments ==
    legal = "pairing" =>
        /\ contract \in Comparisons
        /\ old = Segments(contract.original.text)
        /\ new = Segments(contract.revised.text)

LEMMA NextDocuments ==
    ASSUME PairsDocuments, [LegalNext]_legalVars
    PROVE  PairsDocuments'
<1>1. CASE \E input \in Reviews : ReviewContract(input)
  BY <1>1 DEF ReviewContract, End, PairsDocuments
<1>2. CASE \E input \in Comparisons : CompareContracts(input)
  <2>1. PICK input \in Comparisons : CompareContracts(input)
    BY <1>2
  <2>2. contract' = input
    BY <2>1 DEF CompareContracts
  <2>3. legal' = "pairing" => /\ old' = Segments(input.original.text)
                             /\ new' = Segments(input.revised.text)
    BY <2>1 DEF CompareContracts, End
  <2>4. QED
    BY <2>2, <2>3 DEF PairsDocuments
<1>3. CASE PairClause \/ ReportRemoved \/ ReportAdded \/ NextCategory
  BY <1>3 DEF PairClause, ReportRemoved, ReportAdded, NextCategory, PairsDocuments
<1>4. CASE ReportComparison
  BY <1>4 DEF ReportComparison, PairsDocuments
<1>5. CASE UNCHANGED legalVars
  BY <1>5 DEF legalVars, PairsDocuments
<1>6. QED
  BY <1>1, <1>2, <1>3, <1>4, <1>5 DEF LegalNext

-----------------------------------------------------------------------------
(* The best candidate *)

\* The clauses of a comparison are texts, and those with the same text are of
\* one category.
LEMMA ComparedClauses ==
    ASSUME PairsDocuments, legal = "pairing"
    PROVE  /\ Len(old) \in Nat /\ DOMAIN old = 1..Len(old)
           /\ Len(new) \in Nat /\ DOMAIN new = 1..Len(new)
           /\ \A i \in DOMAIN old : IsText(old[i].body)
           /\ \A j \in DOMAIN new : IsText(new[j].body)
           /\ \A i \in DOMAIN old, j \in DOMAIN new :
                 old[i].body = new[j].body => old[i].category = new[j].category
<1>1. /\ IsText(contract.original.text) /\ IsText(contract.revised.text)
      /\ old = Segments(contract.original.text)
      /\ new = Segments(contract.revised.text)
  BY RequestsWellFormed DEF PairsDocuments
<1>2. IsList(old) /\ IsList(new)
  BY <1>1, SegmentsOfText
<1>3. \A i \in DOMAIN old :
         /\ IsText(old[i].body)
         /\ old[i].category = Classify(HeadingOf(old[i].body), WordsOf(old[i].body))
  BY <1>1, ClauseByText
<1>4. \A j \in DOMAIN new :
         /\ IsText(new[j].body)
         /\ new[j].category = Classify(HeadingOf(new[j].body), WordsOf(new[j].body))
  BY <1>1, ClauseByText
<1>5. QED
  BY <1>2, <1>3, <1>4, ListDomain

LEMMA ProductsGrow ==
    ASSUME NEW a \in Nat, NEW b \in Nat, NEW d \in Nat
    PROVE  /\ a <= b => ~(a * d > d * b)
           /\ a < b /\ d > 0 => d * b > a * d
OBVIOUS

\* A candidate with the same text keeps a clause from ending without a pair,
\* and from a pair that stands behind it.
LEMMA TwinIsMatched ==
    ASSUME PairsDocuments, legal = "pairing",
           NEW i \in DOMAIN old, NEW j \in Candidates(i),
           old[i].body = new[j].body
    PROVE  /\ Best(i) # {}
           /\ \A k \in Best(i) :
                 /\ k \in Candidates(i) /\ k <= j
                 /\ ~Higher(Score(i, j), Score(i, k))
<1> DEFINE num(k) == Score(i, k).num
           den(k) == Score(i, k).den
           Top == {k \in Candidates(i) : num(k) = den(k)}
<1>1. /\ Candidates(i) \in SUBSET DOMAIN new
      /\ DOMAIN new = 1..Len(new) /\ Len(new) \in Nat
  BY ComparedClauses DEF Candidates, Available, Group
<1>2. \A k \in Candidates(i) :
         num(k) \in Nat /\ den(k) \in Nat /\ den(k) > 0 /\ num(k) <= den(k)
  BY <1>1, ComparedClauses, ScoreIsShare DEF Score
<1>3. num(j) = 1 /\ den(j) = 1
  BY <1>1, ComparedClauses, ScoreIsShare DEF Score
<1> HIDE DEF num, den
<1>4. j \in Top
  BY <1>3
<1>5. Top \in SUBSET Nat
  BY <1>1
<1>6. PICK m \in Top : \A k \in Top : m <= k
  BY <1>4, <1>5, LeastNumber
<1>7. m \in Best(i)
  <2>1. m \in Candidates(i) /\ num(m) = den(m) /\ den(m) \in Nat /\ den(m) > 0
    BY <1>2, <1>6
  <2>2. Similar(Score(i, m))
    BY <2>1 DEF Similar, num, den
  <2>3. ASSUME NEW k \in Candidates(i)
        PROVE  /\ ~Higher(Score(i, k), Score(i, m))
               /\ Higher(Score(i, m), Score(i, k)) \/ m <= k
    <3>1. num(k) \in Nat /\ den(k) \in Nat /\ num(k) <= den(k)
      BY <1>2
    <3>2. ~(num(k) * den(m) > den(m) * den(k))
      BY <2>1, <3>1, ProductsGrow
    <3>3. ~Higher(Score(i, k), Score(i, m))
      BY <2>1, <3>2 DEF Higher, num, den
    <3>4. CASE k \in Top
      BY <1>6, <3>3, <3>4
    <3>5. CASE k \notin Top
      <4>1. num(k) < den(k)
        BY <3>1, <3>5
      <4>2. den(m) * den(k) > num(k) * den(m)
        BY <2>1, <3>1, <4>1, ProductsGrow
      <4>3. Higher(Score(i, m), Score(i, k))
        BY <2>1, <4>2 DEF Higher, num, den
      <4>4. QED
        BY <3>3, <4>3
    <3>6. QED
      BY <3>4, <3>5
  <2>4. QED
    BY <2>1, <2>2, <2>3 DEF Best
<1>8. ASSUME NEW k \in Best(i)
      PROVE  /\ k \in Candidates(i) /\ k <= j
             /\ ~Higher(Score(i, j), Score(i, k))
  <2>1. /\ k \in Candidates(i)
        /\ ~Higher(Score(i, j), Score(i, k))
        /\ Higher(Score(i, k), Score(i, j)) \/ k <= j
    BY DEF Best
  <2>2. num(k) \in Nat /\ den(k) \in Nat /\ num(k) <= den(k)
    BY <1>2, <2>1
  <2>3. ~(num(k) * den(j) > num(j) * den(k))
    BY <1>3, <2>2
  <2>4. ~Higher(Score(i, k), Score(i, j))
    BY <2>3 DEF Higher, num, den
  <2>5. QED
    BY <2>1, <2>4
<1>9. QED
  BY <1>7, <1>8

\* How far a candidate is from its place is a number.
LEMMA RankIsNumber ==
    ASSUME PairsDocuments, legal = "pairing"
    PROVE  /\ \A k : Rank(Group(old), k) \in Nat /\ Rank(Group(new), k) \in Nat
           /\ IsFiniteSet(Group(old)) /\ Cardinality(Group(old)) \in Nat
           /\ IsFiniteSet(Group(new)) /\ Cardinality(Group(new)) \in Nat
<1>1. IsFiniteSet(DOMAIN old) /\ IsFiniteSet(DOMAIN new)
  BY ComparedClauses, FS_Interval
<1>2. Group(old) \in SUBSET DOMAIN old /\ Group(new) \in SUBSET DOMAIN new
  BY DEF Group
<1>3. IsFiniteSet(Group(old)) /\ IsFiniteSet(Group(new))
  BY <1>1, <1>2, FS_Subset
<1>4. ASSUME NEW k
      PROVE  Rank(Group(old), k) \in Nat /\ Rank(Group(new), k) \in Nat
  <2>1. /\ {l \in Group(old) : l < k} \in SUBSET Group(old)
        /\ {l \in Group(new) : l < k} \in SUBSET Group(new)
    OBVIOUS
  <2>2. QED
    BY <1>3, <2>1, FS_Subset, FS_CardinalityType DEF Rank
<1>5. QED
  BY <1>3, <1>4, FS_CardinalityType

LEMMA RoundingGivesNumber ==
    ASSUME NEW p \in Nat, NEW q \in Nat, q > 0
    PROVE  RoundHalfEven(p, q) \in Int
BY DEF RoundHalfEven

LEMMA PlaceIsNumber ==
    ASSUME PairsDocuments, legal = "pairing", NEW i, NEW k \in Group(new)
    PROVE  Projected(i) \in Int /\ Distance(Rank(Group(new), k), Projected(i)) \in Nat
<1>1. PICK r \in Nat : r = Rank(Group(old), i)
  BY RankIsNumber
<1>2. PICK m \in Nat : m = Cardinality(Group(new)) - 1
  <2>1. Cardinality(Group(new)) \in Nat /\ Cardinality(Group(new)) # 0
    BY RankIsNumber, FS_EmptySet
  <2>2. QED
    BY <2>1
<1>3. PICK q \in Nat : q > 0 /\ q = IF Cardinality(Group(old)) - 1 < 1 THEN 1
                                   ELSE Cardinality(Group(old)) - 1
  BY RankIsNumber
<1>4. r * m \in Nat
  OBVIOUS
<1>5. Projected(i) = RoundHalfEven(r * m, q)
  BY <1>1, <1>2, <1>3 DEF Projected
<1>6. Projected(i) \in Int
  BY <1>3, <1>4, <1>5, RoundingGivesNumber
<1>7. QED
  BY <1>6, RankIsNumber DEF Distance

\* A clause with that text that is free and still no candidate has as many
\* clauses before it as are looked at.
LEMMA OverlookedTwin ==
    ASSUME PairsDocuments, legal = "pairing",
           NEW i \in Group(old), NEW j \in Available, j \notin Candidates(i)
    PROVE  Cardinality({k \in DOMAIN new : new[k].category = old[i].category})
             > MaxCandidates
<1> DEFINE G == {k \in DOMAIN new : new[k].category = old[i].category}
           S == {k \in Available : Sooner(i, k, j)}
<1>1. IsFiniteSet(G)
  <2>1. IsFiniteSet(DOMAIN new)
    BY ComparedClauses, FS_Interval
  <2>2. G \in SUBSET DOMAIN new
    OBVIOUS
  <2>3. QED
    BY <2>1, <2>2, FS_Subset
<1>2. S \in SUBSET G /\ j \in G
  BY DEF Available, Group
<1>3. j \notin S
  <2>1. j \in Nat
    BY <1>2, ComparedClauses
  <2>2. PICK d \in Nat : d = Distance(Rank(Group(new), j), Projected(i))
    BY PlaceIsNumber DEF Available
  <2>3. ~Sooner(i, j, j)
    BY <2>1, <2>2 DEF Sooner
  <2>4. QED
    BY <2>3
<1>4. MaxCandidates \in Nat /\ ~(Cardinality(S) < MaxCandidates)
  BY ComparisonAssumption DEF Candidates
<1> HIDE DEF G, S
<1>5. IsFiniteSet(S) /\ Cardinality(S) \in Nat
  BY <1>1, <1>2, FS_Subset, FS_CardinalityType
<1>6. S \cup {j} \in SUBSET G
  BY <1>2
<1>7. Cardinality(S \cup {j}) = Cardinality(S) + 1
  BY <1>3, <1>5, FS_AddElement
<1>8. Cardinality(S \cup {j}) <= Cardinality(G) /\ Cardinality(G) \in Nat
  BY <1>1, <1>6, FS_Subset, FS_CardinalityType
<1>9. Cardinality(G) > MaxCandidates
  BY <1>4, <1>5, <1>7, <1>8
<1>10. QED
  BY <1>9 DEF G

-----------------------------------------------------------------------------
(* Twins *)

\* While the clauses are paired: those that have looked stand before those that
\* have not; until all have, a clause of the revision is in a change of one that
\* has; and the twins of every clause that has looked are kept.
LookedInOrder ==
    /\ tried \subseteq Group(old)
    /\ \A i \in Untried, k \in tried : k < i

FreeButForTried ==
    \A n \in DOMAIN changes :
        /\ Untried # {}
        /\ changes[n].category = category
        /\ changes[n].new # 0
        => changes[n].old \in tried

TwinsKept(i) ==
    \A j \in DOMAIN new : old[i].body = new[j].body => TwinKept(i, j)

Looked(i) == i \in tried \/ old[i].category \in done

TwinInv ==
    /\ legal = "pairing" =>
          /\ LookedInOrder
          /\ FreeButForTried
          /\ \A i \in DOMAIN old : Looked(i) => TwinsKept(i)
    /\ legal = "compared" => \A i \in DOMAIN old : TwinsKept(i)

\* The documents of a comparison whose texts are the same: what has looked has
\* found itself.
SameTexts ==
    legal \in {"pairing", "compared"}
    /\ contract.original.text = contract.revised.text

SameInv ==
    SameTexts =>
        /\ \A n \in DOMAIN changes :
              changes[n].status = "unchanged" /\ changes[n].old = changes[n].new
        /\ tried \subseteq Olds(changes)
        /\ legal = "compared" =>
              report.delta.new = {} /\ report.delta.resolved = {}

TwinsInv == AccountInv /\ PairsDocuments /\ TwinInv /\ SameInv

LEMMA Appended ==
    ASSUME NEW T, NEW list \in Seq(T), NEW c
    PROVE  /\ \A n \in DOMAIN list : /\ n \in DOMAIN Append(list, c)
                                     /\ Append(list, c)[n] = list[n]
           /\ \E n \in DOMAIN Append(list, c) : Append(list, c)[n] = c
           /\ \A n \in DOMAIN Append(list, c) :
                 n \in DOMAIN list \/ Append(list, c)[n] = c
<1>1. list \in Seq(T \cup {c}) /\ Len(list) \in Nat /\ DOMAIN list = 1..Len(list)
  <2>1. Len(list) \in Nat /\ list \in [1..Len(list) -> T]
    BY LenProperties
  <2>2. list \in [1..Len(list) -> T \cup {c}]
    BY <2>1
  <2>3. QED
    BY <2>1, <2>2, SeqDef
<1>2. /\ DOMAIN Append(list, c) = 1..(Len(list) + 1)
      /\ \A n \in 1..Len(list) : Append(list, c)[n] = list[n]
      /\ Append(list, c)[Len(list) + 1] = c
  <2>1. c \in T \cup {c}
    OBVIOUS
  <2>2. QED
    BY <1>1, <2>1, AppendProperties, LenProperties
<1>3. \A n \in 1..(Len(list) + 1) : n \in 1..Len(list) \/ n = Len(list) + 1
  BY <1>1
<1>4. \A n \in 1..Len(list) : n \in 1..(Len(list) + 1)
  BY <1>1
<1>5. Len(list) + 1 \in 1..(Len(list) + 1)
  BY <1>1
<1>6. QED
  BY <1>1, <1>2, <1>3, <1>4, <1>5

\* A twin that is kept stays so: a pair is never taken apart.
LEMMA TwinStays ==
    ASSUME UNCHANGED <<old, new>>, NEW i, NEW j, TwinKept(i, j),
           \A n \in DOMAIN changes :
              n \in DOMAIN changes' /\ changes'[n] = changes[n]
    PROVE  TwinKept(i, j)'
<1>1. \A a, b : Partnered(a, b) => Partnered(a, b)'
  BY DEF Partnered
<1>2. \A k : (Higher(Score(i, j), Score(i, k)))' <=> Higher(Score(i, j), Score(i, k))
  BY DEF Score, Higher
<1>3. (Cardinality({k \in DOMAIN new : new[k].category = old[i].category})
          > MaxCandidates)'
      <=> Cardinality({k \in DOMAIN new : new[k].category = old[i].category})
          > MaxCandidates
  OBVIOUS
<1>4. QED
  BY <1>1, <1>2, <1>3 DEF TwinKept

LEMMA TwinsStay ==
    ASSUME UNCHANGED <<old, new>>, NEW i, TwinsKept(i),
           \A n \in DOMAIN changes :
              n \in DOMAIN changes' /\ changes'[n] = changes[n]
    PROVE  TwinsKept(i)'
<1>1. \A j : TwinKept(i, j) => TwinKept(i, j)'
  BY TwinStays
<1>2. QED
  BY <1>1 DEF TwinsKept

LEMMA InitTwins == LegalInit => TwinsInv
<1> SUFFICES ASSUME LegalInit PROVE TwinsInv
  OBVIOUS
<1>1. legal = "idle"
  BY DEF LegalInit
<1>2. AccountInv
  BY InitAccount
<1>3. QED
  BY <1>1, <1>2 DEF TwinsInv, PairsDocuments, TwinInv, SameInv, SameTexts

\* A request starts with nothing looked for.
LEMMA RequestTwins ==
    ASSUME TwinsInv,
           \/ \E input \in Reviews : ReviewContract(input)
           \/ \E input \in Comparisons : CompareContracts(input)
    PROVE  TwinInv' /\ SameInv'
<1>1. /\ changes' = <<>> /\ done' = {} /\ tried' = {}
      /\ legal' \in {"refused", "failed", "reviewed", "pairing"}
  BY DEF TwinsInv, AccountInv, IdleInv, ReviewContract, CompareContracts, End,
         pairVars
<1>2. DOMAIN changes' = {}
  BY <1>1
<1>3. TwinInv'
  BY <1>1, <1>2 DEF TwinInv, LookedInOrder, FreeButForTried, Looked
<1>4. SameInv'
  BY <1>1, <1>2 DEF SameInv
<1>5. QED
  BY <1>3, <1>4

\* The twins of the clause that looks are kept.
LEMMA LookingKeepsTwins ==
    ASSUME TwinsInv, PairClause, NEW i \in Untried, \A k \in Untried : i <= k,
           \/ Best(i) = {} /\ UNCHANGED changes
           \/ \E j \in Best(i) : changes' = Append(changes, Paired(i, j)),
           NEW j \in DOMAIN new, old[i].body = new[j].body
    PROVE  TwinKept(i, j)'
<1>1. /\ legal = "pairing" /\ PairsDocuments
      /\ UNCHANGED <<old, new>>
      /\ LookedInOrder /\ FreeButForTried
      /\ Numbered /\ changes \in Seq(ChangeSet) /\ Sound(changes)
  BY DEF PairClause, TwinsInv, TwinInv, AccountInv, PairInv
<1>2. i \in DOMAIN old /\ old[i].category = category /\ i \in Group(old)
  BY DEF Untried, Group
<1>3. /\ new[j].category = category
      /\ i \in Nat /\ j \in Nat /\ DOMAIN new \subseteq Nat \ {0}
      /\ DOMAIN old \subseteq Nat \ {0}
  BY <1>1, <1>2, ComparedClauses
<1>4. \A n \in DOMAIN changes : n \in DOMAIN changes' /\ changes'[n] = changes[n]
  BY <1>1, Appended
<1>5. CASE j \notin Available
  <2>1. PICK n \in DOMAIN changes : changes[n].new = j
    BY <1>3, <1>5 DEF Available, Group, Reported
  <2>2. changes[n].category = category /\ changes[n].new # 0
    BY <1>1, <1>3, <2>1 DEF Sound, Fits
  <2>3. changes[n].old \in tried
    BY <1>1, <2>2 DEF FreeButForTried
  <2>4. changes[n].old \in DOMAIN old /\ changes[n].old < i
    BY <1>1, <2>3 DEF LookedInOrder, Group
  <2>5. changes[n].old \in 1..(i - 1)
    BY <1>3, <2>4
  <2>6. Partnered(changes[n].old, j)
    BY <2>1 DEF Partnered
  <2>7. TwinKept(i, j)
    BY <2>5, <2>6 DEF TwinKept
  <2>8. QED
    BY <1>1, <1>4, <2>7, TwinStays
<1>6. CASE j \in Available /\ j \notin Candidates(i)
  <2>1. Cardinality({k \in DOMAIN new : new[k].category = old[i].category})
          > MaxCandidates
    BY <1>1, <1>2, <1>6, OverlookedTwin
  <2>2. TwinKept(i, j)
    BY <2>1 DEF TwinKept
  <2>3. QED
    BY <1>1, <1>4, <2>2, TwinStays
<1>7. CASE j \in Candidates(i)
  <2>1. /\ Best(i) # {}
        /\ \A k \in Best(i) :
              /\ k \in Candidates(i) /\ k <= j
              /\ ~Higher(Score(i, j), Score(i, k))
    BY <1>1, <1>2, <1>7, TwinIsMatched
  <2>2. PICK k \in Best(i) : changes' = Append(changes, Paired(i, k))
    BY <2>1
  <2>3. Paired(i, k).old = i /\ Paired(i, k).new = k
    BY DEF Paired, Change
  <2>4. Partnered(i, k)'
    BY <1>1, <2>2, <2>3, Appended DEF Partnered
  <2>5. k \in DOMAIN new /\ k <= j
    BY <2>1 DEF Candidates, Available, Group
  <2>6. CASE k = j
    BY <2>4, <2>6 DEF TwinKept
  <2>7. CASE k # j
    <3>1. k \in 1..(j - 1)
      BY <1>3, <2>5, <2>7
    <3>2. ~(Higher(Score(i, j), Score(i, k)))'
      BY <1>1, <2>1 DEF Score, Higher
    <3>3. QED
      BY <2>4, <3>1, <3>2 DEF TwinKept
  <2>8. QED
    BY <2>6, <2>7
<1>8. QED
  BY <1>5, <1>6, <1>7

LEMMA PairClauseTwins ==
    ASSUME TwinsInv, PairClause
    PROVE  TwinInv'
<1>1. /\ legal = "pairing" /\ legal' = "pairing" /\ PairsDocuments
      /\ UNCHANGED <<old, new, category, done>>
      /\ LookedInOrder /\ FreeButForTried
      /\ \A k \in DOMAIN old : Looked(k) => TwinsKept(k)
      /\ changes \in Seq(ChangeSet)
  BY DEF PairClause, TwinsInv, TwinInv, AccountInv, PairInv
<1>2. PICK i \in Untried :
         /\ \A k \in Untried : i <= k
         /\ tried' = tried \cup {i}
         /\ \/ Best(i) = {} /\ UNCHANGED changes
            \/ \E j \in Best(i) : changes' = Append(changes, Paired(i, j))
  BY DEF PairClause
<1>3. i \in Group(old) /\ Group(old) \subseteq DOMAIN old /\ DOMAIN old \subseteq Nat
  BY <1>1, ComparedClauses DEF Untried, Group
<1>4. Group(old)' = Group(old) /\ Untried' = Untried \ {i}
  BY <1>1, <1>2 DEF Untried, Group
<1>5. LookedInOrder'
  <2>1. tried' \subseteq Group(old)'
    BY <1>1, <1>2, <1>3, <1>4 DEF LookedInOrder
  <2>2. \A u \in Untried' : u \in Nat /\ i <= u /\ u # i
    BY <1>2, <1>3, <1>4 DEF Untried
  <2>3. \A u \in Untried', k \in tried' : k < u
    BY <1>1, <1>2, <1>3, <1>4, <2>2 DEF LookedInOrder
  <2>4. QED
    BY <2>1, <2>3 DEF LookedInOrder
<1>6. \A n \in DOMAIN changes : n \in DOMAIN changes' /\ changes'[n] = changes[n]
  BY <1>1, <1>2, Appended
<1>7. \A n \in DOMAIN changes' :
         \/ n \in DOMAIN changes /\ changes'[n] = changes[n]
         \/ changes'[n].old = i
  <2>1. \A j : Paired(i, j).old = i
    BY DEF Paired, Change
  <2>2. QED
    BY <1>1, <1>2, <1>6, <2>1, Appended
<1>8. FreeButForTried'
  BY <1>1, <1>2, <1>7 DEF FreeButForTried
<1>9. ASSUME NEW k \in DOMAIN old', Looked(k)'
      PROVE  TwinsKept(k)'
  <2>1. CASE Looked(k)
    BY <1>1, <1>6, <1>9, <2>1, TwinsStay
  <2>2. CASE ~Looked(k)
    <3>1. k = i
      BY <1>1, <1>2, <1>9, <2>2 DEF Looked
    <3>2. \A j \in DOMAIN new : old[i].body = new[j].body => TwinKept(i, j)'
      BY <1>2, LookingKeepsTwins
    <3>3. QED
      BY <1>1, <3>1, <3>2 DEF TwinsKept
  <2>3. QED
    BY <2>1, <2>2
<1>10. QED
  BY <1>1, <1>5, <1>8, <1>9 DEF TwinInv

\* What is reported once all have looked changes nothing about the twins.
LEMMA ReportTwins ==
    ASSUME TwinsInv, ReportRemoved \/ ReportAdded
    PROVE  TwinInv'
<1>1. /\ legal = "pairing" /\ legal' = "pairing" /\ Untried = {}
      /\ UNCHANGED <<old, new, category, done, tried>>
      /\ LookedInOrder
      /\ \A k \in DOMAIN old : Looked(k) => TwinsKept(k)
      /\ changes \in Seq(ChangeSet)
  BY DEF ReportRemoved, ReportAdded, TwinsInv, TwinInv, AccountInv, PairInv
<1>2. \E c : changes' = Append(changes, c)
  BY DEF ReportRemoved, ReportAdded
<1>3. \A n \in DOMAIN changes : n \in DOMAIN changes' /\ changes'[n] = changes[n]
  BY <1>1, <1>2, Appended
<1>4. Untried' = {} /\ Group(old)' = Group(old)
  BY <1>1 DEF Untried, Group
<1>5. LookedInOrder' /\ FreeButForTried'
  BY <1>1, <1>4 DEF LookedInOrder, FreeButForTried
<1>6. \A k \in DOMAIN old' : Looked(k)' => TwinsKept(k)'
  BY <1>1, <1>3, TwinsStay DEF Looked
<1>7. QED
  BY <1>1, <1>5, <1>6 DEF TwinInv

\* A new category has no changes yet, and the one behind it has all looked.
LEMMA NextCategoryTwins ==
    ASSUME TwinsInv, NextCategory
    PROVE  TwinInv'
<1>1. /\ legal = "pairing" /\ legal' = "pairing" /\ CategoryFinished
      /\ UNCHANGED <<old, new, changes>> /\ done' = Finished /\ tried' = {}
      /\ \A k \in DOMAIN old : Looked(k) => TwinsKept(k)
      /\ Sound(changes)
  BY DEF NextCategory, TwinsInv, TwinInv, AccountInv, PairInv
<1>2. category' \notin Finished
  BY DEF NextCategory, Opens, Unfinished
<1>3. \A n \in DOMAIN changes' : changes'[n].category # category'
  BY <1>1, <1>2 DEF Sound, Fits
<1>4. FreeButForTried' /\ LookedInOrder'
  BY <1>1, <1>3 DEF FreeButForTried, LookedInOrder
<1>5. \A k \in DOMAIN old' : Looked(k)' => Looked(k)
  BY <1>1 DEF Looked, Finished, CategoryFinished, Untried, Group
<1>6. \A k \in DOMAIN old' : Looked(k)' => TwinsKept(k)'
  BY <1>1, <1>5, TwinsStay
<1>7. QED
  BY <1>1, <1>4, <1>6 DEF TwinInv

LEMMA ReportComparisonTwins ==
    ASSUME TwinsInv, ReportComparison
    PROVE  TwinInv'
<1>1. /\ legal = "pairing" /\ legal' = "compared" /\ CategoryFinished
      /\ Unfinished(old) = {}
      /\ UNCHANGED <<old, new, changes>>
      /\ \A k \in DOMAIN old : Looked(k) => TwinsKept(k)
  BY DEF ReportComparison, TwinsInv, TwinInv, pairVars
<1>2. \A k \in DOMAIN old : Looked(k)
  BY <1>1 DEF Looked, Unfinished, Finished, CategoryFinished, Untried, Group
<1>3. \A k \in DOMAIN old' : TwinsKept(k)'
  BY <1>1, <1>2, TwinsStay
<1>4. QED
  BY <1>1, <1>3 DEF TwinInv

-----------------------------------------------------------------------------
(* A contract compared with itself *)

LEMMA RankOrder ==
    ASSUME PairsDocuments, legal = "pairing",
           NEW k \in Group(new), NEW l \in Group(new), k < l
    PROVE  Rank(Group(new), k) < Rank(Group(new), l)
<1> DEFINE K == {x \in Group(new) : x < k}
           L == {x \in Group(new) : x < l}
<1>1. Group(new) \in SUBSET Nat
  BY ComparedClauses DEF Group
<1>2. K \in SUBSET L /\ k \in L /\ k \notin K
  BY <1>1
<1>3. IsFiniteSet(L)
  <2>1. L \in SUBSET Group(new)
    OBVIOUS
  <2>2. QED
    BY <2>1, RankIsNumber, FS_Subset
<1>4. Rank(Group(new), k) = Cardinality(K) /\ Rank(Group(new), l) = Cardinality(L)
  BY DEF Rank
<1> HIDE DEF K, L
<1>5. Cardinality(K) <= Cardinality(L) /\ Cardinality(K) # Cardinality(L)
  BY <1>2, <1>3, FS_Subset
<1>6. Cardinality(K) \in Nat /\ Cardinality(L) \in Nat
  BY <1>2, <1>3, FS_Subset, FS_CardinalityType
<1>7. QED
  BY <1>4, <1>5, <1>6

\* What is divided without a rest is not rounded.
LEMMA RoundingExact ==
    ASSUME NEW r \in Nat, NEW m \in Nat, m > 0
    PROVE  RoundHalfEven(r * m, m) = r
<1>1. (r * m) \div m = r /\ (r * m) % m = 0
  OBVIOUS
<1>2. QED
  BY <1>1 DEF RoundHalfEven

\* In a group of the same size a clause is expected at its own place.
LEMMA OwnPlace ==
    ASSUME PairsDocuments, legal = "pairing", old = new, NEW i \in Group(old)
    PROVE  Projected(i) = Rank(Group(new), i)
<1>1. PICK r \in Nat : r = Rank(Group(new), i)
  BY RankIsNumber
<1>2. PICK m \in Nat : m = Cardinality(Group(new)) - 1
  <2>1. Cardinality(Group(new)) \in Nat /\ Cardinality(Group(new)) # 0
    BY RankIsNumber, FS_EmptySet
  <2>2. QED
    BY <2>1
<1>3. Projected(i) = RoundHalfEven(r * m, IF m < 1 THEN 1 ELSE m)
  BY <1>1, <1>2 DEF Projected
<1>4. CASE m > 0
  BY <1>1, <1>3, <1>4, RoundingExact
<1>5. CASE m = 0
  <2>1. Group(new) = {i}
    <3>1. Cardinality(Group(new)) = 1
      BY <1>2, <1>5, RankIsNumber
    <3>2. PICK x : Group(new) = {x}
      BY <3>1, RankIsNumber, FS_Singleton
    <3>3. QED
      BY <3>2
  <2>2. i \in Nat
    BY ComparedClauses DEF Group
  <2>3. {l \in Group(new) : l < i} = {}
    BY <2>1, <2>2
  <2>4. r = 0
    BY <1>1, <2>3, FS_EmptySet DEF Rank
  <2>5. r * m = 0 * 1
    BY <1>5, <2>4
  <2>6. RoundHalfEven(0 * 1, 1) = 0
    BY RoundingExact
  <2>7. QED
    BY <1>1, <1>3, <1>5, <2>4, <2>5, <2>6
<1>6. QED
  BY <1>4, <1>5

\* No clause comes sooner than the copy in its own place.
LEMMA OwnPlaceFirst ==
    ASSUME PairsDocuments, legal = "pairing", old = new,
           NEW i \in Group(old), i \in Available
    PROVE  i \in Candidates(i)
<1>1. ASSUME NEW k \in Available
      PROVE  ~Sooner(i, k, i)
  <2>1. i \in Group(new) /\ k \in Group(new) /\ Group(new) \in SUBSET Nat
    BY <1>1, ComparedClauses DEF Available, Group
  <2>2. PICK r \in Nat : r = Rank(Group(new), i)
    BY RankIsNumber
  <2>3. PICK s \in Nat : s = Rank(Group(new), k)
    BY RankIsNumber
  <2>4. Projected(i) = r
    BY <2>2, OwnPlace
  <2>5. k < i => s < r
    BY <2>1, <2>2, <2>3, RankOrder
  <2>6. Distance(r, r) = 0 /\ Distance(s, r) \in Nat /\ (Distance(s, r) = 0 => s = r)
    BY <2>2, <2>3 DEF Distance
  <2>7. CASE old[i].heading = NoHeading
    BY <2>1, <2>2, <2>3, <2>4, <2>5, <2>6, <2>7 DEF Sooner
  <2>8. CASE old[i].heading # NoHeading
    BY <2>1, <2>2, <2>3, <2>4, <2>5, <2>6, <2>8 DEF Sooner
  <2>9. QED
    BY <2>7, <2>8
<1>2. {k \in Available : Sooner(i, k, i)} = {}
  BY <1>1
<1>3. Cardinality({k \in Available : Sooner(i, k, i)}) < MaxCandidates
  BY <1>2, FS_EmptySet, ComparisonAssumption
<1>4. QED
  BY <1>3 DEF Candidates

\* The next clause finds itself.
LEMMA FindsItself ==
    ASSUME TwinsInv, SameTexts, legal = "pairing",
           NEW i \in Untried, \A k \in Untried : i <= k
    PROVE  Best(i) = {i}
<1>1. /\ PairsDocuments /\ old = new
      /\ \A u \in Untried : u \notin Olds(changes)
      /\ \A n \in DOMAIN changes : changes[n].old = changes[n].new
      /\ tried \subseteq Olds(changes)
  BY DEF TwinsInv, AccountInv, PairInv, PairsDocuments, SameInv, SameTexts
<1>2. Olds(changes) = News(changes)
  BY <1>1 DEF Olds, News
<1>3. Group(old) = Group(new) /\ i \in Group(old) /\ Group(old) \in SUBSET Nat
  BY <1>1, ComparedClauses DEF Untried, Group
<1>4. Available = Group(old) \ Olds(changes)
  BY <1>2, <1>3, ReportedSides DEF Available
<1>5. i \in Candidates(i)
  BY <1>1, <1>3, <1>4, OwnPlaceFirst
<1>6. /\ Best(i) # {}
      /\ \A k \in Best(i) : k \in Candidates(i) /\ k <= i
  BY <1>1, <1>3, <1>5, TwinIsMatched DEF Group
<1>7. ASSUME NEW k \in Best(i)
      PROVE  k = i
  <2>1. k \in Available /\ k <= i
    BY <1>6 DEF Candidates
  <2>2. k \in Group(old) /\ k \notin tried
    BY <1>1, <1>4, <2>1
  <2>3. k \in Untried
    BY <2>2 DEF Untried
  <2>4. QED
    BY <1>3, <2>1, <2>2, <2>3
<1>8. QED
  BY <1>6, <1>7

LEMMA PairClauseSame ==
    ASSUME TwinsInv, PairClause
    PROVE  SameInv'
<1> SUFFICES ASSUME SameTexts' PROVE SameInv'
  BY DEF SameInv
<1>1. /\ legal = "pairing" /\ legal' = "pairing" /\ SameTexts
      /\ UNCHANGED <<old, new>> /\ old = new
      /\ changes \in Seq(ChangeSet)
      /\ \A n \in DOMAIN changes :
            changes[n].status = "unchanged" /\ changes[n].old = changes[n].new
      /\ tried \subseteq Olds(changes)
  BY DEF PairClause, SameTexts, SameInv, TwinsInv, PairsDocuments, AccountInv,
         PairInv
<1>2. PICK i \in Untried :
         /\ \A k \in Untried : i <= k
         /\ tried' = tried \cup {i}
         /\ \/ Best(i) = {} /\ UNCHANGED changes
            \/ \E j \in Best(i) : changes' = Append(changes, Paired(i, j))
  BY DEF PairClause
<1>3. Best(i) = {i}
  BY <1>1, <1>2, FindsItself
<1>4. changes' = Append(changes, Paired(i, i))
  BY <1>2, <1>3
<1>5. /\ Paired(i, i).status = "unchanged"
      /\ Paired(i, i).old = i /\ Paired(i, i).new = i
  BY <1>1 DEF Paired, Change
<1>6. \A n \in DOMAIN changes' :
         changes'[n].status = "unchanged" /\ changes'[n].old = changes'[n].new
  BY <1>1, <1>4, <1>5, Appended
<1>7. Olds(changes) \subseteq Olds(changes') /\ i \in Olds(changes')
  BY <1>1, <1>4, <1>5, Appended DEF Olds
<1>8. tried' \subseteq Olds(changes')
  BY <1>1, <1>2, <1>7
<1>9. QED
  BY <1>1, <1>6, <1>8 DEF SameInv, Olds

\* Once all have found themselves nothing was removed and nothing added.
LEMMA ReportSame ==
    ASSUME TwinsInv, ReportRemoved \/ ReportAdded
    PROVE  SameInv'
<1> SUFFICES ASSUME SameTexts' PROVE FALSE
  BY DEF SameInv
<1>1. /\ legal = "pairing" /\ SameTexts /\ old = new /\ Untried = {}
      /\ tried \subseteq Olds(changes)
      /\ \A n \in DOMAIN changes : changes[n].old = changes[n].new
  BY DEF ReportRemoved, ReportAdded, SameTexts, SameInv, TwinsInv, PairsDocuments
<1>2. Olds(changes) = News(changes)
  BY <1>1 DEF Olds, News
<1>3. Group(old) \subseteq Olds(changes) /\ Group(new) \subseteq News(changes)
  BY <1>1, <1>2 DEF Untried, Group
<1>4. Unpaired = {} /\ Available = {}
  BY <1>3, ReportedSides DEF Unpaired, Available
<1>5. QED
  BY <1>4 DEF ReportRemoved, ReportAdded

LEMMA ReportComparisonSame ==
    ASSUME TwinsInv, ReportComparison
    PROVE  SameInv'
<1> SUFFICES ASSUME SameTexts' PROVE SameInv'
  BY DEF SameInv
<1>1. /\ legal = "pairing" /\ SameTexts /\ legal' = "compared"
      /\ UNCHANGED <<contract, old, new, pairVars>>
      /\ report' = Compared
      /\ contract.original.text = contract.revised.text
      /\ \A n \in DOMAIN changes :
            changes[n].status = "unchanged" /\ changes[n].old = changes[n].new
      /\ tried \subseteq Olds(changes)
  BY DEF ReportComparison, SameTexts, SameInv, TwinsInv, pairVars
<1>2. report'.delta = RiskDelta(Findings(contract.original.text, contract.playbook),
                                Findings(contract.revised.text, contract.playbook))
  BY <1>1 DEF Compared
<1>3. report'.delta.new = {} /\ report'.delta.resolved = {}
  BY <1>1, <1>2 DEF RiskDelta
<1>4. QED
  BY <1>1, <1>3 DEF SameInv, pairVars, Olds

LEMMA NextTwins == TwinsInv /\ [LegalNext]_legalVars => TwinsInv'
<1> SUFFICES ASSUME TwinsInv, [LegalNext]_legalVars
             PROVE  TwinsInv'
  OBVIOUS
<1>1. AccountInv' /\ PairsDocuments'
  BY NextAccount, NextDocuments DEF TwinsInv
<1>2. CASE \/ \E input \in Reviews : ReviewContract(input)
           \/ \E input \in Comparisons : CompareContracts(input)
  BY <1>1, <1>2, RequestTwins DEF TwinsInv
<1>3. CASE PairClause
  BY <1>1, <1>3, PairClauseTwins, PairClauseSame DEF TwinsInv
<1>4. CASE ReportRemoved \/ ReportAdded
  BY <1>1, <1>4, ReportTwins, ReportSame DEF TwinsInv
<1>5. CASE NextCategory
  <2>1. SameInv'
    BY <1>5 DEF TwinsInv, NextCategory, SameInv, SameTexts, Olds
  <2>2. QED
    BY <1>1, <1>5, <2>1, NextCategoryTwins DEF TwinsInv
<1>6. CASE ReportComparison
  BY <1>1, <1>6, ReportComparisonTwins, ReportComparisonSame DEF TwinsInv
<1>7. CASE UNCHANGED legalVars
  <2>1. /\ UNCHANGED <<legal, contract, old, new, category, done, tried>>
        /\ UNCHANGED <<changes, report>>
    BY <1>7 DEF legalVars, pairVars
  <2>2. SameInv'
    BY <2>1 DEF TwinsInv, SameInv, SameTexts, Olds
  <2>3. \A k : TwinsKept(k) => TwinsKept(k)'
    BY <2>1, TwinsStay
  <2>4. TwinInv'
    BY <2>1, <2>3 DEF TwinsInv, TwinInv, LookedInOrder, FreeButForTried, Looked,
                      Untried, Group
  <2>5. QED
    BY <1>1, <2>2, <2>4 DEF TwinsInv
<1>8. QED
  BY <1>2, <1>3, <1>4, <1>5, <1>6, <1>7 DEF LegalNext

\* A clause that the revision left as it was is found again, unless its copy was
\* taken by an earlier clause, an equal one stands before it, or it stands behind
\* the clauses that are looked at; and a contract compared with itself has not
\* changed, for texts of any size and every cap (_pair_clauses).
THEOREM TwinsArePaired == LegalSpec => []TwinsPaired
<1>1. TwinsInv => TwinsPaired
  BY DEF TwinsInv, TwinInv, TwinsKept, SameInv, SameTexts, TwinsPaired
<1>2. QED
  BY <1>1, InitTwins, NextTwins, PTL DEF LegalSpec
=============================================================================

---------------------------- MODULE PrivacyProofs ----------------------------
(***************************************************************************)
(* Proofs about the privacy engine and its clients, for every value of the *)
(* constants: restoring what was tokenized gives the text back, whatever   *)
(* else has gone through the vault in between.                             *)
(*                                                                         *)
(* Tokenizing a text is a recursion over its findings, and a document is a *)
(* recursion over its texts.  The proofs follow such a fold turn by turn   *)
(* (Runs, FoldedRuns), and argue from the least turn at which something    *)
(* would fail, as the prover has no induction.                             *)
(***************************************************************************)
EXTENDS ContractComparisonProofs, PrivacyProxy


-----------------------------------------------------------------------------
(* Induction and folds *)

\* What holds at the start and is handed on holds as far as it is handed.
LEMMA Reached ==
    ASSUME NEW n \in Nat, NEW S, 0 \in S,
           \A k \in 1..n : k - 1 \in S => k \in S
    PROVE  \A k \in 0..n : k \in S
<1> DEFINE Bad == {k \in 0..n : k \notin S}
<1>1. SUFFICES ASSUME Bad # {} PROVE FALSE
  OBVIOUS
<1>2. Bad \in SUBSET Nat
  OBVIOUS
<1>3. PICK m \in Bad : \A k \in Bad : m <= k
  BY <1>1, <1>2, LeastNumber
<1>4. m \in 1..n /\ m \notin S /\ m - 1 \in 0..n /\ ~(m <= m - 1)
  BY <1>3
<1>5. m - 1 \in S
  BY <1>3, <1>4
<1>6. QED
  BY <1>4, <1>5

LEMMA GreatestNumber ==
    ASSUME NEW n \in Nat, NEW s \in SUBSET (1..n), s # {}
    PROVE  Max(s) \in s /\ \A y \in s : y <= Max(s)
<1>1. IsFiniteSet(1..n)
  BY FS_Interval
<1>2. IsFiniteSet(s)
  BY <1>1, FS_Subset
<1>2a. \A x \in s : x \in Int
  OBVIOUS
<1>3. PICK m \in s : \A y \in s : y <= m
  BY <1>2, <1>2a, GreatestOf
<1>4. \E x \in s : \A y \in s : x >= y
  BY <1>2a, <1>3
<1>5. Max(s) \in s /\ \A y \in s : Max(s) >= y
  BY <1>4 DEF Max
<1>6. QED
  BY <1>2a, <1>5

\* One step of each of the folds of module TokenVault.
Turn(fold, past, x) ==
    IF fold.kind = "tokenize"
    THEN LET detector == Policies[fold.policy][x.detector]
             value == SubSeq(fold.text, x.first, x.last)
         IN [text |-> Splice(past.text, x,
                             TokenFor(past.vault, detector.type, value)),
             vault |-> Remember(past.vault, detector.type, value,
                                detector.length)]
    ELSE IF fold.kind = "mask"
    THEN Splice(past, x, Masked(Policies[fold.policy][x.detector].type))
    ELSE IF fold.kind = "document"
    THEN LET one == TokenizeText(x.text, fold.policy, past.vault)
         IN [document |-> Append(past.document, Leaf(x.path, one.text)),
             vault |-> one.vault]
    ELSE FlattenSeq([k \in DOMAIN past |->
            IF past[k] = fold.vault[x].token THEN fold.vault[x].value
                                             ELSE <<past[k]>>])

\* What MapThenFoldSet() computes for the sets of the first n places.
Folded(fold, base, seq, n, w) ==
    w = [s \in SUBSET (1..n) |->
           IF s = {} THEN base
           ELSE Turn(fold, w[s \ {Max(s)}], seq[Max(s)])]

LEMMA FoldedNext ==
    ASSUME NEW fold, NEW base, NEW seq, NEW n \in Nat \ {0},
           NEW v, Folded(fold, base, seq, n - 1, v)
    PROVE  \E w : Folded(fold, base, seq, n, w)
<1>1. PICK w : w = [s \in SUBSET (1..n) |->
                      IF n \in s THEN Turn(fold, v[s \ {n}], seq[n])
                      ELSE v[s]]
  OBVIOUS
<1>2. \A s \in SUBSET (1..n) : n \notin s => s \in SUBSET (1..(n-1))
  <2>1. \A k \in 1..n : k = n \/ k \in 1..(n-1)
    OBVIOUS
  <2>2. QED
    BY <2>1
<1>3. DOMAIN w = SUBSET (1..n)
  BY <1>1
<1>4. ASSUME NEW s \in SUBSET (1..n)
      PROVE  w[s] = IF s = {} THEN base
                    ELSE Turn(fold, w[s \ {Max(s)}], seq[Max(s)])
  <2>1. CASE n \in s
    <3>1. s # {} /\ n \in Nat
      BY <2>1
    <3>2. Max(s) \in s /\ n <= Max(s)
      BY <2>1, <3>1, GreatestNumber
    <3>3. Max(s) = n
      <4>1. Max(s) \in 1..n
        BY <3>2
      <4>2. QED
        BY <3>2, <4>1
    <3>4. s \ {n} \in SUBSET (1..n) /\ n \notin s \ {n}
      OBVIOUS
    <3>5. w[s \ {n}] = v[s \ {n}] /\ w[s] = Turn(fold, v[s \ {n}], seq[n])
      BY <1>1, <2>1, <3>4
    <3>6. QED
      BY <3>1, <3>3, <3>5
  <2>2. CASE n \notin s
    <3>1. s \in SUBSET (1..(n-1)) /\ w[s] = v[s]
      BY <1>1, <1>2, <2>2
    <3>2. v[s] = IF s = {} THEN base
                 ELSE Turn(fold, v[s \ {Max(s)}], seq[Max(s)])
      BY <3>1 DEF Folded
    <3>3. s \ {Max(s)} \in SUBSET (1..n) /\ n \notin s \ {Max(s)}
      BY <2>2
    <3>4. w[s \ {Max(s)}] = v[s \ {Max(s)}]
      BY <1>1, <3>3
    <3>5. QED
      BY <3>1, <3>2, <3>4
  <2>3. QED
    BY <2>1, <2>2
<1>5. w = [s \in SUBSET (1..n) |->
             IF s = {} THEN base
             ELSE Turn(fold, w[s \ {Max(s)}], seq[Max(s)])]
  BY <1>1, <1>3, <1>4
<1>6. QED
  BY <1>5 DEF Folded

LEMMA FoldedExists ==
    ASSUME NEW fold, NEW base, NEW seq, NEW n \in Nat
    PROVE  \E w : Folded(fold, base, seq, n, w)
<1> DEFINE S == {k \in 0..n : \E w : Folded(fold, base, seq, k, w)}
<1>1. 0 \in S
  <2>1. PICK w : w = [s \in SUBSET (1..0) |-> base]
    OBVIOUS
  <2>2. \A s \in SUBSET (1..0) : s = {}
    OBVIOUS
  <2>3. w = [s \in SUBSET (1..0) |->
               IF s = {} THEN base
               ELSE Turn(fold, w[s \ {Max(s)}], seq[Max(s)])]
    BY <2>1, <2>2
  <2>4. Folded(fold, base, seq, 0, w)
    BY <2>3 DEF Folded
  <2>5. QED
    BY <2>4
<1>2. ASSUME NEW k \in 1..n, k - 1 \in S PROVE k \in S
  <2>1. PICK v : Folded(fold, base, seq, k - 1, v)
    BY <1>2
  <2>2. k \in Nat \ {0}
    OBVIOUS
  <2>3. \E w : Folded(fold, base, seq, k, w)
    BY <2>1, <2>2, FoldedNext
  <2>4. QED
    BY <2>3
<1> HIDE DEF S
<1>3. \A k \in 0..n : k \in S
  BY <1>1, <1>2, Reached
<1>4. n \in 0..n
  OBVIOUS
<1>5. QED
  BY <1>3, <1>4 DEF S

\* The results of a fold, turn by turn.
Runs(fold, base, seq, r) ==
    /\ r[0] = base
    /\ \A k \in 1..Len(seq) : r[k] = Turn(fold, r[k-1], seq[k])

LEMMA FoldedRuns ==
    ASSUME NEW fold, NEW base, NEW seq, NEW n \in Nat, Len(seq) = n,
           NEW w, Folded(fold, base, seq, n, w)
    PROVE  \E r : Runs(fold, base, seq, r) /\ r[n] = w[1..n]
<1>1. PICK r : r = [k \in 0..n |-> w[1..k]]
  OBVIOUS
<1>2. \A s \in SUBSET (1..n) :
         w[s] = IF s = {} THEN base
                ELSE Turn(fold, w[s \ {Max(s)}], seq[Max(s)])
  BY DEF Folded
<1>3. r[0] = base
  <2>1. 1..0 = {} /\ {} \in SUBSET (1..n)
    OBVIOUS
  <2>2. w[{}] = base
    BY <1>2, <2>1
  <2>3. r[0] = w[1..0]
    BY <1>1
  <2>4. QED
    BY <2>1, <2>2, <2>3
<1>4. ASSUME NEW k \in 1..n PROVE r[k] = Turn(fold, r[k-1], seq[k])
  <2>1. 1..k \in SUBSET (1..n) /\ 1..k # {} /\ k \in 1..k
    OBVIOUS
  <2>2. Max(1..k) = k
    <3>1. Max(1..k) \in 1..k /\ k <= Max(1..k)
      BY <2>1, GreatestNumber
    <3>2. QED
      BY <3>1
  <2>3. (1..k) \ {k} = 1..(k-1)
    OBVIOUS
  <2>4. w[1..k] = Turn(fold, w[1..(k-1)], seq[k])
    BY <1>2, <2>1, <2>2, <2>3
  <2>5. r[k] = w[1..k] /\ r[k-1] = w[1..(k-1)]
    BY <1>1
  <2>6. QED
    BY <2>4, <2>5
<1>5. r[n] = w[1..n]
  BY <1>1
<1>6. QED
  BY <1>3, <1>4, <1>5 DEF Runs

-----------------------------------------------------------------------------
(* Lists that are joined and cut *)

LEMMA ListOf ==
    ASSUME NEW T, NEW s \in Seq(T)
    PROVE  IsList(s) /\ ToSet(s) \subseteq T
<1>1. Len(s) \in Nat /\ s \in [1..Len(s) -> T]
  BY LenProperties
<1>2. IsList(s)
  BY <1>1, ListOfInterval
<1>3. ToSet(s) \subseteq T
  BY <1>1 DEF ToSet
<1>4. QED
  BY <1>2, <1>3

LEMMA ListIn ==
    ASSUME NEW s, IsList(s), NEW T, ToSet(s) \subseteq T
    PROVE  s \in Seq(T)
BY SeqMonotonic DEF IsList

LEMMA SameList ==
    ASSUME NEW s, IsList(s), NEW t, IsList(t), Len(s) = Len(t),
           \A i \in 1..Len(s) : s[i] = t[i]
    PROVE  s = t
<1>1. Len(s) \in Nat /\ DOMAIN s = 1..Len(s) /\ s \in [1..Len(s) -> ToSet(s)]
  BY ListDomain
<1>2. Len(t) \in Nat /\ DOMAIN t = 1..Len(t) /\ t \in [1..Len(t) -> ToSet(t)]
  BY ListDomain
<1>3. QED
  BY <1>1, <1>2

LEMMA OneElement ==
    ASSUME NEW c
    PROVE  /\ IsList(<<c>>)
           /\ Len(<<c>>) = 1
           /\ <<c>>[1] = c
           /\ ToSet(<<c>>) = {c}
<1>1. ToSet(<<c>>) = {c}
  BY DEF ToSet
<1>2. <<c>> \in Seq({c})
  OBVIOUS
<1>3. QED
  BY <1>1, <1>2 DEF IsList

LEMMA NoElement ==
    IsList(<< >>) /\ Len(<< >>) = 0 /\ ToSet(<< >>) = {}
<1>1. ToSet(<< >>) = {}
  BY DEF ToSet
<1>2. QED
  BY <1>1, EmptySeq DEF IsList

\* Two lists in one: a name that keeps the provers from unfolding it.
Join(s, t) == s \o t

LEMMA JoinedLists ==
    ASSUME NEW s, IsList(s), NEW t, IsList(t)
    PROVE  /\ IsList(Join(s, t))
           /\ Len(Join(s, t)) = Len(s) + Len(t)
           /\ \A i \in 1..Len(s) : Join(s, t)[i] = s[i]
           /\ \A i \in 1..Len(t) : Join(s, t)[Len(s) + i] = t[i]
           /\ ToSet(Join(s, t)) = ToSet(s) \cup ToSet(t)
<1>1. PICK T : T = ToSet(s) \cup ToSet(t)
  OBVIOUS
<1>2. s \in Seq(T) /\ t \in Seq(T)
  BY <1>1, ListIn
<1>3. PICK u : u = Join(s, t)
  OBVIOUS
<1>4. /\ u \in Seq(T)
      /\ Len(u) = Len(s) + Len(t)
      /\ \A i \in 1..Len(s) + Len(t) :
            u[i] = IF i <= Len(s) THEN s[i] ELSE t[i - Len(s)]
  BY <1>2, <1>3, ConcatProperties DEF Join
<1>5. Len(s) \in Nat /\ Len(t) \in Nat /\ DOMAIN s = 1..Len(s)
      /\ DOMAIN t = 1..Len(t)
  BY ListDomain
<1>6. IsList(u) /\ ToSet(u) \subseteq T /\ DOMAIN u = 1..Len(u)
  BY <1>4, ListOf, ListDomain
<1>7. \A i \in 1..Len(s) : u[i] = s[i]
  BY <1>4, <1>5
<1>8. \A i \in 1..Len(t) : u[Len(s) + i] = t[i]
  <2>1. ASSUME NEW i \in 1..Len(t) PROVE u[Len(s) + i] = t[i]
    <3>1. Len(s) + i \in 1..Len(s) + Len(t) /\ ~(Len(s) + i <= Len(s))
          /\ Len(s) + i - Len(s) = i
      BY <1>5
    <3>2. QED
      BY <1>4, <3>1
  <2>2. QED
    BY <2>1
<1>9. T \subseteq ToSet(u)
  <2>1. ASSUME NEW x \in ToSet(s) PROVE x \in ToSet(u)
    <3>1. PICK i \in 1..Len(s) : s[i] = x
      BY <1>5 DEF ToSet
    <3>2. i \in DOMAIN u /\ u[i] = x
      BY <1>4, <1>5, <1>6, <1>7, <3>1
    <3>3. QED
      BY <3>2 DEF ToSet
  <2>2. ASSUME NEW x \in ToSet(t) PROVE x \in ToSet(u)
    <3>1. PICK i \in 1..Len(t) : t[i] = x
      BY <1>5 DEF ToSet
    <3>2. Len(s) + i \in DOMAIN u /\ u[Len(s) + i] = x
      BY <1>4, <1>5, <1>6, <1>8, <3>1
    <3>3. QED
      BY <3>2 DEF ToSet
  <2>3. QED
    BY <1>1, <2>1, <2>2
<1>10. ToSet(u) = ToSet(s) \cup ToSet(t)
  BY <1>1, <1>6, <1>9
<1>11. QED
  BY <1>3, <1>4, <1>6, <1>7, <1>8, <1>10

LEMMA JoinedInTurn ==
    ASSUME NEW s, IsList(s), NEW t, IsList(t), NEW u, IsList(u)
    PROVE  Join(Join(s, t), u) = Join(s, Join(t, u))
<1>1. PICK T : T = ToSet(s) \cup ToSet(t) \cup ToSet(u)
  OBVIOUS
<1>2. s \in Seq(T) /\ t \in Seq(T) /\ u \in Seq(T)
  BY <1>1, ListIn
<1>3. QED
  BY <1>2, ConcatAssociative DEF Join

LEMMA JoinedToNothing ==
    ASSUME NEW s, IsList(s)
    PROVE  Join(s, << >>) = s /\ Join(<< >>, s) = s
BY ConcatEmptySeq DEF IsList, Join

LEMMA PartOfList ==
    ASSUME NEW s, IsList(s), NEW i \in 1..Len(s) + 1, NEW j \in i - 1..Len(s)
    PROVE  /\ IsList(SubSeq(s, i, j))
           /\ Len(SubSeq(s, i, j)) = j - i + 1
           /\ \A k \in 1..j - i + 1 : SubSeq(s, i, j)[k] = s[i + k - 1]
           /\ ToSet(SubSeq(s, i, j)) \subseteq ToSet(s)
<1>1. /\ Len(s) \in Nat
      /\ \A k \in 1..Len(s) : s[k] \in ToSet(s)
  BY ListDomain
<1>2. i \in Int /\ j \in Int /\ \A k \in i..j : s[k] \in ToSet(s)
  BY <1>1
<1>3. /\ SubSeq(s, i, j) \in Seq(ToSet(s))
      /\ Len(SubSeq(s, i, j)) = IF i <= j THEN j - i + 1 ELSE 0
      /\ \A k \in 1 .. j - i + 1 : SubSeq(s, i, j)[k] = s[i + k - 1]
  BY <1>2, SubSeqProperties
<1>4. Len(SubSeq(s, i, j)) = j - i + 1
  BY <1>1, <1>3
<1>5. QED
  BY <1>3, <1>4, ListOf

LEMMA CutInThree ==
    ASSUME NEW s, IsList(s), NEW i \in 1..Len(s), NEW j \in i..Len(s)
    PROVE  s = Join(Join(SubSeq(s, 1, i - 1), SubSeq(s, i, j)),
                    SubSeq(s, j + 1, Len(s)))
<1>1. s \in Seq(ToSet(s)) /\ Len(s) \in Nat
  BY ListDomain DEF IsList
<1>2. SubSeq(s, 1, i - 1) \o SubSeq(s, i, j) = SubSeq(s, 1, j)
  <2>1. 1 \in 1..Len(s) + 1 /\ i - 1 \in 1 - 1..Len(s) /\ j \in i - 1..Len(s)
        /\ i - 1 + 1 = i
    BY <1>1
  <2>2. SubSeq(s, 1, i - 1) \o SubSeq(s, i - 1 + 1, j) = SubSeq(s, 1, j)
    BY <1>1, <2>1, ConcatAdjacentSubSeq
  <2>3. QED
    BY <2>1, <2>2
<1>3. SubSeq(s, 1, j) \o SubSeq(s, j + 1, Len(s)) = SubSeq(s, 1, Len(s))
  <2>1. 1 \in 1..Len(s) + 1 /\ j \in 1 - 1..Len(s) /\ Len(s) \in j..Len(s)
    BY <1>1
  <2>2. QED
    BY <1>1, <2>1, ConcatAdjacentSubSeq
<1>4. SubSeq(s, 1, Len(s)) = s
  BY <1>1, SubSeqFull
<1>5. QED
  BY <1>2, <1>3, <1>4 DEF Join

\* What FlattenSeq() has after each of its lists.
Gathered(seqs, f) ==
    /\ f[0] = << >>
    /\ \A k \in 1..Len(seqs) : f[k] = f[k-1] \o seqs[k]

LEMMA FlattenedTurns ==
    ASSUME NEW T, NEW seqs \in Seq(Seq(T))
    PROVE  \E f : /\ Gathered(seqs, f)
                  /\ f[Len(seqs)] = FlattenSeq(seqs)
                  /\ \A k \in 0..Len(seqs) : f[k] \in Seq(T)
<1> DEFINE n == Len(seqs)
<1>0. n \in Nat /\ \A i \in 1..n : seqs[i] \in Seq(T)
  BY LenProperties, ElementOfSeq
<1>1. CASE n = 0
  <2>1. seqs = << >>
    BY <1>1, EmptySeq
  <2>2. FlattenSeq(seqs) = << >>
    BY <1>1, <2>1 DEF FlattenSeq
  <2>3. PICK f : f = [k \in 0..0 |-> << >>]
    OBVIOUS
  <2>4. << >> \in Seq(T)
    BY EmptySeq
  <2>5. QED
    BY <1>1, <2>2, <2>3, <2>4 DEF Gathered
<1>2. CASE n # 0
  <2> DEFINE F(f) == [i \in 1..Len(seqs) |->
                        IF i = 1 THEN seqs[i] ELSE f[i-1] \o seqs[i]]
             flat == CHOOSE f : f = F(f)
  <2>1. FlattenSeq(seqs) = flat[Len(seqs)]
    BY <1>2 DEF FlattenSeq
  <2>2. PICK g : Joined(seqs, T, Len(seqs), g)
    <3>1. Len(seqs) \in 0..Len(seqs)
      BY <1>0
    <3>2. QED
      BY <3>1, JoinedExists
  <2>3. g = F(g)
    BY <2>2 DEF Joined
  <2>4. flat = F(flat)
    BY <2>3
  <2> HIDE DEF flat
  <2>5. \A i \in 1..n :
           flat[i] = IF i = 1 THEN seqs[i] ELSE flat[i-1] \o seqs[i]
    BY <2>4
  <2>6. PICK f : f = [k \in 0..n |-> IF k = 0 THEN << >> ELSE flat[k]]
    OBVIOUS
  <2>7. f[0] = << >> /\ \A k \in 1..n : f[k] = flat[k]
    BY <1>0, <2>6
  <2>8. ASSUME NEW k \in 1..n PROVE f[k] = f[k-1] \o seqs[k]
    <3>1. CASE k = 1
      <4>1. f[k] = seqs[k] /\ f[k-1] = << >> /\ seqs[k] \in Seq(T)
        BY <1>0, <2>5, <2>7, <3>1
      <4>2. QED
        BY <4>1, ConcatEmptySeq
    <3>2. CASE k # 1
      <4>1. k - 1 \in 1..n
        BY <1>0, <3>2
      <4>2. QED
        BY <2>5, <2>7, <3>2, <4>1
    <3>3. QED
      BY <3>1, <3>2
  <2> DEFINE S == {k \in 0..n : f[k] \in Seq(T)}
  <2>9. 0 \in S
    <3>1. << >> \in Seq(T)
      BY EmptySeq
    <3>2. f[0] \in Seq(T)
      BY <2>7, <3>1
    <3>3. 0 \in 0..n
      BY <1>0
    <3>4. QED
      BY <3>2, <3>3
  <2>10. ASSUME NEW k \in 1..n, k - 1 \in S PROVE k \in S
    <3>1. f[k-1] \in Seq(T) /\ seqs[k] \in Seq(T)
      BY <1>0, <2>10
    <3>2. f[k] \in Seq(T)
      BY <2>8, <3>1, ConcatProperties
    <3>3. QED
      BY <1>0, <3>2
  <2> HIDE DEF S
  <2>11. \A k \in 0..n : k \in S
    BY <1>0, <2>9, <2>10, Reached
  <2>12. \A k \in 0..n : f[k] \in Seq(T)
    BY <2>11 DEF S
  <2>13. n \in 1..n
    BY <1>0, <1>2
  <2>14. f[n] = FlattenSeq(seqs)
    BY <2>1, <2>7, <2>13
  <2>15. Gathered(seqs, f)
    BY <2>7, <2>8 DEF Gathered
  <2>16. QED
    BY <2>12, <2>14, <2>15
<1>3. QED
  BY <1>1, <1>2

-----------------------------------------------------------------------------
(* One token gives way to its value *)

Piece(atom, token, value) == IF atom = token THEN value ELSE <<atom>>

Replaced(text, token, value) ==
    FlattenSeq([k \in DOMAIN text |-> Piece(text[k], token, value)])

\* What has become of the atoms up to each of them.
Replacing(text, token, value, f) ==
    /\ f[0] = << >>
    /\ \A k \in 1..Len(text) : f[k] = Join(f[k-1], Piece(text[k], token, value))
    /\ \A k \in 0..Len(text) : IsList(f[k])

LEMMA PieceIsList ==
    ASSUME NEW atom, NEW token, NEW value, IsList(value)
    PROVE  IsList(Piece(atom, token, value))
BY OneElement DEF Piece

LEMMA ReplacedTurns ==
    ASSUME NEW text, IsList(text), NEW token, NEW value, IsList(value)
    PROVE  \E f : /\ Replacing(text, token, value, f)
                  /\ f[Len(text)] = Replaced(text, token, value)
<1>1. Len(text) \in Nat /\ DOMAIN text = 1..Len(text)
  BY ListDomain
<1>2. PICK T : T = ToSet(text) \cup ToSet(value)
  OBVIOUS
<1>3. PICK seqs : seqs = [k \in 1..Len(text) |-> Piece(text[k], token, value)]
  OBVIOUS
<1>4. ASSUME NEW k \in 1..Len(text) PROVE seqs[k] \in Seq(T)
  <2>1. text[k] \in ToSet(text)
    BY <1>1, ListDomain
  <2>2. ToSet(Piece(text[k], token, value)) \subseteq T
    BY <1>2, <2>1, OneElement DEF Piece
  <2>3. QED
    BY <1>3, <2>2, PieceIsList, ListIn
<1>5. seqs \in [1..Len(text) -> Seq(T)]
  BY <1>3, <1>4
<1>6. seqs \in Seq(Seq(T))
  BY <1>1, <1>5, SeqDef
<1>7. Len(seqs) = Len(text)
  BY <1>1, <1>5, <1>6, LenProperties
<1>8. PICK f : /\ Gathered(seqs, f)
               /\ f[Len(seqs)] = FlattenSeq(seqs)
               /\ \A k \in 0..Len(seqs) : f[k] \in Seq(T)
  BY <1>6, FlattenedTurns
<1>9. FlattenSeq(seqs) = Replaced(text, token, value)
  BY <1>1, <1>3 DEF Replaced
<1>10. \A k \in 0..Len(text) : IsList(f[k])
  BY <1>7, <1>8, ListOf
<1>11. f[0] = << >>
       /\ \A k \in 1..Len(text) : f[k] = Join(f[k-1], Piece(text[k], token, value))
  BY <1>3, <1>7, <1>8 DEF Gathered, Join
<1>12. QED
  BY <1>7, <1>8, <1>9, <1>10, <1>11 DEF Replacing

LEMMA ReplacedIsList ==
    ASSUME NEW text, IsList(text), NEW token, NEW value, IsList(value)
    PROVE  IsList(Replaced(text, token, value))
<1>1. PICK f : /\ Replacing(text, token, value, f)
               /\ f[Len(text)] = Replaced(text, token, value)
  BY ReplacedTurns
<1>2. Len(text) \in 0..Len(text)
  BY ListDomain
<1>3. QED
  BY <1>1, <1>2 DEF Replacing

\* Part by part, it is replaced the same way.
LEMMA ReplacedJoined ==
    ASSUME NEW s, IsList(s), NEW t, IsList(t), NEW token, NEW value, IsList(value)
    PROVE  Replaced(Join(s, t), token, value)
             = Join(Replaced(s, token, value), Replaced(t, token, value))
<1>0. /\ IsList(Join(s, t))
      /\ Len(Join(s, t)) = Len(s) + Len(t)
      /\ \A i \in 1..Len(s) : Join(s, t)[i] = s[i]
      /\ \A i \in 1..Len(t) : Join(s, t)[Len(s) + i] = t[i]
  BY JoinedLists
<1>1. PICK u : u = Join(s, t)
  OBVIOUS
<1>2. /\ IsList(u)
      /\ Len(u) = Len(s) + Len(t)
      /\ \A i \in 1..Len(s) : u[i] = s[i]
      /\ \A i \in 1..Len(t) : u[Len(s) + i] = t[i]
  BY <1>0, <1>1
<1>3. Len(s) \in Nat /\ Len(t) \in Nat
  BY ListDomain
<1>4. PICK f : /\ Replacing(s, token, value, f)
               /\ f[Len(s)] = Replaced(s, token, value)
  BY ReplacedTurns
<1>5. PICK g : /\ Replacing(t, token, value, g)
               /\ g[Len(t)] = Replaced(t, token, value)
  BY ReplacedTurns
<1>6. PICK h : /\ Replacing(u, token, value, h)
               /\ h[Len(u)] = Replaced(u, token, value)
  BY <1>2, ReplacedTurns
<1> DEFINE S == {k \in 0..Len(s) : h[k] = f[k]}
<1>7. \A k \in 0..Len(s) : k \in S
  <2>1. 0 \in S
    BY <1>3, <1>4, <1>6 DEF Replacing
  <2>2. ASSUME NEW k \in 1..Len(s), k - 1 \in S PROVE k \in S
    <3>1. k \in 1..Len(u) /\ u[k] = s[k] /\ h[k-1] = f[k-1] /\ k \in 0..Len(s)
      BY <1>2, <1>3, <2>2
    <3>2. h[k] = Join(h[k-1], Piece(u[k], token, value))
      BY <1>6, <3>1 DEF Replacing
    <3>3. f[k] = Join(f[k-1], Piece(s[k], token, value))
      BY <1>4 DEF Replacing
    <3>4. QED
      BY <3>1, <3>2, <3>3
  <2> HIDE DEF S
  <2>3. QED
    BY <1>3, <2>1, <2>2, Reached
<1>8. h[Len(s)] = f[Len(s)] /\ IsList(f[Len(s)])
  <2>1. Len(s) \in 0..Len(s)
    BY <1>3
  <2>2. QED
    BY <1>4, <1>7, <2>1 DEF Replacing
<1> HIDE DEF S
<1>12. ASSUME NEW k \in 1..Len(t),
              h[Len(s) + (k - 1)] = Join(f[Len(s)], g[k-1])
       PROVE  h[Len(s) + k] = Join(f[Len(s)], g[k])
  <2>1. PICK j : j = Len(s) + k
    OBVIOUS
  <2>2. /\ j \in 1..Len(u) /\ u[j] = t[k] /\ j - 1 = Len(s) + (k - 1)
        /\ k - 1 \in 0..Len(t)
    BY <1>2, <1>3, <2>1
  <2>3. PICK p : p = Piece(t[k], token, value)
    OBVIOUS
  <2>4. h[j] = Join(h[j-1], p)
    BY <1>6, <2>2, <2>3 DEF Replacing
  <2>5. g[k] = Join(g[k-1], p) /\ IsList(g[k-1])
    BY <1>5, <2>2, <2>3 DEF Replacing
  <2>6. IsList(p)
    BY <2>3, PieceIsList
  <2>7. Join(Join(f[Len(s)], g[k-1]), p) = Join(f[Len(s)], Join(g[k-1], p))
    BY <1>8, <2>5, <2>6, JoinedInTurn
  <2>8. h[j] = Join(f[Len(s)], g[k])
    BY <1>12, <2>2, <2>4, <2>5, <2>7
  <2>9. QED
    BY <2>1, <2>8
<1> DEFINE U == {k \in 0..Len(t) : h[Len(s) + k] = Join(f[Len(s)], g[k])}
<1>9. \A k \in 0..Len(t) : k \in U
  <2>1. 0 \in U
    <3>1. Len(s) + 0 = Len(s) /\ 0 \in 0..Len(t)
      BY <1>3
    <3>2. g[0] = << >>
      BY <1>5 DEF Replacing
    <3>3. Join(f[Len(s)], << >>) = f[Len(s)]
      BY <1>8, JoinedToNothing
    <3>4. QED
      BY <1>8, <3>1, <3>2, <3>3
  <2>2. ASSUME NEW k \in 1..Len(t), k - 1 \in U PROVE k \in U
    <3>1. h[Len(s) + (k - 1)] = Join(f[Len(s)], g[k-1]) /\ k \in 0..Len(t)
      BY <1>3, <2>2
    <3>2. h[Len(s) + k] = Join(f[Len(s)], g[k])
      BY <1>12, <3>1
    <3>3. QED
      BY <3>1, <3>2
  <2> HIDE DEF U
  <2>3. QED
    BY <1>3, <2>1, <2>2, Reached
<1>10. h[Len(s) + Len(t)] = Join(f[Len(s)], g[Len(t)])
  <2>1. Len(t) \in 0..Len(t)
    BY <1>3
  <2>2. QED
    BY <1>9, <2>1
<1>11. QED
  BY <1>1, <1>2, <1>4, <1>5, <1>6, <1>10

LEMMA ReplacedOne ==
    ASSUME NEW atom, NEW token, NEW value, IsList(value)
    PROVE  Replaced(<<atom>>, token, value) = Piece(atom, token, value)
<1>0. PICK text : text = <<atom>>
  OBVIOUS
<1>2. Len(text) = 1 /\ text[1] = atom /\ IsList(text)
  BY <1>0, OneElement
<1>1. PICK f : /\ Replacing(text, token, value, f)
               /\ f[Len(text)] = Replaced(text, token, value)
  BY <1>2, ReplacedTurns
<1>3. f[1] = Join(f[0], Piece(atom, token, value)) /\ f[0] = << >>
  <2>1. /\ f[0] = << >>
        /\ \A k \in 1..Len(text) : f[k] = Join(f[k-1], Piece(text[k], token, value))
    BY <1>1 DEF Replacing
  <2>2. 1 \in 1..Len(text) /\ 1 - 1 = 0
    BY <1>2
  <2>3. QED
    BY <1>2, <2>1, <2>2
<1>4. Join(<< >>, Piece(atom, token, value)) = Piece(atom, token, value)
  BY PieceIsList, JoinedToNothing
<1>5. QED
  BY <1>0, <1>1, <1>2, <1>3, <1>4

\* A text without the token stays as it is.
LEMMA ReplacedNone ==
    ASSUME NEW text, IsList(text), NEW token, token \notin ToSet(text),
           NEW value, IsList(value)
    PROVE  Replaced(text, token, value) = text
<1>1. PICK f : /\ Replacing(text, token, value, f)
               /\ f[Len(text)] = Replaced(text, token, value)
  BY ReplacedTurns
<1>2. /\ Len(text) \in Nat /\ DOMAIN text = 1..Len(text)
      /\ text \in Seq(ToSet(text))
  BY ListDomain DEF IsList
<1> DEFINE S == {k \in 0..Len(text) : f[k] = SubSeq(text, 1, k)}
<1>3. 0 \in S
  <2>1. SubSeq(text, 1, 0) = << >>
    BY SubSeqEmpty
  <2>2. f[0] = << >>
    BY <1>1 DEF Replacing
  <2>3. f[0] = SubSeq(text, 1, 0)
    BY <2>1, <2>2
  <2>4. 0 \in 0..Len(text)
    BY <1>2
  <2>5. QED
    BY <2>3, <2>4
<1>4. ASSUME NEW k \in 1..Len(text), k - 1 \in S PROVE k \in S
  <2>1. f[k] = Join(f[k-1], Piece(text[k], token, value))
    BY <1>1 DEF Replacing
  <2>2. text[k] \in ToSet(text)
    BY <1>2 DEF ToSet
  <2>3. Piece(text[k], token, value) = <<text[k]>>
    BY <2>2 DEF Piece
  <2>4. 1 \in 1..Len(text) /\ k \in 1..Len(text)
    BY <1>2
  <2>5. SubSeq(text, 1, k) = Join(SubSeq(text, 1, k - 1), <<text[k]>>)
    BY <1>2, <2>4, SubSeqRecursiveSecond DEF Join
  <2>6. f[k-1] = SubSeq(text, 1, k - 1) /\ k \in 0..Len(text)
    BY <1>2, <1>4
  <2>7. f[k] = SubSeq(text, 1, k)
    BY <2>1, <2>3, <2>5, <2>6
  <2>8. QED
    BY <2>6, <2>7
<1> HIDE DEF S
<1>5. \A k \in 0..Len(text) : k \in S
  BY <1>2, <1>3, <1>4, Reached
<1>6. Len(text) \in 0..Len(text)
  BY <1>2
<1>7. f[Len(text)] = SubSeq(text, 1, Len(text))
  BY <1>5, <1>6 DEF S
<1>8. QED
  BY <1>1, <1>2, <1>7, SubSeqFull

\* What has taken the place of a token is of its value.
LEMMA ReplacedAtoms ==
    ASSUME NEW text, IsList(text), NEW token, NEW value, IsList(value)
    PROVE  ToSet(Replaced(text, token, value)) \subseteq ToSet(text) \cup ToSet(value)
<1>1. PICK f : /\ Replacing(text, token, value, f)
               /\ f[Len(text)] = Replaced(text, token, value)
  BY ReplacedTurns
<1>2. Len(text) \in Nat /\ DOMAIN text = 1..Len(text)
  BY ListDomain
<1>3. /\ f[0] = << >>
      /\ \A k \in 1..Len(text) : f[k] = Join(f[k-1], Piece(text[k], token, value))
      /\ \A k \in 0..Len(text) : IsList(f[k])
  BY <1>1 DEF Replacing
<1>4. PICK T : T = ToSet(text) \cup ToSet(value)
  OBVIOUS
<1> DEFINE S == {k \in 0..Len(text) : ToSet(f[k]) \subseteq T}
<1>5. 0 \in S
  <2>1. ToSet(f[0]) = {}
    BY <1>3, NoElement DEF ToSet
  <2>2. QED
    BY <1>2, <2>1
<1>6. ASSUME NEW k \in 1..Len(text), k - 1 \in S PROVE k \in S
  <2>1. PICK p, e : p = Piece(text[k], token, value) /\ e = f[k-1]
    OBVIOUS
  <2>2. k - 1 \in 0..Len(text) /\ k \in 0..Len(text)
    BY <1>2
  <2>3. IsList(e) /\ ToSet(e) \subseteq T
    BY <1>3, <1>6, <2>1, <2>2
  <2>4. IsList(p)
    BY <2>1, PieceIsList
  <2>5. ToSet(p) \subseteq T
    <3>1. text[k] \in ToSet(text)
      BY <1>2 DEF ToSet
    <3>2. ToSet(<<text[k]>>) = {text[k]}
      BY OneElement
    <3>3. QED
      BY <1>4, <2>1, <3>1, <3>2 DEF Piece
  <2>6. ToSet(Join(e, p)) = ToSet(e) \cup ToSet(p)
    BY <2>3, <2>4, JoinedLists
  <2>7. f[k] = Join(e, p)
    BY <1>3, <2>1
  <2>8. ToSet(f[k]) \subseteq T
    BY <2>3, <2>5, <2>6, <2>7
  <2>9. QED
    BY <2>2, <2>8
<1> HIDE DEF S
<1>7. \A k \in 0..Len(text) : k \in S
  BY <1>2, <1>5, <1>6, Reached
<1>8. Len(text) \in 0..Len(text)
  BY <1>2
<1>9. QED
  BY <1>1, <1>4, <1>7, <1>8 DEF S

-----------------------------------------------------------------------------
(* A finite set in order *)

\* For each place the member that as many are before.
Arranged(places, S, R) ==
    /\ places = [k \in 1..Cardinality(S) |-> places[k]]
    /\ \A k \in 1..Cardinality(S) :
          (\E x \in S : Cardinality({y \in S : <<y, x>> \in R}) = k - 1) =>
             /\ places[k] \in S
             /\ Cardinality({y \in S : <<y, places[k]>> \in R}) = k - 1

Ascends(places, R) ==
    \A j, k \in DOMAIN places : j < k => <<places[j], places[k]>> \in R

LEMMA ArrangedLists ==
    ASSUME NEW S, IsFiniteSet(S), NEW R, StrictOrder(R, S),
           NEW places, Arranged(places, S, R)
    PROVE  /\ Lists(places, S)
           /\ IsList(places)
           /\ Len(places) = Cardinality(S)
           /\ Ascends(places, R)
<1> DEFINE before(x) == {y \in S : <<y, x>> \in R}
<1>1. PICK m : m = Cardinality(S)
  OBVIOUS
<1>2. m \in Nat
  BY <1>1, FS_CardinalityType
<1>3. PICK rank : rank = [x \in S |-> Cardinality(before(x))]
  OBVIOUS
<1>4. \A x \in S : rank[x] = Cardinality({y \in S : <<y, x>> \in R})
  BY <1>3
<1>5. Ranking(rank, S)
  BY <1>4, Ranks
<1>6. ASSUME NEW k \in 1..m PROVE places[k] \in S /\ rank[places[k]] = k - 1
  <2>1. \E x \in S : rank[x] = k - 1
    BY <1>1, <1>5 DEF Ranking
  <2>2. \E x \in S : Cardinality({y \in S : <<y, x>> \in R}) = k - 1
    BY <1>4, <2>1
  <2>3. places[k] \in S
        /\ Cardinality({y \in S : <<y, places[k]>> \in R}) = k - 1
    BY <1>1, <2>2 DEF Arranged
  <2>4. QED
    BY <1>4, <2>3
<1>7. DOMAIN places = 1..m
  BY <1>1 DEF Arranged
<1>8. Lists(places, S)
  <2>1. PlacedBy(rank, places, S)
    BY <1>1, <1>6, <1>7 DEF PlacedBy
  <2>2. QED
    BY <1>5, <2>1, ByRank
<1>9. IsList(places) /\ Len(places) = m
  <2>1. places = [k \in 1..m |-> places[k]]
    BY <1>1 DEF Arranged
  <2>2. places \in [1..m -> S]
    BY <1>6, <2>1
  <2>3. QED
    BY <1>2, <2>2, ListOfInterval
<1>10. ASSUME NEW x \in S, NEW y \in S, <<x, y>> \in R
       PROVE  rank[x] < rank[y]
  <2>1. before(x) \in SUBSET before(y) /\ x \in before(y) /\ x \notin before(x)
    BY <1>10 DEF StrictOrder
  <2>2. before(y) \in SUBSET S
    OBVIOUS
  <2> HIDE DEF before
  <2>3. IsFiniteSet(before(y))
    BY <2>2, FS_Subset
  <2>4. /\ IsFiniteSet(before(x))
        /\ Cardinality(before(x)) <= Cardinality(before(y))
        /\ Cardinality(before(y)) = Cardinality(before(x)) => before(y) = before(x)
    BY <2>1, <2>3, FS_Subset
  <2>5. Cardinality(before(x)) \in Nat /\ Cardinality(before(y)) \in Nat
    BY <2>3, <2>4, FS_CardinalityType
  <2>6. Cardinality(before(x)) < Cardinality(before(y))
    BY <2>1, <2>4, <2>5
  <2>7. QED
    BY <1>3, <2>6
<1>11. ASSUME NEW j \in 1..m, NEW k \in 1..m, j < k
       PROVE  <<places[j], places[k]>> \in R
  <2>1. PICK x, y : x = places[j] /\ y = places[k]
    OBVIOUS
  <2>2. x \in S /\ y \in S /\ rank[x] = j - 1 /\ rank[y] = k - 1
    BY <1>6, <2>1
  <2>3. ~(rank[y] < rank[x]) /\ rank[x] # rank[y]
    BY <1>2, <1>11, <2>2
  <2>4. <<x, y>> \in R \/ <<y, x>> \in R
    BY <2>2, <2>3 DEF StrictOrder
  <2>5. <<y, x>> \notin R
    BY <1>10, <2>2, <2>3
  <2>6. QED
    BY <2>1, <2>4, <2>5
<1>12. Ascends(places, R)
  BY <1>7, <1>11 DEF Ascends
<1>13. QED
  BY <1>1, <1>8, <1>9, <1>12

-----------------------------------------------------------------------------
(* A vault, and what it restores *)

Entry(V, n) ==
    /\ V[n].length \in Int
    /\ IsList(V[n].value)
    /\ V[n].value # << >>

\* Every token stands for one value.
IsVault(V) ==
    /\ IsList(V)
    /\ \A n \in DOMAIN V : Entry(V, n)
    /\ \A m, n \in DOMAIN V : V[m].token = V[n].token => m = n

\* No value holds a token.
Unmixed(V) == \A n \in DOMAIN V : ToSet(V[n].value) \cap TokensOf(V) = {}

LEMMA RestoreOrderLists ==
    ASSUME NEW V, IsVault(V)
    PROVE  /\ IsList(RestoreOrder(V))
           /\ Len(RestoreOrder(V)) = Len(V)
           /\ Lists(RestoreOrder(V), DOMAIN V)
<1>1. PICK S : S = DOMAIN V
  OBVIOUS
<1>2. Len(V) \in Nat /\ S = 1..Len(V)
  BY <1>1, ListDomain DEF IsVault
<1>3. IsFiniteSet(S) /\ Cardinality(S) = Len(V)
  <2>1. PICK top \in Nat : top = Len(V)
    BY <1>2
  <2>2. IsFiniteSet(1..top) /\ Cardinality(1..top) = top
    BY FS_Interval
  <2>3. QED
    BY <1>2, <2>1, <2>2
<1>4. \A n \in S : V[n].length \in Int /\ n \in Int
  BY <1>1, <1>2 DEF IsVault, Entry
<1>5. PICK R : R = {p \in S \X S :
                      \/ V[p[1]].length > V[p[2]].length
                      \/ V[p[1]].length = V[p[2]].length /\ p[1] < p[2]}
  OBVIOUS
<1>6. \A a, b \in S : <<a, b>> \in R <=>
                         \/ V[a].length > V[b].length
                         \/ V[a].length = V[b].length /\ a < b
  BY <1>5
<1>7. StrictOrder(R, S)
  BY <1>4, <1>6 DEF StrictOrder
<1> DEFINE at(n) == CHOOSE x \in S :
                       Cardinality({y \in S :
                          \/ V[y].length > V[x].length
                          \/ V[y].length = V[x].length /\ y < x}) = n - 1
<1>8. PICK places : places = [n \in 1..Cardinality(S) |-> at(n)]
  OBVIOUS
<1>9. RestoreOrder(V) = places
  BY <1>1, <1>8 DEF RestoreOrder, InOrder
<1>10. ASSUME NEW x \in S
       PROVE  {y \in S : <<y, x>> \in R}
                = {y \in S : \/ V[y].length > V[x].length
                             \/ V[y].length = V[x].length /\ y < x}
  BY <1>6
<1>11. ASSUME NEW k \in 1..Cardinality(S),
              \E x \in S : Cardinality({y \in S : <<y, x>> \in R}) = k - 1
       PROVE  /\ places[k] \in S
              /\ Cardinality({y \in S : <<y, places[k]>> \in R}) = k - 1
  <2>1. \E x \in S : Cardinality({y \in S :
                           \/ V[y].length > V[x].length
                           \/ V[y].length = V[x].length /\ y < x}) = k - 1
    BY <1>10, <1>11
  <2>2. places[k] = CHOOSE x \in S : Cardinality({y \in S :
                           \/ V[y].length > V[x].length
                           \/ V[y].length = V[x].length /\ y < x}) = k - 1
    BY <1>8
  <2>3. PICK x : x = places[k]
    OBVIOUS
  <2>4. x \in S /\ Cardinality({y \in S :
                           \/ V[y].length > V[x].length
                           \/ V[y].length = V[x].length /\ y < x}) = k - 1
    BY <2>1, <2>2, <2>3
  <2>5. x \in S /\ Cardinality({y \in S : <<y, x>> \in R}) = k - 1
    BY <1>10, <2>4
  <2>6. QED
    BY <2>3, <2>5
<1>12. places = [k \in 1..Cardinality(S) |-> places[k]]
  <2> HIDE DEF at
  <2>1. QED
    BY <1>8
<1>13. Arranged(places, S, R)
  BY <1>11, <1>12 DEF Arranged
<1>14. Lists(places, S) /\ IsList(places) /\ Len(places) = Cardinality(S)
  BY <1>3, <1>7, <1>13, ArrangedLists
<1>15. QED
  BY <1>1, <1>3, <1>9, <1>14

RestoreFold(V) == [kind |-> "restore", vault |-> V]

\* The text after each turn of restore_text().
Restoring(text, V, r) ==
    /\ r[0] = text
    /\ \A k \in 1..Len(V) :
          LET n == RestoreOrder(V)[k]
          IN r[k] = Replaced(r[k-1], V[n].token, V[n].value)

LEMMA RestoreTurns ==
    ASSUME NEW text, NEW V, IsVault(V)
    PROVE  \E r : Restoring(text, V, r) /\ r[Len(V)] = RestoreText(text, V)
<1>1. PICK seq : seq = RestoreOrder(V)
  OBVIOUS
<1>2. IsList(seq) /\ Len(seq) = Len(V)
  BY <1>1, RestoreOrderLists
<1>3. PICK n \in Nat : n = Len(seq)
  BY <1>2, ListDomain
<1>4. DOMAIN seq = 1..n
  BY <1>2, <1>3, ListDomain
<1>5. PICK fold : fold = RestoreFold(V)
  OBVIOUS
<1>6. \A past, x : Turn(fold, past, x)
                     = FlattenSeq([k \in DOMAIN past |->
                          IF past[k] = V[x].token THEN V[x].value
                                                  ELSE <<past[k]>>])
  BY <1>5 DEF Turn, RestoreFold
<1>7. PICK w : Folded(fold, text, seq, n, w)
  BY FoldedExists
<1> DEFINE F(g) == [s \in SUBSET (1..n) |->
              IF s = {} THEN text
              ELSE FlattenSeq([k \in DOMAIN g[s \ {Max(s)}] |->
                      IF g[s \ {Max(s)}][k] = V[seq[Max(s)]].token
                      THEN V[seq[Max(s)]].value
                      ELSE <<g[s \ {Max(s)}][k]>>])]
           iter == CHOOSE g : g = F(g)
<1>8. w = F(w)
  <2>1. w = [s \in SUBSET (1..n) |->
               IF s = {} THEN text
               ELSE Turn(fold, w[s \ {Max(s)}], seq[Max(s)])]
    BY <1>7 DEF Folded
  <2>2. F(w) = [s \in SUBSET (1..n) |->
                  IF s = {} THEN text
                  ELSE Turn(fold, w[s \ {Max(s)}], seq[Max(s)])]
    BY <1>6
  <2>3. QED
    BY <2>1, <2>2
<1>9. iter = F(iter)
  BY <1>8
<1>10. RestoreText(text, V) = iter[1..n]
  BY <1>1, <1>4 DEF RestoreText, FoldLeft, MapThenFoldSet
<1> HIDE DEF iter
<1>11. Folded(fold, text, seq, n, iter)
  <2>1. ASSUME NEW s \in SUBSET (1..n)
        PROVE  iter[s] = IF s = {} THEN text
                         ELSE Turn(fold, iter[s \ {Max(s)}], seq[Max(s)])
    <3>1. PICK past, x : past = iter[s \ {Max(s)}] /\ x = seq[Max(s)]
      OBVIOUS
    <3>2. iter[s] = IF s = {} THEN text
                    ELSE FlattenSeq([k \in DOMAIN past |->
                            IF past[k] = V[x].token THEN V[x].value
                                                    ELSE <<past[k]>>])
      BY <1>9, <3>1
    <3>3. iter[s] = IF s = {} THEN text ELSE Turn(fold, past, x)
      BY <1>6, <3>2
    <3>4. QED
      BY <3>1, <3>3
  <2>2. iter = [s \in SUBSET (1..n) |-> iter[s]]
    BY <1>9
  <2>3. QED
    BY <2>1, <2>2 DEF Folded
<1>12. PICK r : Runs(fold, text, seq, r) /\ r[n] = iter[1..n]
  BY <1>3, <1>11, FoldedRuns
<1>13. ASSUME NEW k \in 1..Len(V)
       PROVE  r[k] = Replaced(r[k-1], V[seq[k]].token, V[seq[k]].value)
  <2>1. r[k] = Turn(fold, r[k-1], seq[k])
    BY <1>2, <1>12 DEF Runs
  <2>2. QED
    BY <1>6, <2>1 DEF Replaced, Piece
<1>14. Restoring(text, V, r)
  BY <1>1, <1>12, <1>13 DEF Restoring, Runs
<1>15. QED
  BY <1>2, <1>3, <1>10, <1>12, <1>14

\* The entry of a vault that has its turn.
LEMMA EntryInTurn ==
    ASSUME NEW V, IsVault(V), NEW k \in 1..Len(V)
    PROVE  /\ RestoreOrder(V)[k] \in DOMAIN V
           /\ IsList(V[RestoreOrder(V)[k]].value)
           /\ V[RestoreOrder(V)[k]].value # << >>
<1>1. PICK seq : seq = RestoreOrder(V)
  OBVIOUS
<1>2. IsList(seq) /\ Len(seq) = Len(V) /\ Lists(seq, DOMAIN V)
  BY <1>1, RestoreOrderLists
<1>3. DOMAIN seq = 1..Len(V)
  BY <1>2, ListDomain
<1>4. seq[k] \in DOMAIN V
  BY <1>2, <1>3 DEF Lists
<1>5. QED
  BY <1>1, <1>4 DEF IsVault, Entry

LEMMA RestoringIsList ==
    ASSUME NEW text, IsList(text), NEW V, IsVault(V), NEW r, Restoring(text, V, r)
    PROVE  \A k \in 0..Len(V) : IsList(r[k])
<1>1. Len(V) \in Nat
  BY ListDomain DEF IsVault
<1> DEFINE S == {k \in 0..Len(V) : IsList(r[k])}
<1>2. 0 \in S
  BY <1>1 DEF Restoring
<1>3. ASSUME NEW k \in 1..Len(V), k - 1 \in S PROVE k \in S
  <2>1. PICK n : n = RestoreOrder(V)[k]
    OBVIOUS
  <2>2. IsList(V[n].value)
    BY <2>1, EntryInTurn
  <2>3. r[k] = Replaced(r[k-1], V[n].token, V[n].value)
    BY <2>1 DEF Restoring
  <2>4. IsList(r[k-1]) /\ k \in 0..Len(V)
    BY <1>1, <1>3
  <2>5. IsList(r[k])
    BY <2>2, <2>3, <2>4, ReplacedIsList
  <2>6. QED
    BY <2>4, <2>5
<1> HIDE DEF S
<1>4. \A k \in 0..Len(V) : k \in S
  BY <1>1, <1>2, <1>3, Reached
<1>5. QED
  BY <1>4 DEF S

\* Part by part, it is restored the same way.
LEMMA RestoreJoined ==
    ASSUME NEW s, IsList(s), NEW t, IsList(t), NEW V, IsVault(V)
    PROVE  RestoreText(Join(s, t), V) = Join(RestoreText(s, V), RestoreText(t, V))
<1>1. Len(V) \in Nat
  BY ListDomain DEF IsVault
<1>2. PICK u : u = Join(s, t)
  OBVIOUS
<1>3. IsList(u)
  BY <1>2, JoinedLists
<1>4. PICK f : Restoring(s, V, f) /\ f[Len(V)] = RestoreText(s, V)
  BY RestoreTurns
<1>5. PICK g : Restoring(t, V, g) /\ g[Len(V)] = RestoreText(t, V)
  BY RestoreTurns
<1>6. PICK h : Restoring(u, V, h) /\ h[Len(V)] = RestoreText(u, V)
  BY RestoreTurns
<1>7. \A k \in 0..Len(V) : IsList(f[k])
  BY <1>4, RestoringIsList
<1>8. \A k \in 0..Len(V) : IsList(g[k])
  BY <1>5, RestoringIsList
<1> DEFINE S == {k \in 0..Len(V) : h[k] = Join(f[k], g[k])}
<1>9. 0 \in S
  BY <1>1, <1>2, <1>4, <1>5, <1>6 DEF Restoring
<1>10. ASSUME NEW k \in 1..Len(V), k - 1 \in S PROVE k \in S
  <2>1. PICK n : n = RestoreOrder(V)[k]
    OBVIOUS
  <2>2. PICK token, value : token = V[n].token /\ value = V[n].value
    OBVIOUS
  <2>3. IsList(value)
    BY <2>1, <2>2, EntryInTurn
  <2>4. /\ f[k] = Replaced(f[k-1], token, value)
        /\ g[k] = Replaced(g[k-1], token, value)
        /\ h[k] = Replaced(h[k-1], token, value)
    BY <1>4, <1>5, <1>6, <2>1, <2>2 DEF Restoring
  <2>5. k - 1 \in 0..Len(V) /\ k \in 0..Len(V)
    BY <1>1
  <2>6. h[k-1] = Join(f[k-1], g[k-1]) /\ IsList(f[k-1]) /\ IsList(g[k-1])
    BY <1>7, <1>8, <1>10, <2>5
  <2>7. Replaced(Join(f[k-1], g[k-1]), token, value)
          = Join(Replaced(f[k-1], token, value), Replaced(g[k-1], token, value))
    BY <2>3, <2>6, ReplacedJoined
  <2>8. h[k] = Join(f[k], g[k])
    BY <2>4, <2>6, <2>7
  <2>9. QED
    BY <2>5, <2>8
<1> HIDE DEF S
<1>11. \A k \in 0..Len(V) : k \in S
  BY <1>1, <1>9, <1>10, Reached
<1>12. Len(V) \in 0..Len(V)
  BY <1>1
<1>13. h[Len(V)] = Join(f[Len(V)], g[Len(V)])
  BY <1>11, <1>12 DEF S
<1>14. QED
  BY <1>2, <1>4, <1>5, <1>6, <1>13

\* The turns after i up to j are about tokens that the text does not hold.
TurnsMiss(V, text, i, j) ==
    \A k \in i + 1..j : V[RestoreOrder(V)[k]].token \notin ToSet(text)

\* Turns that find none of their tokens leave the text as it is.
LEMMA RestoringNone ==
    ASSUME NEW text, NEW V, IsVault(V), NEW r, Restoring(text, V, r),
           NEW i \in 0..Len(V), NEW j \in i..Len(V), IsList(r[i]),
           TurnsMiss(V, r[i], i, j)
    PROVE  r[j] = r[i]
<1>1. Len(V) \in Nat
  BY ListDomain DEF IsVault
<1> DEFINE S == {k \in 0..j - i : r[i + k] = r[i]}
<1>2. 0 \in S
  <2>1. i + 0 = i /\ 0 \in 0..j - i
    BY <1>1
  <2>2. QED
    BY <2>1
<1>3. ASSUME NEW k \in 1..j - i, k - 1 \in S PROVE k \in S
  <2>1. /\ i + k \in 1..Len(V) /\ i + k \in i + 1..j
        /\ i + k - 1 = i + (k - 1) /\ k \in 0..j - i
    BY <1>1
  <2>2. r[i + (k - 1)] = r[i]
    BY <1>3
  <2>3. PICK m : m = i + k
    OBVIOUS
  <2>4. PICK n : n = RestoreOrder(V)[m]
    OBVIOUS
  <2>5. r[m] = Replaced(r[m-1], V[n].token, V[n].value)
    BY <2>1, <2>3, <2>4 DEF Restoring
  <2>6. IsList(V[n].value)
    BY <2>1, <2>3, <2>4, EntryInTurn
  <2>7. V[n].token \notin ToSet(r[i])
    BY <2>1, <2>3, <2>4 DEF TurnsMiss
  <2>8. Replaced(r[i], V[n].token, V[n].value) = r[i]
    BY <2>6, <2>7, ReplacedNone
  <2>9. r[m] = r[i]
    BY <2>1, <2>2, <2>3, <2>5, <2>8
  <2>10. QED
    BY <2>1, <2>3, <2>9
<1> HIDE DEF S
<1>4. j - i \in Nat
  BY <1>1
<1>5. \A k \in 0..j - i : k \in S
  BY <1>2, <1>3, <1>4, Reached
<1>6. j - i \in 0..j - i /\ i + (j - i) = j
  BY <1>1
<1>7. QED
  BY <1>5, <1>6 DEF S

\* A text without a token of the vault stays as it is.
LEMMA RestoreNone ==
    ASSUME NEW text, IsList(text), NEW V, IsVault(V),
           ToSet(text) \cap TokensOf(V) = {}
    PROVE  RestoreText(text, V) = text
<1>1. Len(V) \in Nat
  BY ListDomain DEF IsVault
<1>2. PICK r : Restoring(text, V, r) /\ r[Len(V)] = RestoreText(text, V)
  BY RestoreTurns
<1>3. r[0] = text
  BY <1>2 DEF Restoring
<1>4. 0 \in 0..Len(V) /\ Len(V) \in 0..Len(V)
  BY <1>1
<1>5. TurnsMiss(V, r[0], 0, Len(V))
  <2>1. ASSUME NEW k \in 0 + 1..Len(V)
        PROVE  V[RestoreOrder(V)[k]].token \notin ToSet(text)
    <3>1. RestoreOrder(V)[k] \in DOMAIN V
      BY EntryInTurn
    <3>2. V[RestoreOrder(V)[k]].token \in TokensOf(V)
      BY <3>1 DEF TokensOf
    <3>3. QED
      BY <3>2
  <2>2. QED
    BY <1>3, <2>1 DEF TurnsMiss
<1>6. r[Len(V)] = r[0]
  <2>1. PICK i, j : i = 0 /\ j = Len(V)
    OBVIOUS
  <2>2. /\ i \in 0..Len(V) /\ j \in i..Len(V) /\ IsList(r[i])
        /\ Restoring(text, V, r) /\ TurnsMiss(V, r[i], i, j)
    BY <1>2, <1>3, <1>4, <1>5, <2>1
  <2>3. r[j] = r[i]
    BY <2>2, RestoringNone
  <2>4. QED
    BY <2>1, <2>3
<1>7. QED
  BY <1>2, <1>3, <1>6

\* A token becomes its value.
LEMMA RestoreToken ==
    ASSUME NEW V, IsVault(V), Unmixed(V), NEW n \in DOMAIN V
    PROVE  RestoreText(<<V[n].token>>, V) = V[n].value
<1>1. Len(V) \in Nat
  BY ListDomain DEF IsVault
<1>2. PICK order : order = RestoreOrder(V)
  OBVIOUS
<1>3. IsList(order) /\ Len(order) = Len(V) /\ Lists(order, DOMAIN V)
  BY <1>2, RestoreOrderLists
<1>4. DOMAIN order = 1..Len(V)
  BY <1>3, ListDomain
<1>5. PICK k \in 1..Len(V) : order[k] = n
  BY <1>3, <1>4 DEF Lists
<1>6. \A j \in 1..Len(V) : order[j] \in DOMAIN V /\ (order[j] = n => j = k)
  BY <1>3, <1>4, <1>5 DEF Lists
<1>7. PICK text : text = <<V[n].token>>
  OBVIOUS
<1>8. IsList(text) /\ ToSet(text) = {V[n].token}
  BY <1>7, OneElement
<1>9. PICK r : Restoring(text, V, r) /\ r[Len(V)] = RestoreText(text, V)
  BY RestoreTurns
<1>10. r[0] = text
  BY <1>9 DEF Restoring
<1>11. \A i \in 0..Len(V) : IsList(r[i])
  BY <1>8, <1>9, RestoringIsList
<1>12. /\ 0 \in 0..Len(V) /\ k - 1 \in 0..Len(V) /\ k \in 0..Len(V)
       /\ Len(V) \in k..Len(V) /\ \A j \in 0 + 1..k - 1 : j \in 1..Len(V) /\ j # k
       /\ \A j \in k + 1..Len(V) : j \in 1..Len(V)
  BY <1>1
<1>13. r[k-1] = text
  <2>1. TurnsMiss(V, r[0], 0, k - 1)
    <3>1. ASSUME NEW j \in 0 + 1..k - 1
          PROVE  V[order[j]].token # V[n].token
      BY <1>6, <1>12 DEF IsVault
    <3>2. QED
      BY <1>2, <1>8, <1>10, <3>1 DEF TurnsMiss
  <2>2. IsList(r[0]) /\ 0 \in 0..Len(V) /\ k - 1 \in 0..Len(V)
    BY <1>11, <1>12
  <2>3. r[k-1] = r[0]
    BY <1>9, <2>1, <2>2, RestoringNone
  <2>4. QED
    BY <1>10, <2>3
<1>14. r[k] = V[n].value
  <2>1. r[k] = Replaced(r[k-1], V[n].token, V[n].value)
    BY <1>2, <1>5, <1>9 DEF Restoring
  <2>2. IsList(V[n].value)
    BY DEF IsVault, Entry
  <2>3. Replaced(<<V[n].token>>, V[n].token, V[n].value)
          = Piece(V[n].token, V[n].token, V[n].value)
    BY <2>2, ReplacedOne
  <2>4. Piece(V[n].token, V[n].token, V[n].value) = V[n].value
    BY DEF Piece
  <2>5. QED
    BY <1>7, <1>13, <2>1, <2>3, <2>4
<1>15. r[Len(V)] = r[k]
  <2>1. TurnsMiss(V, r[k], k, Len(V))
    <3>1. ASSUME NEW j \in k + 1..Len(V)
          PROVE  V[order[j]].token \notin ToSet(V[n].value)
      <4>1. order[j] \in DOMAIN V
        BY <1>6, <1>12
      <4>2. V[order[j]].token \in TokensOf(V)
        BY <4>1 DEF TokensOf
      <4>3. QED
        BY <4>2 DEF Unmixed
    <3>2. QED
      BY <1>2, <1>14, <3>1 DEF TurnsMiss
  <2>2. IsList(r[k]) /\ k \in 0..Len(V) /\ Len(V) \in k..Len(V)
    BY <1>11, <1>12
  <2>3. PICK j : j = Len(V)
    OBVIOUS
  <2>4. j \in k..Len(V) /\ TurnsMiss(V, r[k], k, j)
    BY <2>1, <2>2, <2>3
  <2>5. r[j] = r[k]
    BY <1>9, <2>2, <2>4, RestoringNone
  <2>6. QED
    BY <2>3, <2>5
<1>16. QED
  BY <1>7, <1>9, <1>14, <1>15

\* What restoring brings into a text is of the values of the vault.
LEMMA RestoreAtoms ==
    ASSUME NEW text, IsList(text), NEW V, IsVault(V), NEW T, ToSet(text) \subseteq T,
           \A n \in DOMAIN V : ToSet(V[n].value) \subseteq T
    PROVE  ToSet(RestoreText(text, V)) \subseteq T
<1>1. Len(V) \in Nat
  BY ListDomain DEF IsVault
<1>2. PICK r : Restoring(text, V, r) /\ r[Len(V)] = RestoreText(text, V)
  BY RestoreTurns
<1>3. \A k \in 0..Len(V) : IsList(r[k])
  BY <1>2, RestoringIsList
<1> DEFINE S == {k \in 0..Len(V) : ToSet(r[k]) \subseteq T}
<1>4. 0 \in S
  BY <1>1, <1>2 DEF Restoring
<1>5. ASSUME NEW k \in 1..Len(V), k - 1 \in S PROVE k \in S
  <2>1. PICK n : n = RestoreOrder(V)[k]
    OBVIOUS
  <2>2. PICK token, value, t : /\ token = V[n].token /\ value = V[n].value
                               /\ t = r[k-1]
    OBVIOUS
  <2>3. n \in DOMAIN V /\ IsList(value)
    BY <2>1, <2>2, EntryInTurn
  <2>4. k - 1 \in 0..Len(V) /\ k \in 0..Len(V)
    BY <1>1
  <2>5. IsList(t) /\ ToSet(t) \subseteq T
    BY <1>3, <1>5, <2>2, <2>4
  <2>6. r[k] = Replaced(t, token, value)
    BY <1>2, <2>1, <2>2 DEF Restoring
  <2>7. ToSet(value) \subseteq T
    BY <2>2, <2>3
  <2>8. ToSet(Replaced(t, token, value)) \subseteq ToSet(t) \cup ToSet(value)
    BY <2>3, <2>5, ReplacedAtoms
  <2>9. ToSet(r[k]) \subseteq T
    BY <2>5, <2>6, <2>7, <2>8
  <2>10. QED
    BY <2>4, <2>9
<1> HIDE DEF S
<1>6. \A k \in 0..Len(V) : k \in S
  BY <1>1, <1>4, <1>5, Reached
<1>7. Len(V) \in 0..Len(V)
  BY <1>1
<1>8. QED
  BY <1>2, <1>6, <1>7 DEF S

-----------------------------------------------------------------------------
(* How a vault grows *)

OfType(V, type) == {n \in DOMAIN V : V[n].type = type}

IsToken(atom) == atom[1] = "token"

\* The tokens of a type are numbered up to their number.
Numbering(V) ==
    \A n \in DOMAIN V :
       \E c \in 1..Cardinality(OfType(V, V[n].type)) :
          V[n].token = Token(V[n].type, c)

SoundVault(V) == IsVault(V) /\ Numbering(V)

Grown(V, W) ==
    /\ IsList(V) /\ IsList(W)
    /\ Len(V) <= Len(W)
    /\ \A n \in DOMAIN V : W[n] = V[n]

\* The token is one of the vault, and stands for the value.
StandsFor(V, token, value) ==
    \E n \in DOMAIN V : V[n].token = token /\ V[n].value = value

LEMMA GrownTwice ==
    ASSUME NEW U, NEW V, NEW W, Grown(U, V), Grown(V, W)
    PROVE  Grown(U, W)
<1>1. /\ Len(U) \in Nat /\ DOMAIN U = 1..Len(U)
      /\ Len(V) \in Nat /\ DOMAIN V = 1..Len(V)
      /\ Len(W) \in Nat /\ DOMAIN W = 1..Len(W)
  BY ListDomain DEF Grown
<1>2. DOMAIN U \subseteq DOMAIN V
  BY <1>1 DEF Grown
<1>3. Len(U) <= Len(W)
  BY <1>1 DEF Grown
<1>4. QED
  BY <1>2, <1>3 DEF Grown

LEMMA StillStandsFor ==
    ASSUME NEW V, NEW W, Grown(V, W), NEW token, NEW value,
           StandsFor(V, token, value)
    PROVE  StandsFor(W, token, value)
<1>1. /\ Len(V) \in Nat /\ DOMAIN V = 1..Len(V)
      /\ Len(W) \in Nat /\ DOMAIN W = 1..Len(W)
  BY ListDomain DEF Grown
<1>2. \A n \in DOMAIN V : n \in DOMAIN W /\ W[n] = V[n]
  BY <1>1 DEF Grown
<1>3. QED
  BY <1>2 DEF StandsFor

LEMMA EmptyVaultIsSound == SoundVault(EmptyVault) /\ IsList(EmptyVault)
<1>1. IsList(EmptyVault) /\ DOMAIN EmptyVault = {}
  BY NoElement DEF EmptyVault
<1>2. QED
  BY <1>1 DEF SoundVault, IsVault, Numbering

LEMMA FiniteOfType ==
    ASSUME NEW V, IsList(V), NEW type
    PROVE  /\ IsFiniteSet(OfType(V, type))
           /\ Cardinality(OfType(V, type)) \in Nat
<1>1. OfType(V, type) \in SUBSET (1..Len(V)) /\ Len(V) \in Nat
  BY ListDomain DEF OfType
<1>2. IsFiniteSet(1..Len(V))
  BY <1>1, FS_Interval
<1>3. IsFiniteSet(OfType(V, type))
  BY <1>1, <1>2, FS_Subset
<1>4. QED
  BY <1>3, FS_CardinalityType

\* The vault that has one more value.
LEMMA OneMoreEntry ==
    ASSUME NEW V, SoundVault(V), NEW e,
           IsList(e.value), e.value # << >>, e.length \in Int,
           e.token = Token(e.type, Cardinality(OfType(V, e.type)) + 1),
           NEW W, W = Append(V, e)
    PROVE  SoundVault(W) /\ Grown(V, W) /\ DOMAIN W = DOMAIN V \cup {Len(V) + 1}
           /\ W[Len(V) + 1] = e
<1>1. IsList(V) /\ Len(V) \in Nat /\ DOMAIN V = 1..Len(V)
  BY ListDomain DEF SoundVault, IsVault
<1>2. PICK T : T = ToSet(V) \cup {e}
  OBVIOUS
<1>3. V \in Seq(T) /\ e \in T
  BY <1>1, <1>2, ListIn
<1>4. /\ W \in Seq(T)
      /\ Len(W) = Len(V) + 1
      /\ \A i \in 1..Len(V) : W[i] = V[i]
      /\ W[Len(V) + 1] = e
  BY <1>3, AppendProperties
<1>5. IsList(W) /\ DOMAIN W = 1..Len(V) + 1
  BY <1>4, ListOf, LenProperties
<1>6. DOMAIN W = DOMAIN V \cup {Len(V) + 1} /\ Len(V) + 1 \notin DOMAIN V
  BY <1>1, <1>5
<1>7. Grown(V, W)
  BY <1>1, <1>4, <1>5 DEF Grown
<1>8. \A n \in DOMAIN W : Entry(W, n)
  BY <1>1, <1>4, <1>6 DEF SoundVault, IsVault, Entry
<1>9. ASSUME NEW type
      PROVE  OfType(W, type) = IF type = e.type
                               THEN OfType(V, type) \cup {Len(V) + 1}
                               ELSE OfType(V, type)
  BY <1>1, <1>4, <1>6 DEF OfType
<1>10. ASSUME NEW type
       PROVE  /\ Cardinality(OfType(V, type)) \in Nat
              /\ Cardinality(OfType(W, type))
                   = Cardinality(OfType(V, type)) + (IF type = e.type THEN 1 ELSE 0)
  <2>1. /\ IsFiniteSet(OfType(V, type))
        /\ Cardinality(OfType(V, type)) \in Nat
    BY <1>1, FiniteOfType
  <2>2. Len(V) + 1 \notin OfType(V, type)
    BY <1>6 DEF OfType
  <2>3. Cardinality(OfType(V, type) \cup {Len(V) + 1})
          = Cardinality(OfType(V, type)) + 1
    BY <2>1, <2>2, FS_AddElement
  <2>4. CASE type = e.type
    <3>1. OfType(W, type) = OfType(V, type) \cup {Len(V) + 1}
      BY <1>9, <2>4
    <3>2. QED
      BY <2>1, <2>3, <2>4, <3>1
  <2>5. CASE type # e.type
    <3>1. OfType(W, type) = OfType(V, type)
      BY <1>9, <2>5
    <3>2. QED
      BY <2>1, <2>5, <3>1
  <2>6. QED
    BY <2>4, <2>5
<1>11. Numbering(W)
  <2>1. ASSUME NEW n \in DOMAIN V
        PROVE  \E c \in 1..Cardinality(OfType(W, W[n].type)) :
                  W[n].token = Token(W[n].type, c)
    <3>1. W[n] = V[n]
      BY <1>1, <1>4
    <3>2. PICK c \in 1..Cardinality(OfType(V, V[n].type)) :
             V[n].token = Token(V[n].type, c)
      BY DEF SoundVault, Numbering
    <3>3. c \in 1..Cardinality(OfType(W, V[n].type))
      BY <1>10
    <3>4. QED
      BY <3>1, <3>2, <3>3
  <2>2. \E c \in 1..Cardinality(OfType(W, e.type)) : e.token = Token(e.type, c)
    <3>1. Cardinality(OfType(V, e.type)) + 1
            \in 1..Cardinality(OfType(W, e.type))
      BY <1>10
    <3>2. QED
      BY <3>1
  <2>3. QED
    BY <1>4, <1>6, <2>1, <2>2 DEF Numbering
<1>12. \A n \in DOMAIN V : V[n].token # e.token
  <2>1. ASSUME NEW n \in DOMAIN V, V[n].token = e.token PROVE FALSE
    <3>1. PICK c \in 1..Cardinality(OfType(V, V[n].type)) :
             V[n].token = Token(V[n].type, c)
      BY DEF SoundVault, Numbering
    <3>2. V[n].type = e.type /\ c = Cardinality(OfType(V, e.type)) + 1
      BY <2>1, <3>1 DEF Token
    <3>3. Cardinality(OfType(V, e.type)) \in Nat
      BY <1>10
    <3>4. QED
      BY <3>1, <3>2, <3>3
  <2>2. QED
    BY <2>1
<1>13. \A m, n \in DOMAIN W : W[m].token = W[n].token => m = n
  BY <1>1, <1>4, <1>6, <1>12 DEF SoundVault, IsVault
<1>14. QED
  BY <1>4, <1>5, <1>6, <1>7, <1>8, <1>11, <1>13 DEF SoundVault, IsVault

\* token_for(): the token of a value is in the vault, which has grown by no
\* other value.
Remembers(V, W, token, value) ==
    /\ SoundVault(W)
    /\ Grown(V, W)
    /\ StandsFor(W, token, value)
    /\ \A n \in DOMAIN W : n \in DOMAIN V \/ W[n].value = value

LEMMA Remembered ==
    ASSUME NEW V, SoundVault(V), NEW type, NEW value, IsList(value), value # << >>,
           NEW length \in Int
    PROVE  /\ Remembers(V, Remember(V, type, value, length),
                        TokenFor(V, type, value), value)
           /\ IsToken(TokenFor(V, type, value))
<1>1. PICK known : known = {n \in DOMAIN V : V[n].type = type
                                              /\ V[n].value = value}
  OBVIOUS
<1>2. PICK token : token = TokenFor(V, type, value)
  OBVIOUS
<1>3. PICK W : W = Remember(V, type, value, length)
  OBVIOUS
<1>4. IsList(V)
  BY DEF SoundVault, IsVault
<1>5. CASE known # {}
  <2>1. W = V
    BY <1>1, <1>3, <1>5 DEF Remember
  <2>2. PICK n : n = CHOOSE k \in known : TRUE
    OBVIOUS
  <2>3. n \in known /\ token = V[n].token
    BY <1>1, <1>2, <1>5, <2>2 DEF TokenFor
  <2>4. n \in DOMAIN V /\ V[n].value = value
    BY <1>1, <2>3
  <2>5. StandsFor(V, token, value)
    BY <2>3, <2>4 DEF StandsFor
  <2>6. Grown(V, V)
    BY <1>4, ListDomain DEF Grown
  <2>7. IsToken(token)
    BY <2>3, <2>4 DEF SoundVault, Numbering, Token, IsToken
  <2>8. Remembers(V, W, token, value)
    BY <2>1, <2>5, <2>6 DEF Remembers
  <2>9. QED
    BY <1>2, <1>3, <2>7, <2>8
<1>6. CASE known = {}
  <2>1. token = Token(type, Cardinality(OfType(V, type)) + 1)
    BY <1>1, <1>2, <1>6 DEF TokenFor, OfType
  <2>2. PICK e : e = [type |-> type, value |-> value, length |-> length,
                      token |-> token]
    OBVIOUS
  <2>3. /\ e.type = type /\ e.value = value /\ e.length = length
        /\ e.token = token
    BY <2>2
  <2>4. ~ \E n \in DOMAIN V : V[n].type = type /\ V[n].value = value
    BY <1>1, <1>6
  <2>5. W = Append(V, e)
    BY <1>2, <1>3, <2>2, <2>4 DEF Remember
  <2>6. /\ SoundVault(W) /\ Grown(V, W) /\ W[Len(V) + 1] = e
        /\ DOMAIN W = DOMAIN V \cup {Len(V) + 1}
    BY <2>1, <2>3, <2>5, OneMoreEntry
  <2>7. StandsFor(W, token, value)
    BY <2>3, <2>6 DEF StandsFor
  <2>8. Remembers(V, W, token, value)
    BY <2>3, <2>6, <2>7 DEF Remembers
  <2>9. IsToken(token)
    BY <2>1 DEF Token, IsToken
  <2>10. QED
    BY <1>2, <1>3, <2>8, <2>9
<1>7. QED
  BY <1>5, <1>6

-----------------------------------------------------------------------------
(* Which matches are accepted *)

\* Every finite set with a strict order has members that are in no conflict
\* with a better one of them, such that every other member is in one.
Kernel(A, S, R, C) ==
    \A m \in S : m \in A <=> ~ \E n \in A : <<n, m>> \in R /\ <<n, m>> \in C

LEMMA KernelExists ==
    ASSUME NEW S, IsFiniteSet(S), NEW R, StrictOrder(R, S), NEW C
    PROVE  \E A \in SUBSET S : Kernel(A, S, R, C)
<1> DEFINE at(n) == CHOOSE x \in S : Cardinality({y \in S : <<y, x>> \in R}) = n - 1
<1>1. PICK n \in Nat : n = Cardinality(S)
  BY FS_CardinalityType
<1>2. PICK s : s = [k \in 1..Cardinality(S) |-> at(k)]
  OBVIOUS
<1>3. ASSUME NEW k \in 1..Cardinality(S),
             \E x \in S : Cardinality({y \in S : <<y, x>> \in R}) = k - 1
      PROVE  s[k] \in S /\ Cardinality({y \in S : <<y, s[k]>> \in R}) = k - 1
  <2>1. s[k] = CHOOSE x \in S : Cardinality({y \in S : <<y, x>> \in R}) = k - 1
    BY <1>2
  <2>2. PICK x : x = s[k]
    OBVIOUS
  <2>3. x \in S /\ Cardinality({y \in S : <<y, x>> \in R}) = k - 1
    BY <1>3, <2>1, <2>2
  <2>4. QED
    BY <2>2, <2>3
<1>4. s = [k \in 1..Cardinality(S) |-> s[k]]
  <2> HIDE DEF at
  <2>1. QED
    BY <1>2
<1>5. Arranged(s, S, R)
  BY <1>3, <1>4 DEF Arranged
<1>6. Lists(s, S) /\ Ascends(s, R)
  BY <1>5, ArrangedLists
<1>7. /\ DOMAIN s = 1..n
      /\ \A k \in 1..n : s[k] \in S
      /\ \A x \in S : \E k \in 1..n : s[k] = x
      /\ \A j, k \in 1..n : j < k => <<s[j], s[k]>> \in R
  BY <1>1, <1>6 DEF Lists, Ascends
<1>8. \A x \in S : <<x, x>> \notin R
  BY DEF StrictOrder
<1>9. \A x, y \in S : <<x, y>> \in R => <<y, x>> \notin R
  BY DEF StrictOrder
<1> HIDE DEF at
<1> DEFINE Upto(k) == {s[i] : i \in 1..k}
           K == {k \in 0..n : \E A \in SUBSET Upto(k) : Kernel(A, Upto(k), R, C)}
<1>10. 0 \in K
  <2>1. Upto(0) = {} /\ Kernel({}, Upto(0), R, C)
    BY DEF Kernel
  <2>2. QED
    BY <2>1
<1>11. ASSUME NEW k \in 1..n, k - 1 \in K PROVE k \in K
  <2>1. PICK A \in SUBSET Upto(k - 1) : Kernel(A, Upto(k - 1), R, C)
    BY <1>11
  <2>2. PICK x : x = s[k]
    OBVIOUS
  <2>3. Upto(k) = Upto(k - 1) \cup {x}
    <3>1. 1..k = (1..k - 1) \cup {k}
      OBVIOUS
    <3>2. QED
      BY <2>2, <3>1
  <2>4. x \in S /\ \A y \in Upto(k - 1) : y \in S /\ <<y, x>> \in R
    <3>1. \A i \in 1..k - 1 : i \in 1..n /\ i < k
      OBVIOUS
    <3>2. QED
      BY <1>7, <2>2, <3>1
  <2>5. <<x, x>> \notin R /\ \A y \in Upto(k - 1) : <<x, y>> \notin R
    BY <1>8, <1>9, <2>4
  <2> HIDE DEF Upto
  <2>6. CASE \E y \in A : <<y, x>> \in R /\ <<y, x>> \in C
    <3>1. x \notin A
      BY <2>1, <2>5, <2>4
    <3>2. Kernel(A, Upto(k), R, C)
      BY <2>1, <2>3, <2>6, <3>1 DEF Kernel
    <3>3. QED
      BY <2>1, <2>3, <3>2
  <2>7. CASE ~ \E y \in A : <<y, x>> \in R /\ <<y, x>> \in C
    <3>1. PICK B : B = A \cup {x}
      OBVIOUS
    <3>2. x \notin Upto(k - 1)
      BY <2>4, <2>5
    <3>3. Kernel(B, Upto(k), R, C)
      BY <2>1, <2>3, <2>5, <2>7, <3>1, <3>2 DEF Kernel
    <3>4. B \in SUBSET Upto(k)
      BY <2>1, <2>3, <3>1
    <3>5. QED
      BY <3>3, <3>4
  <2>8. QED
    BY <2>6, <2>7
<1>12. \A k \in 0..n : k \in K
  <2> HIDE DEF K
  <2>1. QED
    BY <1>10, <1>11, Reached
<1>13. n \in 0..n
  OBVIOUS
<1>14. Upto(n) = S
  BY <1>7
<1>15. QED
  BY <1>12, <1>13, <1>14

\* A search finds places that the expression fits.
LEMMA ScannedFit ==
    ASSUME NEW text, IsList(text), NEW detector, IsList(detector.words)
    PROVE  Scanned(text, detector) \subseteq Fitting(text, detector)
<1>1. PICK G, F, W : /\ G = FoundFirst(text, detector)
                     /\ F = Fitting(text, detector) /\ W = detector.words
  OBVIOUS
<1>2. /\ G \subseteq F
      /\ \A m \in G : \E k \in DOMAIN W :
            /\ SubSeq(text, m.first, m.last) = W[k]
            /\ \A n \in F : n.first = m.first /\ n # m =>
                  \A j \in 1 .. k : SubSeq(text, n.first, n.last) # W[j]
  BY <1>1 DEF FoundFirst
<1>3. Len(text) \in Nat /\ DOMAIN text = 1..Len(text)
  BY ListDomain
<1>4. \A m \in F : /\ m.first \in 1..Len(text) /\ m.last \in 1..Len(text)
                   /\ m = [first |-> m.first, last |-> m.last]
  BY <1>1, <1>3 DEF Fitting
<1>5. \A m, n \in G : m.first = n.first => m = n
  <2>1. SUFFICES ASSUME NEW m \in G, NEW n \in G, m.first = n.first, m # n
                 PROVE  FALSE
    OBVIOUS
  <2>2. PICK k \in DOMAIN W :
           /\ SubSeq(text, m.first, m.last) = W[k]
           /\ \A j \in 1 .. k : SubSeq(text, n.first, n.last) # W[j]
    BY <1>2, <2>1
  <2>3. PICK i \in DOMAIN W :
           /\ SubSeq(text, n.first, n.last) = W[i]
           /\ \A j \in 1 .. i : SubSeq(text, m.first, m.last) # W[j]
    BY <1>2, <2>1
  <2>4. DOMAIN W = 1..Len(W) /\ Len(W) \in Nat
    BY <1>1, ListDomain
  <2>5. k \in Nat \ {0} /\ i \in Nat \ {0}
    BY <2>4
  <2>6. i \notin 1 .. k
    BY <2>2, <2>3
  <2>7. k \notin 1 .. i
    BY <2>2, <2>3
  <2>8. QED
    BY <2>5, <2>6, <2>7
<1>6. IsFiniteSet(G)
  <2>1. PICK D : D = 1..Len(text)
    OBVIOUS
  <2>2. IsFiniteSet(1..Len(text))
    BY <1>3, FS_Interval
  <2>3. PICK P : P = D \X D
    OBVIOUS
  <2>4. IsFiniteSet(P)
    BY <2>1, <2>2, <2>3, FS_Product
  <2>5. PICK f : f = [p \in P |-> [first |-> p[1], last |-> p[2]]]
    OBVIOUS
  <2>6. IsFiniteSet({f[p] : p \in P})
    BY <2>4, <2>5, FiniteImage
  <2>7. ASSUME NEW m \in G PROVE m \in {f[p] : p \in P}
    <3>1. /\ m.first \in D /\ m.last \in D
          /\ m = [first |-> m.first, last |-> m.last]
      BY <1>2, <1>4, <2>1
    <3>2. PICK p : p = <<m.first, m.last>>
      OBVIOUS
    <3>3. p \in P /\ p[1] = m.first /\ p[2] = m.last
      BY <2>3, <3>1, <3>2
    <3>4. f[p] = m
      BY <2>5, <3>1, <3>3
    <3>5. QED
      BY <3>3, <3>4
  <2>8. QED
    BY <2>6, <2>7, FS_Subset
<1>7. PICK R, C : /\ R = {p \in G \X G : p[1].first < p[2].first}
                  /\ C = {p \in G \X G : p[2].first <= p[1].last}
  OBVIOUS
<1>8. \A m, n \in G : /\ <<m, n>> \in R <=> m.first < n.first
                      /\ <<m, n>> \in C <=> n.first <= m.last
  BY <1>7
<1>9. StrictOrder(R, G)
  <2>1. \A m \in G : m.first \in Int
    BY <1>2, <1>4
  <2>2. \A m, n \in G : m # n => m.first < n.first \/ n.first < m.first
    BY <1>5, <2>1
  <2>3. QED
    BY <1>8, <2>1, <2>2 DEF StrictOrder
<1>10. PICK B \in SUBSET G : Kernel(B, G, R, C)
  BY <1>6, <1>9, KernelExists
<1>11. \A m \in G : m \in B <=> ~ \E n \in B : /\ n.first < m.first
                                               /\ m.first <= n.last
  BY <1>8, <1>10 DEF Kernel
<1>12. Scanned(text, detector) \in SUBSET G
  BY <1>1, <1>10, <1>11 DEF Scanned
<1>13. QED
  BY <1>1, <1>2, <1>12

LEMMA MatchParts ==
    ASSUME NEW text, IsList(text), NEW policy, ProperPolicy(policy),
           NEW m \in Matches(text, policy)
    PROVE  /\ m.detector \in DOMAIN Policies[policy] /\ m.detector \in Nat
           /\ m.first \in 1..Len(text)
           /\ m.last \in m.first..Len(text)
           /\ SubSeq(text, m.first, m.last) \in ToSet(Policies[policy][m.detector].words)
           /\ m = [detector |-> m.detector, first |-> m.first, last |-> m.last]
<1>1. PICK d, span : /\ d = m.detector
                     /\ span = [first |-> m.first, last |-> m.last]
  OBVIOUS
<1>2. PICK detector : detector = Policies[policy][d]
  OBVIOUS
<1>3. /\ m \in [detector : DOMAIN Policies[policy], first : DOMAIN text,
                last : DOMAIN text]
      /\ span \in Scanned(text, detector)
  BY <1>1, <1>2 DEF Matches
<1>4. span \in Fitting(text, detector)
  <2>1. d \in DOMAIN Policies[policy]
    BY <1>1, <1>3
  <2>2. IsList(detector.words)
    BY <1>2, <2>1 DEF ProperPolicy
  <2>3. QED
    BY <1>3, <2>2, ScannedFit
<1>5. span.first = m.first /\ span.last = m.last
  BY <1>1
<1>6. /\ m.first <= m.last
      /\ SubSeq(text, m.first, m.last) \in ToSet(detector.words)
  BY <1>4, <1>5 DEF Fitting
<1>7. DOMAIN text = 1..Len(text) /\ Len(text) \in Nat
  BY ListDomain
<1>8. DOMAIN Policies[policy] = 1..Len(Policies[policy])
      /\ Len(Policies[policy]) \in Nat
  BY ListDomain DEF ProperPolicy
<1>9. QED
  BY <1>1, <1>2, <1>3, <1>6, <1>7, <1>8

LEMMA FiniteMatches ==
    ASSUME NEW text, IsList(text), NEW policy, ProperPolicy(policy)
    PROVE  IsFiniteSet(Matches(text, policy))
<1>1. PICK D, T : D = DOMAIN Policies[policy] /\ T = DOMAIN text
  OBVIOUS
<1>2. IsFiniteSet(D) /\ IsFiniteSet(T)
  <2>1. D = 1..Len(Policies[policy]) /\ Len(Policies[policy]) \in Nat
    BY <1>1, ListDomain DEF ProperPolicy
  <2>2. T = 1..Len(text) /\ Len(text) \in Nat
    BY <1>1, ListDomain
  <2>3. IsFiniteSet(1..Len(Policies[policy]))
    BY <2>1, FS_Interval
  <2>4. IsFiniteSet(1..Len(text))
    BY <2>2, FS_Interval
  <2>5. QED
    BY <2>1, <2>2, <2>3, <2>4
<1>3. IsFiniteSet(D \X T)
  BY <1>2, FS_Product
<1>4. PICK P : P = (D \X T) \X T
  OBVIOUS
<1>5. IsFiniteSet(P)
  BY <1>2, <1>3, <1>4, FS_Product
<1>6. PICK f : f = [p \in P |-> [detector |-> p[1][1], first |-> p[1][2],
                                 last |-> p[2]]]
  OBVIOUS
<1>7. IsFiniteSet({f[p] : p \in P})
  BY <1>5, <1>6, FiniteImage
<1>8. ASSUME NEW m \in Matches(text, policy) PROVE m \in {f[p] : p \in P}
  <2>1. /\ m \in [detector : D, first : T, last : T]
        /\ m = [detector |-> m.detector, first |-> m.first, last |-> m.last]
    BY <1>1 DEF Matches
  <2>2. PICK p : p = <<<<m.detector, m.first>>, m.last>>
    OBVIOUS
  <2>3. p \in P /\ p[1][1] = m.detector /\ p[1][2] = m.first /\ p[2] = m.last
    BY <1>4, <2>1, <2>2
  <2>4. f[p] = m
    BY <1>6, <2>1, <2>3
  <2>5. QED
    BY <2>3, <2>4
<1>9. QED
  BY <1>7, <1>8, FS_Subset

\* The findings as they are substituted: from the last to the first, none of
\* them touching another, and no other.
Substituted(text, policy, order) ==
    /\ IsList(order)
    /\ \A k \in DOMAIN order : order[k] \in Matches(text, policy)
    /\ \A j, k \in DOMAIN order : j < k => order[k].last < order[j].first
    /\ \A m \in Accepted(text, policy) : \E k \in DOMAIN order : order[k] = m

\* detect_text() has such findings.
LEMMA AcceptedMatches ==
    ASSUME NEW text, IsList(text), NEW policy, ProperPolicy(policy),
           NEW A, A = Accepted(text, policy)
    PROVE  /\ A \subseteq Matches(text, policy)
           /\ \A m, n \in A : m # n => ~Overlap(m, n)
<1>1. PICK M : M = Matches(text, policy)
  OBVIOUS
<1>2. IsFiniteSet(M)
  BY <1>1, FiniteMatches
<1>3. PICK P : P = Policies[policy]
  OBVIOUS
<1>4. ASSUME NEW m \in M
      PROVE  /\ P[m.detector].confidence \in Int
             /\ m.detector \in Int /\ m.first \in Int /\ m.last \in Int
             /\ m.first <= m.last
             /\ m = [detector |-> m.detector, first |-> m.first, last |-> m.last]
  <2>1. /\ m.detector \in DOMAIN P /\ m.detector \in Nat
        /\ m.first \in 1..Len(text)
        /\ m.last \in m.first..Len(text)
        /\ m = [detector |-> m.detector, first |-> m.first, last |-> m.last]
    BY <1>1, <1>3, MatchParts
  <2>2. P[m.detector].confidence \in Int
    BY <1>3, <2>1 DEF ProperPolicy
  <2>3. QED
    BY <2>1, <2>2
<1>5. PICK R : R = {p \in M \X M : Preferred(p[1], p[2], policy)}
  OBVIOUS
<1>6. PICK C : C = {p \in M \X M : Overlap(p[1], p[2])}
  OBVIOUS
<1>7. \A m, n \in M : /\ <<m, n>> \in R <=> Preferred(m, n, policy)
                      /\ <<m, n>> \in C <=> Overlap(m, n)
  BY <1>5, <1>6
<1>8. ASSUME NEW m \in M, NEW n \in M
      PROVE  Preferred(m, n, policy) <=>
                LET s == P[m.detector].confidence
                    t == P[n.detector].confidence
                    u == m.last - m.first
                    v == n.last - n.first
                IN IF s # t THEN s > t
                   ELSE IF u # v THEN u > v
                   ELSE IF m.first # n.first THEN m.first < n.first
                   ELSE m.detector < n.detector
  BY <1>3 DEF Preferred
<1>9. StrictOrder(R, M)
  <2>1. ASSUME NEW m \in M PROVE ~Preferred(m, m, policy)
    BY <1>4, <1>8
  <2>2. ASSUME NEW m \in M, NEW n \in M, NEW o \in M,
               Preferred(m, n, policy), Preferred(n, o, policy)
        PROVE  Preferred(m, o, policy)
    BY <1>4, <1>8, <2>2
  <2>3. ASSUME NEW m \in M, NEW n \in M, m # n
        PROVE  Preferred(m, n, policy) \/ Preferred(n, m, policy)
    <3>1. /\ m.detector = n.detector /\ m.first = n.first /\ m.last = n.last
          => m = n
      BY <1>4
    <3>2. m.first = n.first /\ m.last - m.first = n.last - n.first
          => m.last = n.last
      BY <1>4
    <3>3. QED
      BY <1>4, <1>8, <2>3, <3>1, <3>2
  <2>4. QED
    BY <1>7, <2>1, <2>2, <2>3 DEF StrictOrder
<1>10. PICK B \in SUBSET M : Kernel(B, M, R, C)
  BY <1>2, <1>9, KernelExists
<1>11. \A m \in M : m \in B <=> ~ \E n \in B : /\ Preferred(n, m, policy)
                                               /\ Overlap(n, m)
  BY <1>7, <1>10 DEF Kernel
<1>12. /\ A \in SUBSET M
       /\ \A m \in M : m \in A <=> ~ \E n \in A : /\ Preferred(n, m, policy)
                                                  /\ Overlap(n, m)
  BY <1>1, <1>10, <1>11 DEF Accepted
<1>13. \A m, n \in M : Overlap(m, n) <=> Overlap(n, m)
  BY <1>4 DEF Overlap
<1>14. ASSUME NEW m \in A, NEW n \in A, m # n PROVE ~Overlap(m, n)
  <2>1. Preferred(m, n, policy) \/ Preferred(n, m, policy)
    BY <1>7, <1>9, <1>12, <1>14 DEF StrictOrder
  <2>2. QED
    BY <1>12, <1>13, <2>1
<1>15. QED
  BY <1>1, <1>12, <1>14

LEMMA FromTheEndSubstitutes ==
    ASSUME NEW text, IsList(text), NEW policy, ProperPolicy(policy)
    PROVE  Substituted(text, policy, FromTheEnd(text, policy))
<1>1. PICK A : A = Accepted(text, policy)
  OBVIOUS
<1>2. /\ A \subseteq Matches(text, policy)
      /\ \A m, n \in A : m # n => ~Overlap(m, n)
  BY <1>1, AcceptedMatches
<1>3. IsFiniteSet(A)
  BY <1>2, FiniteMatches, FS_Subset
<1>4. \A m \in A : m.first \in Int /\ m.last \in Int /\ m.first <= m.last
  BY <1>2, MatchParts, ListDomain
<1>5. PICK R : R = {p \in A \X A : p[1].first > p[2].first}
  OBVIOUS
<1>6. \A m, n \in A : <<m, n>> \in R <=> m.first > n.first
  BY <1>5
<1>7. \A m, n \in A : m # n => m.last < n.first \/ n.last < m.first
  BY <1>2, <1>4 DEF Overlap
<1>8. StrictOrder(R, A)
  <2>1. \A m, n \in A : m # n => m.first > n.first \/ n.first > m.first
    BY <1>4, <1>7
  <2>2. QED
    BY <1>4, <1>6, <2>1 DEF StrictOrder
<1> DEFINE at(k) == CHOOSE x \in A :
                       Cardinality({y \in A : y.first > x.first}) = k - 1
<1>9. PICK order : order = [k \in 1..Cardinality(A) |-> at(k)]
  OBVIOUS
<1>10. FromTheEnd(text, policy) = order
  BY <1>1, <1>9 DEF FromTheEnd, InOrder
<1>11. ASSUME NEW x \in A
       PROVE  {y \in A : <<y, x>> \in R} = {y \in A : y.first > x.first}
  BY <1>6
<1>12. ASSUME NEW k \in 1..Cardinality(A),
              \E x \in A : Cardinality({y \in A : <<y, x>> \in R}) = k - 1
       PROVE  /\ order[k] \in A
              /\ Cardinality({y \in A : <<y, order[k]>> \in R}) = k - 1
  <2>1. \E x \in A : Cardinality({y \in A : y.first > x.first}) = k - 1
    BY <1>11, <1>12
  <2>2. order[k] = CHOOSE x \in A :
                      Cardinality({y \in A : y.first > x.first}) = k - 1
    BY <1>9
  <2>3. PICK x : x = order[k]
    OBVIOUS
  <2>4. x \in A /\ Cardinality({y \in A : y.first > x.first}) = k - 1
    BY <2>1, <2>2, <2>3
  <2>5. x \in A /\ Cardinality({y \in A : <<y, x>> \in R}) = k - 1
    BY <1>11, <2>4
  <2>6. QED
    BY <2>3, <2>5
<1>13. order = [k \in 1..Cardinality(A) |-> order[k]]
  <2> HIDE DEF at
  <2>1. QED
    BY <1>9
<1>14. Arranged(order, A, R)
  BY <1>12, <1>13 DEF Arranged
<1>15. Lists(order, A) /\ IsList(order) /\ Ascends(order, R)
  BY <1>3, <1>8, <1>14, ArrangedLists
<1> HIDE DEF at
<1>16. /\ \A k \in DOMAIN order : order[k] \in A
       /\ \A x \in A : \E k \in DOMAIN order : order[k] = x
       /\ \A j, k \in DOMAIN order : j < k => <<order[j], order[k]>> \in R
  BY <1>15 DEF Lists, Ascends
<1>17. ASSUME NEW j \in DOMAIN order, NEW k \in DOMAIN order, j < k
       PROVE  order[k].last < order[j].first
  <2>1. PICK m, n : m = order[j] /\ n = order[k]
    OBVIOUS
  <2>2. m \in A /\ n \in A /\ m.first > n.first
    BY <1>6, <1>16, <1>17, <2>1
  <2>3. m # n
    BY <1>4, <2>2
  <2>4. QED
    BY <1>4, <1>7, <2>1, <2>2, <2>3
<1>18. \A m \in Accepted(text, policy) : \E k \in DOMAIN order : order[k] = m
  BY <1>1, <1>16
<1>19. Substituted(text, policy, order)
  BY <1>2, <1>15, <1>16, <1>17, <1>18 DEF Substituted
<1>20. QED
  BY <1>10, <1>19

-----------------------------------------------------------------------------
(* Matches that give way to atoms *)

\* What is known of two lists put together.
Joins(s, t, u) ==
    /\ IsList(u) /\ Len(u) = Len(s) + Len(t)
    /\ \A i \in 1..Len(s) : u[i] = s[i]
    /\ \A i \in 1..Len(t) : u[Len(s) + i] = t[i]
    /\ ToSet(u) = ToSet(s) \cup ToSet(t)

LEMMA JoinJoins ==
    ASSUME NEW s, IsList(s), NEW t, IsList(t)
    PROVE  Joins(s, t, Join(s, t))
<1>1. /\ IsList(Join(s, t))
      /\ Len(Join(s, t)) = Len(s) + Len(t)
      /\ \A i \in 1..Len(s) : Join(s, t)[i] = s[i]
      /\ \A i \in 1..Len(t) : Join(s, t)[Len(s) + i] = t[i]
      /\ ToSet(Join(s, t)) = ToSet(s) \cup ToSet(t)
  BY JoinedLists
<1>2. QED
  BY <1>1 DEF Joins

\* The text y is the text x with one atom in the place of those of m.
Spliced(x, m, atom, y) ==
    /\ IsList(y)
    /\ Len(y) = Len(x) - (m.last - m.first)
    /\ \A i \in 1..m.first - 1 : y[i] = x[i]
    /\ y[m.first] = atom
    /\ \A i \in m.first + 1..Len(y) : y[i] = x[i + (m.last - m.first)]

\* One atom in the place of those from m.first to m.last.
LEMMA SplicedList ==
    ASSUME NEW x, IsList(x), NEW m, NEW atom,
           m.first \in 1..Len(x), m.last \in m.first..Len(x),
           NEW y, y = Splice(x, m, atom)
    PROVE  /\ Spliced(x, m, atom, y)
           /\ y = Join(Join(SubSeq(x, 1, m.first - 1), <<atom>>),
                       SubSeq(x, m.last + 1, Len(x)))
<1>1. PICK a, b, n : a = m.first /\ b = m.last /\ n = Len(x)
  OBVIOUS
<1>2. n \in Nat /\ a \in 1..n /\ b \in a..n
  BY <1>1, ListDomain
<1>3. PICK p, q : p = SubSeq(x, 1, a - 1) /\ q = SubSeq(x, b + 1, n)
  OBVIOUS
<1>4. /\ 1 \in 1..Len(x) + 1 /\ a - 1 \in 1 - 1..Len(x)
      /\ b + 1 \in 1..Len(x) + 1 /\ n \in b + 1 - 1..Len(x)
  BY <1>1, <1>2
<1>5. /\ IsList(p) /\ Len(p) = a - 1
      /\ \A k \in 1..a - 1 : p[k] = x[k]
  <2>1. /\ IsList(SubSeq(x, 1, a - 1)) /\ Len(SubSeq(x, 1, a - 1)) = a - 1 - 1 + 1
        /\ \A k \in 1..a - 1 - 1 + 1 : SubSeq(x, 1, a - 1)[k] = x[1 + k - 1]
    BY <1>4, PartOfList
  <2>2. a - 1 - 1 + 1 = a - 1 /\ \A k \in 1..a - 1 : 1 + k - 1 = k
    BY <1>2
  <2>3. QED
    BY <1>3, <2>1, <2>2
<1>6. /\ IsList(q) /\ Len(q) = n - b
      /\ \A k \in 1..n - b : q[k] = x[b + k]
  <2>1. PICK c : c = b + 1
    OBVIOUS
  <2>2. c \in 1..Len(x) + 1 /\ n \in c - 1..Len(x)
    BY <1>1, <1>2, <2>1
  <2>3. /\ IsList(SubSeq(x, c, n)) /\ Len(SubSeq(x, c, n)) = n - c + 1
        /\ \A k \in 1..n - c + 1 : SubSeq(x, c, n)[k] = x[c + k - 1]
    BY <2>2, PartOfList
  <2>4. n - c + 1 = n - b /\ \A k \in 1..n - b : c + k - 1 = b + k
    BY <1>2, <2>1
  <2>5. QED
    BY <1>3, <2>1, <2>3, <2>4
<1>7. PICK one : one = <<atom>>
  OBVIOUS
<1>8. IsList(one) /\ Len(one) = 1 /\ one[1] = atom
  BY <1>7, OneElement
<1>9. PICK pre : pre = Join(p, one)
  OBVIOUS
<1>10. /\ IsList(pre) /\ Len(pre) = a
       /\ \A i \in 1..a - 1 : pre[i] = x[i]
       /\ pre[a] = atom
  <2>0. IsList(p) /\ IsList(one)
    BY <1>5, <1>8
  <2>1. Joins(p, one, Join(p, one))
    BY <2>0, JoinJoins
  <2>2. Len(p) + Len(one) = a /\ Len(p) + 1 = a /\ 1 \in 1..Len(one)
    BY <1>2, <1>5, <1>8
  <2>3. Join(p, one)[Len(p) + 1] = one[1]
    BY <2>1, <2>2 DEF Joins
  <2>4. QED
    BY <1>5, <1>8, <1>9, <2>1, <2>2, <2>3 DEF Joins
<1>11. y = Join(pre, q)
  BY <1>1, <1>3, <1>7, <1>9 DEF Splice, Join
<1>12. /\ IsList(y) /\ Len(y) = a + (n - b)
       /\ \A i \in 1..a : y[i] = pre[i]
       /\ \A i \in 1..n - b : y[a + i] = x[b + i]
  <2>0. IsList(pre) /\ IsList(q)
    BY <1>6, <1>10
  <2>1. Joins(pre, q, Join(pre, q))
    BY <2>0, JoinJoins
  <2>2. QED
    BY <1>6, <1>10, <1>11, <2>1 DEF Joins
<1>13. \A i \in 1..a - 1 : y[i] = x[i]
  BY <1>2, <1>10, <1>12
<1>14. y[a] = atom
  BY <1>2, <1>10, <1>12
<1>15. ASSUME NEW i \in a + 1..a + (n - b) PROVE y[i] = x[i + (b - a)]
  <2>1. PICK k : k = i - a
    OBVIOUS
  <2>2. k \in 1..n - b /\ a + k = i /\ b + k = i + (b - a)
    BY <1>2, <2>1
  <2>3. QED
    BY <1>12, <2>2
<1>16. Len(y) = n - (b - a)
  BY <1>2, <1>12
<1>17. Spliced(x, m, atom, y)
  BY <1>1, <1>12, <1>13, <1>14, <1>15, <1>16 DEF Spliced
<1>18. QED
  BY <1>1, <1>3, <1>7, <1>9, <1>11, <1>17

Descends(order, text) ==
    /\ Len(order) \in Nat /\ DOMAIN order = 1..Len(order)
    /\ \A k \in 1..Len(order) : /\ order[k].first \in 1..Len(text)
                                /\ order[k].last \in order[k].first..Len(text)
    /\ \A j, k \in 1..Len(order) : j < k => order[k].last < order[j].first

LEMMA SubstitutedDescends ==
    ASSUME NEW text, IsList(text), NEW policy, ProperPolicy(policy),
           NEW order, Substituted(text, policy, order)
    PROVE  Descends(order, text)
<1>1. Len(order) \in Nat /\ DOMAIN order = 1..Len(order)
  BY ListDomain DEF Substituted
<1>2. ASSUME NEW k \in 1..Len(order)
      PROVE  /\ order[k].first \in 1..Len(text)
             /\ order[k].last \in order[k].first..Len(text)
  <2>1. PICK m : m = order[k]
    OBVIOUS
  <2>2. m \in Matches(text, policy)
    BY <1>1, <2>1 DEF Substituted
  <2>3. m.first \in 1..Len(text) /\ m.last \in m.first..Len(text)
    BY <2>2, MatchParts
  <2>4. QED
    BY <2>1, <2>3
<1>3. \A j, k \in 1..Len(order) : j < k => order[k].last < order[j].first
  BY <1>1 DEF Substituted
<1>4. QED
  BY <1>1, <1>2, <1>3 DEF Descends

\* The text after each of the substitutions, and where the last one was made.
Splices(text, order, atoms, x) ==
    /\ x[0] = text
    /\ \A k \in 1..Len(order) : x[k] = Splice(x[k-1], order[k], atoms[k])

Edge(text, order, k) == IF k = 0 THEN Len(text) + 1 ELSE order[k].first

\* What precedes the last substitution is as it was in the text.
Intact(text, y, e) ==
    /\ IsList(y)
    /\ e \in 1..Len(y) + 1
    /\ e \in 1..Len(text) + 1
    /\ \A i \in 1..e - 1 : y[i] = text[i]

LEMMA SpliceSplices ==
    ASSUME NEW x, IsList(x), NEW m, NEW atom,
           m.first \in 1..Len(x), m.last \in m.first..Len(x)
    PROVE  Spliced(x, m, atom, Splice(x, m, atom))
<1>1. PICK y : y = Splice(x, m, atom)
  OBVIOUS
<1>2. Spliced(x, m, atom, y)
  BY <1>1, SplicedList
<1>3. QED
  BY <1>1, <1>2

\* The edge moves towards the start.
LEMMA NextEdge ==
    ASSUME NEW text, NEW order, Descends(order, text), Len(text) \in Nat,
           NEW k \in 1..Len(order)
    PROVE  /\ Edge(text, order, k) = order[k].first
           /\ order[k].last < Edge(text, order, k - 1)
           /\ Edge(text, order, k - 1) \in 1..Len(text) + 1
<1>1. CASE k = 1
  <2>1. Edge(text, order, k - 1) = Len(text) + 1
    BY <1>1 DEF Edge
  <2>2. order[k].last \in 1..Len(text)
    BY DEF Descends
  <2>3. QED
    BY <1>1, <2>1, <2>2 DEF Edge
<1>2. CASE k # 1
  <2>0. k \in Nat /\ k # 0 /\ k - 1 # 0 /\ k - 1 \in 1..Len(order) /\ k - 1 < k
    BY <1>2 DEF Descends
  <2>1. Edge(text, order, k - 1) = order[k - 1].first
    BY <2>0 DEF Edge
  <2>2. order[k].last < order[k - 1].first
    BY <2>0 DEF Descends
  <2>3. order[k - 1].first \in 1..Len(text) + 1
    BY <2>0 DEF Descends
  <2>4. QED
    BY <2>0, <2>1, <2>2, <2>3 DEF Edge
<1>3. QED
  BY <1>1, <1>2

LEMMA SpliceStep ==
    ASSUME NEW text, NEW order, Descends(order, text), Len(text) \in Nat,
           NEW atoms, NEW x, Splices(text, order, atoms, x),
           NEW k \in 1..Len(order), Intact(text, x[k-1], Edge(text, order, k - 1))
    PROVE  /\ Spliced(x[k-1], order[k], atoms[k], x[k])
           /\ Intact(text, x[k], order[k].first)
           /\ order[k].first \in 1..Len(x[k-1])
           /\ order[k].last \in order[k].first..Len(x[k-1])
<1>1. PICK y, z, m, e, f : /\ y = x[k-1] /\ z = x[k] /\ m = order[k]
                           /\ e = Edge(text, order, k - 1) /\ f = m.first
  OBVIOUS
<1>2. Intact(text, y, e)
  BY <1>1
<1>3. f \in 1..Len(text) /\ m.last \in f..Len(text) /\ m.last < e
  BY <1>1, NextEdge DEF Descends
<1>4. Len(y) \in Nat /\ e \in 1..Len(y) + 1
  BY <1>2, ListDomain DEF Intact
<1>5. f \in 1..Len(y) /\ m.last \in f..Len(y) /\ f < e
  BY <1>3, <1>4
<1>6. Spliced(y, m, atoms[k], Splice(y, m, atoms[k]))
  BY <1>1, <1>2, <1>5, SpliceSplices DEF Intact
<1>7. z = Splice(y, m, atoms[k])
  BY <1>1 DEF Splices
<1>8. Spliced(y, m, atoms[k], z)
  BY <1>6, <1>7
<1>9. IsList(z) /\ Len(z) = Len(y) - (m.last - f)
      /\ \A i \in 1..f - 1 : z[i] = y[i]
  BY <1>1, <1>8 DEF Spliced
<1>10. \A i \in 1..f - 1 : i \in 1..e - 1
  BY <1>3, <1>4
<1>11. \A i \in 1..f - 1 : z[i] = text[i]
  BY <1>2, <1>9, <1>10 DEF Intact
<1>12. f \in 1..Len(z) + 1 /\ f \in 1..Len(text) + 1
  <2>1. f \in Int /\ m.last \in Int /\ 1 <= f /\ m.last <= Len(y)
    BY <1>5
  <2>2. f \in 1..Len(text) + 1
    BY <1>3
  <2>3. Len(z) \in Int /\ f <= Len(z)
    BY <1>4, <1>9, <2>1
  <2>4. QED
    BY <2>1, <2>2, <2>3
<1>13. Intact(text, z, f)
  BY <1>9, <1>11, <1>12 DEF Intact
<1>14. QED
  BY <1>1, <1>5, <1>8, <1>13

LEMMA SplicesIntact ==
    ASSUME NEW text, IsList(text), NEW order, Descends(order, text),
           NEW atoms, NEW x, Splices(text, order, atoms, x)
    PROVE  \A k \in 0..Len(order) : Intact(text, x[k], Edge(text, order, k))
<1> DEFINE S == {k \in 0..Len(order) : Intact(text, x[k], Edge(text, order, k))}
<1>1. Len(text) \in Nat /\ Len(order) \in Nat
  BY ListDomain DEF Descends
<1>2. 0 \in S
  <2>1. x[0] = text /\ Edge(text, order, 0) = Len(text) + 1
    BY DEF Splices, Edge
  <2>2. Intact(text, text, Len(text) + 1)
    BY <1>1 DEF Intact
  <2>3. QED
    BY <1>1, <2>1, <2>2
<1>3. ASSUME NEW k \in 1..Len(order), k - 1 \in S PROVE k \in S
  <2>1. Intact(text, x[k-1], Edge(text, order, k - 1))
    BY <1>3
  <2>2. Intact(text, x[k], order[k].first)
    BY <1>1, <2>1, SpliceStep
  <2>3. Edge(text, order, k) = order[k].first
    BY <1>1, NextEdge
  <2>4. QED
    BY <1>1, <2>2, <2>3
<1> HIDE DEF S
<1>4. \A k \in 0..Len(order) : k \in S
  BY <1>1, <1>2, <1>3, Reached
<1>5. QED
  BY <1>4 DEF S

\* Every match so far begins at the edge or after it.
LEMMA BeyondEdge ==
    ASSUME NEW text, Len(text) \in Nat, NEW order, Descends(order, text),
           NEW k \in 0..Len(order), NEW j \in 1..k
    PROVE  Edge(text, order, k) <= order[j].first
<1>1. Len(order) \in Nat
  BY DEF Descends
<1>2. k # 0 /\ k \in 1..Len(order) /\ j \in 1..Len(order) /\ j <= k
  BY <1>1
<1>3. Edge(text, order, k) = order[k].first
  BY <1>2 DEF Edge
<1>4. CASE j = k
  BY <1>2, <1>3, <1>4 DEF Descends
<1>5. CASE j # k
  <2>1. j < k
    BY <1>2, <1>5
  <2>2. order[k].last < order[j].first
    BY <1>2, <2>1 DEF Descends
  <2>3. /\ order[k].first \in 1..Len(text) /\ order[k].last \in order[k].first..Len(text)
        /\ order[j].first \in 1..Len(text)
    BY <1>2 DEF Descends
  <2>4. QED
    BY <1>3, <2>2, <2>3
<1>6. QED
  BY <1>4, <1>5

\* The atoms of the text that are in none of the matches.
Outside(text, order) ==
    {text[j] : j \in {i \in 1..Len(text) :
        \A k \in 1..Len(order) : ~(order[k].first <= i /\ i <= order[k].last)}}

\* After the edge is what was outside the matches, and what replaced them.
AfterEdge(y, e, T, atoms, k) ==
    \A i \in e..Len(y) : y[i] \in T \/ \E q \in 1..k : y[i] = atoms[q]

LEMMA AfterEdgeNext ==
    ASSUME NEW text, IsList(text), NEW order, Descends(order, text),
           NEW atoms, NEW x, Splices(text, order, atoms, x),
           NEW k \in 1..Len(order), Intact(text, x[k-1], Edge(text, order, k - 1)),
           NEW T, T = Outside(text, order),
           AfterEdge(x[k-1], Edge(text, order, k - 1), T, atoms, k - 1)
    PROVE  AfterEdge(x[k], order[k].first, T, atoms, k)
<1>1. PICK y, z, m, e, f, s : /\ y = x[k-1] /\ z = x[k] /\ m = order[k]
                              /\ e = Edge(text, order, k - 1) /\ f = m.first
                              /\ s = m.last - f
  OBVIOUS
<1>2. Len(text) \in Nat /\ Len(order) \in Nat
  BY ListDomain DEF Descends
<1>3. /\ Spliced(y, m, atoms[k], z)
      /\ f \in 1..Len(y) /\ m.last \in f..Len(y)
  BY <1>1, <1>2, SpliceStep
<1>4. f \in 1..Len(text) /\ m.last \in f..Len(text) /\ m.last < e
      /\ e \in 1..Len(text) + 1
  BY <1>1, <1>2, NextEdge DEF Descends
<1>5. Intact(text, y, e) /\ AfterEdge(y, e, T, atoms, k - 1)
  BY <1>1
<1>6. IsList(y) /\ Len(y) \in Nat /\ \A i \in 1..e - 1 : y[i] = text[i]
  BY <1>5, ListDomain DEF Intact
<1>7. s \in Nat /\ m.last = f + s
  <2>1. f \in Int /\ m.last \in Int /\ f <= m.last
    BY <1>4
  <2>2. QED
    BY <1>1, <2>1
<1>8. /\ Len(z) = Len(y) - s
      /\ z[f] = atoms[k]
      /\ \A i \in f + 1..Len(z) : z[i] = y[i + s]
  BY <1>1, <1>3 DEF Spliced
<1>9. ASSUME NEW i \in f..Len(z)
      PROVE  z[i] \in T \/ \E q \in 1..k : z[i] = atoms[q]
  <2>1. CASE i = f
    <3>1. k \in 1..k
      BY <1>2
    <3>2. QED
      BY <1>8, <2>1, <3>1
  <2>2. CASE i # f
    <3>1. PICK j : j = i + s
      OBVIOUS
    <3>2. f \in Int /\ Len(z) \in Int /\ i \in Int /\ f <= i /\ i <= Len(z)
      BY <1>4, <1>6, <1>7, <1>8
    <3>3. j \in Int /\ m.last < j /\ j <= Len(y) /\ i \in f + 1..Len(z)
      BY <1>6, <1>7, <1>8, <2>2, <3>1, <3>2
    <3>4. z[i] = y[j]
      BY <1>8, <3>1, <3>3
    <3>5. e \in Int /\ m.last \in Int /\ 1 <= m.last
      BY <1>4
    <3>6. CASE e <= j
      <4>1. j \in e..Len(y)
        BY <1>6, <3>3, <3>5, <3>6
      <4>2. y[j] \in T \/ \E q \in 1..k - 1 : y[j] = atoms[q]
        BY <1>5, <4>1 DEF AfterEdge
      <4>3. \A q \in 1..k - 1 : q \in 1..k
        BY <1>2
      <4>4. QED
        BY <3>4, <4>2, <4>3
    <3>7. CASE j < e
      <4>1. j \in 1..e - 1 /\ j \in 1..Len(text)
        BY <1>2, <1>4, <3>3, <3>5, <3>7
      <4>2. y[j] = text[j]
        BY <1>6, <4>1
      <4>3. ASSUME NEW q \in 1..Len(order) PROVE ~(order[q].first <= j /\ j <= order[q].last)
        <5>1. /\ order[q].first \in Int /\ order[q].last \in Int
          BY DEF Descends
        <5>2. CASE q = k
          BY <1>1, <3>3, <5>1, <5>2
        <5>3. CASE q < k
          <6>1. q \in 1..k - 1 /\ k - 1 \in 0..Len(order)
            BY <1>2, <5>3
          <6>2. e <= order[q].first
            BY <1>1, <1>2, <6>1, BeyondEdge
          <6>3. QED
            BY <3>3, <3>5, <3>7, <5>1, <6>2
        <5>4. CASE k < q
          <6>1. order[q].last < f
            BY <1>1, <5>4 DEF Descends
          <6>2. f <= m.last
            BY <1>4
          <6>3. QED
            BY <3>2, <3>3, <3>5, <5>1, <6>1, <6>2
        <5>5. QED
          BY <1>2, <5>2, <5>3, <5>4
      <4>4. text[j] \in T
        BY <4>1, <4>3 DEF Outside
      <4>5. QED
        BY <3>4, <4>2, <4>4
    <3>8. QED
      BY <3>3, <3>5, <3>6, <3>7
  <2>3. QED
    BY <2>1, <2>2
<1>10. AfterEdge(z, f, T, atoms, k)
  BY <1>9 DEF AfterEdge
<1>11. QED
  BY <1>1, <1>10

\* What the substitutions leave is what was outside the matches, and what
\* replaced them.
LEMMA SplicesShow ==
    ASSUME NEW text, IsList(text), NEW order, Descends(order, text),
           NEW atoms, NEW x, Splices(text, order, atoms, x),
           NEW y, y = x[Len(order)], NEW atom \in ToSet(y)
    PROVE  atom \in Outside(text, order) \/ \E q \in 1..Len(order) : atom = atoms[q]
<1>1. Len(text) \in Nat /\ Len(order) \in Nat
  BY ListDomain DEF Descends
<1>2. \A k \in 0..Len(order) : Intact(text, x[k], Edge(text, order, k))
  BY SplicesIntact
<1>3. PICK T : T = Outside(text, order)
  OBVIOUS
<1> DEFINE S == {k \in 0..Len(order) :
                   AfterEdge(x[k], Edge(text, order, k), T, atoms, k)}
<1>4. 0 \in S
  <2>1. x[0] = text /\ Edge(text, order, 0) = Len(text) + 1
    BY DEF Splices, Edge
  <2>2. Len(text) + 1..Len(text) = {}
    BY <1>1
  <2>3. AfterEdge(text, Len(text) + 1, T, atoms, 0)
    BY <2>2 DEF AfterEdge
  <2>4. QED
    BY <1>1, <2>1, <2>3
<1>5. ASSUME NEW k \in 1..Len(order), k - 1 \in S PROVE k \in S
  <2>1. k - 1 \in 0..Len(order) /\ k \in 0..Len(order)
    BY <1>1
  <2>2. Intact(text, x[k-1], Edge(text, order, k - 1))
    BY <1>2, <2>1
  <2>3. AfterEdge(x[k-1], Edge(text, order, k - 1), T, atoms, k - 1)
    BY <1>5
  <2> HIDE DEF S
  <2>4. AfterEdge(x[k], order[k].first, T, atoms, k)
    BY <1>3, <2>2, <2>3, AfterEdgeNext
  <2>5. Edge(text, order, k) = order[k].first
    BY <1>1, NextEdge
  <2>6. QED
    BY <2>1, <2>4, <2>5 DEF S
<1> HIDE DEF S
<1>6. \A k \in 0..Len(order) : k \in S
  BY <1>1, <1>4, <1>5, Reached
<1>7. PICK last, e : last = Len(order) /\ e = Edge(text, order, last)
  OBVIOUS
<1>8. last \in 0..Len(order)
  BY <1>1, <1>7
<1>9. AfterEdge(y, e, T, atoms, last) /\ Intact(text, y, e)
  BY <1>2, <1>6, <1>7, <1>8 DEF S
<1>10. /\ Len(y) \in Nat /\ DOMAIN y = 1..Len(y)
       /\ e \in 1..Len(text) + 1
       /\ \A i \in 1..e - 1 : y[i] = text[i]
  BY <1>9, ListDomain DEF Intact
<1>11. PICK i \in 1..Len(y) : y[i] = atom
  BY <1>10 DEF ToSet
<1>12. CASE e <= i
  <2>1. i \in e..Len(y)
    BY <1>10, <1>12
  <2>2. QED
    BY <1>3, <1>7, <1>9, <1>11, <2>1 DEF AfterEdge
<1>13. CASE i < e
  <2>1. i \in 1..e - 1 /\ i \in 1..Len(text)
    BY <1>1, <1>10, <1>13
  <2>2. y[i] = text[i]
    BY <1>10, <2>1
  <2>3. ASSUME NEW q \in 1..Len(order) PROVE ~(order[q].first <= i /\ i <= order[q].last)
    <3>1. order[q].first \in Int
      BY DEF Descends
    <3>2. q \in 1..last
      BY <1>7
    <3>3. e <= order[q].first
      BY <1>1, <1>7, <1>8, <3>2, BeyondEdge
    <3>4. QED
      BY <1>10, <1>13, <3>1, <3>3
  <2>4. text[i] \in Outside(text, order)
    BY <2>1, <2>3 DEF Outside
  <2>5. QED
    BY <1>11, <2>2, <2>4
<1>14. QED
  BY <1>10, <1>12, <1>13

\* Outside the findings that are substituted is outside those that are accepted.
LEMMA OutsideUncovered ==
    ASSUME NEW text, IsList(text), NEW policy, NEW order,
           Substituted(text, policy, order), DOMAIN order = 1..Len(order)
    PROVE  Outside(text, order) \subseteq Uncovered(text, policy)
<1>1. PICK A : A = Accepted(text, policy)
  OBVIOUS
<1>2. \A m \in A : \E k \in 1..Len(order) : order[k] = m
  BY <1>1 DEF Substituted
<1>3. Uncovered(text, policy) = {text[k] : k \in {i \in DOMAIN text :
                                   \A m \in A : ~(m.first <= i /\ i <= m.last)}}
  BY <1>1 DEF Uncovered
<1>4. DOMAIN text = 1..Len(text)
  BY ListDomain
<1>5. ASSUME NEW j \in 1..Len(text),
             \A k \in 1..Len(order) : ~(order[k].first <= j /\ j <= order[k].last)
      PROVE  text[j] \in Uncovered(text, policy)
  <2>1. \A m \in A : ~(m.first <= j /\ j <= m.last)
    BY <1>2, <1>5
  <2>2. QED
    BY <1>3, <1>4, <2>1
<1>6. QED
  BY <1>5 DEF Outside

\* tokenize_text(), turn by turn.
LEMMA TokenizeTurns ==
    ASSUME NEW text, NEW policy, NEW V,
           NEW seq, seq = FromTheEnd(text, policy), IsList(seq),
           NEW fold, fold = [kind |-> "tokenize", policy |-> policy, text |-> text], NEW base, base = [text |-> text, vault |-> V]
    PROVE  \E r : /\ Runs(fold, base, seq, r)
                  /\ r[Len(seq)] = TokenizeText(text, policy, V)
<1>1. PICK n \in Nat : n = Len(seq)
  BY ListDomain
<1>2. DOMAIN seq = 1..n
  BY <1>1, ListDomain
<1>3. \A past, x : Turn(fold, past, x) = [text |->
       Splice(past.text, x,
              TokenFor(past.vault,
                       Policies[policy][x.detector].type,
                       SubSeq(text, x.first, x.last))),
     vault |->
       Remember(past.vault,
                Policies[policy][x.detector].type,
                SubSeq(text, x.first, x.last),
                Policies[policy][x.detector].length)]
  BY DEF Turn
<1>4. PICK w : Folded(fold, base, seq, n, w)
  BY FoldedExists
<1> DEFINE F(g) == [s \in SUBSET (1..n) |->
              IF s = {} THEN base
              ELSE [text |->
       Splice(g[s \ {Max(s)}].text, seq[Max(s)],
              TokenFor(g[s \ {Max(s)}].vault,
                       Policies[policy][seq[Max(s)].detector].type,
                       SubSeq(text, seq[Max(s)].first, seq[Max(s)].last))),
     vault |->
       Remember(g[s \ {Max(s)}].vault,
                Policies[policy][seq[Max(s)].detector].type,
                SubSeq(text, seq[Max(s)].first, seq[Max(s)].last),
                Policies[policy][seq[Max(s)].detector].length)]]
           iter == CHOOSE g : g = F(g)
<1>5. w = F(w)
  <2>1. w = [s \in SUBSET (1..n) |->
               IF s = {} THEN base
               ELSE Turn(fold, w[s \ {Max(s)}], seq[Max(s)])]
    BY <1>4 DEF Folded
  <2>2. ASSUME NEW s \in SUBSET (1..n)
        PROVE  w[s] = IF s = {} THEN base
                      ELSE [text |->
       Splice(w[s \ {Max(s)}].text, seq[Max(s)],
              TokenFor(w[s \ {Max(s)}].vault,
                       Policies[policy][seq[Max(s)].detector].type,
                       SubSeq(text, seq[Max(s)].first, seq[Max(s)].last))),
     vault |->
       Remember(w[s \ {Max(s)}].vault,
                Policies[policy][seq[Max(s)].detector].type,
                SubSeq(text, seq[Max(s)].first, seq[Max(s)].last),
                Policies[policy][seq[Max(s)].detector].length)]
    <3>1. PICK past, x : past = w[s \ {Max(s)}] /\ x = seq[Max(s)]
      OBVIOUS
    <3>2. w[s] = IF s = {} THEN base ELSE Turn(fold, past, x)
      BY <2>1, <3>1
    <3>3. w[s] = IF s = {} THEN base
                 ELSE [text |->
       Splice(past.text, x,
              TokenFor(past.vault,
                       Policies[policy][x.detector].type,
                       SubSeq(text, x.first, x.last))),
     vault |->
       Remember(past.vault,
                Policies[policy][x.detector].type,
                SubSeq(text, x.first, x.last),
                Policies[policy][x.detector].length)]
      BY <1>3, <3>2
    <3>4. QED
      BY <3>1, <3>3
  <2>3. DOMAIN w = SUBSET (1..n)
    BY <2>1
  <2>4. w = [s \in SUBSET (1..n) |-> w[s]]
    BY <2>1
  <2>5. QED
    BY <2>2, <2>4
<1>6. iter = F(iter)
  BY <1>5
<1>7. TokenizeText(text, policy, V) = iter[1..n]
  BY <1>2 DEF TokenizeText, FoldLeft, MapThenFoldSet
<1> HIDE DEF iter
<1>8. Folded(fold, base, seq, n, iter)
  <2>1. ASSUME NEW s \in SUBSET (1..n)
        PROVE  iter[s] = IF s = {} THEN base
                         ELSE Turn(fold, iter[s \ {Max(s)}], seq[Max(s)])
    <3>1. PICK past, x : past = iter[s \ {Max(s)}] /\ x = seq[Max(s)]
      OBVIOUS
    <3>2. iter[s] = IF s = {} THEN base
                    ELSE [text |->
       Splice(past.text, x,
              TokenFor(past.vault,
                       Policies[policy][x.detector].type,
                       SubSeq(text, x.first, x.last))),
     vault |->
       Remember(past.vault,
                Policies[policy][x.detector].type,
                SubSeq(text, x.first, x.last),
                Policies[policy][x.detector].length)]
      BY <1>6, <3>1
    <3>3. iter[s] = IF s = {} THEN base ELSE Turn(fold, past, x)
      BY <1>3, <3>2
    <3>4. QED
      BY <3>1, <3>3
  <2>2. iter = [s \in SUBSET (1..n) |-> iter[s]]
    BY <1>6
  <2>3. QED
    BY <2>1, <2>2 DEF Folded
<1>9. PICK r : Runs(fold, base, seq, r) /\ r[n] = iter[1..n]
  BY <1>1, <1>8, FoldedRuns
<1>10. QED
  BY <1>1, <1>7, <1>9

\* mask_text(), turn by turn.
LEMMA MaskTurns ==
    ASSUME NEW text, NEW policy,
           NEW seq, seq = FromTheEnd(text, policy), IsList(seq),
           NEW fold, fold = [kind |-> "mask", policy |-> policy], NEW base, base = text
    PROVE  \E r : /\ Runs(fold, base, seq, r)
                  /\ r[Len(seq)] = MaskText(text, policy)
<1>1. PICK n \in Nat : n = Len(seq)
  BY ListDomain
<1>2. DOMAIN seq = 1..n
  BY <1>1, ListDomain
<1>3. \A past, x : Turn(fold, past, x) = Splice(past, x, Masked(Policies[policy][x.detector].type))
  BY DEF Turn
<1>4. PICK w : Folded(fold, base, seq, n, w)
  BY FoldedExists
<1> DEFINE F(g) == [s \in SUBSET (1..n) |->
              IF s = {} THEN base
              ELSE Splice(g[s \ {Max(s)}], seq[Max(s)], Masked(Policies[policy][seq[Max(s)].detector].type))]
           iter == CHOOSE g : g = F(g)
<1>5. w = F(w)
  <2>1. w = [s \in SUBSET (1..n) |->
               IF s = {} THEN base
               ELSE Turn(fold, w[s \ {Max(s)}], seq[Max(s)])]
    BY <1>4 DEF Folded
  <2>2. ASSUME NEW s \in SUBSET (1..n)
        PROVE  w[s] = IF s = {} THEN base
                      ELSE Splice(w[s \ {Max(s)}], seq[Max(s)], Masked(Policies[policy][seq[Max(s)].detector].type))
    <3>1. PICK past, x : past = w[s \ {Max(s)}] /\ x = seq[Max(s)]
      OBVIOUS
    <3>2. w[s] = IF s = {} THEN base ELSE Turn(fold, past, x)
      BY <2>1, <3>1
    <3>3. w[s] = IF s = {} THEN base
                 ELSE Splice(past, x, Masked(Policies[policy][x.detector].type))
      BY <1>3, <3>2
    <3>4. QED
      BY <3>1, <3>3
  <2>3. DOMAIN w = SUBSET (1..n)
    BY <2>1
  <2>4. w = [s \in SUBSET (1..n) |-> w[s]]
    BY <2>1
  <2>5. QED
    BY <2>2, <2>4
<1>6. iter = F(iter)
  BY <1>5
<1>7. MaskText(text, policy) = iter[1..n]
  BY <1>2 DEF MaskText, FoldLeft, MapThenFoldSet
<1> HIDE DEF iter
<1>8. Folded(fold, base, seq, n, iter)
  <2>1. ASSUME NEW s \in SUBSET (1..n)
        PROVE  iter[s] = IF s = {} THEN base
                         ELSE Turn(fold, iter[s \ {Max(s)}], seq[Max(s)])
    <3>1. PICK past, x : past = iter[s \ {Max(s)}] /\ x = seq[Max(s)]
      OBVIOUS
    <3>2. iter[s] = IF s = {} THEN base
                    ELSE Splice(past, x, Masked(Policies[policy][x.detector].type))
      BY <1>6, <3>1
    <3>3. iter[s] = IF s = {} THEN base ELSE Turn(fold, past, x)
      BY <1>3, <3>2
    <3>4. QED
      BY <3>1, <3>3
  <2>2. iter = [s \in SUBSET (1..n) |-> iter[s]]
    BY <1>6
  <2>3. QED
    BY <2>1, <2>2 DEF Folded
<1>9. PICK r : Runs(fold, base, seq, r) /\ r[n] = iter[1..n]
  BY <1>1, <1>8, FoldedRuns
<1>10. QED
  BY <1>1, <1>7, <1>9

\* tokenize(), leaf by leaf.
LEMMA DocumentTurns ==
    ASSUME NEW document, NEW policy, NEW V,
           NEW seq, seq = document, IsList(seq),
           NEW fold, fold = [kind |-> "document", policy |-> policy], NEW base, base = [document |-> <<>>, vault |-> V]
    PROVE  \E r : /\ Runs(fold, base, seq, r)
                  /\ r[Len(seq)] = Tokenize(document, policy, V)
<1>1. PICK n \in Nat : n = Len(seq)
  BY ListDomain
<1>2. DOMAIN seq = 1..n
  BY <1>1, ListDomain
<1>3. \A past, x : Turn(fold, past, x) = [document |->
       Append(past.document,
              Leaf(x.path, TokenizeText(x.text, policy, past.vault).text)),
     vault |-> TokenizeText(x.text, policy, past.vault).vault]
  BY DEF Turn
<1>4. PICK w : Folded(fold, base, seq, n, w)
  BY FoldedExists
<1> DEFINE F(g) == [s \in SUBSET (1..n) |->
              IF s = {} THEN base
              ELSE [document |->
       Append(g[s \ {Max(s)}].document,
              Leaf(seq[Max(s)].path, TokenizeText(seq[Max(s)].text, policy, g[s \ {Max(s)}].vault).text)),
     vault |-> TokenizeText(seq[Max(s)].text, policy, g[s \ {Max(s)}].vault).vault]]
           iter == CHOOSE g : g = F(g)
<1>5. w = F(w)
  <2>1. w = [s \in SUBSET (1..n) |->
               IF s = {} THEN base
               ELSE Turn(fold, w[s \ {Max(s)}], seq[Max(s)])]
    BY <1>4 DEF Folded
  <2>2. ASSUME NEW s \in SUBSET (1..n)
        PROVE  w[s] = IF s = {} THEN base
                      ELSE [document |->
       Append(w[s \ {Max(s)}].document,
              Leaf(seq[Max(s)].path, TokenizeText(seq[Max(s)].text, policy, w[s \ {Max(s)}].vault).text)),
     vault |-> TokenizeText(seq[Max(s)].text, policy, w[s \ {Max(s)}].vault).vault]
    <3>1. PICK past, x : past = w[s \ {Max(s)}] /\ x = seq[Max(s)]
      OBVIOUS
    <3>2. w[s] = IF s = {} THEN base ELSE Turn(fold, past, x)
      BY <2>1, <3>1
    <3>3. w[s] = IF s = {} THEN base
                 ELSE [document |->
       Append(past.document,
              Leaf(x.path, TokenizeText(x.text, policy, past.vault).text)),
     vault |-> TokenizeText(x.text, policy, past.vault).vault]
      BY <1>3, <3>2
    <3>4. QED
      BY <3>1, <3>3
  <2>3. DOMAIN w = SUBSET (1..n)
    BY <2>1
  <2>4. w = [s \in SUBSET (1..n) |-> w[s]]
    BY <2>1
  <2>5. QED
    BY <2>2, <2>4
<1>6. iter = F(iter)
  BY <1>5
<1>7. Tokenize(document, policy, V) = iter[1..n]
  BY <1>2 DEF Tokenize, FoldLeft, MapThenFoldSet
<1> HIDE DEF iter
<1>8. Folded(fold, base, seq, n, iter)
  <2>1. ASSUME NEW s \in SUBSET (1..n)
        PROVE  iter[s] = IF s = {} THEN base
                         ELSE Turn(fold, iter[s \ {Max(s)}], seq[Max(s)])
    <3>1. PICK past, x : past = iter[s \ {Max(s)}] /\ x = seq[Max(s)]
      OBVIOUS
    <3>2. iter[s] = IF s = {} THEN base
                    ELSE [document |->
       Append(past.document,
              Leaf(x.path, TokenizeText(x.text, policy, past.vault).text)),
     vault |-> TokenizeText(x.text, policy, past.vault).vault]
      BY <1>6, <3>1
    <3>3. iter[s] = IF s = {} THEN base ELSE Turn(fold, past, x)
      BY <1>3, <3>2
    <3>4. QED
      BY <3>1, <3>3
  <2>2. iter = [s \in SUBSET (1..n) |-> iter[s]]
    BY <1>6
  <2>3. QED
    BY <2>1, <2>2 DEF Folded
<1>9. PICK r : Runs(fold, base, seq, r) /\ r[n] = iter[1..n]
  BY <1>1, <1>8, FoldedRuns
<1>10. QED
  BY <1>1, <1>7, <1>9

-----------------------------------------------------------------------------
(* One text *)

\* An atom that restores to what it replaced.
Replaces(y, m, atom, W) ==
    /\ IsList(y) /\ IsVault(W)
    /\ m.first \in 1..Len(y) /\ m.last \in m.first..Len(y)
    /\ RestoreText(<<atom>>, W) = SubSeq(y, m.first, m.last)
    /\ RestoreText(SubSeq(y, m.first, m.last), W) = SubSeq(y, m.first, m.last)

LEMMA SpliceRestored ==
    ASSUME NEW y, NEW m, NEW atom, NEW W, Replaces(y, m, atom, W)
    PROVE  RestoreText(Splice(y, m, atom), W) = RestoreText(y, W)
<1>0. PICK middle, one : middle = SubSeq(y, m.first, m.last) /\ one = <<atom>>
  OBVIOUS
<1>0a. /\ IsList(y) /\ IsVault(W)
       /\ m.first \in 1..Len(y) /\ m.last \in m.first..Len(y)
       /\ RestoreText(one, W) = middle
       /\ RestoreText(middle, W) = middle
  BY <1>0 DEF Replaces
<1>1. PICK f, g, n : f = m.first /\ g = m.last /\ n = Len(y)
  OBVIOUS
<1>2. n \in Nat /\ f \in 1..n /\ g \in f..n
  BY <1>0a, <1>1, ListDomain
<1>3. PICK p, q : p = SubSeq(y, 1, f - 1) /\ q = SubSeq(y, g + 1, n)
  OBVIOUS
<1>4. IsList(p)
  <2>1. 1 \in 1..Len(y) + 1 /\ f - 1 \in 1 - 1..Len(y)
    BY <1>1, <1>2
  <2>2. QED
    BY <1>0a, <1>3, <2>1, PartOfList
<1>5. IsList(q)
  <2>1. PICK c : c = g + 1
    OBVIOUS
  <2>2. c \in 1..Len(y) + 1 /\ n \in c - 1..Len(y)
    BY <1>1, <1>2, <2>1
  <2>3. IsList(SubSeq(y, c, n))
    BY <1>0a, <2>2, PartOfList
  <2>4. QED
    BY <1>3, <2>1, <2>3
<1>6. IsList(middle)
  <2>1. f \in 1..Len(y) + 1 /\ g \in f - 1..Len(y)
    BY <1>1, <1>2
  <2>2. IsList(SubSeq(y, f, g))
    BY <1>0a, <2>1, PartOfList
  <2>3. QED
    BY <1>0, <1>1, <2>2
<1>7. IsList(one)
  BY <1>0, OneElement
<1>8. Splice(y, m, atom) = Join(Join(p, one), q)
  BY <1>0, <1>1, <1>3 DEF Splice, Join
<1>9. y = Join(Join(p, middle), q)
  <2>1. f \in 1..Len(y) /\ g \in f..Len(y)
    BY <1>1, <1>2
  <2>2. y = Join(Join(SubSeq(y, 1, f - 1), SubSeq(y, f, g)),
                 SubSeq(y, g + 1, Len(y)))
    BY <1>0a, <2>1, CutInThree
  <2>3. QED
    BY <1>0, <1>1, <1>3, <2>2
<1>10. ASSUME NEW s, IsList(s)
       PROVE  RestoreText(Join(Join(p, s), q), W)
                = Join(Join(RestoreText(p, W), RestoreText(s, W)), RestoreText(q, W))
  <2>1. PICK t : t = Join(p, s)
    OBVIOUS
  <2>2. Joins(p, s, t)
    BY <1>4, <1>10, <2>1, JoinJoins
  <2>3. IsList(t)
    BY <2>2 DEF Joins
  <2>4. RestoreText(t, W) = Join(RestoreText(p, W), RestoreText(s, W))
    BY <1>0a, <1>4, <1>10, <2>1, RestoreJoined
  <2>5. RestoreText(Join(t, q), W) = Join(RestoreText(t, W), RestoreText(q, W))
    BY <1>0a, <1>5, <2>3, RestoreJoined
  <2>6. QED
    BY <2>1, <2>4, <2>5
<1>11. RestoreText(Splice(y, m, atom), W)
         = Join(Join(RestoreText(p, W), RestoreText(one, W)), RestoreText(q, W))
  BY <1>7, <1>8, <1>10
<1>12. RestoreText(y, W)
         = Join(Join(RestoreText(p, W), RestoreText(middle, W)), RestoreText(q, W))
  BY <1>6, <1>9, <1>10
<1>13. RestoreText(one, W) = RestoreText(middle, W)
  BY <1>0a
<1>14. QED
  BY <1>11, <1>12, <1>13

LEMMA IntactPart ==
    ASSUME NEW text, IsList(text), NEW y, NEW e, Intact(text, y, e),
           NEW i \in 1..e, NEW j \in i..e - 1
    PROVE  SubSeq(y, i, j) = SubSeq(text, i, j)
<1>1. /\ IsList(y) /\ e \in 1..Len(y) + 1 /\ e \in 1..Len(text) + 1
      /\ \A k \in 1..e - 1 : y[k] = text[k]
  BY DEF Intact
<1>2. Len(y) \in Nat /\ Len(text) \in Nat
  BY <1>1, ListDomain
<1>3. i \in 1..Len(y) + 1 /\ j \in i - 1..Len(y)
  BY <1>1, <1>2
<1>4. i \in 1..Len(text) + 1 /\ j \in i - 1..Len(text)
  BY <1>1, <1>2
<1>5. PICK s, t : s = SubSeq(y, i, j) /\ t = SubSeq(text, i, j)
  OBVIOUS
<1>6. /\ IsList(s) /\ Len(s) = j - i + 1
      /\ \A k \in 1..j - i + 1 : s[k] = y[i + k - 1]
  <2>1. /\ IsList(SubSeq(y, i, j)) /\ Len(SubSeq(y, i, j)) = j - i + 1
        /\ \A k \in 1..j - i + 1 : SubSeq(y, i, j)[k] = y[i + k - 1]
    BY <1>1, <1>3, PartOfList
  <2>2. QED
    BY <1>5, <2>1
<1>7. /\ IsList(t) /\ Len(t) = j - i + 1
      /\ \A k \in 1..j - i + 1 : t[k] = text[i + k - 1]
  <2>1. /\ IsList(SubSeq(text, i, j)) /\ Len(SubSeq(text, i, j)) = j - i + 1
        /\ \A k \in 1..j - i + 1 : SubSeq(text, i, j)[k] = text[i + k - 1]
    BY <1>4, PartOfList
  <2>2. QED
    BY <1>5, <2>1
<1>8. ASSUME NEW k \in 1..Len(s) PROVE s[k] = t[k]
  <2>1. k \in 1..j - i + 1 /\ i + k - 1 \in 1..e - 1
    BY <1>1, <1>2, <1>6
  <2>2. QED
    BY <1>1, <1>6, <1>7, <2>1
<1>9. s = t
  BY <1>6, <1>7, <1>8, SameList
<1>10. QED
  BY <1>5, <1>9


\* What the k-th substitution replaces.
Found(text, order, k) == SubSeq(text, order[k].first, order[k].last)

\* The vault after each of the substitutions.
VaultTurns(text, policy, V, order, atoms, v) ==
    /\ v[0] = V
    /\ \A k \in 1..Len(order) :
          LET detector == Policies[policy][order[k].detector]
          IN /\ atoms[k] = TokenFor(v[k-1], detector.type, Found(text, order, k))
             /\ v[k] = Remember(v[k-1], detector.type, Found(text, order, k),
                                detector.length)

LEMMA TokenizeParts ==
    ASSUME NEW text, NEW policy, NEW V,
           NEW order, order = FromTheEnd(text, policy), IsList(order)
    PROVE  \E x, v, atoms :
              /\ Splices(text, order, atoms, x)
              /\ VaultTurns(text, policy, V, order, atoms, v)
              /\ TokenizeText(text, policy, V).text = x[Len(order)]
              /\ TokenizeText(text, policy, V).vault = v[Len(order)]
<1>1. PICK fold, base : /\ fold = [kind |-> "tokenize", policy |-> policy,
                                   text |-> text]
                        /\ base = [text |-> text, vault |-> V]
  OBVIOUS
<1>2. PICK r : /\ Runs(fold, base, order, r)
               /\ r[Len(order)] = TokenizeText(text, policy, V)
  BY <1>1, TokenizeTurns
<1>3. Len(order) \in Nat
  BY ListDomain
<1>4. PICK x : x = [k \in 0..Len(order) |-> r[k].text]
  OBVIOUS
<1>5. PICK v : v = [k \in 0..Len(order) |-> r[k].vault]
  OBVIOUS
<1>6. PICK atoms : atoms = [k \in 1..Len(order) |->
                      TokenFor(v[k-1], Policies[policy][order[k].detector].type,
                               Found(text, order, k))]
  OBVIOUS
<1>7. x[0] = text /\ v[0] = V
  BY <1>1, <1>2, <1>3, <1>4, <1>5 DEF Runs
<1>8. ASSUME NEW k \in 1..Len(order)
      PROVE  /\ x[k] = Splice(x[k-1], order[k], atoms[k])
             /\ v[k] = Remember(v[k-1], Policies[policy][order[k].detector].type,
                                Found(text, order, k),
                                Policies[policy][order[k].detector].length)
  <2>1. PICK past, m : past = r[k-1] /\ m = order[k]
    OBVIOUS
  <2>2. k - 1 \in 0..Len(order) /\ k \in 0..Len(order)
    BY <1>3
  <2>3. r[k] = Turn(fold, past, m)
    BY <1>2, <2>1 DEF Runs
  <2>4. PICK detector, value : /\ detector = Policies[policy][m.detector]
                               /\ value = SubSeq(text, m.first, m.last)
    OBVIOUS
  <2>5. r[k] = [text |-> Splice(past.text, m,
                                TokenFor(past.vault, detector.type, value)),
                vault |-> Remember(past.vault, detector.type, value,
                                   detector.length)]
    BY <1>1, <2>3, <2>4 DEF Turn
  <2>6. past.text = x[k-1] /\ past.vault = v[k-1] /\ x[k] = r[k].text
        /\ v[k] = r[k].vault
    BY <1>4, <1>5, <2>1, <2>2
  <2>7. value = Found(text, order, k)
    BY <2>1, <2>4 DEF Found
  <2>8. atoms[k] = TokenFor(v[k-1], detector.type, value)
    BY <1>6, <2>1, <2>4, <2>7
  <2>9. /\ x[k] = Splice(x[k-1], m, atoms[k])
        /\ v[k] = Remember(v[k-1], detector.type, value, detector.length)
    BY <2>5, <2>6, <2>8
  <2>10. QED
    BY <2>1, <2>4, <2>7, <2>9
<1>9. Splices(text, order, atoms, x)
  BY <1>7, <1>8 DEF Splices
<1>10. \A k \in 1..Len(order) :
          atoms[k] = TokenFor(v[k-1], Policies[policy][order[k].detector].type,
                              Found(text, order, k))
  BY <1>6
<1>11. VaultTurns(text, policy, V, order, atoms, v)
  BY <1>7, <1>8, <1>10 DEF VaultTurns
<1>12. Len(order) \in 0..Len(order)
  BY <1>3
<1>13. /\ TokenizeText(text, policy, V).text = x[Len(order)]
       /\ TokenizeText(text, policy, V).vault = v[Len(order)]
  BY <1>2, <1>4, <1>5, <1>12
<1>14. QED
  BY <1>9, <1>11, <1>13

LEMMA FoundIsList ==
    ASSUME NEW text, IsList(text), NEW order, Descends(order, text),
           NEW k \in 1..Len(order), NEW value, value = Found(text, order, k)
    PROVE  IsList(value) /\ value # << >> /\ ToSet(value) \subseteq ToSet(text)
<1>1. PICK i, j : i = order[k].first /\ j = order[k].last
  OBVIOUS
<1>2. Len(text) \in Nat /\ i \in 1..Len(text) /\ j \in i..Len(text)
  BY <1>1, ListDomain DEF Descends
<1>3. i \in 1..Len(text) + 1 /\ j \in i - 1..Len(text)
  BY <1>2
<1>4. /\ IsList(SubSeq(text, i, j)) /\ Len(SubSeq(text, i, j)) = j - i + 1
      /\ ToSet(SubSeq(text, i, j)) \subseteq ToSet(text)
  BY <1>3, PartOfList
<1>5. value = SubSeq(text, i, j)
  BY <1>1 DEF Found
<1>6. Len(value) # 0
  BY <1>2, <1>4, <1>5
<1>7. value # << >>
  BY <1>6, NoElement
<1>8. QED
  BY <1>4, <1>5, <1>7

\* A sound vault that has grown by values made of these atoms.
GrownBy(V, W, atoms) ==
    /\ SoundVault(W)
    /\ Grown(V, W)
    /\ \A n \in DOMAIN W : n \in DOMAIN V \/ ToSet(W[n].value) \subseteq atoms

\* Every token made so far stands for what it replaced.
Stands(text, order, atoms, v, k) ==
    \A i \in 1..k : StandsFor(v[k], atoms[i], Found(text, order, i))

LEMMA VaultInTurn ==
    ASSUME NEW text, IsList(text), NEW policy, ProperPolicy(policy),
           NEW order, Substituted(text, policy, order), Descends(order, text),
           NEW V, SoundVault(V), NEW atoms, NEW v,
           VaultTurns(text, policy, V, order, atoms, v)
    PROVE  \A k \in 0..Len(order) : /\ GrownBy(V, v[k], ToSet(text))
                                    /\ Stands(text, order, atoms, v, k)
                                    /\ \A i \in 1..k : IsToken(atoms[i])
<1> DEFINE S == {k \in 0..Len(order) : /\ GrownBy(V, v[k], ToSet(text))
                                       /\ Stands(text, order, atoms, v, k)
                                       /\ \A i \in 1..k : IsToken(atoms[i])}
<1>1. Len(order) \in Nat /\ DOMAIN order = 1..Len(order)
  BY DEF Descends
<1>2. 0 \in S
  <2>1. v[0] = V
    BY DEF VaultTurns
  <2>2. Grown(V, V)
    BY ListDomain DEF Grown, SoundVault, IsVault
  <2>3. GrownBy(V, V, ToSet(text))
    BY <2>2 DEF GrownBy
  <2>4. Stands(text, order, atoms, v, 0)
    BY DEF Stands
  <2>5. QED
    BY <1>1, <2>1, <2>3, <2>4
<1>3. ASSUME NEW k \in 1..Len(order), k - 1 \in S PROVE k \in S
  <2>1. /\ GrownBy(V, v[k-1], ToSet(text))
        /\ Stands(text, order, atoms, v, k - 1)
        /\ \A i \in 1..k - 1 : IsToken(atoms[i])
    BY <1>3
  <2> HIDE DEF S
  <2>2. PICK U, W, value, detector :
           /\ U = v[k-1] /\ W = v[k] /\ value = Found(text, order, k)
           /\ detector = Policies[policy][order[k].detector]
    OBVIOUS
  <2>3. IsList(value) /\ value # << >> /\ ToSet(value) \subseteq ToSet(text)
    BY <2>2, FoundIsList
  <2>4. detector.length \in Int
    <3>1. order[k] \in Matches(text, policy)
      BY <1>1 DEF Substituted
    <3>2. order[k].detector \in DOMAIN Policies[policy]
      BY <3>1, MatchParts
    <3>3. QED
      BY <2>2, <3>2 DEF ProperPolicy
  <2>5. /\ atoms[k] = TokenFor(U, detector.type, value)
        /\ W = Remember(U, detector.type, value, detector.length)
    BY <2>2 DEF VaultTurns
  <2>6. SoundVault(U) /\ Grown(V, U)
        /\ \A n \in DOMAIN U : n \in DOMAIN V \/ ToSet(U[n].value) \subseteq ToSet(text)
    BY <2>1, <2>2 DEF GrownBy
  <2>7. Remembers(U, W, atoms[k], value) /\ IsToken(atoms[k])
    <3>1. PICK type, length : type = detector.type /\ length = detector.length
      OBVIOUS
    <3>2. length \in Int
      BY <2>4, <3>1
    <3>3. /\ Remembers(U, Remember(U, type, value, length),
                       TokenFor(U, type, value), value)
          /\ IsToken(TokenFor(U, type, value))
      BY <2>3, <2>6, <3>2, Remembered
    <3>4. QED
      BY <2>5, <3>1, <3>3
  <2>8. /\ SoundVault(W) /\ Grown(U, W) /\ StandsFor(W, atoms[k], value)
        /\ \A n \in DOMAIN W : n \in DOMAIN U \/ W[n].value = value
    BY <2>7 DEF Remembers
  <2>9. Grown(V, W)
    BY <2>6, <2>8, GrownTwice
  <2>10. \A n \in DOMAIN W : n \in DOMAIN V \/ ToSet(W[n].value) \subseteq ToSet(text)
    <3>1. \A n \in DOMAIN U : W[n] = U[n]
      BY <2>8 DEF Grown
    <3>2. QED
      BY <2>3, <2>6, <2>8, <3>1
  <2>11. GrownBy(V, W, ToSet(text))
    BY <2>8, <2>9, <2>10 DEF GrownBy
  <2>12. Stands(text, order, atoms, v, k)
    <3>1. ASSUME NEW i \in 1..k PROVE StandsFor(W, atoms[i], Found(text, order, i))
      <4>1. CASE i = k
        BY <2>2, <2>8, <4>1
      <4>2. CASE i # k
        <5>1. i \in 1..k - 1
          BY <1>1, <4>2
        <5>2. StandsFor(U, atoms[i], Found(text, order, i))
          BY <2>1, <2>2, <5>1 DEF Stands
        <5>3. QED
          BY <2>8, <5>2, StillStandsFor
      <4>3. QED
        BY <4>1, <4>2
    <3>2. QED
      BY <2>2, <3>1 DEF Stands
  <2>13. \A i \in 1..k : IsToken(atoms[i])
    <3>1. \A i \in 1..k : i = k \/ i \in 1..k - 1
      BY <1>1
    <3>2. QED
      BY <2>1, <2>7, <3>1
  <2>14. k \in 0..Len(order)
    BY <1>1
  <2>15. QED
    BY <2>2, <2>11, <2>12, <2>13, <2>14 DEF S
<1> HIDE DEF S
<1>4. \A k \in 0..Len(order) : k \in S
  BY <1>1, <1>2, <1>3, Reached
<1>5. QED
  BY <1>4 DEF S


LEMMA RestoredInTurn ==
    ASSUME NEW text, IsList(text), NEW order, Descends(order, text),
           NEW atoms, NEW x, Splices(text, order, atoms, x),
           NEW W, SoundVault(W), Unmixed(W), ToSet(text) \cap TokensOf(W) = {},
           \A k \in 1..Len(order) : StandsFor(W, atoms[k], Found(text, order, k))
    PROVE  RestoreText(x[Len(order)], W) = text
<1> DEFINE S == {k \in 0..Len(order) : RestoreText(x[k], W) = text}
<1>1. Len(order) \in Nat /\ Len(text) \in Nat
  BY ListDomain DEF Descends
<1>2. IsVault(W)
  BY DEF SoundVault
<1>3. \A k \in 0..Len(order) : Intact(text, x[k], Edge(text, order, k))
  BY SplicesIntact
<1>4. 0 \in S
  <2>1. RestoreText(text, W) = text
    BY <1>2, RestoreNone
  <2>2. x[0] = text
    BY DEF Splices
  <2>3. QED
    BY <1>1, <2>1, <2>2
<1>5. ASSUME NEW k \in 1..Len(order), k - 1 \in S PROVE k \in S
  <2>1. RestoreText(x[k-1], W) = text /\ k - 1 \in 0..Len(order)
    BY <1>1, <1>5
  <2> HIDE DEF S
  <2>2. PICK y, m, e, value : /\ y = x[k-1] /\ m = order[k]
                              /\ e = Edge(text, order, k - 1)
                              /\ value = Found(text, order, k)
    OBVIOUS
  <2>3. Intact(text, y, e)
    BY <1>3, <2>1, <2>2
  <2>4. m.first \in 1..Len(y) /\ m.last \in m.first..Len(y)
    BY <1>1, <2>2, <2>3, SpliceStep
  <2>5. m.last < e /\ e \in 1..Len(text) + 1
    BY <1>1, <2>2, NextEdge
  <2>6. IsList(y) /\ Len(y) \in Nat
    BY <2>3, ListDomain DEF Intact
  <2>7. SubSeq(y, m.first, m.last) = value
    <3>1. PICK i, j : i = m.first /\ j = m.last
      OBVIOUS
    <3>2. i \in 1..e /\ j \in i..e - 1
      BY <2>4, <2>5, <2>6, <3>1
    <3>3. SubSeq(y, i, j) = SubSeq(text, i, j)
      BY <2>3, <3>2, IntactPart
    <3>4. QED
      BY <2>2, <3>1, <3>3 DEF Found
  <2>8. PICK n \in DOMAIN W : W[n].token = atoms[k] /\ W[n].value = value
    BY <2>2 DEF StandsFor
  <2>9. RestoreText(<<atoms[k]>>, W) = value
    <3>1. RestoreText(<<W[n].token>>, W) = W[n].value
      BY <1>2, RestoreToken
    <3>2. QED
      BY <2>8, <3>1
  <2>10. RestoreText(value, W) = value
    <3>1. IsList(value) /\ ToSet(value) \subseteq ToSet(text)
      BY <2>2, FoundIsList
    <3>2. ToSet(value) \cap TokensOf(W) = {}
      BY <3>1
    <3>3. QED
      BY <1>2, <3>1, <3>2, RestoreNone
  <2>11. RestoreText(Splice(y, m, atoms[k]), W) = RestoreText(y, W)
    <3>1. PICK atom : atom = atoms[k]
      OBVIOUS
    <3>2. Replaces(y, m, atom, W)
      BY <1>2, <2>4, <2>6, <2>7, <2>9, <2>10, <3>1 DEF Replaces
    <3>3. RestoreText(Splice(y, m, atom), W) = RestoreText(y, W)
      BY <3>2, SpliceRestored
    <3>4. QED
      BY <3>1, <3>3
  <2>12. x[k] = Splice(y, m, atoms[k])
    BY <2>2 DEF Splices
  <2>13. RestoreText(x[k], W) = text /\ k \in 0..Len(order)
    BY <1>1, <2>1, <2>2, <2>11, <2>12
  <2>14. QED
    BY <2>13 DEF S
<1> HIDE DEF S
<1>6. \A k \in 0..Len(order) : k \in S
  BY <1>1, <1>4, <1>5, Reached
<1>7. Len(order) \in 0..Len(order)
  BY <1>1
<1>8. QED
  BY <1>6, <1>7 DEF S

\* The text comes back from any later vault that it shows no token of.
Undone(safe, plain, V) ==
    \A W : /\ SoundVault(W) /\ Grown(V, W) /\ Unmixed(W)
           /\ ToSet(plain) \cap TokensOf(W) = {}
           => RestoreText(safe, W) = plain

LEMMA TokenizedText ==
    ASSUME NEW text, IsList(text), NEW policy, ProperPolicy(policy),
           NEW V, SoundVault(V), NEW y, y = TokenizeText(text, policy, V).text,
           NEW W, W = TokenizeText(text, policy, V).vault
    PROVE  /\ IsList(y)
           /\ GrownBy(V, W, ToSet(text))
           /\ Undone(y, text, W)
           /\ ToSet(y) \subseteq Uncovered(text, policy) \cup TokensOf(W)
           /\ Matches(text, policy) = {} => y = text
<1>1. PICK order : order = FromTheEnd(text, policy)
  OBVIOUS
<1>2. Substituted(text, policy, order)
  BY <1>1, FromTheEndSubstitutes
<1>3. IsList(order)
  BY <1>2 DEF Substituted
<1>4. Descends(order, text)
  BY <1>2, SubstitutedDescends
<1>5. PICK x, v, atoms : /\ Splices(text, order, atoms, x)
                         /\ VaultTurns(text, policy, V, order, atoms, v)
                         /\ y = x[Len(order)]
                         /\ W = v[Len(order)]
  BY <1>1, <1>3, TokenizeParts
<1>6. Len(order) \in Nat /\ Len(order) \in 0..Len(order) /\ DOMAIN order = 1..Len(order)
  BY <1>4 DEF Descends
<1>7. Intact(text, y, Edge(text, order, Len(order)))
  <2>1. \A k \in 0..Len(order) : Intact(text, x[k], Edge(text, order, k))
    BY <1>4, <1>5, SplicesIntact
  <2>2. QED
    BY <1>5, <1>6, <2>1
<1>8. /\ GrownBy(V, W, ToSet(text))
      /\ Stands(text, order, atoms, v, Len(order))
      /\ \A i \in 1..Len(order) : IsToken(atoms[i])
  <2>1. \A k \in 0..Len(order) : /\ GrownBy(V, v[k], ToSet(text))
                                 /\ Stands(text, order, atoms, v, k)
                                 /\ \A i \in 1..k : IsToken(atoms[i])
    BY <1>2, <1>4, <1>5, VaultInTurn
  <2>2. QED
    BY <1>5, <1>6, <2>1
<1>9. ASSUME NEW U, SoundVault(U), Grown(W, U), Unmixed(U),
             ToSet(text) \cap TokensOf(U) = {}
      PROVE  RestoreText(y, U) = text
  <2>1. ASSUME NEW k \in 1..Len(order)
        PROVE  StandsFor(U, atoms[k], Found(text, order, k))
    <3>1. StandsFor(W, atoms[k], Found(text, order, k))
      BY <1>5, <1>8 DEF Stands
    <3>2. QED
      BY <1>9, <3>1, StillStandsFor
  <2>2. RestoreText(x[Len(order)], U) = text
    BY <1>4, <1>5, <1>9, <2>1, RestoredInTurn
  <2>3. QED
    BY <1>5, <2>2
<1>10. Undone(y, text, W)
  BY <1>9 DEF Undone
<1>11. ToSet(y) \subseteq Uncovered(text, policy) \cup TokensOf(W)
  <2>1. ASSUME NEW atom \in ToSet(y)
        PROVE  atom \in Uncovered(text, policy) \/ atom \in TokensOf(W)
    <3>1. CASE atom \in Outside(text, order)
      BY <1>2, <1>6, <3>1, OutsideUncovered
    <3>2. CASE \E q \in 1..Len(order) : atom = atoms[q]
      <4>1. PICK q \in 1..Len(order) : atom = atoms[q]
        BY <3>2
      <4>2. StandsFor(W, atom, Found(text, order, q))
        BY <1>5, <1>8, <4>1 DEF Stands
      <4>3. QED
        BY <4>2 DEF StandsFor, TokensOf
    <3>3. QED
      BY <1>4, <1>5, <3>1, <3>2, SplicesShow
  <2>2. QED
    BY <2>1
<1>12. ASSUME Matches(text, policy) = {} PROVE y = text
  <2>1. 1..Len(order) = {}
    BY <1>2, <1>6, <1>12 DEF Substituted
  <2>2. Len(order) = 0
    BY <1>6, <2>1
  <2>3. QED
    BY <1>5, <2>2 DEF Splices
<1>13. IsList(y)
  BY <1>7 DEF Intact
<1>14. QED
  BY <1>8, <1>10, <1>11, <1>12, <1>13

LEMMA MaskedText ==
    ASSUME NEW text, IsList(text), NEW policy, ProperPolicy(policy),
           NEW y, y = MaskText(text, policy)
    PROVE  /\ IsList(y)
           /\ \A atom \in ToSet(y) :
                 atom \in Uncovered(text, policy) \/ atom[1] = "masked"
<1>1. PICK order : order = FromTheEnd(text, policy)
  OBVIOUS
<1>2. Substituted(text, policy, order)
  BY <1>1, FromTheEndSubstitutes
<1>3. IsList(order)
  BY <1>2 DEF Substituted
<1>4. Descends(order, text)
  BY <1>2, SubstitutedDescends
<1>5. PICK fold : fold = [kind |-> "mask", policy |-> policy]
  OBVIOUS
<1>6. PICK x : /\ Runs(fold, text, order, x)
               /\ x[Len(order)] = MaskText(text, policy)
  BY <1>1, <1>3, <1>5, MaskTurns
<1>7. PICK atoms : atoms = [k \in 1..Len(order) |->
                      Masked(Policies[policy][order[k].detector].type)]
  OBVIOUS
<1>8. \A past, m : Turn(fold, past, m)
                     = Splice(past, m, Masked(Policies[policy][m.detector].type))
  BY <1>5 DEF Turn
<1>9. Splices(text, order, atoms, x)
  <2>1. x[0] = text /\ \A k \in 1..Len(order) : x[k] = Turn(fold, x[k-1], order[k])
    BY <1>6 DEF Runs
  <2>2. \A k \in 1..Len(order) : x[k] = Splice(x[k-1], order[k], atoms[k])
    BY <1>7, <1>8, <2>1
  <2>3. QED
    BY <2>1, <2>2 DEF Splices
<1>10. \A k \in 1..Len(order) : atoms[k][1] = "masked"
  BY <1>7 DEF Masked
<1>11. y = x[Len(order)]
  BY <1>6
<1>12. Len(order) \in Nat /\ Len(order) \in 0..Len(order) /\ DOMAIN order = 1..Len(order)
  BY <1>4 DEF Descends
<1>13. IsList(y)
  <2>1. \A k \in 0..Len(order) : Intact(text, x[k], Edge(text, order, k))
    BY <1>4, <1>9, SplicesIntact
  <2>2. QED
    BY <1>11, <1>12, <2>1 DEF Intact
<1>14. ASSUME NEW atom \in ToSet(y)
       PROVE  atom \in Uncovered(text, policy) \/ atom[1] = "masked"
  <2>1. atom \in Outside(text, order) \/ \E q \in 1..Len(order) : atom = atoms[q]
    BY <1>4, <1>9, <1>11, SplicesShow
  <2>2. Outside(text, order) \subseteq Uncovered(text, policy)
    BY <1>2, <1>12, OutsideUncovered
  <2>3. QED
    BY <1>10, <2>1, <2>2
<1>15. QED
  BY <1>13, <1>14


-----------------------------------------------------------------------------
(* A document *)

\* A list with one more element.
Longer(s, e, t) ==
    /\ IsList(t) /\ Len(t) = Len(s) + 1
    /\ \A i \in 1..Len(s) : t[i] = s[i]
    /\ t[Len(s) + 1] = e

LEMMA AppendedList ==
    ASSUME NEW s, IsList(s), NEW e
    PROVE  Longer(s, e, Append(s, e))
<1>1. PICK T : T = ToSet(s) \cup {e}
  OBVIOUS
<1>2. s \in Seq(T) /\ e \in T
  BY <1>1, ListIn
<1>3. PICK t : t = Append(s, e)
  OBVIOUS
<1>4. /\ t \in Seq(T) /\ Len(t) = Len(s) + 1
      /\ \A i \in 1..Len(s) : t[i] = s[i]
      /\ t[Len(s) + 1] = e
  BY <1>2, <1>3, AppendProperties
<1>5. IsList(t)
  BY <1>4, ListOf
<1>6. Longer(s, e, t)
  BY <1>4, <1>5 DEF Longer
<1>7. QED
  BY <1>3, <1>6

LEMMA StillUndone ==
    ASSUME NEW safe, NEW plain, NEW V, NEW W, Grown(V, W), Undone(safe, plain, V)
    PROVE  Undone(safe, plain, W)
<1>1. ASSUME NEW U, SoundVault(U), Grown(W, U), Unmixed(U),
             ToSet(plain) \cap TokensOf(U) = {}
      PROVE  RestoreText(safe, U) = plain
  <2>1. Grown(V, U)
    BY <1>1, GrownTwice
  <2>2. QED
    BY <1>1, <2>1 DEF Undone
<1>2. QED
  BY <1>1 DEF Undone

LEMMA GrownByTwice ==
    ASSUME NEW V, NEW U, NEW A, GrownBy(V, U, A),
           NEW W, NEW B, GrownBy(U, W, B), B \subseteq A
    PROVE  GrownBy(V, W, A)
<1>1. SoundVault(W) /\ Grown(V, U) /\ Grown(U, W)
  BY DEF GrownBy
<1>2. Grown(V, W)
  BY <1>1, GrownTwice
<1>3. ASSUME NEW n \in DOMAIN W
      PROVE  n \in DOMAIN V \/ ToSet(W[n].value) \subseteq A
  <2>1. n \in DOMAIN U \/ ToSet(W[n].value) \subseteq A
    BY DEF GrownBy
  <2>2. n \in DOMAIN U => W[n] = U[n]
    BY <1>1 DEF Grown
  <2>3. n \in DOMAIN U => n \in DOMAIN V \/ ToSet(U[n].value) \subseteq A
    BY DEF GrownBy
  <2>4. QED
    BY <2>1, <2>2, <2>3
<1>4. QED
  BY <1>1, <1>2, <1>3 DEF GrownBy

\* A leaf before and after: the values found are gone and come back.
SafeLeaf(safe, plain, policy, V) ==
    /\ safe = Leaf(plain.path, safe.text)
    /\ IsList(safe.text)
    /\ Undone(safe.text, plain.text, V)
    /\ ToSet(safe.text) \subseteq Uncovered(plain.text, policy) \cup TokensOf(V)
    /\ Matches(plain.text, policy) = {} => safe.text = plain.text

SafeLeaves(safe, document, policy, V, k) ==
    /\ IsList(safe) /\ Len(safe) = k
    /\ \A n \in 1..k : SafeLeaf(safe[n], document[n], policy, V)

LEMMA MoreTokens ==
    ASSUME NEW V, NEW W, Grown(V, W)
    PROVE  TokensOf(V) \subseteq TokensOf(W)
<1>1. DOMAIN V = 1..Len(V) /\ DOMAIN W = 1..Len(W)
      /\ Len(V) \in Nat /\ Len(W) \in Nat
  BY ListDomain DEF Grown
<1>2. \A n \in DOMAIN V : n \in DOMAIN W /\ W[n] = V[n]
  BY <1>1 DEF Grown
<1>3. QED
  BY <1>2 DEF TokensOf

LEMMA LeafInTurn ==
    ASSUME NEW document, IsDocument(document), NEW policy, ProperPolicy(policy),
           NEW V, NEW k \in 1..Len(document),
           NEW safe, NEW U, SafeLeaves(safe, document, policy, U, k - 1),
           GrownBy(V, U, AtomsOf(document)),
           NEW one, one = TokenizeText(document[k].text, policy, U),
           NEW leaf, leaf = Leaf(document[k].path, one.text)
    PROVE  /\ SafeLeaves(Append(safe, leaf), document, policy, one.vault, k)
           /\ GrownBy(V, one.vault, AtomsOf(document))
<1>1. Len(document) \in Nat /\ DOMAIN document = 1..Len(document)
  BY ListDomain DEF IsDocument
<1>2. PICK text, W, y : text = document[k].text /\ W = one.vault /\ y = one.text
  OBVIOUS
<1>3. IsList(text)
  BY <1>1, <1>2 DEF IsDocument
<1>4. SoundVault(U)
  BY DEF GrownBy
<1>5. /\ IsList(y)
      /\ GrownBy(U, W, ToSet(text))
      /\ Undone(y, text, W)
      /\ ToSet(y) \subseteq Uncovered(text, policy) \cup TokensOf(W)
      /\ Matches(text, policy) = {} => y = text
  <2>1. y = TokenizeText(text, policy, U).text /\ W = TokenizeText(text, policy, U).vault
    BY <1>2
  <2>2. QED
    BY <1>3, <1>4, <2>1, TokenizedText
<1>6. ToSet(text) \subseteq AtomsOf(document)
  BY <1>1, <1>2 DEF AtomsOf
<1>7. GrownBy(V, W, AtomsOf(document))
  BY <1>5, <1>6, GrownByTwice
<1>8. leaf.path = document[k].path /\ leaf.text = y /\ leaf = Leaf(document[k].path, y)
  BY <1>2 DEF Leaf
<1>9. SafeLeaf(leaf, document[k], policy, W)
  BY <1>2, <1>5, <1>8 DEF SafeLeaf
<1>10. IsList(safe) /\ Len(safe) = k - 1
       /\ \A n \in 1..k - 1 : SafeLeaf(safe[n], document[n], policy, U)
  BY DEF SafeLeaves
<1>11. PICK t : t = Append(safe, leaf)
  OBVIOUS
<1>12. Longer(safe, leaf, t)
  BY <1>10, <1>11, AppendedList
<1>13. k - 1 + 1 = k
  BY <1>1
<1>14. /\ IsList(t) /\ Len(t) = k
       /\ \A i \in 1..k - 1 : t[i] = safe[i]
       /\ t[k] = leaf
  BY <1>10, <1>12, <1>13 DEF Longer
<1>15. Grown(U, W)
  BY <1>5 DEF GrownBy
<1>16. ASSUME NEW n \in 1..k PROVE SafeLeaf(t[n], document[n], policy, W)
  <2>1. CASE n = k
    BY <1>9, <1>14, <2>1
  <2>2. CASE n # k
    <3>1. n \in 1..k - 1
      BY <1>1, <2>2
    <3>2. SafeLeaf(t[n], document[n], policy, U)
      BY <1>10, <1>14, <3>1
    <3>3. Undone(t[n].text, document[n].text, W)
      BY <1>15, <3>2, StillUndone DEF SafeLeaf
    <3>4. TokensOf(U) \subseteq TokensOf(W)
      BY <1>15, MoreTokens
    <3>5. PICK past : past = t[n]
      OBVIOUS
    <3>6. ToSet(past.text) \subseteq Uncovered(document[n].text, policy) \cup TokensOf(W)
      BY <3>2, <3>4, <3>5 DEF SafeLeaf
    <3>7. QED
      BY <3>2, <3>3, <3>5, <3>6 DEF SafeLeaf
  <2>3. QED
    BY <2>1, <2>2
<1>17. SafeLeaves(t, document, policy, W, k)
  BY <1>14, <1>16 DEF SafeLeaves
<1>18. QED
  BY <1>2, <1>7, <1>11, <1>17

LEMMA TokenizedDocument ==
    ASSUME NEW document, IsDocument(document), NEW policy, ProperPolicy(policy),
           NEW V, SoundVault(V), NEW own, own = Tokenize(document, policy, V)
    PROVE  /\ SafeLeaves(own.document, document, policy, own.vault, Len(document))
           /\ GrownBy(V, own.vault, AtomsOf(document))
<1>1. IsList(document) /\ Len(document) \in Nat
  BY ListDomain DEF IsDocument
<1>2. PICK fold, base : /\ fold = [kind |-> "document", policy |-> policy]
                        /\ base = [document |-> <<>>, vault |-> V]
  OBVIOUS
<1>3. PICK r : /\ Runs(fold, base, document, r)
               /\ r[Len(document)] = Tokenize(document, policy, V)
  BY <1>1, <1>2, DocumentTurns
<1> DEFINE Fine(k) == /\ SafeLeaves(r[k].document, document, policy, r[k].vault, k)
                      /\ GrownBy(V, r[k].vault, AtomsOf(document))
           S == {k \in 0..Len(document) : Fine(k)}
<1>4. 0 \in S
  <2>1. r[0].document = <<>> /\ r[0].vault = V
    BY <1>2, <1>3 DEF Runs
  <2>2. SafeLeaves(<<>>, document, policy, V, 0)
    BY NoElement DEF SafeLeaves
  <2>3. Grown(V, V)
    BY ListDomain DEF Grown, SoundVault, IsVault
  <2>4. GrownBy(V, V, AtomsOf(document))
    BY <2>3 DEF GrownBy
  <2>5. 0 \in 0..Len(document)
    BY <1>1
  <2>6. QED
    BY <2>1, <2>2, <2>4, <2>5
<1>5. ASSUME NEW k \in 1..Len(document), k - 1 \in S PROVE k \in S
  <2>1. Fine(k - 1)
    BY <1>5
  <2>2. PICK safe, U : safe = r[k-1].document /\ U = r[k-1].vault
    OBVIOUS
  <2>3. /\ SafeLeaves(safe, document, policy, U, k - 1)
        /\ GrownBy(V, U, AtomsOf(document))
    BY <2>1, <2>2
  <2>4. PICK one : one = TokenizeText(document[k].text, policy, U)
    OBVIOUS
  <2>5. PICK leaf : leaf = Leaf(document[k].path, one.text)
    OBVIOUS
  <2>6. r[k] = Turn(fold, r[k-1], document[k])
    BY <1>3 DEF Runs
  <2>7. r[k].document = Append(safe, leaf) /\ r[k].vault = one.vault
    BY <1>2, <2>2, <2>4, <2>5, <2>6 DEF Turn
  <2>8. /\ SafeLeaves(Append(safe, leaf), document, policy, one.vault, k)
        /\ GrownBy(V, one.vault, AtomsOf(document))
    BY <2>3, <2>4, <2>5, LeafInTurn
  <2>9. Fine(k)
    BY <2>7, <2>8
  <2>10. k \in 0..Len(document)
    BY <1>1
  <2>11. QED
    BY <2>9, <2>10
<1> HIDE DEF S, Fine
<1>6. \A k \in 0..Len(document) : k \in S
  BY <1>1, <1>4, <1>5, Reached
<1>7. Len(document) \in 0..Len(document)
  BY <1>1
<1>8. Fine(Len(document))
  BY <1>6, <1>7 DEF S
<1>9. QED
  BY <1>3, <1>8 DEF Fine


-----------------------------------------------------------------------------
(* Media *)

\* A function on the first n numbers is a list.
LEMMA ListOfPlaces ==
    ASSUME NEW n \in Nat, NEW f, f = [k \in 1..n |-> f[k]]
    PROVE  IsList(f) /\ Len(f) = n /\ DOMAIN f = 1..n
<1>1. DOMAIN f = 1..n
  OBVIOUS
<1>2. PICK T : T = {f[k] : k \in 1..n}
  OBVIOUS
<1>3. f \in [1..n -> T]
  BY <1>2
<1>4. f \in Seq(T) /\ Len(f) = n
  BY <1>3, SeqDef
<1>5. IsList(f)
  BY <1>4, ListOf
<1>6. QED
  BY <1>1, <1>4, <1>5

\* A sentinel by itself is not found.
LEMMA NoSentinelMatch ==
    ASSUME NEW policy, ProperPolicy(policy), NoSentinelFound(policy), NEW n
    PROVE  Matches(<<Sentinel(n)>>, policy) = {}
<1>1. PICK atom, text : atom = Sentinel(n) /\ text = <<atom>>
  OBVIOUS
<1>2. IsList(text) /\ Len(text) = 1 /\ text[1] = atom
  BY <1>1, OneElement
<1>3. ASSUME NEW m \in Matches(text, policy) PROVE FALSE
  <2>1. /\ m.detector \in DOMAIN Policies[policy]
        /\ m.first \in 1..Len(text) /\ m.last \in m.first..Len(text)
        /\ SubSeq(text, m.first, m.last) \in ToSet(Policies[policy][m.detector].words)
    BY <1>2, MatchParts
  <2>2. m.first = 1 /\ m.last = 1
    BY <1>2, <2>1
  <2>3. PICK word : word = SubSeq(text, 1, 1)
    OBVIOUS
  <2>4. word = text
    <3>1. SubSeq(text, 1, Len(text)) = text
      BY <1>2, SubSeqFull DEF IsList
    <3>2. QED
      BY <1>2, <2>3, <3>1
  <2>5. ToSet(word) = {atom}
    BY <1>1, <2>4, OneElement
  <2>6. word \in ToSet(Policies[policy][m.detector].words)
    BY <2>1, <2>2, <2>3
  <2>7. atom[1] # "sentinel"
    BY <2>1, <2>5, <2>6 DEF NoSentinelFound
  <2>8. QED
    BY <1>1, <2>7 DEF Sentinel
<1>4. QED
  BY <1>1, <1>3

\* No token is a sentinel or the mark of a medium.
LEMMA NoTokenIs ==
    ASSUME NEW V, SoundVault(V), NEW atom, atom[1] # "token"
    PROVE  /\ atom \notin TokensOf(V)
           /\ RestoreText(<<atom>>, V) = <<atom>>
<1>1. ASSUME NEW n \in DOMAIN V PROVE V[n].token # atom
  <2>1. PICK c : V[n].token = Token(V[n].type, c)
    BY DEF SoundVault, Numbering
  <2>2. V[n].token[1] = "token"
    BY <2>1 DEF Token
  <2>3. QED
    BY <2>2
<1>2. atom \notin TokensOf(V)
  BY <1>1 DEF TokensOf
<1>3. PICK text : text = <<atom>>
  OBVIOUS
<1>4. IsList(text) /\ ToSet(text) = {atom}
  BY <1>3, OneElement
<1>5. IsVault(V) /\ ToSet(text) \cap TokensOf(V) = {}
  BY <1>2, <1>4 DEF SoundVault
<1>6. RestoreText(text, V) = text
  BY <1>4, <1>5, RestoreNone
<1>7. QED
  BY <1>2, <1>3, <1>6

\* A medium or a sentinel in the place of a leaf.
Hidden(leaf, n) ==
    IF IsMedia(leaf.text) THEN Leaf(leaf.path, <<Sentinel(n)>>) ELSE leaf

Stood(text, original) ==
    \E m \in DOMAIN original :
       IsMedia(original[m].text) /\ text = <<Sentinel(m)>>

Shown(leaf, original) ==
    IF Stood(leaf.text, original) THEN Leaf(leaf.path, <<Redacted>>)
    ELSE leaf

LEMMA HiddenDocument ==
    ASSUME NEW document, IsDocument(document), NEW h, h = HideMedia(document)
    PROVE  /\ IsDocument(h)
           /\ Len(h) = Len(document) /\ Len(h) \in Nat /\ DOMAIN h = 1..Len(h)
           /\ DOMAIN document = 1..Len(h)
           /\ \A n \in 1..Len(h) : h[n].path = document[n].path
           /\ \A atom \in AtomsOf(h) :
                 atom \in AtomsOf(document) \/ atom[1] = "sentinel"
<1>1. Len(document) \in Nat /\ DOMAIN document = 1..Len(document)
  BY ListDomain DEF IsDocument
<1>2. DOMAIN h = 1..Len(document)
      /\ \A n \in 1..Len(document) : h[n] = Hidden(document[n], n)
  BY <1>1 DEF HideMedia, Hidden
<1>3. h = [n \in 1..Len(document) |-> h[n]]
  BY <1>1 DEF HideMedia
<1>4. IsList(h) /\ Len(h) = Len(document) /\ DOMAIN h = 1..Len(document)
  BY <1>1, <1>3, ListOfPlaces
<1>5. ASSUME NEW n \in 1..Len(document)
      PROVE  /\ h[n] = Leaf(h[n].path, h[n].text)
             /\ IsList(h[n].text)
             /\ h[n].path = document[n].path
             /\ h[n].text = document[n].text \/ h[n].text = <<Sentinel(n)>>
  <2>1. /\ document[n] = Leaf(document[n].path, document[n].text)
        /\ IsList(document[n].text)
    BY <1>1 DEF IsDocument
  <2>2. CASE IsMedia(document[n].text)
    <3>1. h[n] = Leaf(document[n].path, <<Sentinel(n)>>)
      BY <1>2, <2>2 DEF Hidden
    <3>2. h[n].path = document[n].path /\ h[n].text = <<Sentinel(n)>>
      BY <3>1 DEF Leaf
    <3>3. IsList(<<Sentinel(n)>>)
      BY OneElement
    <3>4. QED
      BY <3>1, <3>2, <3>3
  <2>3. CASE ~IsMedia(document[n].text)
    <3>1. h[n] = document[n]
      BY <1>2, <2>3 DEF Hidden
    <3>2. QED
      BY <2>1, <3>1
  <2>4. QED
    BY <2>2, <2>3
<1>6. IsDocument(h)
  BY <1>4, <1>5 DEF IsDocument
<1>7. ASSUME NEW atom \in AtomsOf(h)
      PROVE  atom \in AtomsOf(document) \/ atom[1] = "sentinel"
  <2>1. PICK n \in 1..Len(document) : atom \in ToSet(h[n].text)
    BY <1>4 DEF AtomsOf
  <2>2. CASE h[n].text = document[n].text
    BY <1>1, <2>1, <2>2 DEF AtomsOf
  <2>3. CASE h[n].text = <<Sentinel(n)>>
    <3>1. ToSet(<<Sentinel(n)>>) = {Sentinel(n)}
      BY OneElement
    <3>2. atom = Sentinel(n)
      BY <2>1, <2>3, <3>1
    <3>3. QED
      BY <3>2 DEF Sentinel
  <2>4. QED
    BY <1>5, <2>2, <2>3
<1>8. QED
  BY <1>1, <1>4, <1>5, <1>6, <1>7

LEMMA ShownDocument ==
    ASSUME NEW document, NEW original
    PROVE  /\ DOMAIN ShowMedia(document, original) = DOMAIN document
           /\ ShowMedia(document, original)
                = [n \in DOMAIN document |-> Shown(document[n], original)]
<1>1. QED
  BY DEF ShowMedia, Shown, Stood


-----------------------------------------------------------------------------
(* The states of the proxy and of the clients *)

SafeNote(note, V) ==
    /\ IsDocument(note.plain)
    /\ IsList(note.safe) /\ Len(note.safe) = Len(note.plain)
    /\ \A n \in 1..Len(note.plain) :
          /\ note.safe[n] = Leaf(note.plain[n].path, note.safe[n].text)
          /\ Undone(note.safe[n].text, note.plain[n].text, V)

\* The vault of a client holds values of what it has protected, and undoes it.
NotesUndone(list, V) ==
    /\ SoundVault(V)
    /\ IsList(list)
    /\ \A n \in DOMAIN list : SafeNote(list[n], V)
    /\ \A i \in DOMAIN V :
          \E n \in DOMAIN list : ToSet(V[i].value) \subseteq AtomsOf(list[n].plain)

LEMMA OneMoreNote ==
    ASSUME NEW list, NEW V, NotesUndone(list, V),
           NEW document, IsDocument(document), NEW policy, ProperPolicy(policy),
           NEW own, own = Tokenize(document, policy, V),
           NEW note, note = [plain |-> document, safe |-> own.document]
    PROVE  NotesUndone(Append(list, note), own.vault)
<1>1. PICK W, t : W = own.vault /\ t = Append(list, note)
  OBVIOUS
<1>2. SoundVault(V) /\ IsList(list)
  BY DEF NotesUndone
<1>3. /\ SafeLeaves(own.document, document, policy, W, Len(document))
      /\ GrownBy(V, W, AtomsOf(document))
  BY <1>1, <1>2, TokenizedDocument
<1>4. SoundVault(W) /\ Grown(V, W)
  BY <1>3 DEF GrownBy
<1>5. Longer(list, note, t)
  BY <1>1, <1>2, AppendedList
<1>6. Len(list) \in Nat /\ DOMAIN list = 1..Len(list)
  BY <1>2, ListDomain
<1>7. IsList(t) /\ DOMAIN t = 1..Len(list) + 1
  <2>1. IsList(t) /\ Len(t) = Len(list) + 1
    BY <1>5 DEF Longer
  <2>2. QED
    BY <2>1, ListDomain
<1>8. \A n \in DOMAIN list : n \in DOMAIN t /\ t[n] = list[n]
  BY <1>5, <1>6, <1>7 DEF Longer
<1>9. Len(list) + 1 \in DOMAIN t /\ t[Len(list) + 1] = note
  BY <1>5, <1>6, <1>7 DEF Longer
<1>10. SafeNote(note, W)
  <2>1. note.plain = document /\ note.safe = own.document
    OBVIOUS
  <2>2. /\ IsList(own.document) /\ Len(own.document) = Len(document)
        /\ \A n \in 1..Len(document) :
              SafeLeaf(own.document[n], document[n], policy, W)
    BY <1>3 DEF SafeLeaves
  <2>3. \A n \in 1..Len(document) :
           /\ own.document[n] = Leaf(document[n].path, own.document[n].text)
           /\ Undone(own.document[n].text, document[n].text, W)
    BY <2>2 DEF SafeLeaf
  <2>4. QED
    BY <2>1, <2>2, <2>3 DEF SafeNote
<1>11. ASSUME NEW n \in DOMAIN t PROVE SafeNote(t[n], W)
  <2>1. CASE n \in DOMAIN list
    <3>1. PICK past : past = list[n]
      OBVIOUS
    <3>2. SafeNote(past, V) /\ t[n] = past
      BY <1>8, <2>1, <3>1 DEF NotesUndone
    <3>3. ASSUME NEW k \in 1..Len(past.plain)
          PROVE  Undone(past.safe[k].text, past.plain[k].text, W)
      <4>1. Undone(past.safe[k].text, past.plain[k].text, V)
        BY <3>2 DEF SafeNote
      <4>2. QED
        BY <1>4, <4>1, StillUndone
    <3>4. SafeNote(past, W)
      BY <3>2, <3>3 DEF SafeNote
    <3>5. QED
      BY <3>2, <3>4
  <2>2. CASE n \notin DOMAIN list
    <3>1. n = Len(list) + 1
      BY <1>6, <1>7, <2>2
    <3>2. QED
      BY <1>9, <1>10, <3>1
  <2>3. QED
    BY <2>1, <2>2
<1>12. ASSUME NEW i \in DOMAIN W
       PROVE  \E n \in DOMAIN t : ToSet(W[i].value) \subseteq AtomsOf(t[n].plain)
  <2>1. i \in DOMAIN V \/ ToSet(W[i].value) \subseteq AtomsOf(document)
    BY <1>3 DEF GrownBy
  <2>2. CASE i \in DOMAIN V
    <3>1. W[i] = V[i]
      BY <1>4, <2>2 DEF Grown
    <3>2. PICK n \in DOMAIN list : ToSet(V[i].value) \subseteq AtomsOf(list[n].plain)
      BY <2>2 DEF NotesUndone
    <3>3. n \in DOMAIN t /\ t[n] = list[n]
      BY <1>8
    <3>4. QED
      BY <3>1, <3>2, <3>3
  <2>3. CASE ToSet(W[i].value) \subseteq AtomsOf(document)
    <3>1. t[Len(list) + 1].plain = document
      BY <1>9
    <3>2. QED
      BY <1>9, <2>3, <3>1
  <2>4. QED
    BY <2>1, <2>2, <2>3
<1>13. NotesUndone(t, W)
  BY <1>4, <1>7, <1>11, <1>12 DEF NotesUndone
<1>14. QED
  BY <1>1, <1>13

\* What was made of a request, and of an answer to it.
Protected(input, V, safe) ==
    LET own == Tokenize(HideMedia(input.body), input.policy, EmptyVault)
    IN V = own.vault /\ safe = ShowMedia(own.document, input.body)

Made(document, policy, V) ==
    ShowMedia(RestoreResponse(Mask(HideMedia(document), policy), V), document)

ProxyTypes ==
    /\ leg = [r \in Requests |-> leg[r]]
    /\ ask = [r \in Requests |-> ask[r]]
    /\ vault = [r \in Requests |-> vault[r]]
    /\ sent = [r \in Requests |-> sent[r]]
    /\ said = [r \in Requests |-> said[r]]
    /\ answer = [r \in Requests |-> answer[r]]

RequestMade(r) ==
    /\ Forwarded(r) => /\ ask[r] \in Inputs[r]
                       /\ ask[r].policy \in DOMAIN Policies
                       /\ Protected(ask[r], vault[r], sent[r])
    /\ leg[r] = "answered" =>
          /\ IsDocument(said[r])
          /\ answer[r] = Made(said[r], ask[r].policy, vault[r])

ProxyInv ==
    /\ ProxyTypes
    /\ \A r \in Requests : RequestMade(r)
    /\ NotesUndone(notes, kept)

LEMMA ProxyInvInit == ProxyInit => ProxyInv
<1> SUFFICES ASSUME ProxyInit PROVE ProxyInv
  OBVIOUS
<1> USE DEF ProxyInit
<1>1. ProxyTypes
  BY DEF ProxyTypes
<1>2. \A r \in Requests : leg[r] = "new"
  OBVIOUS
<1>3. \A r \in Requests : RequestMade(r)
  BY <1>2 DEF RequestMade, Forwarded
<1>4. SoundVault(kept) /\ DOMAIN kept = {}
  BY EmptyVaultIsSound, NoElement DEF EmptyVault
<1>5. IsList(notes) /\ DOMAIN notes = {}
  BY NoElement
<1>6. NotesUndone(notes, kept)
  BY <1>4, <1>5 DEF NotesUndone
<1>7. QED
  BY <1>1, <1>3, <1>6 DEF ProxyInv

\* What a step on request r leaves of the other requests.
LEMMA OtherRequest ==
    ASSUME NEW q \in Requests, RequestMade(q),
           leg'[q] = leg[q], ask'[q] = ask[q], vault'[q] = vault[q],
           sent'[q] = sent[q], said'[q] = said[q], answer'[q] = answer[q]
    PROVE  RequestMade(q)'
<1>1. QED
  BY DEF RequestMade, Forwarded

LEMMA SubmitKeeps ==
    ASSUME ProxyInv, NEW r \in Requests, NEW input \in Inputs[r], Submit(r, input)
    PROVE  ProxyInv'
<1> USE DEF ProxyInv
<1>1. ProxyTypes'
  BY DEF ProxyTypes, Submit
<1>2. ASSUME NEW q \in Requests, q # r PROVE RequestMade(q)'
  <2>1. /\ leg'[q] = leg[q] /\ ask'[q] = ask[q] /\ vault'[q] = vault[q]
        /\ sent'[q] = sent[q] /\ said'[q] = said[q] /\ answer'[q] = answer[q]
    BY <1>2 DEF ProxyTypes, Submit
  <2>2. QED
    BY <2>1, OtherRequest
<1>3. RequestMade(r)'
  <2>1. ask'[r] = input
    BY DEF ProxyTypes, Submit
  <2>2. CASE Refuses(input)
    <3>1. leg'[r] = "refused"
      BY <2>2 DEF ProxyTypes, Submit
    <3>2. QED
      BY <3>1 DEF RequestMade, Forwarded
  <2>3. CASE ~Refuses(input)
    <3>1. PICK own : own = Tokenize(HideMedia(input.body), input.policy, EmptyVault)
      OBVIOUS
    <3>2. /\ leg' = [leg EXCEPT ![r] = "sent"]
          /\ vault' = [vault EXCEPT ![r] = own.vault]
          /\ sent' = [sent EXCEPT ![r] = ShowMedia(own.document, input.body)]
      BY <2>3, <3>1 DEF Submit
    <3>3. /\ leg'[r] = "sent" /\ vault'[r] = own.vault
          /\ sent'[r] = ShowMedia(own.document, input.body)
      BY <3>2 DEF ProxyTypes
    <3>4. input.policy \in DOMAIN Policies
      <4>1. CASE input.via # "sidecar"
        BY <4>1, PrivacyAssumption
      <4>2. CASE input.via = "sidecar"
        BY <2>3, <4>2 DEF Refuses, SidecarRefuses
      <4>3. QED
        BY <4>1, <4>2
    <3>5. Protected(ask'[r], vault'[r], sent'[r])
      BY <2>1, <3>1, <3>3 DEF Protected
    <3>6. QED
      BY <2>1, <3>3, <3>4, <3>5 DEF RequestMade
  <2>4. QED
    BY <2>2, <2>3
<1>4. NotesUndone(notes, kept)'
  BY DEF Submit
<1>5. QED
  BY <1>1, <1>2, <1>3, <1>4

LEMMA FinishKeeps ==
    ASSUME ProxyInv, NEW r \in Requests, NEW how, leg[r] = "sent", Finish(r, how),
           said' = [said EXCEPT ![r] = said'[r]] \/ said' = said,
           answer' = [answer EXCEPT ![r] = answer'[r]] \/ answer' = answer,
           how = "answered" =>
              /\ IsDocument(said'[r])
              /\ answer'[r] = Made(said'[r], ask[r].policy, vault[r])
    PROVE  ProxyInv'
<1> USE DEF ProxyInv
<1>1. ProxyTypes'
  BY DEF ProxyTypes, Finish
<1>2. ASSUME NEW q \in Requests, q # r PROVE RequestMade(q)'
  <2>1. /\ leg'[q] = leg[q] /\ ask'[q] = ask[q] /\ vault'[q] = vault[q]
        /\ sent'[q] = sent[q] /\ said'[q] = said[q] /\ answer'[q] = answer[q]
    BY <1>2 DEF ProxyTypes, Finish
  <2>2. QED
    BY <2>1, OtherRequest
<1>3. RequestMade(r)'
  <2>1. /\ leg'[r] = how /\ ask'[r] = ask[r] /\ vault'[r] = vault[r]
        /\ sent'[r] = sent[r]
    BY DEF ProxyTypes, Finish
  <2>2. /\ ask[r] \in Inputs[r]
        /\ ask[r].policy \in DOMAIN Policies
        /\ Protected(ask[r], vault[r], sent[r])
    BY DEF RequestMade, Forwarded
  <2>3. QED
    BY <2>1, <2>2 DEF RequestMade
<1>4. NotesUndone(notes, kept)'
  BY DEF Finish
<1>5. QED
  BY <1>1, <1>2, <1>3, <1>4

LEMMA AnswerKeeps ==
    ASSUME ProxyInv, NEW r \in Requests, NEW reply \in Answers, Answer(r, reply)
    PROVE  ProxyInv'
<1>1. /\ leg[r] = "sent" /\ answer = [q \in Requests |-> answer[q]]
      /\ said' = [said EXCEPT ![r] = said'[r]] /\ said'[r] = reply.document
  BY DEF Answer, ProxyInv, ProxyTypes
<1>2. CASE Finish(r, "passed on") /\ answer' = [answer EXCEPT ![r] = reply.document]
  <2>1. answer' = [answer EXCEPT ![r] = answer'[r]]
    BY <1>1, <1>2
  <2>2. QED
    BY <1>1, <1>2, <2>1, FinishKeeps
<1>3. CASE Finish(r, "blocked") /\ UNCHANGED answer
  BY <1>1, <1>3, FinishKeeps
<1>4. CASE /\ Finish(r, "answered")
           /\ answer' = [answer EXCEPT ![r] = Received(r, reply.document)]
  <2>1. answer' = [answer EXCEPT ![r] = answer'[r]]
        /\ answer'[r] = Made(said'[r], ask[r].policy, vault[r])
    BY <1>1, <1>4 DEF Received, Made
  <2>2. IsDocument(said'[r])
    BY <1>1, PrivacyAssumption
  <2>3. QED
    BY <1>1, <1>4, <2>1, <2>2, FinishKeeps
<1>5. QED
  BY <1>2, <1>3, <1>4 DEF Answer

LEMMA FailKeeps ==
    ASSUME ProxyInv, NEW r \in Requests, Fail(r)
    PROVE  ProxyInv'
<1>1. /\ leg[r] = "sent" /\ Finish(r, "failed")
      /\ said' = said /\ answer' = answer
  BY DEF Fail
<1>2. QED
  BY <1>1, FinishKeeps

LEMMA ProtectKeeps ==
    ASSUME ProxyInv, NEW note \in Notes, Protect(note.document, note.policy)
    PROVE  ProxyInv'
<1> USE DEF ProxyInv
<1>1. ProxyTypes'
  BY DEF ProxyTypes, Protect
<1>2. ASSUME NEW q \in Requests PROVE RequestMade(q)'
  <2>1. /\ leg'[q] = leg[q] /\ ask'[q] = ask[q] /\ vault'[q] = vault[q]
        /\ sent'[q] = sent[q] /\ said'[q] = said[q] /\ answer'[q] = answer[q]
    BY DEF Protect
  <2>2. QED
    BY <2>1, OtherRequest
<1>3. PICK document, policy, own, entry :
         /\ document = note.document /\ policy = note.policy
         /\ own = Tokenize(document, policy, kept)
         /\ entry = [plain |-> document, safe |-> own.document]
  OBVIOUS
<1>4. IsDocument(document) /\ ProperPolicy(policy)
  BY <1>3, PrivacyAssumption
<1>5. NotesUndone(Append(notes, entry), own.vault)
  BY <1>3, <1>4, OneMoreNote
<1>6. kept' = own.vault /\ notes' = Append(notes, entry)
  BY <1>3 DEF Protect
<1>7. NotesUndone(notes, kept)'
  BY <1>5, <1>6
<1>8. QED
  BY <1>1, <1>2, <1>7

LEMMA ProxyInvNext == ProxyInv /\ [ProxyNext]_proxyVars => ProxyInv'
<1> SUFFICES ASSUME ProxyInv, [ProxyNext]_proxyVars PROVE ProxyInv'
  OBVIOUS
<1>1. CASE \E r \in Requests : \E input \in Inputs[r] : Submit(r, input)
  BY <1>1, SubmitKeeps
<1>2. CASE \E r \in Requests : \E reply \in Answers : Answer(r, reply)
  BY <1>2, AnswerKeeps
<1>3. CASE \E r \in Requests : Fail(r)
  BY <1>3, FailKeeps
<1>4. CASE \E note \in Notes : Protect(note.document, note.policy)
  BY <1>4, ProtectKeeps
<1>5. CASE UNCHANGED proxyVars
  BY <1>5 DEF proxyVars, ProxyInv, ProxyTypes, RequestMade, Forwarded
<1>6. QED
  BY <1>1, <1>2, <1>3, <1>4, <1>5 DEF ProxyNext


-----------------------------------------------------------------------------
(* What these states show *)

\* A request, its text without media, the same protected, and its vault.
Request(input, h, safe, V) ==
    /\ IsDocument(input.body)
    /\ ProperPolicy(input.policy) /\ NoSentinelFound(input.policy)
    /\ h = HideMedia(input.body)
    /\ SafeLeaves(safe, h, input.policy, V, Len(h))
    /\ SoundVault(V)
    /\ \A i \in DOMAIN V : ToSet(V[i].value) \subseteq AtomsOf(h)

LEMMA ForwardedRequest ==
    ASSUME ProxyInv, NEW r \in Requests, Forwarded(r)
    PROVE  \E h, safe : /\ Request(ask[r], h, safe, vault[r])
                        /\ sent[r] = ShowMedia(safe, ask[r].body)
<1>1. PICK input, V : input = ask[r] /\ V = vault[r]
  OBVIOUS
<1>2. /\ input \in Inputs[r] /\ input.policy \in DOMAIN Policies
      /\ Protected(input, V, sent[r])
  BY <1>1 DEF ProxyInv, RequestMade
<1>3. /\ IsDocument(input.body)
      /\ ProperPolicy(input.policy) /\ NoSentinelFound(input.policy)
  BY <1>2, PrivacyAssumption
<1>4. PICK h : h = HideMedia(input.body)
  OBVIOUS
<1>5. IsDocument(h)
  BY <1>3, <1>4, HiddenDocument
<1>6. PICK policy : policy = input.policy
  OBVIOUS
<1>7. PICK own : own = Tokenize(h, policy, EmptyVault)
  OBVIOUS
<1>8. V = own.vault /\ sent[r] = ShowMedia(own.document, input.body)
  BY <1>2, <1>4, <1>6, <1>7 DEF Protected
<1>9. /\ SafeLeaves(own.document, h, policy, own.vault, Len(h))
      /\ GrownBy(EmptyVault, own.vault, AtomsOf(h))
  BY <1>3, <1>5, <1>6, <1>7, EmptyVaultIsSound, TokenizedDocument
<1>10. DOMAIN EmptyVault = {}
  BY NoElement DEF EmptyVault
<1>11. /\ SoundVault(V)
       /\ \A i \in DOMAIN V : ToSet(V[i].value) \subseteq AtomsOf(h)
  BY <1>8, <1>9, <1>10 DEF GrownBy
<1>12. Request(input, h, own.document, V)
  BY <1>3, <1>4, <1>6, <1>8, <1>9, <1>11 DEF Request
<1>13. QED
  BY <1>1, <1>8, <1>12

\* Each leaf of a request as it is sent, and restored.
LEMMA LeafRestored ==
    ASSUME NEW input, NEW h, NEW safe, NEW V, Request(input, h, safe, V),
           ~Lookalike(input.body, V), NEW n \in 1..Len(h),
           NEW shown, shown = Shown(safe[n], input.body)
    PROVE  Leaf(shown.path, RestoreText(shown.text, V)) = Shown(h[n], input.body)
<1>1. /\ IsDocument(input.body) /\ h = HideMedia(input.body)
      /\ ProperPolicy(input.policy) /\ NoSentinelFound(input.policy)
      /\ SoundVault(V)
      /\ SafeLeaf(safe[n], h[n], input.policy, V)
  BY DEF Request, SafeLeaves
<1>2. PICK plain, leaf, policy, body :
         /\ plain = h[n] /\ leaf = safe[n] /\ policy = input.policy
         /\ body = input.body
  OBVIOUS
<1>3. /\ IsDocument(h) /\ n \in DOMAIN h
      /\ \A atom \in AtomsOf(h) : atom \in AtomsOf(body) \/ atom[1] = "sentinel"
  BY <1>1, <1>2, HiddenDocument
<1>4. plain = Leaf(plain.path, plain.text) /\ IsList(plain.text)
  BY <1>2, <1>3 DEF IsDocument
<1>5. /\ leaf = Leaf(plain.path, leaf.text)
      /\ Undone(leaf.text, plain.text, V)
      /\ Matches(plain.text, policy) = {} => leaf.text = plain.text
  BY <1>1, <1>2 DEF SafeLeaf
<1>6. leaf.path = plain.path
  BY <1>5 DEF Leaf
<1>7. \A atom \in AtomsOf(h) : atom \notin TokensOf(V)
  <2>1. ASSUME NEW atom \in AtomsOf(h), atom[1] = "sentinel"
        PROVE  atom \notin TokensOf(V)
    <3>1. atom[1] # "token"
      BY <2>1
    <3>2. QED
      BY <1>1, <3>1, NoTokenIs
  <2>2. QED
    BY <1>2, <1>3, <2>1 DEF Lookalike
<1>8. Unmixed(V)
  <2>1. \A i \in DOMAIN V : ToSet(V[i].value) \subseteq AtomsOf(h)
    BY DEF Request
  <2>2. QED
    BY <1>7, <2>1 DEF Unmixed
<1>9. ToSet(plain.text) \cap TokensOf(V) = {}
  <2>1. ToSet(plain.text) \subseteq AtomsOf(h)
    BY <1>2, <1>3 DEF AtomsOf
  <2>2. QED
    BY <1>7, <2>1
<1>10. RestoreText(leaf.text, V) = plain.text
  <2>1. Grown(V, V)
    BY <1>1, ListDomain DEF Grown, SoundVault, IsVault
  <2>2. QED
    BY <1>1, <1>5, <1>8, <1>9, <2>1 DEF Undone
<1>11. CASE Stood(plain.text, body)
  <2>1. PICK m : plain.text = <<Sentinel(m)>>
    BY <1>11 DEF Stood
  <2>3. Matches(plain.text, policy) = {}
    BY <1>1, <1>2, <2>1, NoSentinelMatch
  <2>4. leaf.text = plain.text
    BY <1>5, <2>3
  <2>5. Stood(leaf.text, body)
    BY <1>11, <2>4
  <2>6. PICK mark : mark = Redacted
    OBVIOUS
  <2>7. shown = Leaf(leaf.path, <<mark>>) /\ Shown(plain, body) = Leaf(plain.path, <<mark>>)
    BY <1>2, <1>11, <2>5, <2>6 DEF Shown
  <2>8. mark[1] # "token"
    BY <2>6 DEF Redacted, Mark
  <2>9. RestoreText(<<mark>>, V) = <<mark>>
    BY <1>1, <2>8, NoTokenIs
  <2>10. shown.path = leaf.path /\ shown.text = <<mark>>
    BY <2>7 DEF Leaf
  <2>11. QED
    BY <1>2, <1>6, <2>7, <2>9, <2>10
<1>12. CASE ~Stood(plain.text, body)
  <2>1. ASSUME Stood(leaf.text, body) PROVE FALSE
    <3>1. PICK m \in DOMAIN body : IsMedia(body[m].text) /\ leaf.text = <<Sentinel(m)>>
      BY <2>1 DEF Stood
    <3>2. Sentinel(m)[1] # "token"
      BY DEF Sentinel
    <3>3. RestoreText(<<Sentinel(m)>>, V) = <<Sentinel(m)>>
      BY <1>1, <3>2, NoTokenIs
    <3>4. plain.text = <<Sentinel(m)>>
      BY <1>10, <3>1, <3>3
    <3>5. QED
      BY <1>12, <3>1, <3>4 DEF Stood
  <2>2. shown = leaf
    BY <1>2, <2>1 DEF Shown
  <2>3. Shown(plain, body) = plain
    BY <1>12 DEF Shown
  <2>4. Leaf(shown.path, RestoreText(shown.text, V)) = Leaf(plain.path, plain.text)
    BY <1>6, <1>10, <2>2
  <2>5. QED
    BY <1>2, <1>4, <2>3, <2>4
<1>13. QED
  BY <1>11, <1>12

LEMMA RequestRestored ==
    ASSUME NEW input, NEW h, NEW safe, NEW V, Request(input, h, safe, V),
           ~Lookalike(input.body, V),
           NEW shown, shown = ShowMedia(safe, input.body)
    PROVE  Restore(shown, V) = ShowMedia(h, input.body)
<1>1. IsList(safe) /\ Len(safe) = Len(h) /\ IsDocument(input.body)
      /\ h = HideMedia(input.body)
  BY DEF Request, SafeLeaves
<1>2. DOMAIN safe = 1..Len(h)
  BY <1>1, ListDomain
<1>3. DOMAIN h = 1..Len(h)
  BY <1>1, HiddenDocument
<1>4. PICK body : body = input.body
  OBVIOUS
<1>5. shown = [n \in DOMAIN safe |-> Shown(safe[n], body)]
  BY <1>4, ShownDocument
<1>6. ShowMedia(h, body) = [n \in DOMAIN h |-> Shown(h[n], body)]
  BY ShownDocument
<1>7. PICK back : back = Restore(shown, V)
  OBVIOUS
<1>8. back = [n \in DOMAIN shown |-> Leaf(shown[n].path, RestoreText(shown[n].text, V))]
  BY <1>7 DEF Restore
<1>9. DOMAIN shown = 1..Len(h)
  BY <1>2, <1>5
<1>10. ASSUME NEW n \in 1..Len(h) PROVE back[n] = Shown(h[n], body)
  <2>1. PICK one : one = Shown(safe[n], body)
    OBVIOUS
  <2>2. shown[n] = one
    BY <1>2, <1>5, <2>1
  <2>3. back[n] = Leaf(one.path, RestoreText(one.text, V))
    BY <1>8, <1>9, <2>2
  <2>4. Leaf(one.path, RestoreText(one.text, V)) = Shown(h[n], body)
    BY <1>4, <2>1, LeafRestored
  <2>5. QED
    BY <2>3, <2>4
<1>11. back = [n \in 1..Len(h) |-> Shown(h[n], body)]
  <2>1. back = [n \in 1..Len(h) |-> back[n]]
    BY <1>8, <1>9
  <2>2. QED
    BY <1>10, <2>1
<1>12. QED
  BY <1>3, <1>4, <1>6, <1>7, <1>11

LEMMA NoteRestored ==
    ASSUME NEW note, NEW V, SafeNote(note, V), SoundVault(V), Unmixed(V),
           ~Lookalike(note.plain, V)
    PROVE  Restore(note.safe, V) = note.plain
<1>1. PICK plain, safe : plain = note.plain /\ safe = note.safe
  OBVIOUS
<1>2. /\ IsDocument(plain) /\ IsList(safe) /\ Len(safe) = Len(plain)
      /\ \A n \in 1..Len(plain) :
            /\ safe[n] = Leaf(plain[n].path, safe[n].text)
            /\ Undone(safe[n].text, plain[n].text, V)
  BY <1>1 DEF SafeNote
<1>3. DOMAIN safe = 1..Len(plain) /\ DOMAIN plain = 1..Len(plain)
  BY <1>2, ListDomain DEF IsDocument
<1>4. Grown(V, V)
  BY ListDomain DEF Grown, SoundVault, IsVault
<1>5. ASSUME NEW n \in 1..Len(plain)
      PROVE  Leaf(safe[n].path, RestoreText(safe[n].text, V)) = plain[n]
  <2>1. plain[n] = Leaf(plain[n].path, plain[n].text)
    BY <1>2, <1>3 DEF IsDocument
  <2>2. ToSet(plain[n].text) \cap TokensOf(V) = {}
    BY <1>1, <1>3 DEF Lookalike, AtomsOf
  <2>3. Undone(safe[n].text, plain[n].text, V)
    BY <1>2
  <2>4. RestoreText(safe[n].text, V) = plain[n].text
    BY <1>4, <2>2, <2>3 DEF Undone
  <2>5. safe[n].path = plain[n].path
    <3>1. PICK leaf, path : leaf = safe[n] /\ path = plain[n].path
      OBVIOUS
    <3>2. leaf = Leaf(path, leaf.text)
      BY <1>2, <3>1
    <3>3. leaf.path = path
      BY <3>2 DEF Leaf
    <3>4. QED
      BY <3>1, <3>3
  <2>6. QED
    BY <2>1, <2>4, <2>5
<1>6. Restore(safe, V) = [n \in 1..Len(plain) |-> plain[n]]
  BY <1>3, <1>5 DEF Restore
<1>7. plain = [n \in 1..Len(plain) |-> plain[n]]
  <2>1. plain \in Seq(ToSet(plain))
    BY <1>2 DEF IsDocument, IsList
  <2>2. QED
    BY <2>1, <1>3
<1>8. QED
  BY <1>1, <1>6, <1>7


\* What is sent of a leaf: what was outside the findings, tokens, redacted media.
LEMMA SentLeafStays ==
    ASSUME NEW input, NEW h, NEW safe, NEW V, Request(input, h, safe, V),
           NEW n \in 1..Len(h)
    PROVE  ToSet(Shown(safe[n], input.body).text) \subseteq
              Uncovered(h[n].text, input.policy) \cup TokensOf(V) \cup {Redacted}
<1>1. PICK leaf : leaf = safe[n]
  OBVIOUS
<1>2. SafeLeaf(leaf, h[n], input.policy, V)
  BY <1>1 DEF Request, SafeLeaves
<1>3. ToSet(leaf.text) \subseteq Uncovered(h[n].text, input.policy) \cup TokensOf(V)
  BY <1>2 DEF SafeLeaf
<1>4. CASE Stood(leaf.text, input.body)
  <2>1. Shown(leaf, input.body) = Leaf(leaf.path, <<Redacted>>)
    BY <1>4 DEF Shown
  <2>2. Shown(leaf, input.body).text = <<Redacted>>
    BY <2>1 DEF Leaf
  <2>3. ToSet(<<Redacted>>) = {Redacted}
    BY OneElement
  <2>4. QED
    BY <1>1, <2>2, <2>3
<1>5. CASE ~Stood(leaf.text, input.body)
  <2>1. Shown(leaf, input.body) = leaf
    BY <1>5 DEF Shown
  <2>2. QED
    BY <1>1, <1>3, <2>1
<1>6. QED
  BY <1>4, <1>5

\* What an answer is made of, leaf by leaf.
AnswerLeaf(plain, policy, V) ==
    IF VisibleText(plain.path)
    THEN Leaf(plain.path, RestoreText(MaskText(plain.text, policy), V))
    ELSE Leaf(plain.path, MaskText(plain.text, policy))

LEMMA MadeLeaves ==
    ASSUME NEW document, IsDocument(document), NEW policy, NEW V,
           NEW h, h = HideMedia(document),
           NEW made, made = Made(document, policy, V)
    PROVE  /\ DOMAIN made = 1..Len(h)
           /\ \A n \in 1..Len(h) :
                 made[n] = Shown(AnswerLeaf(h[n], policy, V), document)
<1>1. DOMAIN h = 1..Len(h)
  BY HiddenDocument
<1>2. PICK masked : masked = Mask(h, policy)
  OBVIOUS
<1>3. PICK back : back = RestoreResponse(masked, V)
  OBVIOUS
<1>4. masked = [n \in 1..Len(h) |-> Leaf(h[n].path, MaskText(h[n].text, policy))]
  BY <1>1, <1>2 DEF Mask
<1>5. back = [n \in DOMAIN masked |->
                IF VisibleText(masked[n].path)
                THEN Leaf(masked[n].path, RestoreText(masked[n].text, V))
                ELSE masked[n]]
  BY <1>3 DEF RestoreResponse
<1>6. DOMAIN masked = 1..Len(h) /\ DOMAIN back = 1..Len(h)
  BY <1>4, <1>5
<1>7. made = ShowMedia(back, document)
  BY <1>2, <1>3 DEF Made
<1>8. made = [n \in DOMAIN back |-> Shown(back[n], document)]
  BY <1>7, ShownDocument
<1>9. ASSUME NEW n \in 1..Len(h) PROVE back[n] = AnswerLeaf(h[n], policy, V)
  <2>1. PICK plain, text : plain = h[n] /\ text = MaskText(plain.text, policy)
    OBVIOUS
  <2>2. masked[n] = Leaf(plain.path, text)
    BY <1>4, <2>1
  <2>3. masked[n].path = plain.path /\ masked[n].text = text
    BY <2>2 DEF Leaf
  <2>4. back[n] = IF VisibleText(plain.path)
                  THEN Leaf(plain.path, RestoreText(text, V))
                  ELSE Leaf(plain.path, text)
    BY <1>5, <1>6, <2>2, <2>3
  <2>5. QED
    BY <2>1, <2>4 DEF AnswerLeaf
<1>10. QED
  BY <1>6, <1>8, <1>9

\* What a leaf of an answer may hold.
OwnAtom(atom, plain, path, input, h) ==
    \/ atom \in Uncovered(plain.text, input.policy)
    \/ atom[1] = "masked" \/ atom = Redacted
    \/ VisibleText(path) /\ atom \in AtomsOf(h)

LEMMA AnswerLeafIsOwn ==
    ASSUME NEW input, NEW h, NEW safe, NEW V, Request(input, h, safe, V),
           NEW document, NEW plain, IsList(plain.text),
           NEW leaf, leaf = Shown(AnswerLeaf(plain, input.policy, V), document),
           NEW atom \in ToSet(leaf.text)
    PROVE  OwnAtom(atom, plain, leaf.path, input, h)
<1>1. /\ ProperPolicy(input.policy) /\ SoundVault(V)
      /\ \A i \in DOMAIN V : ToSet(V[i].value) \subseteq AtomsOf(h)
  BY DEF Request
<1>2. PICK policy, made, clean, back :
         /\ policy = input.policy
         /\ made = AnswerLeaf(plain, policy, V)
         /\ clean = MaskText(plain.text, policy)
         /\ back = RestoreText(clean, V)
  OBVIOUS
<1>3. /\ IsList(clean)
      /\ \A one \in ToSet(clean) :
            one \in Uncovered(plain.text, policy) \/ one[1] = "masked"
  BY <1>1, <1>2, MaskedText
<1>4. made = IF VisibleText(plain.path) THEN Leaf(plain.path, back)
             ELSE Leaf(plain.path, clean)
  BY <1>2 DEF AnswerLeaf
<1>5. CASE Stood(made.text, document)
  <2>1. leaf = Leaf(made.path, <<Redacted>>)
    BY <1>2, <1>5 DEF Shown
  <2>2. leaf.text = <<Redacted>>
    BY <2>1 DEF Leaf
  <2>3. ToSet(<<Redacted>>) = {Redacted}
    BY OneElement
  <2>4. QED
    BY <2>2, <2>3 DEF OwnAtom
<1>6. CASE ~Stood(made.text, document) /\ ~VisibleText(plain.path)
  <2>1. leaf = Leaf(plain.path, clean)
    BY <1>2, <1>4, <1>6 DEF Shown
  <2>2. leaf.text = clean
    BY <2>1 DEF Leaf
  <2>3. QED
    BY <1>2, <1>3, <2>2 DEF OwnAtom
<1>7. CASE ~Stood(made.text, document) /\ VisibleText(plain.path)
  <2>1. leaf = Leaf(plain.path, back)
    BY <1>2, <1>4, <1>7 DEF Shown
  <2>2. leaf.text = back /\ leaf.path = plain.path
    BY <2>1 DEF Leaf
  <2>3. PICK T : T = ToSet(clean) \cup AtomsOf(h)
    OBVIOUS
  <2>4. ToSet(clean) \subseteq T
        /\ \A i \in DOMAIN V : ToSet(V[i].value) \subseteq T
    BY <1>1, <2>3
  <2>5. IsVault(V)
    BY <1>1 DEF SoundVault
  <2>6. ToSet(RestoreText(clean, V)) \subseteq T
    BY <1>3, <2>4, <2>5, RestoreAtoms
  <2>7. atom \in ToSet(clean) \/ atom \in AtomsOf(h)
    BY <1>2, <2>2, <2>3, <2>6
  <2>8. VisibleText(leaf.path)
    BY <1>7, <2>2
  <2>9. QED
    BY <1>2, <1>3, <2>7, <2>8 DEF OwnAtom
<1>8. QED
  BY <1>5, <1>6, <1>7


LEMMA RoundTripHolds == ProxyInv => RoundTrip
<1> SUFFICES ASSUME ProxyInv PROVE RoundTrip
  OBVIOUS
<1>1. ASSUME NEW r \in Requests, Forwarded(r), ~Lookalike(ask[r].body, vault[r])
      PROVE  Restore(sent[r], vault[r])
               = ShowMedia(HideMedia(ask[r].body), ask[r].body)
  <2>1. PICK h, safe : /\ Request(ask[r], h, safe, vault[r])
                       /\ sent[r] = ShowMedia(safe, ask[r].body)
    BY <1>1, ForwardedRequest
  <2>2. PICK input, V, shown : input = ask[r] /\ V = vault[r] /\ shown = sent[r]
    OBVIOUS
  <2>3. /\ Request(input, h, safe, V) /\ ~Lookalike(input.body, V)
        /\ shown = ShowMedia(safe, input.body)
    BY <1>1, <2>1, <2>2
  <2>4. Restore(shown, V) = ShowMedia(h, input.body)
    BY <2>3, RequestRestored
  <2>5. h = HideMedia(input.body)
    BY <2>3 DEF Request
  <2>6. QED
    BY <2>2, <2>4, <2>5
<1>2. ASSUME NEW n \in DOMAIN notes,
             ~(\E m \in DOMAIN notes : Lookalike(notes[m].plain, kept))
      PROVE  Restore(notes[n].safe, kept) = notes[n].plain
  <2>1. NotesUndone(notes, kept)
    BY DEF ProxyInv
  <2>2. PICK note : note = notes[n]
    OBVIOUS
  <2>3. SafeNote(note, kept) /\ SoundVault(kept)
    BY <2>1, <2>2 DEF NotesUndone
  <2>4. Unmixed(kept)
    <3>1. ASSUME NEW i \in DOMAIN kept
          PROVE  ToSet(kept[i].value) \cap TokensOf(kept) = {}
      <4>1. PICK m \in DOMAIN notes :
                    ToSet(kept[i].value) \subseteq AtomsOf(notes[m].plain)
        BY <2>1 DEF NotesUndone
      <4>2. AtomsOf(notes[m].plain) \cap TokensOf(kept) = {}
        BY <1>2 DEF Lookalike
      <4>3. QED
        BY <4>1, <4>2
    <3>2. QED
      BY <3>1 DEF Unmixed
  <2>5. ~Lookalike(note.plain, kept)
    BY <1>2, <2>2
  <2>6. Restore(note.safe, kept) = note.plain
    BY <2>3, <2>4, <2>5, NoteRestored
  <2>7. QED
    BY <2>2, <2>6
<1>3. QED
  BY <1>1, <1>2 DEF RoundTrip

LEMMA FindingsStayHolds == ProxyInv => FindingsStay
<1> SUFFICES ASSUME ProxyInv, NEW r \in Requests, Forwarded(r),
                    NEW n \in DOMAIN sent[r]
             PROVE  ToSet(sent[r][n].text) \subseteq
                       Uncovered(HideMedia(ask[r].body)[n].text, ask[r].policy)
                       \cup TokensOf(vault[r]) \cup {Redacted}
  BY DEF FindingsStay
<1>1. PICK h, safe : /\ Request(ask[r], h, safe, vault[r])
                     /\ sent[r] = ShowMedia(safe, ask[r].body)
  BY ForwardedRequest
<1>2. PICK input, V, shown : input = ask[r] /\ V = vault[r] /\ shown = sent[r]
  OBVIOUS
<1>3. Request(input, h, safe, V) /\ shown = ShowMedia(safe, input.body)
  BY <1>1, <1>2
<1>4. DOMAIN safe = 1..Len(h)
  BY <1>3, ListDomain DEF Request, SafeLeaves
<1>5. shown = [k \in DOMAIN safe |-> Shown(safe[k], input.body)]
  BY <1>3, ShownDocument
<1>6. n \in 1..Len(h) /\ shown[n] = Shown(safe[n], input.body)
  BY <1>2, <1>4, <1>5
<1>7. ToSet(Shown(safe[n], input.body).text) \subseteq
         Uncovered(h[n].text, input.policy) \cup TokensOf(V) \cup {Redacted}
  BY <1>3, <1>6, SentLeafStays
<1>8. h = HideMedia(input.body)
  BY <1>3 DEF Request
<1>9. QED
  BY <1>2, <1>6, <1>7, <1>8

LEMMA NothingForeignHolds == ProxyInv => NothingForeign
<1> SUFFICES ASSUME ProxyInv, NEW r \in Requests, leg[r] = "answered",
                    NEW n \in DOMAIN answer[r],
                    NEW atom \in ToSet(answer[r][n].text)
             PROVE  OwnAtom(atom, HideMedia(said[r])[n], answer[r][n].path,
                            ask[r], HideMedia(ask[r].body))
  BY DEF NothingForeign, OwnAtom
<1>1. Forwarded(r)
  BY DEF Forwarded
<1>2. PICK h, safe : Request(ask[r], h, safe, vault[r])
  BY <1>1, ForwardedRequest
<1>3. PICK input, V, made, document :
         input = ask[r] /\ V = vault[r] /\ made = answer[r] /\ document = said[r]
  OBVIOUS
<1>4. IsDocument(document) /\ made = Made(document, input.policy, V)
  BY <1>3 DEF ProxyInv, RequestMade
<1>5. PICK g : g = HideMedia(document)
  OBVIOUS
<1>6. /\ DOMAIN made = 1..Len(g)
      /\ \A k \in 1..Len(g) :
            made[k] = Shown(AnswerLeaf(g[k], input.policy, V), document)
  BY <1>4, <1>5, MadeLeaves
<1>7. n \in 1..Len(g)
  BY <1>3, <1>6
<1>8. IsDocument(g) /\ DOMAIN g = 1..Len(g)
  BY <1>4, <1>5, HiddenDocument
<1>9. PICK plain, leaf : plain = g[n] /\ leaf = made[n]
  OBVIOUS
<1>10. /\ IsList(plain.text)
       /\ leaf = Shown(AnswerLeaf(plain, input.policy, V), document)
  BY <1>6, <1>7, <1>8, <1>9 DEF IsDocument
<1>11. Request(input, h, safe, V) /\ atom \in ToSet(leaf.text)
  BY <1>2, <1>3, <1>9
<1>12. OwnAtom(atom, plain, leaf.path, input, h)
  BY <1>10, <1>11, AnswerLeafIsOwn
<1>13. h = HideMedia(input.body)
  BY <1>11 DEF Request
<1>14. QED
  BY <1>3, <1>5, <1>9, <1>12, <1>13

\* Tokens stand for the values of one request and are undone for it alone:
\* what was replaced comes back as it was, from every vault that grew since, as
\* long as no text held what looks like a token; of a text, only what lies
\* outside the findings is sent; and an answer holds what the gateway said
\* outside the findings, masks, and, where the user sees it, what this request
\* itself had asked (PrivacyEngine, TokenVault, proxy(), request()).
THEOREM TokensAreUndone == ProxySpec => []RestoreUndoesTokenize
<1>1. ProxyInv => RestoreUndoesTokenize
  BY RoundTripHolds, FindingsStayHolds, NothingForeignHolds
     DEF RestoreUndoesTokenize
<1>2. QED
  BY <1>1, ProxyInvInit, ProxyInvNext, PTL DEF ProxySpec
=============================================================================

------------------------- MODULE ContractComparison -------------------------
(***************************************************************************)
(* Contract reviews: analyze_contract() and compare_contracts() of         *)
(* src/grandice_domain/legal.py, with the validation of their inputs and   *)
(* the pairing of clauses in _pair_clauses() one iteration at a time.      *)
(*                                                                         *)
(* A comparison takes the categories one after another.  Each clause of    *)
(* the original looks among at most MaxCandidates clauses of the revision  *)
(* that are still free, takes the one that is most similar, and is         *)
(* reported as removed when none is similar enough; what is free in the    *)
(* end was added.                                                          *)
(*                                                                         *)
(* A text is compared by the words of its lines, at most 512 in the code   *)
(* and all of them here.  The clauses of a request are computed once, in   *)
(* old and new.                                                            *)
(***************************************************************************)
EXTENDS ContractRisks

CONSTANTS MaxCandidates,   (* MAX_CANDIDATES_PER_CLAUSE                    *)
          MaxComparisons,  (* MAX_COMPARISONS                              *)
          Reviews,         (* inputs of analyze_contract()                 *)
          Comparisons      (* inputs of compare_contracts()                *)

ASSUME ComparisonAssumption ==
    /\ MaxCandidates \in Nat \ {0}
    /\ MaxComparisons \in Nat

ASSUME ContractAssumption ==
    /\ \A input \in Reviews : IsText(input.document.text)
    /\ \A input \in Comparisons :
          IsText(input.original.text) /\ IsText(input.revised.text)
    /\ \A input \in Reviews \cup Comparisons : IsPlaybook(input.playbook)

VARIABLES legal,     (* "idle", "pairing", or how the request ended:       *)
                     (* "refused", "failed", "reviewed" or "compared"      *)
          contract,  (* the input of the request                           *)
          old, new,  (* its clauses: the original's, the revision's        *)
          category,  (* the category whose clauses are being paired        *)
          done,      (* the categories before it                           *)
          tried,     (* its original clauses that have looked for a pair   *)
          changes,   (* the changes found so far                           *)
          report     (* the answer                                         *)

pairVars == <<category, done, tried, changes>>
legalVars == <<legal, contract, old, new, pairVars, report>>

NoCategory == "(none)"
NoReport == [complete |-> FALSE]
NoContract == [asOf |-> 0]

LegalInit ==
    /\ legal = "idle"
    /\ contract = NoContract
    /\ old = <<>> /\ new = <<>>
    /\ category = NoCategory
    /\ done = {} /\ tried = {}
    /\ changes = <<>>
    /\ report = NoReport

-----------------------------------------------------------------------------
(* Inputs                                                                  *)

ValidPlaybook(playbook) ==
    /\ Distinct(playbook.required)
    /\ Distinct(playbook.prohibited)
    /\ Distinct([p \in DOMAIN playbook.policies |-> playbook.policies[p].id])

Known(document, input) == document.source \in SourceIds(input)

-----------------------------------------------------------------------------
(* Pairing                                                                 *)

WordCount(clause) ==
    [w \in ClauseWords(clause) |->
        Cardinality({n \in DOMAIN clause.body : w \in clause.body[n].words})]

\* _bounded_similarity() as a fraction; a text without words resembles none.
Similarity(a, b) ==
    LET ofA == WordCount(a)
        ofB == WordCount(b)
        words == SumFunction(ofA) + SumFunction(ofB)
        common == [w \in DOMAIN ofA \cap DOMAIN ofB |->
                      IF ofA[w] < ofB[w] THEN ofA[w] ELSE ofB[w]]
    IN IF a.body = b.body THEN [num |-> 1, den |-> 1]
       ELSE IF words = 0 THEN [num |-> 0, den |-> 1]
       ELSE [num |-> 2 * SumFunction(common), den |-> words]

Similar(score) == 100 * score.num >= 35 * score.den
Higher(s, t) == s.num * t.den > t.num * s.den
Close(s, t) ==   \* within 0.03; s is not the lower one
    100 * (s.num * t.den - t.num * s.den) <= 3 * s.den * t.den

Group(clauses) == {k \in DOMAIN clauses : clauses[k].category = category}
Rank(group, k) == Cardinality({l \in group : l < k})   \* its index in group

Reported(side) == {changes[n][side] : n \in DOMAIN changes}
Available == {j \in Group(new) : j \notin Reported("new")}

Projected(i) ==
    LET others == Cardinality(Group(old)) - 1
    IN RoundHalfEven(Rank(Group(old), i) * (Cardinality(Group(new)) - 1),
                     IF others < 1 THEN 1 ELSE others)

Distance(a, b) == IF a < b THEN b - a ELSE a - b

\* The order of the candidates: the same heading first, then the place.
Sooner(i, j, k) ==
    LET renamed(l) == new[l].heading # old[i].heading \/ old[i].heading = NoHeading
        off(l) == Distance(Rank(Group(new), l), Projected(i))
    IN IF renamed(j) # renamed(k) THEN renamed(k)
       ELSE off(j) < off(k) \/ (off(j) = off(k) /\ j < k)

Candidates(i) ==
    {j \in Available :
        Cardinality({k \in Available : Sooner(i, k, j)}) < MaxCandidates}

Score(i, j) == Similarity(old[i], new[j])

\* Mutant of Best: the first clause that is similar enough, not the most
\* similar one.
FirstSimilar(i) ==
    {j \in Candidates(i) :
        /\ Similar(Score(i, j))
        /\ \A k \in Candidates(i) : Similar(Score(i, k)) => j <= k}

\* The candidate that none is better than, in the order of the score.
Best(i) ==
    {j \in Candidates(i) :
        /\ Similar(Score(i, j))
        /\ \A k \in Candidates(i) :
              /\ ~Higher(Score(i, k), Score(i, j))
              /\ Higher(Score(i, j), Score(i, k)) \/ j <= k}

Rivals(i, j) ==
    {k \in Candidates(i) \ {j} :
        Similar(Score(i, k)) /\ Close(Score(i, j), Score(i, k))}

Change(status, i, j, rivals) ==
    [category |-> category, status |-> status, old |-> i, new |-> j,
     rivals |-> rivals]

Paired(i, j) ==
    LET rivals == Cardinality(Rivals(i, j))
        status == IF old[i].body = new[j].body THEN "unchanged"
                  ELSE IF rivals > 0 THEN "ambiguous" ELSE "modified"
    IN Change(status, i, j, rivals)

-----------------------------------------------------------------------------
(* Steps                                                                   *)

End(how) ==   \* without an answer
    /\ legal' = how
    /\ UNCHANGED <<old, new, pairVars, report>>

ValidReview(input) ==
    /\ ValidPlaybook(input.playbook)
    /\ ValidSources(input)
    /\ Known(input.document, input)

Reviewed(input) ==
    LET text == input.document.text
        omitted == OmittedClauses(text)
    IN [clauses |-> Segments(text),
        findings |-> Findings(text, input.playbook),
        omittedClauses |-> omitted,
        omittedFindings |-> OmittedFindings(text, input.playbook),
        complete |-> omitted = 0 /\ OmittedFindings(text, input.playbook) = 0]

\* analyze_contract() on an input of any kind.
ReviewContract(input) ==
    /\ legal = "idle"
    /\ contract' = input
    /\ IF ~ValidReview(input) THEN End("refused")
       ELSE IF Unnameable(Findings(input.document.text, input.playbook))
       THEN End("failed")  \* a finding cannot be built
       ELSE /\ legal' = "reviewed"
            /\ report' = Reviewed(input)
            /\ UNCHANGED <<old, new, pairVars>>

ValidComparison(input) ==
    /\ ValidPlaybook(input.playbook)
    /\ ValidSources(input)
    /\ Known(input.original, input)
    /\ Known(input.revised, input)
    /\ input.original.id # input.revised.id

\* compare_contracts() up to the pairing of the clauses.
CompareContracts(input) ==
    /\ legal = "idle"
    /\ contract' = input
    /\ IF ~ValidComparison(input) THEN End("refused")
       ELSE IF \/ Unnameable(Findings(input.original.text, input.playbook))
               \/ Unnameable(Findings(input.revised.text, input.playbook))
       THEN End("failed")  \* a finding cannot be built
       ELSE /\ legal' = "pairing"
            /\ old' = Segments(input.original.text)
            /\ new' = Segments(input.revised.text)
            /\ UNCHANGED <<pairVars, report>>

Untried == Group(old) \ tried
\* Mutant of Unpaired: matched_old takes every clause that looked for a pair.
UnpairedUntried == Group(old) \ tried

Unpaired == Group(old) \ Reported("old")

\* The next clause of the original takes its best candidate, if it has one.
PairClause ==
    /\ legal = "pairing"
    /\ \E i \in Untried :
          /\ \A k \in Untried : i <= k
          /\ tried' = tried \cup {i}
          /\ \/ /\ Best(i) = {}
                /\ UNCHANGED changes
             \/ \E j \in Best(i) : changes' = Append(changes, Paired(i, j))
    /\ UNCHANGED <<legal, contract, old, new, category, done, report>>

ReportRemoved ==
    /\ legal = "pairing"
    /\ Untried = {}
    /\ \E i \in Unpaired :
          /\ \A k \in Unpaired : i <= k
          /\ changes' = Append(changes, Change("removed", i, 0, 0))
    /\ UNCHANGED <<legal, contract, old, new, category, done, tried, report>>

ReportAdded ==
    /\ legal = "pairing"
    /\ Untried = {} /\ Unpaired = {}
    /\ \E j \in Available :
          /\ \A k \in Available : j <= k
          /\ changes' = Append(changes, Change("added", 0, j, 0))
    /\ UNCHANGED <<legal, contract, old, new, category, done, tried, report>>

CategoryFinished == Untried = {} /\ Unpaired = {} /\ Available = {}
Finished == done \cup {category}

\* The categories follow each other as they first appear: all of the
\* original's, then those that only the revision has.
Unfinished(clauses) ==
    {k \in DOMAIN clauses : clauses[k].category \notin Finished}

Opens(clauses, c) ==
    \E k \in Unfinished(clauses) :
        /\ \A l \in Unfinished(clauses) : k <= l
        /\ c = clauses[k].category

NextCategory ==
    /\ legal = "pairing"
    /\ CategoryFinished
    /\ \E c \in Categories(old) \cup Categories(new) :
          /\ IF Unfinished(old) # {} THEN Opens(old, c) ELSE Opens(new, c)
          /\ category' = c
    /\ done' = Finished
    /\ tried' = {}
    /\ UNCHANGED <<legal, contract, old, new, changes, report>>

\* compare_contracts() after the pairing.
Compared ==
    LET findings(document) == Findings(document.text, contract.playbook)
        lost(document) == OmittedFindings(document.text, contract.playbook)
        emitted == AtMost(changes, MaxComparisons)
    IN [changes |-> emitted,
        delta |-> RiskDelta(findings(contract.original),
                            findings(contract.revised)),
        omittedChanges |-> Len(changes) - Len(emitted),
        complete |-> /\ Len(changes) = Len(emitted)
                     /\ OmittedClauses(contract.original.text) = 0
                     /\ OmittedClauses(contract.revised.text) = 0
                     /\ lost(contract.original) = 0
                     /\ lost(contract.revised) = 0]

ReportComparison ==
    /\ legal = "pairing"
    /\ CategoryFinished
    /\ Unfinished(old) = {} /\ Unfinished(new) = {}
    /\ legal' = "compared"
    /\ report' = Compared
    /\ UNCHANGED <<contract, old, new, pairVars>>

LegalNext ==
    \/ \E input \in Reviews : ReviewContract(input)
    \/ \E input \in Comparisons : CompareContracts(input)
    \/ PairClause
    \/ ReportRemoved
    \/ ReportAdded
    \/ NextCategory
    \/ ReportComparison

LegalSpec == LegalInit /\ [][LegalNext]_legalVars

-----------------------------------------------------------------------------
(* Properties                                                              *)

Once(n, side) ==
    \A m \in DOMAIN changes : changes[m][side] = changes[n][side] => m = n

Told(clauses, side, status) ==
    \A k \in DOMAIN clauses :
        \E n \in DOMAIN changes :
            /\ changes[n][side] = k
            /\ changes[n].category = clauses[k].category
            /\ changes[n].status # status
            /\ Once(n, side)

\* A comparison reports every clause of the original and of the revision
\* once, under its own category, whatever was paired with what, and the
\* changes that it cuts off are counted (_pair_clauses, compare_contracts).
EveryClauseAccounted ==
    legal = "compared" =>
        /\ Told(old, "old", "added")
        /\ Told(new, "new", "removed")
        /\ \A n \in DOMAIN changes :
              changes[n].old \in DOMAIN old \/ changes[n].new \in DOMAIN new
        /\ Len(report.changes) + report.omittedChanges = Len(changes)

Partnered(i, j) ==
    \E n \in DOMAIN changes : changes[n].old = i /\ changes[n].new = j

\* A clause that the revision left as it was is reported as unchanged, unless
\* its copy went to an earlier clause of the original, another clause with
\* the same words stands before it, or the revision has more clauses of the
\* category than are looked at.  A contract compared with itself is
\* unchanged: the copies are paired in order (_pair_clauses).
TwinKept(i, j) ==
    \/ Partnered(i, j)
    \/ \E k \in 1 .. (i - 1) : Partnered(k, j)
    \/ \E k \in 1 .. (j - 1) : Partnered(i, k) /\ ~Higher(Score(i, j), Score(i, k))
    \/ Cardinality({k \in DOMAIN new : new[k].category = old[i].category})
          > MaxCandidates

TwinsPaired ==
    legal = "compared" =>
        /\ \A i \in DOMAIN old, j \in DOMAIN new :
              old[i].body = new[j].body => TwinKept(i, j)
        /\ contract.original.text = contract.revised.text =>
              /\ \A n \in DOMAIN changes : changes[n].status = "unchanged"
              /\ report.delta.new = {} /\ report.delta.resolved = {}

\* The clause is reported with one that has the same text.
Exact(n) ==
    /\ changes[n].old # 0 /\ changes[n].new # 0
    /\ old[changes[n].old].body = new[changes[n].new].body

\* LEGAL-APIS.md: clauses are "matched by exact span hash where possible, then
\* compared using bounded token similarity".  Of a clause and its copy in the
\* revision one at least is matched by its text, in a category with no more
\* clauses than are looked at.
ExactTwinsMatched ==
    legal = "compared" =>
        \A i \in DOMAIN old, j \in DOMAIN new :
            /\ old[i].body = new[j].body
            /\ Cardinality({k \in DOMAIN new : new[k].category = new[j].category})
                  <= MaxCandidates
            => \E n \in DOMAIN changes :
                  Exact(n) /\ (changes[n].old = i \/ changes[n].new = j)

\* Every line that says something is in exactly one clause.
TextCovered(text, clauses) ==
    \A n \in DOMAIN text :
        text[n].form # "blank" =>
            Cardinality({k \in DOMAIN clauses :
                clauses[k].first <= n /\ n <= clauses[k].last}) = 1

BlankPreamble(text) ==
    /\ DetectedSegmentCount(text) <= MaxSegments
    /\ Written(text, 1) = {}

CutShort(text) ==
    \/ DetectedSegmentCount(text) > MaxSegments
    \/ BlankPreamble(text)
    \/ Len(AllFindings(text, contract.playbook)) > MaxFindings

\* An answer that calls itself complete has left out no line, no finding and
\* no change; one that does not has met a cap or a document that begins with
\* an empty segment, which is counted as omitted; and only a policy with a
\* long id keeps a valid request from being answered (analyze_contract,
\* compare_contracts).
LegalOmissionsDisclosed ==
    /\ legal = "reviewed" =>
          LET text == contract.document.text
          IN /\ report.complete =>
                   /\ TextCovered(text, report.clauses)
                   /\ report.findings = AllFindings(text, contract.playbook)
             /\ ~report.complete => CutShort(text)
    /\ legal = "compared" =>
          LET texts == {contract.original.text, contract.revised.text}
          IN /\ report.complete =>
                   /\ TextCovered(contract.original.text, old)
                   /\ TextCovered(contract.revised.text, new)
                   /\ report.changes = changes
                   /\ report.delta = RiskDelta(
                         AllFindings(contract.original.text, contract.playbook),
                         AllFindings(contract.revised.text, contract.playbook))
             /\ ~report.complete =>
                   \/ Len(changes) > MaxComparisons
                   \/ \E text \in texts : CutShort(text)
    /\ legal = "failed" =>
          \E p \in DOMAIN contract.playbook.policies :
              contract.playbook.policies[p].id \in LongIds
=============================================================================

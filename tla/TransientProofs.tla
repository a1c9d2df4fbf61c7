--------------------------- MODULE TransientProofs ---------------------------
(***************************************************************************)
(* Proofs about the answers of the analyses that keep nothing from one     *)
(* request to the next: what a contract review leaves out, what a market   *)
(* analysis says of a value that its sources dispute, and that its parts   *)
(* count the same evidence.                                                *)
(*                                                                         *)
(* All rest on what the answers are made of: lists that are put together  *)
(* from others, cut off at a limit, or are a finite set in order.          *)
(***************************************************************************)
EXTENDS ContractComparisonProofs, MarketAnalysis

-----------------------------------------------------------------------------
(* The findings of a review *)

\* A list of findings of which those of a policy have the id of one.
OfPolicies(list, playbook) ==
    /\ IsList(list)
    /\ \A finding \in ToSet(list) :
          finding.rule = "policy" =>
              \E p \in DOMAIN playbook.policies :
                  finding.parameter = playbook.policies[p].id

LEMMA ConcatOfPolicies ==
    ASSUME NEW playbook, NEW s, OfPolicies(s, playbook),
           NEW t, OfPolicies(t, playbook)
    PROVE  OfPolicies(s \o t, playbook)
<1> DEFINE T == ToSet(s) \cup ToSet(t)
           all == s \o t
<1>1. s \in Seq(ToSet(s)) /\ t \in Seq(ToSet(t))
  BY DEF OfPolicies, IsList
<1>2. ToSet(s) \subseteq T /\ ToSet(t) \subseteq T
  OBVIOUS
<1> HIDE DEF T
<1>3. s \in Seq(T) /\ t \in Seq(T)
  BY <1>1, <1>2, SeqMonotonic
<1>4. all \in Seq(T)
  BY <1>3, ConcatProperties
<1> HIDE DEF all
<1>5. all \in [1..Len(all) -> T] /\ Len(all) \in Nat
  BY <1>4, LenProperties
<1>6. IsList(all)
  BY <1>5, ListOfInterval
<1>7. ToSet(all) \subseteq T
  BY <1>5 DEF ToSet
<1>8. QED
  BY <1>6, <1>7 DEF OfPolicies, all, T

LEMMA FlattenedOfPolicies ==
    ASSUME NEW playbook, NEW seqs, IsList(seqs),
           \A i \in DOMAIN seqs : OfPolicies(seqs[i], playbook)
    PROVE  OfPolicies(FlattenSeq(seqs), playbook)
<1>1. \A i \in DOMAIN seqs : IsList(seqs[i])
  BY DEF OfPolicies
<1>2. /\ IsList(FlattenSeq(seqs))
      /\ \A x \in ToSet(FlattenSeq(seqs)) :
            \E i \in DOMAIN seqs : x \in ToSet(seqs[i])
  BY <1>1, FlattenedParts
<1>3. QED
  BY <1>2 DEF OfPolicies

LEMMA ListedOfPolicies ==
    ASSUME NEW playbook, NEW finding, NEW list \in {<< >>, <<finding>>},
           finding.rule = "policy" =>
               \E p \in DOMAIN playbook.policies :
                   finding.parameter = playbook.policies[p].id
    PROVE  OfPolicies(list, playbook)
<1>1. << >> \in [1..0 -> {finding}] /\ <<finding>> \in [1..1 -> {finding}]
  OBVIOUS
<1>2. IsList(<< >>) /\ IsList(<<finding>>)
  BY <1>1, ListOfInterval
<1>3. ToSet(<< >>) = {} /\ ToSet(<<finding>>) = {finding}
  BY DEF ToSet
<1>4. OfPolicies(<< >>, playbook) /\ OfPolicies(<<finding>>, playbook)
  BY <1>2, <1>3 DEF OfPolicies
<1>5. QED
  BY <1>4

LEMMA WordingIsNoPolicy ==
    ASSUME NEW playbook, NEW clauses, IsList(clauses)
    PROVE  OfPolicies(WordingFindings(clauses), playbook)
<1> DEFINE one(k, r) ==
              LET rule == WordingRules[r]
                  words == ClauseWords(clauses[k])
              IN Listed(/\ clauses[k].category \in rule.categories
                        /\ \E ground \in rule.grounds : ground \subseteq words
                        /\ rule.unless \cap words = {},
                        Finding(rule.name, "", clauses, k,
                                words \cap UNION rule.grounds))
           ofClause(k) == [r \in DOMAIN WordingRules |-> one(k, r)]
           all == [k \in DOMAIN clauses |-> FlattenSeq(ofClause(k))]
<1>1. WordingFindings(clauses) = FlattenSeq(all)
  BY DEF WordingFindings
<1>2. /\ IsList(WordingRules)
      /\ \A r \in DOMAIN WordingRules : WordingRules[r].name # "policy"
  <2>1. /\ DOMAIN WordingRules = 1..5
        /\ WordingRules \in [1..5 -> {WordingRules[r] : r \in 1..5}]
    BY DEF WordingRules
  <2>2. IsList(WordingRules)
    BY <2>1, ListOfInterval
  <2>3. /\ WordingRules[1].name # "policy"
        /\ WordingRules[2].name # "policy"
        /\ WordingRules[3].name # "policy"
        /\ WordingRules[4].name # "policy"
        /\ WordingRules[5].name # "policy"
    BY DEF WordingRules, Rule
  <2>4. \A r \in 1..5 : r = 1 \/ r = 2 \/ r = 3 \/ r = 4 \/ r = 5
    OBVIOUS
  <2>5. QED
    BY <2>1, <2>2, <2>3, <2>4
<1>3. ASSUME NEW k, NEW r \in DOMAIN WordingRules PROVE OfPolicies(one(k, r), playbook)
  <2> DEFINE finding == Finding(WordingRules[r].name, "", clauses, k,
                                ClauseWords(clauses[k])
                                    \cap UNION WordingRules[r].grounds)
  <2>1. one(k, r) \in {<< >>, <<finding>>}
    BY DEF Listed
  <2>2. finding.rule # "policy"
    BY <1>2 DEF Finding
  <2> HIDE DEF one, finding
  <2>3. QED
    BY <2>1, <2>2, ListedOfPolicies
<1> HIDE DEF one
<1>4. ASSUME NEW k PROVE OfPolicies(FlattenSeq(ofClause(k)), playbook)
  <2>1. ofClause(k) = [r \in DOMAIN WordingRules |-> ofClause(k)[r]]
    OBVIOUS
  <2>2. IsList(ofClause(k)) /\ DOMAIN ofClause(k) = DOMAIN WordingRules
    BY <1>2, <2>1, MadeOfList
  <2>3. \A r \in DOMAIN ofClause(k) : OfPolicies(ofClause(k)[r], playbook)
    BY <1>3
  <2> HIDE DEF ofClause
  <2>4. QED
    BY <2>2, <2>3, FlattenedOfPolicies
<1> HIDE DEF ofClause
<1>5. all = [k \in DOMAIN clauses |-> all[k]]
  OBVIOUS
<1>6. IsList(all) /\ DOMAIN all = DOMAIN clauses
  BY <1>5, MadeOfList
<1>7. \A k \in DOMAIN all : OfPolicies(all[k], playbook)
  BY <1>4
<1> HIDE DEF all
<1>8. QED
  BY <1>1, <1>6, <1>7, FlattenedOfPolicies

LEMMA GapIsNoPolicy ==
    ASSUME NEW playbook, NEW clauses, NEW categories, IsList(categories),
           NEW prefix, prefix # "policy"
    PROVE  OfPolicies(GapFindings(clauses, categories, prefix), playbook)
<1> DEFINE all == [n \in DOMAIN categories |->
                     Listed(categories[n] \notin Categories(clauses),
                            Finding(prefix, categories[n], clauses, 0, {}))]
<1>1. GapFindings(clauses, categories, prefix) = FlattenSeq(all)
  BY DEF GapFindings
<1>2. all = [n \in DOMAIN categories |-> all[n]]
  OBVIOUS
<1>3. IsList(all) /\ DOMAIN all = DOMAIN categories
  BY <1>2, MadeOfList
<1>4. ASSUME NEW n \in DOMAIN all PROVE OfPolicies(all[n], playbook)
  <2> DEFINE finding == Finding(prefix, categories[n], clauses, 0, {})
  <2>1. all[n] \in {<< >>, <<finding>>}
    BY DEF Listed
  <2>2. finding.rule # "policy"
    BY DEF Finding
  <2> HIDE DEF all, finding
  <2>3. QED
    BY <2>1, <2>2, ListedOfPolicies
<1> HIDE DEF all
<1>5. QED
  BY <1>1, <1>3, <1>4, FlattenedOfPolicies

LEMMA ProhibitedIsNoPolicy ==
    ASSUME NEW playbook, IsList(playbook.prohibited), NEW text, NEW clauses
    PROVE  OfPolicies(ProhibitedFindings(text, clauses, playbook), playbook)
<1> DEFINE one(n) ==
              LET phrase == playbook.prohibited[n]
                  holders == {k \in DOMAIN clauses :
                                  phrase \in ClauseWords(clauses[k])}
                  holder == IF holders = {} THEN 0
                            ELSE CHOOSE k \in holders : \A l \in holders : k <= l
              IN Listed(phrase \in WordsOf(text),
                        Finding("prohibited-phrase", "", clauses, holder, {phrase}))
           all == [n \in DOMAIN playbook.prohibited |-> one(n)]
<1>1. ProhibitedFindings(text, clauses, playbook) = FlattenSeq(all)
  BY DEF ProhibitedFindings
<1>2. ASSUME NEW n PROVE OfPolicies(one(n), playbook)
  <2> DEFINE phrase == playbook.prohibited[n]
             holders == {k \in DOMAIN clauses : phrase \in ClauseWords(clauses[k])}
             holder == IF holders = {} THEN 0
                       ELSE CHOOSE k \in holders : \A l \in holders : k <= l
             finding == Finding("prohibited-phrase", "", clauses, holder, {phrase})
  <2>1. one(n) \in {<< >>, <<finding>>}
    BY DEF Listed
  <2>2. finding.rule # "policy"
    BY DEF Finding
  <2> HIDE DEF one, finding
  <2>3. QED
    BY <2>1, <2>2, ListedOfPolicies
<1> HIDE DEF one
<1>3. all = [n \in DOMAIN playbook.prohibited |-> all[n]]
  OBVIOUS
<1>4. IsList(all) /\ DOMAIN all = DOMAIN playbook.prohibited
  BY <1>3, MadeOfList
<1>5. \A n \in DOMAIN all : OfPolicies(all[n], playbook)
  BY <1>2
<1> HIDE DEF all
<1>6. QED
  BY <1>1, <1>4, <1>5, FlattenedOfPolicies

LEMMA PolicyHasId ==
    ASSUME NEW playbook, IsList(playbook.policies), NEW clauses, IsList(clauses)
    PROVE  OfPolicies(PolicyFindings(clauses, playbook), playbook)
<1> DEFINE one(p, k) ==
              LET policy == playbook.policies[p]
                  matched == policy.phrases \cap ClauseWords(clauses[k])
              IN Listed(/\ policy.categories = {}
                              \/ clauses[k].category \in policy.categories
                        /\ \/ matched # {}
                           \/ policy.phrases = {} /\ policy.categories # {},
                        Finding("policy", policy.id, clauses, k, matched))
           ofPolicy(p) == [k \in DOMAIN clauses |-> one(p, k)]
           all == [p \in DOMAIN playbook.policies |-> FlattenSeq(ofPolicy(p))]
<1>1. PolicyFindings(clauses, playbook) = FlattenSeq(all)
  BY DEF PolicyFindings
<1>2. ASSUME NEW p \in DOMAIN playbook.policies, NEW k
      PROVE  OfPolicies(one(p, k), playbook)
  <2> DEFINE policy == playbook.policies[p]
             finding == Finding("policy", policy.id, clauses, k,
                                policy.phrases \cap ClauseWords(clauses[k]))
  <2>1. one(p, k) \in {<< >>, <<finding>>}
    BY DEF Listed
  <2>2. finding.parameter = playbook.policies[p].id
    BY DEF Finding
  <2> HIDE DEF one, finding
  <2>3. QED
    BY <1>2, <2>1, <2>2, ListedOfPolicies
<1> HIDE DEF one
<1>3. ASSUME NEW p \in DOMAIN playbook.policies
      PROVE  OfPolicies(FlattenSeq(ofPolicy(p)), playbook)
  <2>1. ofPolicy(p) = [k \in DOMAIN clauses |-> ofPolicy(p)[k]]
    OBVIOUS
  <2>2. IsList(ofPolicy(p)) /\ DOMAIN ofPolicy(p) = DOMAIN clauses
    BY <2>1, MadeOfList
  <2>3. \A k \in DOMAIN ofPolicy(p) : OfPolicies(ofPolicy(p)[k], playbook)
    BY <1>2, <1>3
  <2> HIDE DEF ofPolicy
  <2>4. QED
    BY <2>2, <2>3, FlattenedOfPolicies
<1> HIDE DEF ofPolicy
<1>4. all = [p \in DOMAIN playbook.policies |-> all[p]]
  OBVIOUS
<1>5. IsList(all) /\ DOMAIN all = DOMAIN playbook.policies
  BY <1>4, MadeOfList
<1>6. \A p \in DOMAIN all : OfPolicies(all[p], playbook)
  BY <1>3
<1> HIDE DEF all
<1>7. QED
  BY <1>1, <1>5, <1>6, FlattenedOfPolicies

LEMMA FindingsOfPolicies ==
    ASSUME NEW text, IsText(text), NEW playbook, IsPlaybook(playbook)
    PROVE  OfPolicies(AllFindings(text, playbook), playbook)
<1> DEFINE clauses == Segments(text)
           wording == WordingFindings(clauses)
           gaps == GapFindings(clauses, ExpectedCategories, "gap")
           missing == GapFindings(clauses, playbook.required, "missing")
           cap == MissingCap(clauses, playbook)
           prohibited == ProhibitedFindings(text, clauses, playbook)
           law == LawMismatch(clauses, playbook)
           policies == PolicyFindings(clauses, playbook)
<1>1. AllFindings(text, playbook) =
          wording \o gaps \o missing \o cap \o prohibited \o law \o policies
  BY DEF AllFindings, Clauses
<1>2. IsList(clauses)
  BY SegmentsOfText
<1> HIDE DEF clauses
<1>3. OfPolicies(wording, playbook)
  BY <1>2, WordingIsNoPolicy
<1>4. OfPolicies(gaps, playbook)
  <2>1. ExpectedCategories \in [1..2 -> {"confidentiality", "data_protection"}]
    BY DEF ExpectedCategories
  <2>2. IsList(ExpectedCategories)
    BY <2>1, ListOfInterval
  <2>3. QED
    BY <2>2, GapIsNoPolicy
<1>5. OfPolicies(missing, playbook)
  BY GapIsNoPolicy DEF IsPlaybook
<1>6. OfPolicies(cap, playbook)
  <2> DEFINE finding == Finding("missing-liability-cap", "", clauses, 0, {})
  <2>1. cap \in {<< >>, <<finding>>}
    BY DEF MissingCap, Listed
  <2>2. finding.rule # "policy"
    BY DEF Finding
  <2> HIDE DEF finding, cap
  <2>3. QED
    BY <2>1, <2>2, ListedOfPolicies
<1>7. OfPolicies(prohibited, playbook)
  BY ProhibitedIsNoPolicy DEF IsPlaybook
<1>8. OfPolicies(law, playbook)
  <2> DEFINE laws == {k \in DOMAIN clauses : clauses[k].category = "governing_law"}
             first == CHOOSE k \in laws : \A l \in laws : k <= l
             finding == Finding("governing-law-mismatch", "", clauses, first,
                                playbook.law)
  <2>1. law \in {<< >>, <<finding>>}
    BY DEF LawMismatch, Listed
  <2>2. finding.rule # "policy"
    BY DEF Finding
  <2> HIDE DEF finding, law
  <2>3. QED
    BY <2>1, <2>2, ListedOfPolicies
<1>9. OfPolicies(policies, playbook)
  BY <1>2, PolicyHasId DEF IsPlaybook
<1> HIDE DEF wording, gaps, missing, cap, prohibited, law, policies
<1>10. OfPolicies(wording \o gaps, playbook)
  BY <1>3, <1>4, ConcatOfPolicies
<1>11. OfPolicies(wording \o gaps \o missing, playbook)
  BY <1>5, <1>10, ConcatOfPolicies
<1>12. OfPolicies(wording \o gaps \o missing \o cap, playbook)
  BY <1>6, <1>11, ConcatOfPolicies
<1>13. OfPolicies(wording \o gaps \o missing \o cap \o prohibited, playbook)
  BY <1>7, <1>12, ConcatOfPolicies
<1>14. OfPolicies(wording \o gaps \o missing \o cap \o prohibited \o law, playbook)
  BY <1>8, <1>13, ConcatOfPolicies
<1>15. QED
  BY <1>1, <1>9, <1>14, ConcatOfPolicies

\* A review reports all findings, or has more than it may report.
LEMMA FindingsCutOff ==
    ASSUME NEW text, IsText(text), NEW playbook, IsPlaybook(playbook)
    PROVE  /\ OmittedFindings(text, playbook) = 0 =>
                 Findings(text, playbook) = AllFindings(text, playbook)
           /\ OmittedFindings(text, playbook) # 0 =>
                 Len(AllFindings(text, playbook)) > MaxFindings
           /\ ToSet(Findings(text, playbook)) \subseteq ToSet(AllFindings(text, playbook))
<1> DEFINE all == AllFindings(text, playbook)
<1>1. IsList(all)
  BY FindingsOfPolicies DEF OfPolicies
<1>2. MaxFindings \in Nat
  BY RisksAssumption
<1>3. /\ OmittedFindings(text, playbook) = Len(all) - Len(AtMost(all, MaxFindings))
      /\ Findings(text, playbook) = AtMost(all, MaxFindings)
  BY DEF OmittedFindings, Findings
<1> HIDE DEF all
<1>4. /\ ToSet(AtMost(all, MaxFindings)) \subseteq ToSet(all)
      /\ Len(AtMost(all, MaxFindings)) \in Nat
      /\ Len(all) \in Nat
      /\ Len(all) = Len(AtMost(all, MaxFindings)) => AtMost(all, MaxFindings) = all
      /\ Len(all) # Len(AtMost(all, MaxFindings)) => Len(all) > MaxFindings
  BY <1>1, <1>2, CutOff, ListDomain
<1>5. PICK n \in Nat, m \in Nat : n = Len(all) /\ m = Len(AtMost(all, MaxFindings))
  BY <1>4
<1>6. n - m = 0 <=> n = m
  OBVIOUS
<1>7. QED
  BY <1>3, <1>4, <1>5, <1>6 DEF all

\* Only a policy with a long id makes a finding that cannot be built.
LEMMA UnnameablePolicy ==
    ASSUME NEW text, IsText(text), NEW playbook, IsPlaybook(playbook),
           Unnameable(Findings(text, playbook))
    PROVE  \E p \in DOMAIN playbook.policies : playbook.policies[p].id \in LongIds
<1> DEFINE found == Findings(text, playbook)
<1>1. PICK n \in DOMAIN found :
          found[n].rule = "policy" /\ found[n].parameter \in LongIds
  BY DEF Unnameable
<1>2. found[n] \in ToSet(found)
  BY DEF ToSet
<1>3. found[n] \in ToSet(AllFindings(text, playbook))
  BY <1>2, FindingsCutOff
<1>4. QED
  BY <1>1, <1>3, FindingsOfPolicies DEF OfPolicies

\* Something is left out only behind a cap or with a blank preamble.
LEMMA WhyIncomplete ==
    ASSUME NEW text, IsText(text), NEW playbook, IsPlaybook(playbook),
           OmittedClauses(text) # 0 \/ OmittedFindings(text, playbook) # 0
    PROVE  \/ DetectedSegmentCount(text) > MaxSegments
           \/ BlankPreamble(text)
           \/ Len(AllFindings(text, playbook)) > MaxFindings
BY WhyOmitted, FindingsCutOff

-----------------------------------------------------------------------------
(* What a review and a comparison leave out *)

OmissionInv == AccountInv /\ PairsDocuments /\ LegalOmissionsDisclosed

LEMMA ReviewDiscloses ==
    ASSUME NEW input \in Reviews, ReviewContract(input)
    PROVE  LegalOmissionsDisclosed'
<1> DEFINE text == input.document.text
<1>1. IsText(text) /\ IsPlaybook(input.playbook)
  BY RequestsWellFormed
<1>2. contract' = input /\ legal' \in {"refused", "failed", "reviewed"}
  BY DEF ReviewContract, End
<1>4. ASSUME legal' = "refused" PROVE LegalOmissionsDisclosed'
  BY <1>4 DEF LegalOmissionsDisclosed
<1>5. ASSUME legal' = "failed" PROVE LegalOmissionsDisclosed'
  <2>1. Unnameable(Findings(text, input.playbook))
    BY <1>5 DEF ReviewContract, End
  <2>2. QED
    BY <1>1, <1>2, <1>5, <2>1, UnnameablePolicy DEF LegalOmissionsDisclosed
<1>6. ASSUME legal' = "reviewed" PROVE LegalOmissionsDisclosed'
  <2>1. report' = Reviewed(input)
    BY <1>6 DEF ReviewContract, End
  <2>2. /\ report'.complete = (OmittedClauses(text) = 0
                               /\ OmittedFindings(text, input.playbook) = 0)
        /\ report'.clauses = Segments(text)
        /\ report'.findings = Findings(text, input.playbook)
    BY <2>1 DEF Reviewed
  <2> HIDE DEF text
  <2>3. report'.complete =>
          /\ TextCovered(text, report'.clauses)
          /\ report'.findings = AllFindings(text, input.playbook)
    BY <1>1, <2>2, NothingOmitted, FindingsCutOff
  <2>4. ~report'.complete =>
          \/ DetectedSegmentCount(text) > MaxSegments
          \/ BlankPreamble(text)
          \/ Len(AllFindings(text, input.playbook)) > MaxFindings
    BY <1>1, <2>2, WhyIncomplete
  <2>5. QED
    BY <1>2, <1>6, <2>3, <2>4 DEF LegalOmissionsDisclosed, CutShort, text
<1>7. QED
  BY <1>2, <1>4, <1>5, <1>6

LEMMA CompareDiscloses ==
    ASSUME NEW input \in Comparisons, CompareContracts(input)
    PROVE  LegalOmissionsDisclosed'
<1>1. /\ IsText(input.original.text)
      /\ IsText(input.revised.text)
      /\ IsPlaybook(input.playbook)
  BY RequestsWellFormed
<1>2. contract' = input /\ legal' \in {"refused", "failed", "pairing"}
  BY DEF CompareContracts, End
<1>5. ASSUME legal' # "failed" PROVE LegalOmissionsDisclosed'
  BY <1>2, <1>5 DEF LegalOmissionsDisclosed
<1>6. ASSUME legal' = "failed" PROVE LegalOmissionsDisclosed'
  <2>1. \/ Unnameable(Findings(input.original.text, input.playbook))
        \/ Unnameable(Findings(input.revised.text, input.playbook))
    BY <1>6 DEF CompareContracts, End
  <2>2. \E p \in DOMAIN input.playbook.policies :
           input.playbook.policies[p].id \in LongIds
    BY <1>1, <2>1, UnnameablePolicy
  <2>3. QED
    BY <1>2, <1>6, <2>2 DEF LegalOmissionsDisclosed
<1>7. QED
  BY <1>5, <1>6

\* The list of changes is the one that was cut off, if it was.
LEMMA ReportDiscloses ==
    ASSUME AccountInv, PairsDocuments, ReportComparison
    PROVE  LegalOmissionsDisclosed'
<1> DEFINE s == contract.original.text
           t == contract.revised.text
           playbook == contract.playbook
           emitted == AtMost(changes, MaxComparisons)
<1>1. /\ legal = "pairing" /\ legal' = "compared" /\ report' = Compared
      /\ contract' = contract /\ old' = old /\ new' = new /\ changes' = changes
  BY DEF ReportComparison, pairVars
<1>2. /\ contract \in Comparisons
      /\ old = Segments(s) /\ new = Segments(t)
  BY <1>1 DEF PairsDocuments
<1>3. IsText(s) /\ IsText(t) /\ IsPlaybook(playbook)
  BY <1>2, RequestsWellFormed
<1>4. IsList(changes)
  <2>1. changes \in Seq(ChangeSet)
    BY <1>1 DEF AccountInv, PairInv
  <2>2. changes \in [1..Len(changes) -> ChangeSet] /\ Len(changes) \in Nat
    BY <2>1, LenProperties
  <2>3. QED
    BY <2>2, ListOfInterval
<1>5. /\ report'.complete = (/\ Len(changes) = Len(emitted)
                             /\ OmittedClauses(s) = 0
                             /\ OmittedClauses(t) = 0
                             /\ OmittedFindings(s, playbook) = 0
                             /\ OmittedFindings(t, playbook) = 0)
      /\ report'.changes = emitted
      /\ report'.delta = RiskDelta(Findings(s, playbook), Findings(t, playbook))
  BY <1>1 DEF Compared
<1>6. MaxComparisons \in Nat
  BY ComparisonAssumption
<1> HIDE DEF s, t, playbook
<1>7. report'.complete =>
        /\ TextCovered(s, old) /\ TextCovered(t, new)
        /\ report'.changes = changes
        /\ report'.delta = RiskDelta(AllFindings(s, playbook), AllFindings(t, playbook))
  <2>1. report'.complete => emitted = changes
    BY <1>4, <1>5, <1>6, CutOff
  <2>2. report'.complete => TextCovered(s, old) /\ TextCovered(t, new)
    BY <1>2, <1>3, <1>5, NothingOmitted
  <2>3. report'.complete =>
          /\ Findings(s, playbook) = AllFindings(s, playbook)
          /\ Findings(t, playbook) = AllFindings(t, playbook)
    BY <1>3, <1>5, FindingsCutOff
  <2> HIDE DEF emitted
  <2>4. QED
    BY <1>5, <2>1, <2>2, <2>3
<1> DEFINE cut(text) == \/ DetectedSegmentCount(text) > MaxSegments
                        \/ BlankPreamble(text)
                        \/ Len(AllFindings(text, playbook)) > MaxFindings
<1>8. ~report'.complete => Len(changes) > MaxComparisons \/ cut(s) \/ cut(t)
  <2>1. Len(changes) # Len(emitted) => Len(changes) > MaxComparisons
    BY <1>4, <1>6, CutOff
  <2>2. OmittedClauses(s) # 0 \/ OmittedFindings(s, playbook) # 0 => cut(s)
    BY <1>3, WhyIncomplete
  <2>3. OmittedClauses(t) # 0 \/ OmittedFindings(t, playbook) # 0 => cut(t)
    BY <1>3, WhyIncomplete
  <2> HIDE DEF emitted, cut
  <2>4. QED
    BY <1>5, <2>1, <2>2, <2>3
<1>9. LegalOmissionsDisclosed'
  <2> HIDE DEF emitted
  <2>1. QED
    BY <1>1, <1>7, <1>8 DEF LegalOmissionsDisclosed, CutShort, s, t, playbook
<1>10. QED
  BY <1>9

LEMMA NextDiscloses ==
    ASSUME OmissionInv, [LegalNext]_legalVars
    PROVE  OmissionInv'
<1>1. AccountInv' /\ PairsDocuments'
  BY NextAccount, NextDocuments DEF OmissionInv
<1>2. ASSUME \E input \in Reviews : ReviewContract(input)
      PROVE  LegalOmissionsDisclosed'
  BY <1>2, ReviewDiscloses
<1>3. ASSUME \E input \in Comparisons : CompareContracts(input)
      PROVE  LegalOmissionsDisclosed'
  BY <1>3, CompareDiscloses
<1>4. ASSUME PairClause \/ ReportRemoved \/ ReportAdded \/ NextCategory
      PROVE  LegalOmissionsDisclosed'
  <2>1. /\ legal = "pairing" /\ legal' = "pairing"
        /\ contract' = contract /\ old' = old /\ new' = new
    BY <1>4 DEF PairClause, ReportRemoved, ReportAdded, NextCategory
  <2>2. QED
    BY <2>1 DEF LegalOmissionsDisclosed
<1>5. ASSUME ReportComparison
      PROVE  LegalOmissionsDisclosed'
  BY <1>5, ReportDiscloses DEF OmissionInv
<1>6. ASSUME UNCHANGED legalVars
      PROVE  LegalOmissionsDisclosed'
  <2>1. /\ legal' = legal /\ contract' = contract /\ old' = old /\ new' = new
        /\ changes' = changes /\ report' = report
    BY <1>6 DEF legalVars, pairVars
  <2>2. QED
    BY <2>1 DEF OmissionInv, LegalOmissionsDisclosed, CutShort
<1>7. LegalOmissionsDisclosed'
  BY <1>2, <1>3, <1>4, <1>5, <1>6 DEF LegalNext
<1>8. QED
  BY <1>1, <1>7 DEF OmissionInv

\* A review or a comparison that calls itself complete has left out no line, no
\* finding and no change, one that does not has met a cap or a blank preamble,
\* and only a long policy id keeps a valid request from its answer, for texts
\* and playbooks of any size (analyze_contract, compare_contracts).
THEOREM OmissionsAreDisclosed == LegalSpec => []LegalOmissionsDisclosed
<1>1. LegalInit => OmissionInv
  <2>1. LegalInit => AccountInv
    BY InitAccount
  <2>2. LegalInit => PairsDocuments /\ LegalOmissionsDisclosed
    BY DEF LegalInit, PairsDocuments, LegalOmissionsDisclosed
  <2>3. QED
    BY <2>1, <2>2 DEF OmissionInv
<1>2. OmissionInv /\ [LegalNext]_legalVars => OmissionInv'
  BY NextDiscloses
<1>3. OmissionInv => LegalOmissionsDisclosed
  BY DEF OmissionInv
<1>4. QED
  BY <1>1, <1>2, <1>3, PTL DEF LegalSpec

-----------------------------------------------------------------------------
(* The evidence of a market *)

LEMMA FiniteEvidence ==
    ASSUME NEW input \in Researches \cup Landscapes
    PROVE  IsFiniteSet(Evidence(input))
<1>1. IsList(input.evidence)
  BY RequestAssumption
<1>2. /\ Len(input.evidence) \in Nat
      /\ DOMAIN input.evidence = 1..Len(input.evidence)
  BY <1>1, ListDomain
<1>3. IsFiniteSet(1..Len(input.evidence))
  BY <1>2, FS_Interval
<1>4. QED
  BY <1>2, <1>3, FiniteImage DEF Evidence, ToSet

LEMMA FiniteMetrics ==
    ASSUME NEW items, IsFiniteSet(items)
    PROVE  /\ IsFiniteSet(Metrics(items))
           /\ IsFiniteSet(MetricKeys(items))
           /\ \A key : IsFiniteSet(Ends(items, key))
           /\ \A key : IsFiniteSet(Successive(Ends(items, key)))
           /\ \A key, end : /\ IsFiniteSet(EndingAt(items, key, end))
                            /\ IsFiniteSet(ValuesOf(EndingAt(items, key, end)))
                            /\ IsFiniteSet(StartsOf(EndingAt(items, key, end)))
<1>1. Metrics(items) \in SUBSET items
  BY DEF Metrics
<1>2. IsFiniteSet(Metrics(items))
  BY <1>1, FS_Subset
<1>3. IsFiniteSet(MetricKeys(items))
  <2> DEFINE f == [item \in Metrics(items) |-> KeyOf(item)]
  <2>1. IsFiniteSet({f[item] : item \in Metrics(items)})
    BY <1>2, FiniteImage
  <2>2. {f[item] : item \in Metrics(items)} = MetricKeys(items)
    BY DEF MetricKeys
  <2>3. QED
    BY <2>1, <2>2
<1>4. ASSUME NEW key
      PROVE  /\ IsFiniteSet(Ends(items, key))
             /\ IsFiniteSet(Successive(Ends(items, key)))
  <2> DEFINE S == {i \in Metrics(items) : KeyOf(i) = key}
             f == [item \in S |-> item.end]
             E == Ends(items, key)
  <2>1. S \in SUBSET Metrics(items)
    OBVIOUS
  <2>2. IsFiniteSet(S)
    BY <1>2, <2>1, FS_Subset
  <2> HIDE DEF S
  <2>3. IsFiniteSet({f[item] : item \in S})
    BY <2>2, FiniteImage
  <2>4. {f[item] : item \in S} = E
    BY DEF Ends, S
  <2>5. IsFiniteSet(E)
    BY <2>3, <2>4
  <2> HIDE DEF E
  <2>6. IsFiniteSet(E \X E)
    BY <2>5, FS_Product
  <2>7. Successive(E) \in SUBSET (E \X E)
    BY DEF Successive
  <2>8. IsFiniteSet(Successive(E))
    BY <2>6, <2>7, FS_Subset
  <2>9. QED
    BY <2>5, <2>8 DEF E
<1>5. ASSUME NEW key, NEW end
      PROVE  /\ IsFiniteSet(EndingAt(items, key, end))
             /\ IsFiniteSet(ValuesOf(EndingAt(items, key, end)))
             /\ IsFiniteSet(StartsOf(EndingAt(items, key, end)))
  <2> DEFINE S == EndingAt(items, key, end)
             f == [item \in S |-> item.value]
             g == [item \in S |-> item.start]
  <2>1. S \in SUBSET Metrics(items)
    BY DEF EndingAt
  <2>2. IsFiniteSet(S)
    BY <1>2, <2>1, FS_Subset
  <2> HIDE DEF S
  <2>3. /\ IsFiniteSet({f[item] : item \in S})
        /\ IsFiniteSet({g[item] : item \in S})
    BY <2>2, FiniteImage
  <2>4. /\ {f[item] : item \in S} = ValuesOf(S)
        /\ {g[item] : item \in S} = StartsOf(S)
    BY DEF ValuesOf, StartsOf
  <2>5. QED
    BY <2>2, <2>3, <2>4 DEF S
<1>6. QED
  BY <1>2, <1>3, <1>4, <1>5

\* A metric and the end of a period for which a contradiction is reported.
Contested(items, key, end) ==
    \E group \in MaterialGroups(items) :
        \E item \in group : KeyOf(item) = key /\ item.end = end

\* Its items are among those that end there, and so these disagree.
LEMMA ContestedIsDisputed ==
    ASSUME NEW items, IsFiniteSet(items), NEW key, NEW end,
           Contested(items, key, end)
    PROVE  IsDisputed(EndingAt(items, key, end))
<1> DEFINE E == EndingAt(items, key, end)
<1>1. PICK group \in MaterialGroups(items) :
          \E item \in group : KeyOf(item) = key /\ item.end = end
  BY DEF Contested
<1>2. PICK item \in group : KeyOf(item) = key /\ item.end = end
  BY <1>1
<1>3. group \in PeriodGroups(items) /\ Cardinality(ValuesOf(group)) > 1
  BY DEF MaterialGroups, Disagreeing
<1>4. PICK first \in Metrics(items) :
          group = {i \in Metrics(items) : PeriodKey(i) = PeriodKey(first)}
  BY <1>3 DEF PeriodGroups
<1>5. ASSUME NEW i \in group PROVE i \in E
  <2>1. i \in Metrics(items) /\ PeriodKey(i) = PeriodKey(item)
    BY <1>4
  <2>2. i.subject = item.subject /\ i.dimension = item.dimension /\ i.end = item.end
    BY <2>1 DEF PeriodKey
  <2>3. KeyOf(i) = KeyOf(item)
    BY <2>2 DEF KeyOf
  <2>4. QED
    BY <1>2, <2>1, <2>2, <2>3 DEF EndingAt
<1>6. ValuesOf(group) \in SUBSET ValuesOf(E)
  BY <1>5 DEF ValuesOf
<1>7. IsFiniteSet(ValuesOf(E))
  BY FiniteMetrics
<1>8. /\ Cardinality(ValuesOf(group)) <= Cardinality(ValuesOf(E))
      /\ Cardinality(ValuesOf(group)) \in Nat
      /\ Cardinality(ValuesOf(E)) \in Nat
  BY <1>6, <1>7, FS_Subset, FS_CardinalityType
<1>9. Cardinality(ValuesOf(E)) > 1
  BY <1>3, <1>8
<1>10. QED
  BY <1>9 DEF IsDisputed

\* What is not disputed has one value, the one every item states.
LEMMA UndisputedIsAgreed ==
    ASSUME NEW items, IsFiniteSet(items), NEW key, NEW end,
           ~IsDisputed(EndingAt(items, key, end))
    PROVE  \A item \in EndingAt(items, key, end) :
              ValuesOf(EndingAt(items, key, end)) = {item.value}
<1> DEFINE V == ValuesOf(EndingAt(items, key, end))
<1>1. IsFiniteSet(V)
  BY FiniteMetrics
<1>2. ~(Cardinality(V) > 1) /\ Cardinality(V) \in Nat
  BY <1>1, FS_CardinalityType DEF IsDisputed
<1>3. \A item \in EndingAt(items, key, end) : item.value \in V
  BY DEF ValuesOf
<1> HIDE DEF V
<1>4. ASSUME NEW item \in EndingAt(items, key, end) PROVE V = {item.value}
  <2>1. V # {} /\ item.value \in V
    BY <1>3
  <2>2. Cardinality(V) # 0
    BY <1>1, <2>1, FS_EmptySet
  <2>3. Cardinality(V) = 1
    BY <1>2, <2>2
  <2>4. \E x : V = {x}
    BY <1>1, <2>3, FS_Singleton
  <2>5. QED
    BY <2>1, <2>4
<1>5. QED
  BY <1>4 DEF V

\* A row of the latest values, and a trend, that say no more than is agreed.
HonestLatest(items, row) ==
    /\ Contested(items, row.key, row.end) => row.disputed /\ row.value = {}
    /\ ~row.disputed =>
          \A item \in EndingAt(items, row.key, row.end) : row.value = {item.value}

HonestTrend(items, row) ==
    /\ Contested(items, row.key, row.from) \/ Contested(items, row.key, row.to) =>
          row.disputed /\ row.endValue = {}
    /\ ~row.disputed =>
          /\ \A item \in EndingAt(items, row.key, row.from) :
                row.startValue = {item.value}
          /\ \A item \in EndingAt(items, row.key, row.to) :
                row.endValue = {item.value}

LEMMA LatestIsHonest ==
    ASSUME NEW items, IsFiniteSet(items), NEW key, NEW limit
    PROVE  /\ HonestLatest(items, LatestRow(items, key, limit))
           /\ LatestRow(items, key, limit).value =
                 AgreedValues(EndingAt(items, key, LatestRow(items, key, limit).end))
           /\ LatestRow(items, key, limit).disputed =
                 IsDisputed(EndingAt(items, key, LatestRow(items, key, limit).end))
<1> DEFINE row == LatestRow(items, key, limit)
           E == EndingAt(items, key, row.end)
<1>1. /\ row.key = key
      /\ row.end = Highest(Ends(items, key))
  BY DEF LatestRow
<1>2. /\ row.value = AgreedValues(EndingAt(items, key, Highest(Ends(items, key))))
      /\ row.disputed = IsDisputed(EndingAt(items, key, Highest(Ends(items, key))))
  BY DEF LatestRow
<1> HIDE DEF row
<1>3. row.value = AgreedValues(E) /\ row.disputed = IsDisputed(E)
  BY <1>1, <1>2
<1>4. Contested(items, key, row.end) => IsDisputed(E)
  BY ContestedIsDisputed
<1>5. ~IsDisputed(E) => \A item \in E : ValuesOf(E) = {item.value}
  BY UndisputedIsAgreed
<1>6. HonestLatest(items, row)
  <2> HIDE DEF E
  <2>1. row.value = IF IsDisputed(E) THEN {} ELSE ValuesOf(E)
    BY <1>3 DEF AgreedValues
  <2>2. /\ Contested(items, row.key, row.end) => row.disputed /\ row.value = {}
        /\ ~row.disputed => \A item \in E : row.value = {item.value}
    BY <1>1, <1>3, <1>4, <1>5, <2>1
  <2>3. QED
    BY <1>1, <2>2 DEF HonestLatest, E
<1>7. QED
  BY <1>3, <1>6 DEF row

LEMMA TrendIsHonest ==
    ASSUME NEW items, IsFiniteSet(items), NEW key, NEW from, NEW to
    PROVE  HonestTrend(items, TrendRow(items, key, from, to))
<1> DEFINE row == TrendRow(items, key, from, to)
           S == EndingAt(items, key, from)
           E == EndingAt(items, key, to)
<1>1. row.key = key /\ row.from = from /\ row.to = to
  BY DEF TrendRow
<1>2. /\ row.disputed = (IsDisputed(S) \/ IsDisputed(E))
      /\ row.startValue = IF IsDisputed(S) \/ IsDisputed(E) THEN {} ELSE ValuesOf(S)
      /\ row.endValue = IF IsDisputed(S) \/ IsDisputed(E) THEN {} ELSE ValuesOf(E)
  BY DEF TrendRow
<1> HIDE DEF row
<1>3. /\ Contested(items, key, from) => IsDisputed(S)
      /\ Contested(items, key, to) => IsDisputed(E)
  BY ContestedIsDisputed
<1>4. /\ ~IsDisputed(S) => \A item \in S : ValuesOf(S) = {item.value}
      /\ ~IsDisputed(E) => \A item \in E : ValuesOf(E) = {item.value}
  BY UndisputedIsAgreed
<1> HIDE DEF S, E
<1>5. Contested(items, key, from) \/ Contested(items, key, to) =>
        row.disputed /\ row.endValue = {}
  BY <1>2, <1>3
<1>6. ~row.disputed => /\ \A item \in S : row.startValue = {item.value}
                       /\ \A item \in E : row.endValue = {item.value}
  BY <1>2, <1>4
<1>7. HonestTrend(items, row)
  BY <1>1, <1>5, <1>6 DEF HonestTrend, S, E
<1>8. QED
  BY <1>7 DEF row

\* The lists are made of such rows.
LEMMA LatestRows ==
    ASSUME NEW items, IsFiniteSet(items), NEW limit
    PROVE  /\ IsList(LatestMetrics(items, limit))
           /\ \A row \in ToSet(LatestMetrics(items, limit)) :
                 \E key : row = LatestRow(items, key, limit)
<1> DEFINE keys == KeysInOrder(items)
           rows == LatestMetrics(items, limit)
           m == Cardinality(MetricKeys(items))
<1>1. m \in Nat
  BY FiniteMetrics, FS_CardinalityType
<1>2. DOMAIN keys = 1..m
  BY DEF KeysInOrder, InOrder
<1>3. rows = [n \in DOMAIN keys |-> LatestRow(items, keys[n], limit)]
  BY DEF LatestMetrics
<1> HIDE DEF keys, rows, m
<1>4. rows \in [1..m -> {LatestRow(items, keys[n], limit) : n \in 1..m}]
  BY <1>2, <1>3
<1>5. IsList(rows)
  BY <1>1, <1>4, ListOfInterval
<1>6. \A row \in ToSet(rows) : \E key : row = LatestRow(items, key, limit)
  BY <1>3 DEF ToSet
<1>7. QED
  BY <1>5, <1>6 DEF rows

LEMMA TrendRows ==
    ASSUME NEW items, IsFiniteSet(items)
    PROVE  /\ IsList(Trends(items))
           /\ \A row \in ToSet(Trends(items)) :
                 \E key, from, to : row = TrendRow(items, key, from, to)
<1> DEFINE keys == KeysInOrder(items)
           m == Cardinality(MetricKeys(items))
           of(key) == InOrder(Successive(Ends(items, key)), LAMBDA a, b : a[1] < b[1])
           part(key) == [k \in DOMAIN of(key) |->
                           TrendRow(items, key, of(key)[k][1], of(key)[k][2])]
           parts == [n \in DOMAIN keys |-> part(keys[n])]
<1>1. Trends(items) = FlattenSeq(parts)
  BY DEF Trends
<1>2. m \in Nat
  BY FiniteMetrics, FS_CardinalityType
<1>3. DOMAIN keys = 1..m
  BY DEF KeysInOrder, InOrder
<1>4. ASSUME NEW key
      PROVE  /\ IsList(part(key))
             /\ \A row \in ToSet(part(key)) :
                   \E from, to : row = TrendRow(items, key, from, to)
  <2> DEFINE c == Cardinality(Successive(Ends(items, key)))
  <2>1. c \in Nat
    BY FiniteMetrics, FS_CardinalityType
  <2>2. DOMAIN of(key) = 1..c
    BY DEF InOrder
  <2> HIDE DEF c, of
  <2>3. part(key) \in [1..c -> ToSet(part(key))]
    BY <2>2 DEF ToSet
  <2>4. IsList(part(key))
    BY <2>1, <2>3, ListOfInterval
  <2>5. \A row \in ToSet(part(key)) :
           \E from, to : row = TrendRow(items, key, from, to)
    BY DEF ToSet
  <2>6. QED
    BY <2>4, <2>5
<1> HIDE DEF keys, m, of, part
<1>5. parts \in [1..m -> {part(keys[n]) : n \in 1..m}]
  BY <1>3
<1>6. IsList(parts) /\ DOMAIN parts = 1..m
  BY <1>2, <1>5, ListOfInterval
<1>7. \A n \in DOMAIN parts : parts[n] = part(keys[n]) /\ IsList(parts[n])
  BY <1>3, <1>4
<1> HIDE DEF parts
<1>8. /\ IsList(FlattenSeq(parts))
      /\ \A x \in ToSet(FlattenSeq(parts)) :
            \E n \in DOMAIN parts : x \in ToSet(parts[n])
  BY <1>6, <1>7, FlattenedParts
<1>9. ASSUME NEW row \in ToSet(Trends(items))
      PROVE  \E key, from, to : row = TrendRow(items, key, from, to)
  <2>1. PICK n \in DOMAIN parts : row \in ToSet(parts[n])
    BY <1>1, <1>8, <1>9
  <2>2. row \in ToSet(part(keys[n]))
    BY <1>7, <2>1
  <2>3. QED
    BY <1>4, <2>2
<1>10. QED
  BY <1>1, <1>8, <1>9

-----------------------------------------------------------------------------
(* The two market analyses *)

LEMMA SectionRows ==
    ASSUME NEW rows, IsList(rows), NEW limit \in Nat
    PROVE  RowsOf(Section(rows, limit)) \subseteq ToSet(rows)
BY CutOff DEF Section, RowsOf

LEMMA AnalysisIsHonest ==
    ASSUME NEW input \in Researches
    PROVE  /\ \A row \in RowsOf(Analysis(input).latest) :
                 HonestLatest(Evidence(input), row)
           /\ \A row \in RowsOf(Analysis(input).trends) :
                 HonestTrend(Evidence(input), row)
<1> DEFINE items == Evidence(input)
<1>1. /\ Analysis(input).latest = Section(LatestMetrics(items, MaxBindings), MaxLatest)
      /\ Analysis(input).trends = Section(Trends(items), MaxTrends)
  BY DEF Analysis
<1>2. IsFiniteSet(items)
  BY FiniteEvidence
<1>3. MaxLatest \in Nat /\ MaxTrends \in Nat
  BY EvidenceAssumption
<1> HIDE DEF items
<1>4. ASSUME NEW row \in RowsOf(Analysis(input).latest) PROVE HonestLatest(items, row)
  <2>1. row \in ToSet(LatestMetrics(items, MaxBindings))
    BY <1>1, <1>2, <1>3, LatestRows, SectionRows
  <2>2. QED
    BY <1>2, <2>1, LatestRows, LatestIsHonest
<1>5. ASSUME NEW row \in RowsOf(Analysis(input).trends) PROVE HonestTrend(items, row)
  <2>1. row \in ToSet(Trends(items))
    BY <1>1, <1>2, <1>3, TrendRows, SectionRows
  <2>2. QED
    BY <1>2, <2>1, TrendRows, TrendIsHonest
<1>6. QED
  BY <1>4, <1>5 DEF items

\* The entities that a dimension was observed for, and their latest rows.
LatestRowsIn(items, d) == {LatestOf(items, entity, d) : entity \in Present(items, d)}

LEMMA FiniteLatest ==
    ASSUME NEW items, IsFiniteSet(items), NEW d
    PROVE  /\ IsFiniteSet({row.end : row \in LatestRowsIn(items, d)})
           /\ IsFiniteSet({row.start : row \in LatestRowsIn(items, d)})
<1> DEFINE K == {k \in MetricKeys(items) : k[2] = d}
           f == [key \in K |-> key[1]]
           P == Present(items, d)
           g == [entity \in P |-> LatestOf(items, entity, d)]
           R == LatestRowsIn(items, d)
           ends == [row \in R |-> row.end]
           starts == [row \in R |-> row.start]
<1>1. K \in SUBSET MetricKeys(items)
  OBVIOUS
<1>2. IsFiniteSet(K)
  BY <1>1, FiniteMetrics, FS_Subset
<1>3. P = {f[key] : key \in K}
  BY DEF Present
<1> HIDE DEF K, P
<1>4. IsFiniteSet(P)
  BY <1>2, <1>3, FiniteImage
<1>5. R = {g[entity] : entity \in P}
  BY DEF LatestRowsIn, P
<1> HIDE DEF R
<1>6. IsFiniteSet(R)
  BY <1>4, <1>5, FiniteImage
<1>7. /\ IsFiniteSet({ends[row] : row \in R})
      /\ IsFiniteSet({starts[row] : row \in R})
  BY <1>6, FiniteImage
<1>8. /\ {ends[row] : row \in R} = {row.end : row \in R}
      /\ {starts[row] : row \in R} = {row.start : row \in R}
  OBVIOUS
<1>9. QED
  BY <1>7, <1>8 DEF R

\* What has no reason against it has been observed for all entities, for the
\* same period, and is not disputed.
LEMMA NoReason ==
    ASSUME NEW input, NEW d, Reasons(input, d) = {}
    PROVE  LET items == Evidence(input)
               rows == LatestRowsIn(items, d)
           IN /\ ToSet(input.entities) \subseteq Present(items, d)
              /\ ~(Cardinality({row.end : row \in rows}) > 1)
              /\ ~(Cardinality({row.start : row \in rows}) > 1)
              /\ \A row \in rows : ~row.disputed
<1>1. ToSet(input.entities) \ Present(Evidence(input), d) # {}
        => "missing_entities" \in Reasons(input, d)
  BY DEF Reasons
<1>2. Cardinality({row.end : row \in LatestRowsIn(Evidence(input), d)}) > 1
        => "period_end_mismatch" \in Reasons(input, d)
  BY DEF Reasons, LatestRowsIn
<1>3. Cardinality({row.start : row \in LatestRowsIn(Evidence(input), d)}) > 1
        => "period_start_mismatch" \in Reasons(input, d)
  BY DEF Reasons, LatestRowsIn
<1>4. (\E row \in LatestRowsIn(Evidence(input), d) : row.disputed)
        => "disputed_latest_value" \in Reasons(input, d)
  BY DEF Reasons, LatestRowsIn
<1>5. QED
  BY <1>1, <1>2, <1>3, <1>4

\* A row of the comparison that says no more than is agreed.
HonestComparison(input, row) ==
    /\ \A e \in DOMAIN row.values :
          Contested(Evidence(input), <<e, row.dimension>>, row.values[e].end) =>
              row.values[e].value = {} /\ ~row.comparable
    /\ row.comparable =>
          \A e, f \in ToSet(input.entities) :
              /\ row.values[e].start = row.values[f].start
              /\ row.values[e].end = row.values[f].end
              /\ row.values[e].value # {}

LEMMA ComparisonIsHonest ==
    ASSUME NEW input \in Landscapes, NEW d
    PROVE  HonestComparison(input, Comparison(input, d))
<1> DEFINE items == Evidence(input)
           P == Present(items, d)
           row == Comparison(input, d)
<1>1. /\ row.dimension = d
      /\ row.values = [entity \in P |-> LatestOf(items, entity, d)]
      /\ row.comparable = (Reasons(input, d) = {})
  BY DEF Comparison
<1>2. IsFiniteSet(items)
  BY FiniteEvidence
<1> HIDE DEF row
<1>3. ASSUME NEW e \in P
      PROVE  /\ row.values[e] = LatestRow(items, <<e, d>>, 1)
             /\ row.values[e] \in LatestRowsIn(items, d)
  BY <1>1 DEF LatestOf, LatestRowsIn
<1>4. ASSUME NEW e \in P, Contested(items, <<e, d>>, row.values[e].end)
      PROVE  row.values[e].value = {} /\ ~row.comparable
  <2> DEFINE latest == LatestRow(items, <<e, d>>, 1)
  <2>1. HonestLatest(items, latest)
    BY <1>2, LatestIsHonest
  <2>2. latest.key = <<e, d>>
    BY DEF LatestRow
  <2> HIDE DEF latest
  <2>3. row.values[e] = latest
    BY <1>3 DEF latest
  <2>4. latest.disputed /\ latest.value = {}
    BY <1>4, <2>1, <2>2, <2>3 DEF HonestLatest
  <2>5. Reasons(input, d) # {}
    BY <1>3, <2>3, <2>4, NoReason
  <2>6. QED
    BY <1>1, <2>3, <2>4, <2>5
<1>5. ASSUME row.comparable,
             NEW e \in ToSet(input.entities), NEW f \in ToSet(input.entities)
      PROVE  /\ row.values[e].start = row.values[f].start
             /\ row.values[e].end = row.values[f].end
             /\ row.values[e].value # {}
  <2> DEFINE R == LatestRowsIn(items, d)
             latest == LatestRow(items, <<e, d>>, 1)
             E == EndingAt(items, <<e, d>>, latest.end)
  <2>1. /\ ToSet(input.entities) \subseteq P
        /\ ~(Cardinality({r.end : r \in R}) > 1)
        /\ ~(Cardinality({r.start : r \in R}) > 1)
        /\ \A r \in R : ~r.disputed
    BY <1>1, <1>5, NoReason
  <2>2. e \in P /\ f \in P
    BY <1>5, <2>1
  <2> HIDE DEF P
  <2>3. /\ row.values[e] \in R /\ row.values[f] \in R
        /\ row.values[e] = latest
    BY <1>3, <2>2
  <2> HIDE DEF R, latest
  <2>4. /\ row.values[e].end \in {r.end : r \in R}
        /\ row.values[f].end \in {r.end : r \in R}
        /\ row.values[e].start \in {r.start : r \in R}
        /\ row.values[f].start \in {r.start : r \in R}
    BY <2>3
  <2>5. IsFiniteSet({r.end : r \in R}) /\ IsFiniteSet({r.start : r \in R})
    BY <1>2, FiniteLatest DEF R
  <2>6. /\ row.values[e].end = row.values[f].end
        /\ row.values[e].start = row.values[f].start
    BY <2>1, <2>4, <2>5, NoDifference
  <2>7. /\ latest.value = AgreedValues(E)
        /\ latest.disputed = IsDisputed(E)
        /\ latest.end = Highest(Ends(items, <<e, d>>))
    <3>1. latest.end = Highest(Ends(items, <<e, d>>))
      BY DEF latest, LatestRow
    <3>2. QED
      BY <1>2, <3>1, LatestIsHonest DEF latest
  <2>8. latest.value = ValuesOf(E)
    BY <2>1, <2>3, <2>7 DEF AgreedValues
  <2>9. Ends(items, <<e, d>>) # {}
    <3>1. PICK key \in MetricKeys(items) : key[2] = d /\ e = key[1]
      BY <2>2 DEF P, Present
    <3>2. PICK item \in Metrics(items) : key = KeyOf(item)
      BY <3>1 DEF MetricKeys
    <3>3. KeyOf(item) = <<e, d>>
      BY <3>1, <3>2 DEF KeyOf
    <3>4. QED
      BY <3>2, <3>3 DEF Ends
  <2>10. \A x \in Ends(items, <<e, d>>) : x \in Int
    <3>1. \A item \in items : item.end \in Int
      BY RequestAssumption DEF Evidence, ToSet
    <3>2. QED
      BY <3>1 DEF Ends, Metrics
  <2>11. latest.end \in Ends(items, <<e, d>>)
    <3>1. IsFiniteSet(Ends(items, <<e, d>>))
      BY <1>2, FiniteMetrics
    <3>2. QED
      BY <2>7, <2>9, <2>10, <3>1, GreatestOf DEF Highest
  <2>12. \E item \in E : TRUE
    BY <2>11 DEF Ends, EndingAt
  <2>13. ValuesOf(E) # {}
    BY <2>12 DEF ValuesOf
  <2>14. QED
    BY <2>3, <2>6, <2>8, <2>13
<1>6. DOMAIN row.values = P
  BY <1>1
<1> HIDE DEF P, items
<1>7. HonestComparison(input, row)
  BY <1>1, <1>4, <1>5, <1>6 DEF HonestComparison, items
<1>8. QED
  BY <1>7 DEF row

LEMMA LandscapeIsHonest ==
    ASSUME NEW input \in Landscapes
    PROVE  \A row \in RowsOf(Landscape(input).comparisons) :
              HonestComparison(input, row)
<1> DEFINE items == Evidence(input)
           order == InOrder(Observed(items), <)
           rows == MetricComparisons(input)
           m == Cardinality(Observed(items))
           f == [key \in MetricKeys(items) |-> key[2]]
<1>1. Landscape(input).comparisons = Section(rows, MaxRows)
  BY DEF Landscape
<1>2. IsFiniteSet(Observed(items))
  <2>1. IsFiniteSet(MetricKeys(items))
    BY FiniteEvidence, FiniteMetrics
  <2>2. IsFiniteSet({f[key] : key \in MetricKeys(items)})
    BY <2>1, FiniteImage
  <2>3. QED
    BY <2>2 DEF Observed
<1>3. m \in Nat
  BY <1>2, FS_CardinalityType
<1>4. DOMAIN order = 1..m
  BY DEF InOrder
<1>5. rows = [n \in DOMAIN order |-> Comparison(input, order[n])]
  BY DEF MetricComparisons
<1> HIDE DEF order, rows, m
<1>6. rows \in [1..m -> {Comparison(input, order[n]) : n \in 1..m}]
  BY <1>4, <1>5
<1>7. IsList(rows)
  BY <1>3, <1>6, ListOfInterval
<1>8. \A row \in ToSet(rows) : \E d : row = Comparison(input, d)
  BY <1>5 DEF ToSet
<1>9. MaxRows \in Nat
  BY MarketAssumption
<1>10. RowsOf(Landscape(input).comparisons) \subseteq ToSet(rows)
  BY <1>1, <1>7, <1>9, SectionRows
<1>11. QED
  BY <1>8, <1>10, ComparisonIsHonest

\* What the request is answered with says no more than is agreed.
LEMMA AnswerIsHonest ==
    ASSUME DisputesAgree, [MarketNext]_marketVars
    PROVE  DisputesAgree'
<1>1. ASSUME NEW input \in Researches, AnalyzeEvidence(input)
      PROVE  DisputesAgree'
  <2>1. CASE market' # "analyzed"
    <3>1. market' # "compared"
      BY <1>1 DEF AnalyzeEvidence
    <3>2. QED
      BY <2>1, <3>1 DEF DisputesAgree
  <2>2. CASE market' = "analyzed"
    <3>1. research' = input /\ findings' = Analysis(input)
      BY <1>1, <2>2 DEF AnalyzeEvidence
    <3>2. /\ \A row \in RowsOf(findings'.latest) : HonestLatest(Evidence(research'), row)
          /\ \A row \in RowsOf(findings'.trends) : HonestTrend(Evidence(research'), row)
      BY <3>1, AnalysisIsHonest
    <3>3. QED
      BY <2>2, <3>2 DEF DisputesAgree, HonestLatest, HonestTrend, Contested
  <2>3. QED
    BY <2>1, <2>2
<1>2. ASSUME NEW input \in Landscapes, CompareLandscape(input)
      PROVE  DisputesAgree'
  <2>1. CASE market' # "compared"
    <3>1. market' # "analyzed"
      BY <1>2 DEF CompareLandscape
    <3>2. QED
      BY <2>1, <3>1 DEF DisputesAgree
  <2>2. CASE market' = "compared"
    <3>1. research' = input /\ findings' = Landscape(input)
      BY <1>2, <2>2 DEF CompareLandscape
    <3>2. \A row \in RowsOf(findings'.comparisons) : HonestComparison(research', row)
      BY <3>1, LandscapeIsHonest
    <3>3. QED
      BY <2>2, <3>2 DEF DisputesAgree, HonestComparison, Contested
  <2>3. QED
    BY <2>1, <2>2
<1>3. CASE UNCHANGED marketVars
  BY <1>3 DEF marketVars, DisputesAgree, Evidence, RowsOf, EndingAt, Metrics,
              MaterialGroups, Disagreeing, PeriodGroups
<1>4. QED
  BY <1>1, <1>2, <1>3 DEF MarketNext

\* Two values for one metric and one period that are far enough apart to be
\* reported as a contradiction are disputed in every part of the answer, and
\* a value that is stated is the one that all its evidence gives, for evidence
\* of any size and limits of any height (_latest_metrics, _trends,
\* compare_competitive_landscape).
THEOREM DisputedValuesAreNotStated == MarketSpec => []DisputesAgree
<1>1. MarketInit => DisputesAgree
  BY DEF MarketInit, DisputesAgree
<1>2. DisputesAgree /\ [MarketNext]_marketVars => DisputesAgree'
  BY AnswerIsHonest
<1>3. QED
  BY <1>1, <1>2, PTL DEF MarketSpec

-----------------------------------------------------------------------------
(* Sums *)

LEMMA SumIsBounded ==
    ASSUME NEW T, IsFiniteSet(T), NEW f \in [T -> Nat], NEW c \in Nat,
           \A x \in T : f[x] <= c
    PROVE  SumFunction(f) <= Cardinality(T) * c
<1>1. Units(f, T) \in SUBSET (T \X (1..c))
  <2>1. ASSUME NEW z \in Units(f, T) PROVE z \in T \X (1..c)
    <3>1. PICK x \in T : z \in {x} \X (1..f[x])
      BY DEF Units
    <3>2. \A n \in 1..f[x] : n \in 1..c
      OBVIOUS
    <3>3. QED
      BY <3>1, <3>2
  <2>2. QED
    BY <2>1
<1>2. IsFiniteSet(1..c) /\ Cardinality(1..c) = c
  BY FS_Interval
<1>3. IsFiniteSet(T \X (1..c)) /\ Cardinality(T \X (1..c)) = Cardinality(T) * c
  BY <1>2, FS_Product
<1>4. Cardinality(Units(f, T)) <= Cardinality(T \X (1..c))
  BY <1>1, <1>3, FS_Subset
<1>5. QED
  BY <1>3, <1>4, SumCountsUnits

\* A sum of numbers is nothing only where each of them is.
LEMMA SumIsZero ==
    ASSUME NEW T, IsFiniteSet(T), NEW f \in [T -> Nat], SumFunction(f) = 0,
           NEW x \in T
    PROVE  f[x] = 0
<1>1. Cardinality(Units(f, T)) = 0
  BY SumCountsUnits
<1>2. IsFiniteSet(Units(f, T))
  BY FiniteUnits
<1>3. Units(f, T) = {}
  BY <1>1, <1>2, FS_EmptySet
<1>4. f[x] \in Nat
  OBVIOUS
<1>5. CASE f[x] # 0
  <2>1. <<x, 1>> \in {x} \X (1..f[x])
    BY <1>4, <1>5
  <2>2. QED
    BY <1>3, <2>1 DEF Units
<1>6. QED
  BY <1>5

-----------------------------------------------------------------------------
(* Where the elements of a list of lists are *)

Places(seqs) == UNION {{i} \X DOMAIN seqs[i] : i \in DOMAIN seqs}

\* The places of the first k lists, in the order of their elements in f.
Located(seqs, k, f, h) ==
    /\ h \in Bijection(DOMAIN f, UNION {{i} \X DOMAIN seqs[i] : i \in 1..k})
    /\ \A n \in DOMAIN f : f[n] = seqs[h[n][1]][h[n][2]]

LEMMA LocatedNext ==
    ASSUME NEW seqs, NEW T, NEW k \in Nat, NEW f \in Seq(T), NEW h,
           Located(seqs, k, f, h), seqs[k + 1] \in Seq(T)
    PROVE  \E g : Located(seqs, k + 1, f \o seqs[k + 1], g)
<1> DEFINE P == UNION {{i} \X DOMAIN seqs[i] : i \in 1..k}
           Q == UNION {{i} \X DOMAIN seqs[i] : i \in 1..(k + 1)}
           all == f \o seqs[k + 1]
<1>1. PICK s : s = seqs[k + 1]
  OBVIOUS
<1>2. PICK a \in Nat : a = Len(f)
  BY LenProperties
<1>3. PICK b \in Nat : b = Len(s)
  BY <1>1, LenProperties
<1>4. /\ DOMAIN f = 1..a /\ DOMAIN s = 1..b
      /\ all \in Seq(T) /\ Len(all) = a + b
      /\ \A n \in 1..(a + b) : all[n] = IF n <= a THEN f[n] ELSE s[n - a]
  <2>1. DOMAIN f = 1..a /\ DOMAIN s = 1..b
    BY <1>1, <1>2, <1>3, LenProperties
  <2>2. /\ all \in Seq(T) /\ Len(all) = a + b
        /\ \A n \in 1..(a + b) : all[n] = IF n <= a THEN f[n] ELSE s[n - a]
    BY <1>1, <1>2, <1>3, ConcatProperties
  <2>3. QED
    BY <2>1, <2>2
<1>5. DOMAIN all = 1..(a + b)
  BY <1>4, LenProperties
<1>6. /\ h \in [1..a -> P]
      /\ \A m, n \in 1..a : h[m] = h[n] => m = n
      /\ \A p \in P : \E n \in 1..a : h[n] = p
      /\ \A n \in 1..a : f[n] = seqs[h[n][1]][h[n][2]]
  BY <1>4 DEF Located, Bijection, Injection, Surjection, IsInjective
<1>7. /\ \A p \in P : p[1] \in 1..k
      /\ \A p : p \in Q <=> p \in P \/ p \in {k + 1} \X (1..b)
  <2>1. \A i : i \in 1..(k + 1) <=> i \in 1..k \/ i = k + 1
    OBVIOUS
  <2>2. QED
    BY <1>1, <1>4, <2>1
<1> HIDE DEF P, Q, all
<1> DEFINE g == [n \in 1..(a + b) |-> IF n <= a THEN h[n] ELSE <<k + 1, n - a>>]
<1>8. ASSUME NEW n \in 1..(a + b)
      PROVE  \/ n \in 1..a /\ g[n] = h[n]
             \/ n - a \in 1..b /\ ~(n <= a) /\ g[n] = <<k + 1, n - a>>
  OBVIOUS
<1>9. g \in [1..(a + b) -> Q]
  <2>1. \A n \in 1..(a + b) : g[n] \in Q
    BY <1>6, <1>7, <1>8
  <2> HIDE DEF g
  <2>2. DOMAIN g = 1..(a + b)
    BY DEF g
  <2>3. g = [n \in 1..(a + b) |-> g[n]]
    BY DEF g
  <2>4. QED
    BY <2>1, <2>3
<1>10. \A m, n \in 1..(a + b) : g[m] = g[n] => m = n
  <2>1. ASSUME NEW m \in 1..(a + b), NEW n \in 1..(a + b), g[m] = g[n] PROVE m = n
    <3>1. CASE m <= a /\ n <= a
      BY <1>6, <1>8, <2>1, <3>1
    <3>2. CASE ~(m <= a) /\ ~(n <= a)
      <4>1. g[m] = <<k + 1, m - a>> /\ g[n] = <<k + 1, n - a>>
        BY <3>2
      <4>2. m - a = n - a
        BY <2>1, <4>1
      <4>3. QED
        BY <4>2
    <3>3. CASE (m <= a) # (n <= a)
      <4>1. \E p \in P : p[1] = k + 1
        BY <1>6, <1>8, <2>1, <3>3
      <4>2. QED
        BY <1>7, <4>1
    <3>4. QED
      BY <3>1, <3>2, <3>3
  <2>2. QED
    BY <2>1
<1>11. ASSUME NEW p \in Q PROVE \E n \in 1..(a + b) : g[n] = p
  <2>1. CASE p \in P
    <3>1. PICK n \in 1..a : h[n] = p
      BY <1>6, <2>1
    <3>2. n \in 1..(a + b) /\ g[n] = p
      BY <3>1
    <3>3. QED
      BY <3>2
  <2>2. CASE p \in {k + 1} \X (1..b)
    <3>1. PICK j \in 1..b : p = <<k + 1, j>>
      BY <2>2
    <3>2. a + j \in 1..(a + b) /\ ~(a + j <= a) /\ (a + j) - a = j
      OBVIOUS
    <3>3. g[a + j] = p
      BY <3>1, <3>2
    <3>4. QED
      BY <3>2, <3>3
  <2>3. QED
    BY <1>7, <2>1, <2>2
<1>12. ASSUME NEW n \in 1..(a + b) PROVE all[n] = seqs[g[n][1]][g[n][2]]
  <2>1. CASE n <= a
    BY <1>4, <1>6, <1>8, <2>1
  <2>2. CASE ~(n <= a)
    <3>1. g[n] = <<k + 1, n - a>>
      BY <2>2
    <3>2. g[n][1] = k + 1 /\ g[n][2] = n - a
      BY <3>1
    <3>3. QED
      BY <1>1, <1>4, <2>2, <3>2
  <2>3. QED
    BY <2>1, <2>2
<1> HIDE DEF g
<1>13. g \in Bijection(1..(a + b), Q)
  BY <1>9, <1>10, <1>11 DEF Bijection, Injection, Surjection, IsInjective
<1>14. Located(seqs, k + 1, all, g)
  BY <1>5, <1>12, <1>13 DEF Located, Q
<1>15. QED
  BY <1>14 DEF all

\* The elements of the lists are those of the list they are put together to,
\* place by place.
LEMMA FlattenedPlaces ==
    ASSUME NEW seqs, IsList(seqs), \A i \in DOMAIN seqs : IsList(seqs[i])
    PROVE  \E h : /\ h \in Bijection(DOMAIN FlattenSeq(seqs), Places(seqs))
                  /\ \A n \in DOMAIN FlattenSeq(seqs) :
                        FlattenSeq(seqs)[n] = seqs[h[n][1]][h[n][2]]
<1>1. PICK T : T = UNION {ToSet(seqs[i]) : i \in DOMAIN seqs}
  OBVIOUS
<1>2. PICK m \in Nat : m = Len(seqs)
  BY ListDomain
<1>3. DOMAIN seqs = 1..m /\ seqs \in [1..m -> ToSet(seqs)]
  BY <1>2, ListDomain
<1>4. ASSUME NEW i \in DOMAIN seqs PROVE seqs[i] \in Seq(T)
  <2>1. ToSet(seqs[i]) \subseteq T
    BY <1>1
  <2>2. seqs[i] \in Seq(ToSet(seqs[i]))
    BY DEF IsList
  <2>3. QED
    BY <2>1, <2>2, SeqDef
<1>5. seqs \in Seq(Seq(T))
  BY <1>3, <1>4, SeqDef
<1> DEFINE Found(k, f) == \E h : Located(seqs, k, f, h)
<1>6. Found(0, << >>)
  <2>1. UNION {{i} \X DOMAIN seqs[i] : i \in 1..0} = {}
    OBVIOUS
  <2>2. PICK h : h = [n \in {} |-> n]
    OBVIOUS
  <2>3. h \in Bijection({}, {}) /\ DOMAIN << >> = {}
    BY <2>2 DEF Bijection, Injection, Surjection, IsInjective
  <2>4. Located(seqs, 0, << >>, h)
    BY <2>1, <2>3 DEF Located
  <2>5. QED
    BY <2>4
<1>7. CASE m = 0
  <2>1. seqs = << >>
    BY <1>2, <1>5, <1>7, EmptySeq
  <2>2. FlattenSeq(seqs) = << >>
    BY <1>2, <1>7, <2>1 DEF FlattenSeq
  <2>3. UNION {{i} \X DOMAIN seqs[i] : i \in 1..0} = Places(seqs)
    BY <1>3, <1>7 DEF Places
  <2>4. QED
    BY <1>6, <2>2, <2>3 DEF Located
<1>8. CASE m # 0
  <2> DEFINE F(f) == [i \in 1..m |->
                        IF i = 1 THEN seqs[i] ELSE f[i-1] \o seqs[i]]
             flat == CHOOSE f : f = F(f)
  <2>1. FlattenSeq(seqs) = flat[m]
    BY <1>2, <1>8 DEF FlattenSeq
  <2>2. PICK f : Joined(seqs, T, m, f)
    <3>1. m \in 0..Len(seqs)
      BY <1>2
    <3>2. QED
      BY <1>5, <3>1, JoinedExists
  <2>3. f = F(f)
    BY <2>2 DEF Joined
  <2>4. flat = F(flat)
    BY <2>3
  <2> HIDE DEF flat
  <2>5. \A i \in 1..m : flat[i] = IF i = 1 THEN seqs[i] ELSE flat[i-1] \o seqs[i]
    BY <2>4
  <2> DEFINE Bad == {k \in 1..m : ~(flat[k] \in Seq(T) /\ Found(k, flat[k]))}
  <2> HIDE DEF Found
  <2>6. ASSUME Bad # {} PROVE FALSE
    <3>1. Bad \in SUBSET Nat
      OBVIOUS
    <3>2. PICK k \in Bad : \A j \in Bad : k <= j
      BY <2>6, <3>1, LeastNumber
    <3>3. k \in 1..m /\ ~(flat[k] \in Seq(T) /\ Found(k, flat[k]))
      BY <3>2
    <3>4. seqs[k] \in Seq(T)
      BY <1>3, <1>4, <3>3
    <3>5. CASE k = 1
      <4>1. flat[k] = seqs[k]
        BY <2>5, <3>3, <3>5
      <4>2. << >> \in Seq(T) /\ << >> \o seqs[k] = seqs[k]
        BY <3>4, EmptySeq, ConcatEmptySeq
      <4>3. 0 \in Nat /\ seqs[0 + 1] \in Seq(T) /\ seqs[0 + 1] = seqs[k] /\ 0 + 1 = k
        BY <3>4, <3>5
      <4>4. Found(0 + 1, << >> \o seqs[0 + 1])
        BY <1>6, <4>2, <4>3, LocatedNext DEF Found
      <4>5. QED
        BY <3>3, <3>4, <4>1, <4>2, <4>3, <4>4
    <3>6. CASE k # 1
      <4>1. k - 1 \in 1..m /\ ~(k <= k - 1) /\ (k - 1) + 1 = k
        BY <3>3, <3>6
      <4>2. flat[k - 1] \in Seq(T) /\ Found(k - 1, flat[k - 1])
        BY <3>2, <4>1
      <4>3. flat[k] = flat[k - 1] \o seqs[k]
        BY <2>5, <3>3, <3>6
      <4>4. flat[k] \in Seq(T)
        BY <3>4, <4>2, <4>3, ConcatProperties
      <4>5. Found((k - 1) + 1, flat[k - 1] \o seqs[(k - 1) + 1])
        BY <3>4, <4>1, <4>2, LocatedNext DEF Found
      <4>6. QED
        BY <3>3, <4>1, <4>3, <4>4, <4>5
    <3>7. QED
      BY <3>5, <3>6
  <2>7. m \in 1..m
    BY <1>8
  <2>8. Found(m, flat[m])
    BY <2>6, <2>7
  <2>9. UNION {{i} \X DOMAIN seqs[i] : i \in 1..m} = Places(seqs)
    BY <1>3 DEF Places
  <2>10. QED
    BY <2>1, <2>8, <2>9 DEF Found, Located
<1>9. QED
  BY <1>7, <1>8

-----------------------------------------------------------------------------
(* Counting *)

\* g takes each member of A to one of B, each of B from one of A.
OneToOne(g, A, B) ==
    /\ \A x \in A : g[x] \in B
    /\ \A x, y \in A : g[x] = g[y] => x = y
    /\ \A z \in B : \E x \in A : g[x] = z

LEMMA SameCount ==
    ASSUME NEW A, IsFiniteSet(A), NEW B, NEW g, OneToOne(g, A, B)
    PROVE  IsFiniteSet(B) /\ Cardinality(B) = Cardinality(A)
<1>1. PICK f : f = [x \in A |-> g[x]]
  OBVIOUS
<1>2. f \in Bijection(A, B)
  BY <1>1 DEF OneToOne, Bijection, Injection, Surjection, IsInjective
<1>3. ExistsBijection(A, B)
  BY <1>2 DEF ExistsBijection
<1>4. QED
  BY <1>3, FS_Bijection

PlacesWithin(seqs, S) == {p \in Places(seqs) : seqs[p[1]][p[2]] \in S}

\* As many elements of a list of lists are in S as of the list put together.
LEMMA CountedPlaces ==
    ASSUME NEW seqs, IsList(seqs), \A i \in DOMAIN seqs : IsList(seqs[i]),
           NEW S
    PROVE  LET A == Within(FlattenSeq(seqs), S)
               B == PlacesWithin(seqs, S)
           IN IsFiniteSet(A) /\ IsFiniteSet(B) /\ Cardinality(B) = Cardinality(A)
<1>1. PICK flat : flat = FlattenSeq(seqs)
  OBVIOUS
<1>2. PICK A : A = {n \in DOMAIN flat : flat[n] \in S}
  OBVIOUS
<1>3. PICK B : B = {p \in Places(seqs) : seqs[p[1]][p[2]] \in S}
  OBVIOUS
<1>4. PICK h : /\ h \in Bijection(DOMAIN flat, Places(seqs))
               /\ \A n \in DOMAIN flat : flat[n] = seqs[h[n][1]][h[n][2]]
  BY <1>1, FlattenedPlaces
<1>5. /\ \A n \in DOMAIN flat : h[n] \in Places(seqs)
      /\ \A m, n \in DOMAIN flat : h[m] = h[n] => m = n
      /\ \A p \in Places(seqs) : \E n \in DOMAIN flat : h[n] = p
  BY <1>4 DEF Bijection, Injection, Surjection, IsInjective
<1>6. OneToOne(h, A, B)
  <2>1. \A n \in A : n \in DOMAIN flat /\ h[n] \in B
    BY <1>2, <1>3, <1>4, <1>5
  <2>2. ASSUME NEW p \in B PROVE \E n \in A : h[n] = p
    <3>1. p \in Places(seqs) /\ seqs[p[1]][p[2]] \in S
      BY <1>3
    <3>2. PICK n \in DOMAIN flat : h[n] = p
      BY <1>5, <3>1
    <3>3. flat[n] \in S
      BY <1>4, <3>1, <3>2
    <3>4. QED
      BY <1>2, <3>2, <3>3
  <2>3. QED
    BY <1>2, <1>5, <2>1, <2>2 DEF OneToOne
<1>7. IsFiniteSet(A)
  <2>1. IsList(flat)
    BY <1>1, FlattenedParts
  <2>2. Len(flat) \in Nat /\ DOMAIN flat = 1..Len(flat)
    BY <2>1, ListDomain
  <2>3. IsFiniteSet(DOMAIN flat)
    BY <2>2, FS_Interval
  <2>4. A \in SUBSET DOMAIN flat
    BY <1>2
  <2>5. QED
    BY <2>3, <2>4, FS_Subset
<1>8. QED
  BY <1>1, <1>2, <1>3, <1>6, <1>7, SameCount DEF Within, PlacesWithin

LEMMA Concatenated ==
    ASSUME NEW s, IsList(s), NEW t, IsList(t)
    PROVE  /\ IsList(s \o t)
           /\ Len(s) \in Nat /\ Len(t) \in Nat
           /\ Len(s \o t) = Len(s) + Len(t)
           /\ DOMAIN (s \o t) = 1..(Len(s) + Len(t))
           /\ \A n \in 1..(Len(s) + Len(t)) :
                 (s \o t)[n] = IF n <= Len(s) THEN s[n] ELSE t[n - Len(s)]
<1>1. PICK T : T = ToSet(s) \cup ToSet(t)
  OBVIOUS
<1>2. PICK all : all = s \o t
  OBVIOUS
<1>3. s \in Seq(ToSet(s)) /\ t \in Seq(ToSet(t))
  BY DEF IsList
<1>4. ToSet(s) \subseteq T /\ ToSet(t) \subseteq T
  BY <1>1
<1>5. s \in Seq(T) /\ t \in Seq(T)
  BY <1>3, <1>4, SeqMonotonic
<1>6. /\ all \in Seq(T)
      /\ Len(all) = Len(s) + Len(t)
      /\ \A n \in 1..(Len(s) + Len(t)) :
            all[n] = IF n <= Len(s) THEN s[n] ELSE t[n - Len(s)]
  BY <1>2, <1>5, ConcatProperties
<1>7. Len(s) \in Nat /\ Len(t) \in Nat
  BY <1>5, LenProperties
<1>8. Len(all) \in Nat /\ all \in [1..Len(all) -> T]
  BY <1>6, LenProperties
<1>9. IsList(all) /\ DOMAIN all = 1..Len(all)
  BY <1>8, ListOfInterval
<1>10. QED
  BY <1>2, <1>6, <1>7, <1>9

LEMMA ElementsCounted ==
    ASSUME NEW list, IsList(list), Distinct(list)
    PROVE  /\ IsFiniteSet(ToSet(list))
           /\ Cardinality(ToSet(list)) = Len(list)
           /\ Len(list) \in Nat
<1>1. Len(list) \in Nat /\ DOMAIN list = 1..Len(list)
  BY ListDomain
<1>2. IsFiniteSet(1..Len(list)) /\ Cardinality(1..Len(list)) = Len(list)
  <2>1. PICK m \in Nat : m = Len(list)
    BY <1>1
  <2>2. IsFiniteSet(1..m) /\ Cardinality(1..m) = IF 1 > m THEN 0 ELSE m - 1 + 1
    BY FS_Interval
  <2>3. (IF 1 > m THEN 0 ELSE m - 1 + 1) = m
    OBVIOUS
  <2>4. QED
    BY <2>1, <2>2, <2>3
<1>3. OneToOne(list, 1..Len(list), ToSet(list))
  BY <1>1 DEF OneToOne, ToSet, Distinct
<1>4. QED
  BY <1>1, <1>2, <1>3, SameCount

-----------------------------------------------------------------------------
(* The gaps of the evidence *)

GapTypes == {"no_evidence", "missing_metric", "single_source", "stale_evidence"}

\* The dimensions of the scope that nothing is known of for a subject.
MissingOf(input, s) ==
    {d \in ToSet(input.scope.dimensions) : <<s, d>> \notin MetricKeys(Evidence(input))}

\* The gaps of a subject: that there is no evidence, or one for each dimension
\* that is missing, and others that are about no dimension.
GapsTell(input, s, gaps) ==
    LET missing == {j \in DOMAIN gaps : gaps[j].type = "missing_metric"}
    IN /\ IsList(gaps)
       /\ \A j \in DOMAIN gaps : gaps[j].type \in GapTypes
       /\ About(Evidence(input), s) = {} =>
             DOMAIN gaps = {1} /\ gaps[1].type = "no_evidence"
       /\ About(Evidence(input), s) # {} =>
             /\ \A j \in DOMAIN gaps : gaps[j].type # "no_evidence"
             /\ OneToOne([j \in DOMAIN gaps |-> gaps[j].dimension],
                         missing, MissingOf(input, s))

\* One gap for each dimension that is missing.
LEMMA MissingRows ==
    ASSUME NEW input, IsList(input.scope.dimensions),
           Distinct(input.scope.dimensions), NEW s,
           NEW rows, rows = MissingMetrics(input, s, About(Evidence(input), s))
    PROVE  /\ IsList(rows)
           /\ \A j \in DOMAIN rows : rows[j].type = "missing_metric"
           /\ \A j \in DOMAIN rows : rows[j].dimension \in MissingOf(input, s)
           /\ \A j, k \in DOMAIN rows :
                 rows[j].dimension = rows[k].dimension => j = k
           /\ \A d \in MissingOf(input, s) :
                 \E j \in DOMAIN rows : rows[j].dimension = d
<1>1. PICK own : own = About(Evidence(input), s)
  OBVIOUS
<1>2. PICK dims : dims = input.scope.dimensions
  OBVIOUS
<1>3. PICK S : S = {d \in ToSet(dims) : <<s, d>> \notin MetricKeys(own)}
  OBVIOUS
<1>4. PICK missing : missing = Those(dims, S)
  OBVIOUS
<1>5. rows = [n \in DOMAIN missing |-> Gap(s, "missing_metric", missing[n], own)]
  BY <1>1, <1>2, <1>3, <1>4 DEF MissingMetrics
<1>6. S = MissingOf(input, s)
  <2>1. ASSUME NEW d
        PROVE  <<s, d>> \in MetricKeys(own) <=> <<s, d>> \in MetricKeys(Evidence(input))
    <3>1. ASSUME NEW item
          PROVE  item \in Metrics(own) /\ KeyOf(item) = <<s, d>>
                   <=> item \in Metrics(Evidence(input)) /\ KeyOf(item) = <<s, d>>
      <4>1. KeyOf(item) = <<s, d>> => item.subject = s
        BY DEF KeyOf
      <4>2. QED
        BY <1>1, <4>1 DEF Metrics, About
    <3>2. QED
      BY <3>1 DEF MetricKeys
  <2>2. QED
    BY <1>2, <1>3, <2>1 DEF MissingOf
<1>7. /\ IsList(missing)
      /\ ToSet(missing) = ToSet(dims) \cap S
      /\ Distinct(missing)
  BY <1>2, <1>4, PickedElements
<1>8. ToSet(missing) = MissingOf(input, s)
  BY <1>3, <1>6, <1>7
<1>9. \A j \in DOMAIN rows : /\ rows[j].type = "missing_metric"
                             /\ rows[j].dimension = missing[j]
  BY <1>5 DEF Gap
<1>10. IsList(rows) /\ DOMAIN rows = DOMAIN missing
  BY <1>5, <1>7, MadeOfList
<1>11. /\ \A j \in DOMAIN missing : missing[j] \in MissingOf(input, s)
       /\ \A d \in MissingOf(input, s) : \E j \in DOMAIN missing : missing[j] = d
  BY <1>8 DEF ToSet
<1>12. \A j, k \in DOMAIN missing : missing[j] = missing[k] => j = k
  BY <1>7 DEF Distinct
<1>13. QED
  BY <1>9, <1>10, <1>11, <1>12

LEMMA SubjectGapsTell ==
    ASSUME NEW input, IsList(input.scope.dimensions),
           Distinct(input.scope.dimensions), NEW s
    PROVE  GapsTell(input, s, SubjectGaps(input, s))
<1>1. PICK own : own = About(Evidence(input), s)
  OBVIOUS
<1> DEFINE gap(type) == <<Gap(s, type, NoDimension, own)>>
<1>2. ASSUME NEW type
      PROVE  /\ IsList(gap(type)) /\ DOMAIN gap(type) = {1}
             /\ gap(type)[1].type = type
  <2>1. gap(type) \in [1..1 -> {Gap(s, type, NoDimension, own)}]
    OBVIOUS
  <2>2. IsList(gap(type)) /\ DOMAIN gap(type) = 1..1
    BY <2>1, ListOfInterval
  <2>3. 1..1 = {1}
    OBVIOUS
  <2>4. gap(type)[1] = Gap(s, type, NoDimension, own)
    OBVIOUS
  <2>5. QED
    BY <2>2, <2>3, <2>4 DEF Gap
<1>3. IsList(<< >>) /\ DOMAIN << >> = {}
  <2>1. << >> \in [1..0 -> {}]
    OBVIOUS
  <2>2. QED
    BY <2>1, ListOfInterval
<1>4. PICK single : single = IF Cardinality(Sources(own)) = 1
                             THEN gap("single_source") ELSE << >>
  OBVIOUS
<1>5. PICK stale : stale = IF \A item \in own : input.asOf - item.observed > YearOld
                           THEN gap("stale_evidence") ELSE << >>
  OBVIOUS
<1>6. PICK rows : rows = MissingMetrics(input, s, own)
  OBVIOUS
<1>7. SubjectGaps(input, s) = IF own = {} THEN gap("no_evidence")
                              ELSE single \o stale \o rows
  BY <1>1, <1>4, <1>5, <1>6 DEF SubjectGaps, Evidence
<1> HIDE DEF gap
<1>8. CASE own = {}
  <2>1. SubjectGaps(input, s) = gap("no_evidence")
    BY <1>7, <1>8
  <2>2. QED
    BY <1>1, <1>2, <1>8, <2>1 DEF GapsTell, GapTypes
<1>9. CASE own # {}
  <2>1. /\ IsList(single) /\ IsList(stale)
        /\ \A j \in DOMAIN single : single[j].type = "single_source"
        /\ \A j \in DOMAIN stale : stale[j].type = "stale_evidence"
    BY <1>2, <1>3, <1>4, <1>5
  <2>2. PICK first : first = single \o stale
    OBVIOUS
  <2>3. /\ IsList(first)
        /\ \A j \in DOMAIN first :
              first[j].type \in {"single_source", "stale_evidence"}
    <3>1. PICK a \in Nat : a = Len(single)
      BY <2>1, ListDomain
    <3>2. PICK b \in Nat : b = Len(stale)
      BY <2>1, ListDomain
    <3>3. DOMAIN single = 1..a /\ DOMAIN stale = 1..b
      BY <2>1, <3>1, <3>2, ListDomain
    <3>4. /\ IsList(first) /\ DOMAIN first = 1..(a + b)
          /\ \A n \in 1..(a + b) : first[n] = IF n <= a THEN single[n] ELSE stale[n - a]
      BY <2>1, <2>2, <3>1, <3>2, Concatenated
    <3>5. \A n \in 1..(a + b) : n \in 1..a \/ (~(n <= a) /\ n - a \in 1..b)
      OBVIOUS
    <3>6. QED
      BY <2>1, <3>3, <3>4, <3>5
  <2>4. /\ IsList(rows)
        /\ \A j \in DOMAIN rows : rows[j].type = "missing_metric"
        /\ \A j \in DOMAIN rows : rows[j].dimension \in MissingOf(input, s)
        /\ \A j, k \in DOMAIN rows : rows[j].dimension = rows[k].dimension => j = k
        /\ \A d \in MissingOf(input, s) : \E j \in DOMAIN rows : rows[j].dimension = d
    BY <1>1, <1>6, MissingRows
  <2>5. PICK all : all = first \o rows
    OBVIOUS
  <2>6. PICK a \in Nat : a = Len(first)
    BY <2>3, ListDomain
  <2>7. PICK b \in Nat : b = Len(rows)
    BY <2>4, ListDomain
  <2>8. DOMAIN first = 1..a /\ DOMAIN rows = 1..b
    BY <2>3, <2>4, <2>6, <2>7, ListDomain
  <2>9. /\ IsList(all) /\ DOMAIN all = 1..(a + b)
        /\ \A n \in 1..(a + b) : all[n] = IF n <= a THEN first[n] ELSE rows[n - a]
    BY <2>3, <2>4, <2>5, <2>6, <2>7, Concatenated
  <2>10. ASSUME NEW n \in 1..(a + b)
         PROVE  \/ /\ n <= a
                   /\ all[n].type \in {"single_source", "stale_evidence"}
                \/ /\ ~(n <= a)
                   /\ n - a \in 1..b
                   /\ all[n] = rows[n - a]
                   /\ all[n].type = "missing_metric"
    <3>1. n \in 1..a \/ (~(n <= a) /\ n - a \in 1..b)
      OBVIOUS
    <3>2. QED
      BY <2>3, <2>4, <2>8, <2>9, <3>1
  <2>11. PICK missing : missing = {j \in DOMAIN all : all[j].type = "missing_metric"}
    OBVIOUS
  <2>12. \A j : j \in missing <=> j \in 1..(a + b) /\ ~(j <= a)
    BY <2>9, <2>10, <2>11
  <2>13. PICK g : g = [j \in DOMAIN all |-> all[j].dimension]
    OBVIOUS
  <2>14. \A j \in missing : j - a \in 1..b /\ g[j] = rows[j - a].dimension
    BY <2>9, <2>10, <2>12, <2>13
  <2>15. OneToOne(g, missing, MissingOf(input, s))
    <3>1. \A j \in missing : g[j] \in MissingOf(input, s)
      BY <2>4, <2>8, <2>14
    <3>2. ASSUME NEW j \in missing, NEW k \in missing, g[j] = g[k] PROVE j = k
      <4>1. j - a = k - a
        BY <2>4, <2>8, <2>14, <3>2
      <4>2. QED
        BY <2>12, <4>1
    <3>3. ASSUME NEW d \in MissingOf(input, s) PROVE \E j \in missing : g[j] = d
      <4>1. PICK k \in 1..b : rows[k].dimension = d
        BY <2>4, <2>8
      <4>2. a + k \in 1..(a + b) /\ ~(a + k <= a) /\ (a + k) - a = k
        OBVIOUS
      <4>3. a + k \in missing /\ g[a + k] = d
        BY <2>12, <2>14, <4>1, <4>2
      <4>4. QED
        BY <4>3
    <3>4. QED
      BY <3>1, <3>2, <3>3 DEF OneToOne
  <2>16. /\ \A j \in DOMAIN all : all[j].type \in GapTypes
         /\ \A j \in DOMAIN all : all[j].type # "no_evidence"
    BY <2>9, <2>10 DEF GapTypes
  <2>17. SubjectGaps(input, s) = all
    BY <1>7, <1>9, <2>2, <2>5
  <2>18. GapsTell(input, s, all)
    BY <1>1, <1>9, <2>9, <2>11, <2>13, <2>15, <2>16 DEF GapsTell
  <2>19. QED
    BY <2>17, <2>18
<1>10. QED
  BY <1>8, <1>9

\* What a valid request says of its evidence.
LEMMA ValidRequest ==
    ASSUME NEW input \in Researches \cup Landscapes, Valid(input)
    PROVE  /\ IsList(input.scope.subjects) /\ Distinct(input.scope.subjects)
           /\ IsList(input.scope.dimensions) /\ Distinct(input.scope.dimensions)
           /\ Len(input.scope.dimensions) <= MaxDimensions
           /\ \A item \in Evidence(input) :
                 /\ item.subject \in ToSet(input.scope.subjects)
                 /\ IsMetric(item) => item.dimension \in ToSet(input.scope.dimensions)
           /\ Evidence(input) # {}
<1>1. /\ IsList(input.evidence) /\ IsList(input.scope.subjects)
      /\ IsList(input.scope.dimensions)
  BY RequestAssumption
<1>2. /\ ValidScope(input.scope)
      /\ Len(input.scope.dimensions) <= MaxDimensions
      /\ input.evidence # << >>
      /\ \A item \in Evidence(input) :
            /\ IsMetric(item) => Contains(input.scope.dimensions, item.dimension)
            /\ Contains(input.scope.subjects, item.subject)
  BY DEF Valid, ValidResearch, Evidence
<1>3. \A item \in Evidence(input) :
         /\ item.subject \in ToSet(input.scope.subjects)
         /\ IsMetric(item) => item.dimension \in ToSet(input.scope.dimensions)
  BY <1>1, <1>2, ListDomain DEF Contains, ToSet
<1>4. Evidence(input) # {}
  <2>1. Len(input.evidence) \in Nat /\ DOMAIN input.evidence = 1..Len(input.evidence)
    BY <1>1, ListDomain
  <2>2. Len(input.evidence) # 0
    BY <1>1, <1>2, EmptySeq DEF IsList
  <2>3. 1 \in DOMAIN input.evidence
    BY <2>1, <2>2
  <2>4. QED
    BY <2>3 DEF Evidence, ToSet
<1>5. QED
  BY <1>1, <1>2, <1>3, <1>4 DEF ValidScope

\* The gaps of every subject, and how many there are of a type.
PartsOf(input) ==
    [n \in DOMAIN input.scope.subjects |-> SubjectGaps(input, input.scope.subjects[n])]

LEMMA PartsTell ==
    ASSUME NEW input \in Researches \cup Landscapes, Valid(input)
    PROVE  /\ IsList(PartsOf(input))
           /\ DOMAIN PartsOf(input) = DOMAIN input.scope.subjects
           /\ \A i \in DOMAIN PartsOf(input) :
                 GapsTell(input, input.scope.subjects[i], PartsOf(input)[i])
<1>1. PICK parts : parts = PartsOf(input)
  OBVIOUS
<1>2. parts = [n \in DOMAIN input.scope.subjects |->
                  SubjectGaps(input, input.scope.subjects[n])]
  BY <1>1 DEF PartsOf
<1>3. parts = [n \in DOMAIN input.scope.subjects |-> parts[n]]
  BY <1>2
<1>4. IsList(parts) /\ DOMAIN parts = DOMAIN input.scope.subjects
  BY <1>3, ValidRequest, MadeOfList
<1>5. ASSUME NEW i \in DOMAIN parts
      PROVE  GapsTell(input, input.scope.subjects[i], parts[i])
  <2>1. parts[i] = SubjectGaps(input, input.scope.subjects[i])
    BY <1>2
  <2>2. QED
    BY <2>1, ValidRequest, SubjectGapsTell
<1>6. QED
  BY <1>1, <1>4, <1>5

PlacesOf(input, type) ==
    {p \in Places(PartsOf(input)) : PartsOf(input)[p[1]][p[2]].type = type}

LEMMA TypeCounted ==
    ASSUME NEW input \in Researches \cup Landscapes, Valid(input), NEW type
    PROVE  /\ IsFiniteSet(PlacesOf(input, type))
           /\ Cardinality(PlacesOf(input, type)) = GapCount(input, type)
           /\ GapCount(input, type) \in Nat
<1>1. PICK parts : parts = PartsOf(input)
  OBVIOUS
<1>2. IsList(parts) /\ \A i \in DOMAIN parts : IsList(parts[i])
  BY <1>1, PartsTell DEF GapsTell
<1>3. PICK flat : flat = FlattenSeq(parts)
  OBVIOUS
<1>4. flat = Gaps(input)
  BY <1>1, <1>3 DEF Gaps, PartsOf
<1>5. PICK T : T = UNION {ToSet(parts[i]) : i \in DOMAIN parts}
  OBVIOUS
<1>6. PICK S : S = {row \in T : row.type = type}
  OBVIOUS
<1>7. \A n \in DOMAIN flat : flat[n] \in T
  <2>1. \A x \in ToSet(flat) : \E i \in DOMAIN parts : x \in ToSet(parts[i])
    BY <1>2, <1>3, FlattenedParts
  <2>2. \A n \in DOMAIN flat : flat[n] \in ToSet(flat)
    BY DEF ToSet
  <2>3. QED
    BY <1>5, <2>1, <2>2
<1>8. \A p \in Places(parts) : parts[p[1]][p[2]] \in T
  <2>1. ASSUME NEW p \in Places(parts) PROVE parts[p[1]][p[2]] \in T
    <3>1. p[1] \in DOMAIN parts /\ p[2] \in DOMAIN parts[p[1]]
      BY DEF Places
    <3>2. parts[p[1]][p[2]] \in ToSet(parts[p[1]])
      BY <3>1 DEF ToSet
    <3>3. QED
      BY <1>5, <3>1, <3>2
  <2>2. QED
    BY <2>1
<1>9. PICK A : A = Within(flat, S)
  OBVIOUS
<1>10. PICK B : B = PlacesWithin(parts, S)
  OBVIOUS
<1>11. A = {n \in DOMAIN flat : flat[n].type = type}
  BY <1>6, <1>7, <1>9 DEF Within
<1>12. B = {p \in Places(parts) : parts[p[1]][p[2]].type = type}
  BY <1>6, <1>8, <1>10 DEF PlacesWithin
<1>13. /\ IsFiniteSet(A) /\ IsFiniteSet(B) /\ Cardinality(B) = Cardinality(A)
  BY <1>2, <1>3, <1>9, <1>10, CountedPlaces
<1>14. GapCount(input, type) = Cardinality(A)
  BY <1>4, <1>11 DEF GapCount
<1>15. PlacesOf(input, type) = B
  BY <1>1, <1>12 DEF PlacesOf
<1>16. QED
  BY <1>13, <1>14, <1>15, FS_CardinalityType

\* The subjects without evidence, and the metrics that the others lack.
Unknown(input) ==
    {s \in ToSet(input.scope.subjects) : About(Evidence(input), s) = {}}
Lacking(input) ==
    {p \in ToSet(input.scope.subjects) \X ToSet(input.scope.dimensions) :
        About(Evidence(input), p[1]) # {} /\ p \notin MetricKeys(Evidence(input))}

LEMMA UnknownCounted ==
    ASSUME NEW input \in Researches \cup Landscapes, Valid(input)
    PROVE  GapCount(input, "no_evidence") = Cardinality(Unknown(input))
<1>1. PICK parts : parts = PartsOf(input)
  OBVIOUS
<1>2. PICK subjects : subjects = input.scope.subjects
  OBVIOUS
<1>3. PICK B : B = PlacesOf(input, "no_evidence")
  OBVIOUS
<1>4. PICK g : g = [p \in B |-> subjects[p[1]]]
  OBVIOUS
<1>5. /\ DOMAIN parts = DOMAIN subjects
      /\ \A i \in DOMAIN parts : GapsTell(input, subjects[i], parts[i])
  BY <1>1, <1>2, PartsTell
<1>6. \A p : p \in B <=> /\ p \in Places(parts)
                         /\ parts[p[1]][p[2]].type = "no_evidence"
  BY <1>1, <1>3 DEF PlacesOf
<1>7. ASSUME NEW p \in B
      PROVE  /\ p[1] \in DOMAIN subjects /\ p = <<p[1], 1>>
             /\ subjects[p[1]] \in Unknown(input)
  <2>1. /\ p[1] \in DOMAIN parts /\ p[2] \in DOMAIN parts[p[1]] /\ p = <<p[1], p[2]>>
        /\ parts[p[1]][p[2]].type = "no_evidence"
    BY <1>6 DEF Places
  <2>2. PICK i \in DOMAIN parts : i = p[1]
    BY <2>1
  <2>3. GapsTell(input, subjects[i], parts[i])
    BY <1>5
  <2>4. About(Evidence(input), subjects[i]) = {}
    BY <2>1, <2>2, <2>3 DEF GapsTell
  <2>5. DOMAIN parts[i] = {1}
    BY <2>3, <2>4 DEF GapsTell
  <2>6. subjects[i] \in ToSet(subjects)
    BY <1>5 DEF ToSet
  <2>7. QED
    BY <1>2, <1>5, <2>1, <2>2, <2>4, <2>5, <2>6 DEF Unknown
<1>8. ASSUME NEW s \in Unknown(input) PROVE \E p \in B : g[p] = s
  <2>1. s \in ToSet(subjects) /\ About(Evidence(input), s) = {}
    BY <1>2 DEF Unknown
  <2>2. PICK i \in DOMAIN subjects : s = subjects[i]
    BY <2>1 DEF ToSet
  <2>3. DOMAIN parts[i] = {1} /\ parts[i][1].type = "no_evidence"
    BY <1>5, <2>1, <2>2 DEF GapsTell
  <2>4. PICK p : p = <<i, 1>>
    OBVIOUS
  <2>5. p[1] = i /\ p[2] = 1
    BY <2>4
  <2>6. p \in {i} \X DOMAIN parts[i]
    BY <2>3, <2>4
  <2>7. p \in Places(parts)
    BY <1>5, <2>6 DEF Places
  <2>8. p \in B
    BY <1>6, <2>3, <2>5, <2>7
  <2>9. QED
    BY <1>4, <2>2, <2>5, <2>8
<1>9. Distinct(subjects)
  BY <1>2, ValidRequest
<1>10. OneToOne(g, B, Unknown(input))
  <2>1. \A p \in B : g[p] \in Unknown(input)
    BY <1>4, <1>7
  <2>2. ASSUME NEW p \in B, NEW q \in B, g[p] = g[q] PROVE p = q
    <3>1. subjects[p[1]] = subjects[q[1]]
      BY <1>4, <2>2
    <3>2. p[1] = q[1]
      BY <1>7, <1>9, <3>1 DEF Distinct
    <3>3. QED
      BY <1>7, <3>2
  <2>3. QED
    BY <1>8, <2>1, <2>2 DEF OneToOne
<1>11. QED
  BY <1>3, <1>10, TypeCounted, SameCount

LEMMA LackingCounted ==
    ASSUME NEW input \in Researches \cup Landscapes, Valid(input)
    PROVE  GapCount(input, "missing_metric") = Cardinality(Lacking(input))
<1>1. PICK parts : parts = PartsOf(input)
  OBVIOUS
<1>2. PICK subjects : subjects = input.scope.subjects
  OBVIOUS
<1>3. PICK B : B = PlacesOf(input, "missing_metric")
  OBVIOUS
<1>4. PICK g : g = [p \in B |-> <<subjects[p[1]], parts[p[1]][p[2]].dimension>>]
  OBVIOUS
<1>5. /\ DOMAIN parts = DOMAIN subjects
      /\ \A i \in DOMAIN parts : GapsTell(input, subjects[i], parts[i])
  BY <1>1, <1>2, PartsTell
<1>6. \A p : p \in B <=> /\ p \in Places(parts)
                         /\ parts[p[1]][p[2]].type = "missing_metric"
  BY <1>1, <1>3 DEF PlacesOf
<1> DEFINE at(i) == {j \in DOMAIN parts[i] : parts[i][j].type = "missing_metric"}
           told(i) == [j \in DOMAIN parts[i] |-> parts[i][j].dimension]
<1>7. ASSUME NEW i \in DOMAIN subjects, About(Evidence(input), subjects[i]) # {}
      PROVE  OneToOne(told(i), at(i), MissingOf(input, subjects[i]))
  BY <1>5, <1>7 DEF GapsTell
<1>8. ASSUME NEW p \in B
      PROVE  /\ p[1] \in DOMAIN subjects /\ p = <<p[1], p[2]>>
             /\ p[2] \in at(p[1])
             /\ About(Evidence(input), subjects[p[1]]) # {}
  <2>1. /\ p[1] \in DOMAIN parts /\ p[2] \in DOMAIN parts[p[1]] /\ p = <<p[1], p[2]>>
        /\ parts[p[1]][p[2]].type = "missing_metric"
    BY <1>6 DEF Places
  <2>2. PICK i \in DOMAIN parts : i = p[1]
    BY <2>1
  <2>3. GapsTell(input, subjects[i], parts[i])
    BY <1>5
  <2>4. About(Evidence(input), subjects[i]) # {}
    <3>1. ASSUME About(Evidence(input), subjects[i]) = {} PROVE FALSE
      <4>1. DOMAIN parts[i] = {1} /\ parts[i][1].type = "no_evidence"
        BY <2>3, <3>1 DEF GapsTell
      <4>2. QED
        BY <2>1, <2>2, <4>1
    <3>2. QED
      BY <3>1
  <2>5. QED
    BY <1>5, <2>1, <2>2, <2>4
<1>9. \A i \in DOMAIN subjects : \A j \in at(i) :
         j \in DOMAIN parts[i] /\ told(i)[j] = parts[i][j].dimension
  OBVIOUS
<1>10. \A d, s : d \in MissingOf(input, s) <=>
                   d \in ToSet(input.scope.dimensions)
                     /\ <<s, d>> \notin MetricKeys(Evidence(input))
  BY DEF MissingOf
<1>11. \A i \in DOMAIN subjects : \A j \in at(i) :
          <<i, j>> \in Places(parts) /\ parts[i][j].type = "missing_metric"
  BY <1>5 DEF Places
<1> HIDE DEF at, told
<1>12. \A p \in B : g[p] = <<subjects[p[1]], told(p[1])[p[2]]>>
  BY <1>4, <1>8, <1>9
<1>13. \A p \in B : g[p] \in Lacking(input)
  <2>1. ASSUME NEW p \in B PROVE g[p] \in Lacking(input)
    <3>1. told(p[1])[p[2]] \in MissingOf(input, subjects[p[1]])
      BY <1>7, <1>8 DEF OneToOne
    <3>2. subjects[p[1]] \in ToSet(subjects)
      BY <1>8 DEF ToSet
    <3>3. PICK s, d : s = subjects[p[1]] /\ d = told(p[1])[p[2]] /\ g[p] = <<s, d>>
      BY <1>12
    <3>4. /\ s \in ToSet(subjects) /\ d \in ToSet(input.scope.dimensions)
          /\ <<s, d>> \notin MetricKeys(Evidence(input))
          /\ About(Evidence(input), s) # {}
      BY <1>8, <1>10, <3>1, <3>2, <3>3
    <3>5. QED
      BY <1>2, <3>3, <3>4 DEF Lacking
  <2>2. QED
    BY <2>1
<1>14. Distinct(subjects)
  BY <1>2, ValidRequest
<1>15. \A p, q \in B : g[p] = g[q] => p = q
  <2>1. ASSUME NEW p \in B, NEW q \in B, g[p] = g[q] PROVE p = q
    <3>1. /\ subjects[p[1]] = subjects[q[1]]
          /\ told(p[1])[p[2]] = told(q[1])[q[2]]
      BY <1>12, <2>1
    <3>2. p[1] = q[1]
      BY <1>8, <1>14, <3>1 DEF Distinct
    <3>3. p[2] = q[2]
      BY <1>7, <1>8, <3>1, <3>2 DEF OneToOne
    <3>4. QED
      BY <1>8, <3>2, <3>3
  <2>2. QED
    BY <2>1
<1>16. ASSUME NEW z \in Lacking(input) PROVE \E p \in B : g[p] = z
  <2>1. PICK s, d : /\ z = <<s, d>> /\ s \in ToSet(subjects)
                    /\ d \in MissingOf(input, s)
                    /\ About(Evidence(input), s) # {}
    BY <1>2, <1>10 DEF Lacking
  <2>2. PICK i \in DOMAIN subjects : s = subjects[i]
    BY <2>1 DEF ToSet
  <2>3. PICK j \in at(i) : told(i)[j] = d
    BY <1>7, <2>1, <2>2 DEF OneToOne
  <2>4. PICK p : p = <<i, j>>
    OBVIOUS
  <2>5. p[1] = i /\ p[2] = j
    BY <2>4
  <2>6. p \in B
    BY <1>6, <1>11, <2>4, <2>5
  <2>7. QED
    BY <1>12, <2>1, <2>2, <2>3, <2>5, <2>6
<1>17. OneToOne(g, B, Lacking(input))
  BY <1>13, <1>15, <1>16 DEF OneToOne
<1>18. QED
  BY <1>3, <1>17, TypeCounted, SameCount

\* The metrics of the scope are those that are known, those that a subject
\* lacks, and all those of the subjects without evidence.
LEMMA ScopeCounted ==
    ASSUME NEW input \in Researches \cup Landscapes, Valid(input)
    PROVE  LET dims == Len(input.scope.dimensions)
               subjects == Len(input.scope.subjects)
               expected == ToSet(input.scope.subjects) \X ToSet(input.scope.dimensions)
               absent == GapCount(input, "missing_metric")
                         + dims * GapCount(input, "no_evidence")
           IN /\ Cardinality(MetricKeys(Evidence(input)) \cap expected)
                    = dims * subjects - absent
              /\ Cardinality(expected) = dims * subjects
              /\ Cardinality({item.subject : item \in Evidence(input)})
                    = subjects - GapCount(input, "no_evidence")
              /\ Cardinality(ToSet(input.scope.subjects)) = subjects
              /\ subjects \in Nat /\ subjects > 0
              /\ dims \in Nat
              /\ dims > 0 => expected # {}
<1>1. PICK S : S = ToSet(input.scope.subjects)
  OBVIOUS
<1>2. PICK D : D = ToSet(input.scope.dimensions)
  OBVIOUS
<1>3. PICK K : K = MetricKeys(Evidence(input))
  OBVIOUS
<1>4. PICK U : U = Unknown(input)
  OBVIOUS
<1>5. PICK L : L = Lacking(input)
  OBVIOUS
<1>6. PICK subjects \in Nat : /\ subjects = Len(input.scope.subjects)
                              /\ IsFiniteSet(S) /\ Cardinality(S) = subjects
  BY <1>1, ValidRequest, ElementsCounted
<1>7. PICK dims \in Nat : /\ dims = Len(input.scope.dimensions)
                          /\ IsFiniteSet(D) /\ Cardinality(D) = dims
  BY <1>2, ValidRequest, ElementsCounted
<1>8. PICK u \in Nat : u = GapCount(input, "no_evidence") /\ u = Cardinality(U)
  BY <1>4, TypeCounted, UnknownCounted
<1>9. PICK l \in Nat : l = GapCount(input, "missing_metric") /\ l = Cardinality(L)
  BY <1>5, TypeCounted, LackingCounted
<1>10. IsFiniteSet(S \X D) /\ Cardinality(S \X D) = subjects * dims
  <2>1. IsFiniteSet(S) /\ Cardinality(S) = subjects
    BY <1>6
  <2>2. Cardinality(D) = dims
    BY <1>7
  <2>3. IsFiniteSet(D)
    BY <1>7
  <2>4. IsFiniteSet(S \X D) /\ Cardinality(S \X D) = Cardinality(S) * Cardinality(D)
    BY <2>1, <2>3, FS_Product
  <2>5. QED
    BY <2>1, <2>2, <2>4
<1>11. /\ \A s : s \in U <=> s \in S /\ About(Evidence(input), s) = {}
       /\ \A p : p \in L <=> /\ p \in S \X D /\ p \notin K
                             /\ About(Evidence(input), p[1]) # {}
  BY <1>1, <1>2, <1>3, <1>4, <1>5 DEF Unknown, Lacking
<1>12. \A p \in K : About(Evidence(input), p[1]) # {}
  <2>1. ASSUME NEW p \in K PROVE About(Evidence(input), p[1]) # {}
    <3>1. PICK item \in Metrics(Evidence(input)) : p = KeyOf(item)
      BY <1>3 DEF MetricKeys
    <3>2. item \in About(Evidence(input), p[1])
      BY <3>1 DEF KeyOf, Metrics, About
    <3>3. QED
      BY <3>2
  <2>2. QED
    BY <2>1
<1>13. U \in SUBSET S /\ IsFiniteSet(U)
  BY <1>6, <1>11, FS_Subset
<1>14. L \in SUBSET (S \X D) /\ IsFiniteSet(L)
  BY <1>10, <1>11, FS_Subset
<1>15. IsFiniteSet(U \X D) /\ Cardinality(U \X D) = u * dims
  BY <1>7, <1>8, <1>13, FS_Product
<1>16. (S \X D) \ K = L \cup (U \X D)
  <2>1. ASSUME NEW p \in S \X D PROVE p \in L \cup (U \X D) <=> p \notin K
    <3>1. p \in U \X D <=> p[1] \in U
      BY <1>13
    <3>2. p[1] \in S
      OBVIOUS
    <3>3. QED
      BY <1>11, <1>12, <3>1, <3>2
  <2>2. U \X D \subseteq S \X D
    BY <1>13
  <2>3. QED
    BY <1>14, <2>1, <2>2
<1>17. L \cap (U \X D) = {}
  BY <1>11
<1>18. Cardinality(L \cup (U \X D)) = l + u * dims
  <2>1. Cardinality(L \cup (U \X D))
          = Cardinality(L) + Cardinality(U \X D) - Cardinality(L \cap (U \X D))
    BY <1>14, <1>15, FS_Union
  <2>2. PICK n \in Nat : n = u * dims
    OBVIOUS
  <2>3. Cardinality(L \cap (U \X D)) = 0
    BY <1>17, FS_EmptySet
  <2>4. QED
    BY <1>9, <1>15, <2>1, <2>2, <2>3
<1>19. Cardinality((S \X D) \ K) = subjects * dims - Cardinality((S \X D) \cap K)
  BY <1>10, FS_Difference
<1>20. Cardinality((S \X D) \cap K) \in Nat
  BY <1>10, FS_Intersection, FS_CardinalityType
<1>21. Cardinality(K \cap (S \X D)) = dims * subjects - (l + dims * u)
  <2>1. PICK n \in Nat : n = subjects * dims /\ n = dims * subjects
    OBVIOUS
  <2>2. PICK v \in Nat : v = u * dims /\ v = dims * u
    OBVIOUS
  <2>3. PICK c \in Nat : c = Cardinality((S \X D) \cap K)
    BY <1>20
  <2>4. l + v = n - c
    BY <1>16, <1>18, <1>19, <2>1, <2>2, <2>3
  <2>5. K \cap (S \X D) = (S \X D) \cap K
    OBVIOUS
  <2>6. c = n - (l + v)
    BY <2>4
  <2>7. QED
    BY <2>1, <2>2, <2>3, <2>5, <2>6
<1>22. Cardinality({item.subject : item \in Evidence(input)}) = subjects - u
  <2>1. \A item \in Evidence(input) : item.subject \in S
    BY <1>1, ValidRequest
  <2>2. ASSUME NEW s \in S
        PROVE  s \in {item.subject : item \in Evidence(input)} <=> s \notin U
    BY <1>11 DEF About
  <2>3. {item.subject : item \in Evidence(input)} = S \ U
    BY <2>1, <2>2
  <2>4. Cardinality(S \ U) = Cardinality(S) - Cardinality(S \cap U)
    BY <1>6, FS_Difference
  <2>5. S \cap U = U
    BY <1>13
  <2>6. QED
    BY <1>6, <1>8, <2>3, <2>4, <2>5
<1>23. S # {}
  <2>1. PICK item \in Evidence(input) : TRUE
    BY ValidRequest
  <2>2. item.subject \in S
    BY <1>1, ValidRequest
  <2>3. QED
    BY <2>2
<1>24. subjects > 0
  BY <1>6, <1>23, FS_EmptySet
<1>25. dims > 0 => S \X D # {}
  <2>1. dims > 0 => D # {}
    BY <1>7, FS_EmptySet
  <2>2. ASSUME NEW d \in D PROVE S \X D # {}
    <3>1. PICK s \in S : TRUE
      BY <1>23
    <3>2. <<s, d>> \in S \X D
      OBVIOUS
    <3>3. QED
      BY <3>2
  <2>3. QED
    BY <2>1, <2>2
<1>26. Cardinality(S \X D) = dims * subjects
  BY <1>10
<1>27. QED
  BY <1>1, <1>2, <1>3, <1>6, <1>7, <1>8, <1>9, <1>21, <1>22, <1>24, <1>25, <1>26

\* Every gap is of one of the four types.
LEMMA GapsCounted ==
    ASSUME NEW input \in Researches \cup Landscapes, Valid(input)
    PROVE  /\ IsList(Gaps(input))
           /\ Len(Gaps(input)) =
                 GapCount(input, "missing_metric") + GapCount(input, "no_evidence")
                 + GapCount(input, "single_source") + GapCount(input, "stale_evidence")
<1>1. PICK gaps : gaps = Gaps(input)
  OBVIOUS
<1>2. gaps = FlattenSeq(PartsOf(input))
  BY <1>1 DEF Gaps, PartsOf
<1>3. /\ IsList(PartsOf(input))
      /\ \A i \in DOMAIN PartsOf(input) :
            GapsTell(input, input.scope.subjects[i], PartsOf(input)[i])
  BY PartsTell
<1>4. \A i \in DOMAIN PartsOf(input) :
         /\ IsList(PartsOf(input)[i])
         /\ \A x \in ToSet(PartsOf(input)[i]) : x.type \in GapTypes
  BY <1>3 DEF GapsTell, ToSet
<1>5. /\ IsList(gaps)
      /\ \A x \in ToSet(gaps) : \E i \in DOMAIN PartsOf(input) : x \in ToSet(PartsOf(input)[i])
  BY <1>2, <1>3, <1>4, FlattenedParts
<1>6. PICK m \in Nat : m = Len(gaps)
  BY <1>5, ListDomain
<1>7. DOMAIN gaps = 1..m
  BY <1>5, <1>6, ListDomain
<1>8. IsFiniteSet(1..m) /\ Cardinality(1..m) = m
  <2>1. IsFiniteSet(1..m) /\ Cardinality(1..m) = IF 1 > m THEN 0 ELSE m - 1 + 1
    BY FS_Interval
  <2>2. (IF 1 > m THEN 0 ELSE m - 1 + 1) = m
    OBVIOUS
  <2>3. QED
    BY <2>1, <2>2
<1>9. \A n \in 1..m : gaps[n].type \in GapTypes
  BY <1>4, <1>5, <1>7 DEF ToSet
<1> DEFINE of(type) == {n \in 1..m : gaps[n].type = type}
<1>10. ASSUME NEW type
       PROVE  /\ IsFiniteSet(of(type))
              /\ Cardinality(of(type)) = GapCount(input, type)
              /\ GapCount(input, type) \in Nat
  <2>1. of(type) \in SUBSET (1..m)
    OBVIOUS
  <2>2. IsFiniteSet(of(type))
    BY <1>8, <2>1, FS_Subset
  <2>3. Cardinality(of(type)) = GapCount(input, type)
    BY <1>1, <1>7 DEF GapCount
  <2>4. QED
    BY <2>2, <2>3, FS_CardinalityType
<1>11. PICK A : A = of("missing_metric")
  OBVIOUS
<1>12. PICK B : B = of("no_evidence")
  OBVIOUS
<1>13. PICK C : C = of("single_source")
  OBVIOUS
<1>14. PICK E : E = of("stale_evidence")
  OBVIOUS
<1>15. /\ 1..m = ((A \cup B) \cup C) \cup E
       /\ A \cap B = {} /\ (A \cup B) \cap C = {} /\ ((A \cup B) \cup C) \cap E = {}
  BY <1>9, <1>11, <1>12, <1>13, <1>14 DEF GapTypes
<1>16. PICK a \in Nat : a = Cardinality(A) /\ a = GapCount(input, "missing_metric")
  BY <1>10, <1>11
<1>17. PICK b \in Nat : b = Cardinality(B) /\ b = GapCount(input, "no_evidence")
  BY <1>10, <1>12
<1>18. PICK c \in Nat : c = Cardinality(C) /\ c = GapCount(input, "single_source")
  BY <1>10, <1>13
<1>19. PICK e \in Nat : e = Cardinality(E) /\ e = GapCount(input, "stale_evidence")
  BY <1>10, <1>14
<1>20. IsFiniteSet(A) /\ IsFiniteSet(B) /\ IsFiniteSet(C) /\ IsFiniteSet(E)
  BY <1>10, <1>11, <1>12, <1>13, <1>14
<1> HIDE DEF of
<1>21. IsFiniteSet(A \cup B) /\ Cardinality(A \cup B) = a + b
  <2>1. /\ IsFiniteSet(A \cup B)
        /\ Cardinality(A \cup B) = Cardinality(A) + Cardinality(B) - Cardinality(A \cap B)
    BY <1>20, FS_Union
  <2>2. Cardinality(A \cap B) = 0
    BY <1>15, FS_EmptySet
  <2>3. QED
    BY <1>16, <1>17, <2>1, <2>2
<1>22. IsFiniteSet((A \cup B) \cup C) /\ Cardinality((A \cup B) \cup C) = a + b + c
  <2>1. /\ IsFiniteSet((A \cup B) \cup C)
        /\ Cardinality((A \cup B) \cup C)
             = Cardinality(A \cup B) + Cardinality(C) - Cardinality((A \cup B) \cap C)
    BY <1>20, <1>21, FS_Union
  <2>2. Cardinality((A \cup B) \cap C) = 0
    BY <1>15, FS_EmptySet
  <2>3. QED
    BY <1>18, <1>21, <2>1, <2>2
<1>23. Cardinality(((A \cup B) \cup C) \cup E) = a + b + c + e
  <2>1. Cardinality(((A \cup B) \cup C) \cup E)
          = Cardinality((A \cup B) \cup C) + Cardinality(E)
            - Cardinality(((A \cup B) \cup C) \cap E)
    BY <1>20, <1>22, FS_Union
  <2>2. Cardinality(((A \cup B) \cup C) \cap E) = 0
    BY <1>15, FS_EmptySet
  <2>3. QED
    BY <1>19, <1>22, <2>1, <2>2
<1>24. QED
  BY <1>1, <1>5, <1>6, <1>8, <1>15, <1>16, <1>17, <1>18, <1>19, <1>23

\* The keys are in the order of two numbers, and each has its row.
LEMMA KeysListed ==
    ASSUME NEW input \in Researches \cup Landscapes, NEW limit
    PROVE  {row.key : row \in ToSet(LatestMetrics(Evidence(input), limit))}
              = MetricKeys(Evidence(input))
<1>1. PICK items : items = Evidence(input)
  OBVIOUS
<1>2. PICK K : K = MetricKeys(items)
  OBVIOUS
<1>3. IsFiniteSet(K)
  BY <1>1, <1>2, FiniteEvidence, FiniteMetrics
<1>4. K \subseteq Nat \X Nat
  <2>1. \A item \in items : item.subject \in Nat /\ item.dimension \in Nat
    BY <1>1, RequestAssumption DEF Evidence
  <2>2. QED
    BY <1>2, <2>1 DEF MetricKeys, Metrics, KeyOf
<1>5. PICK R : R = {p \in (Nat \X Nat) \X (Nat \X Nat) : EarlierKey(p[1], p[2])}
  OBVIOUS
<1>6. PICK m : m = Cardinality(K)
  OBVIOUS
<1>7. PICK rank : rank = [x \in K |-> Cardinality({y \in K : EarlierKey(y, x)})]
  OBVIOUS
<1>8. PICK keys :
         keys = [n \in 1..m |-> CHOOSE x \in K :
                                   Cardinality({y \in K : EarlierKey(y, x)}) = n - 1]
  OBVIOUS
<1>9. \A x, y \in K : <<x, y>> \in R <=> EarlierKey(x, y)
  BY <1>4, <1>5
<1>10. StrictOrder(R, K)
  <2>1. \A x \in K : ~EarlierKey(x, x)
    BY <1>4 DEF EarlierKey
  <2>2. \A x, y, z \in K : EarlierKey(x, y) /\ EarlierKey(y, z) => EarlierKey(x, z)
    BY <1>4 DEF EarlierKey
  <2>3. \A x, y \in K : x # y => EarlierKey(x, y) \/ EarlierKey(y, x)
    <3>1. ASSUME NEW x \in K, NEW y \in K, ~EarlierKey(x, y), ~EarlierKey(y, x)
          PROVE  x = y
      <4>1. /\ x[1] \in Nat /\ x[2] \in Nat /\ x = <<x[1], x[2]>>
            /\ y[1] \in Nat /\ y[2] \in Nat /\ y = <<y[1], y[2]>>
        BY <1>4
      <4>2. x[1] = y[1] /\ x[2] = y[2]
        BY <3>1, <4>1 DEF EarlierKey
      <4>3. QED
        BY <4>1, <4>2
    <3>2. QED
      BY <3>1
  <2>4. QED
    BY <1>9, <2>1, <2>2, <2>3 DEF StrictOrder
<1>11. ASSUME NEW x \in K
       PROVE  rank[x] = Cardinality({y \in K : <<y, x>> \in R})
  <2>1. {y \in K : <<y, x>> \in R} = {y \in K : EarlierKey(y, x)}
    BY <1>9
  <2>2. QED
    BY <1>7, <2>1
<1>12. Ranking(rank, K)
  BY <1>3, <1>10, <1>11, Ranks
<1>13. ASSUME NEW k \in 1..m
       PROVE  keys[k] \in K /\ rank[keys[k]] = k - 1
  <2>1. \A x \in K : rank[x] = Cardinality({y \in K : EarlierKey(y, x)})
    BY <1>7
  <2>2. \E x \in K : rank[x] = k - 1
    BY <1>6, <1>12 DEF Ranking
  <2>3. \E x \in K : Cardinality({y \in K : EarlierKey(y, x)}) = k - 1
    BY <2>1, <2>2
  <2>4. keys[k] \in K /\ Cardinality({y \in K : EarlierKey(y, keys[k])}) = k - 1
    BY <1>8, <2>3
  <2>5. QED
    BY <2>1, <2>4
<1>14. DOMAIN keys = 1..m
  BY <1>8
<1>15. Lists(keys, K)
  <2>1. PlacedBy(rank, keys, K)
    BY <1>6, <1>13, <1>14 DEF PlacedBy
  <2>2. QED
    BY <1>3, <1>12, <2>1, ByRank
<1>16. KeysInOrder(items) = keys
  BY <1>2, <1>6, <1>8 DEF KeysInOrder, InOrder
<1>17. PICK rows : rows = [n \in DOMAIN keys |-> LatestRow(items, keys[n], limit)]
  OBVIOUS
<1>18. LatestMetrics(items, limit) = rows
  BY <1>16, <1>17 DEF LatestMetrics
<1>19. /\ DOMAIN rows = DOMAIN keys
       /\ \A n \in DOMAIN keys : rows[n].key = keys[n]
  BY <1>17 DEF LatestRow
<1>20. {row.key : row \in ToSet(rows)} = K
  <2>1. \A n \in DOMAIN keys : keys[n] \in K
    BY <1>15 DEF Lists
  <2>2. \A x \in K : \E n \in DOMAIN keys : keys[n] = x
    BY <1>15 DEF Lists
  <2>3. \A row \in ToSet(rows) : row.key \in K
    BY <1>19, <2>1 DEF ToSet
  <2>4. \A x \in K : \E row \in ToSet(rows) : row.key = x
    BY <1>19, <2>2 DEF ToSet
  <2>5. QED
    BY <2>3, <2>4
<1>21. QED
  BY <1>1, <1>2, <1>18, <1>20

-----------------------------------------------------------------------------
(* The counts of an analysis *)

LEMMA SectionAgrees ==
    ASSUME NEW rows, IsList(rows), NEW limit \in Nat
    PROVE  LET section == Section(rows, limit)
           IN /\ section.omitted \in Nat
              /\ section.omitted = 0 => section.rows = rows
              /\ Len(section.rows) + section.omitted = Len(rows)
              /\ Len(section.rows) \in Nat
              /\ Len(section.rows) <= limit
              /\ Len(section.rows) <= Len(rows)
              /\ Len(rows) \in Nat
              /\ IsList(section.rows)
<1>1. PICK cut : cut = AtMost(rows, limit)
  OBVIOUS
<1>2. /\ Len(cut) <= Len(rows) /\ Len(cut) \in Nat /\ Len(cut) <= limit
      /\ IsList(cut)
      /\ Len(rows) = Len(cut) => cut = rows
  BY <1>1, CutOff
<1>3. Len(rows) \in Nat
  BY ListDomain
<1>4. /\ Section(rows, limit).rows = cut
      /\ Section(rows, limit).omitted = Len(rows) - Len(cut)
  BY <1>1 DEF Section, Omitted
<1>5. QED
  BY <1>2, <1>3, <1>4

LEMMA SetAsList ==
    ASSUME NEW S, IsFiniteSet(S)
    PROVE  IsList(SetToSeq(S)) /\ Len(SetToSeq(S)) = Cardinality(S)
<1>1. PICK n \in Nat : n = Cardinality(S) /\ ExistsBijection(1..n, S)
  BY FS_CardinalityType
<1>2. PICK f \in Bijection(1..n, S) : TRUE
  BY <1>1 DEF ExistsBijection
<1>3. f \in [1..n -> S] /\ IsInjective(f)
  BY <1>2 DEF Bijection, Injection, IsInjective
<1>4. SetToSeq(S) = CHOOSE g \in [1..n -> S] : IsInjective(g)
  BY <1>1 DEF SetToSeq
<1>5. SetToSeq(S) \in [1..n -> S]
  BY <1>3, <1>4
<1>6. QED
  BY <1>1, <1>5, ListOfInterval

\* The groups of evidence that contradicts itself.
LEMMA FiniteGroups ==
    ASSUME NEW items, IsFiniteSet(items)
    PROVE  /\ IsFiniteSet(Disagreeing(items))
           /\ IsFiniteSet(MaterialGroups(items))
           /\ MaterialGroups(items) \in SUBSET Disagreeing(items)
           /\ IsFiniteSet(OpposingGroups(items))
<1>1. IsFiniteSet(PeriodGroups(items))
  <2>1. PICK f : f = [item \in Metrics(items) |->
                        {i \in Metrics(items) : PeriodKey(i) = PeriodKey(item)}]
    OBVIOUS
  <2>2. DOMAIN f = Metrics(items)
    BY <2>1
  <2>3. IsFiniteSet({f[item] : item \in Metrics(items)})
    BY <2>2, FiniteMetrics, FiniteImage
  <2>4. {f[item] : item \in Metrics(items)} = PeriodGroups(items)
    BY <2>1 DEF PeriodGroups
  <2>5. QED
    BY <2>3, <2>4
<1>2. Disagreeing(items) \in SUBSET PeriodGroups(items)
  BY DEF Disagreeing
<1>3. IsFiniteSet(Disagreeing(items))
  BY <1>1, <1>2, FS_Subset
<1>4. MaterialGroups(items) \in SUBSET Disagreeing(items)
  BY DEF MaterialGroups
<1>5. IsFiniteSet(MaterialGroups(items))
  BY <1>3, <1>4, FS_Subset
<1>6. IsFiniteSet(OpposingGroups(items))
  <2>1. PICK days : days = {i.observed : i \in items}
    OBVIOUS
  <2>2. IsFiniteSet(days)
    <3>1. PICK f : f = [i \in items |-> i.observed]
      OBVIOUS
    <3>2. DOMAIN f = items /\ {f[i] : i \in items} = days
      BY <2>1, <3>1
    <3>3. QED
      BY <3>2, FiniteImage
  <2>3. IsFiniteSet(SignalKeys(items))
    <3>1. PICK f : f = [i \in items |-> KeyOf(i)]
      OBVIOUS
    <3>2. DOMAIN f = items /\ {f[i] : i \in items} = SignalKeys(items)
      BY <3>1 DEF SignalKeys
    <3>3. QED
      BY <3>2, FiniteImage
  <2>4. PICK T : T = {keyDay \in SignalKeys(items) \X days :
                        {"positive", "negative"} \subseteq
                            SignalsOn(items, keyDay[1], keyDay[2])}
    OBVIOUS
  <2>5. IsFiniteSet(SignalKeys(items) \X days)
    BY <2>2, <2>3, FS_Product
  <2>6. T \in SUBSET (SignalKeys(items) \X days)
    BY <2>4
  <2>7. IsFiniteSet(T)
    BY <2>5, <2>6, FS_Subset
  <2>8. PICK f : f = [at \in T |->
                        {i \in Signalling(items, at[1]) :
                           i.observed = at[2] /\ i.signal \in {"positive", "negative"}}]
    OBVIOUS
  <2>9. DOMAIN f = T
    BY <2>8
  <2>10. IsFiniteSet({f[at] : at \in T})
    BY <2>7, <2>9, FiniteImage
  <2>11. {f[at] : at \in T}
           = {{i \in Signalling(items, at[1]) :
                 i.observed = at[2] /\ i.signal \in {"positive", "negative"}} : at \in T}
    BY <2>8
  <2>12. OpposingGroups(items)
           = {{i \in Signalling(items, at[1]) :
                 i.observed = at[2] /\ i.signal \in {"positive", "negative"}} : at \in T}
    BY <2>1, <2>4 DEF OpposingGroups
  <2>13. QED
    BY <2>10, <2>11, <2>12
<1>7. QED
  BY <1>3, <1>4, <1>5, <1>6

LEMMA ContradictionsListed ==
    ASSUME NEW items, IsFiniteSet(items)
    PROVE  /\ IsList(ContradictionRows(items))
           /\ Len(ContradictionRows(items))
                 = Cardinality(MaterialGroups(items)) + Cardinality(OpposingGroups(items))
           /\ Cardinality(MaterialGroups(items)) <= Cardinality(Disagreeing(items))
           /\ Cardinality(MaterialGroups(items)) \in Nat
           /\ Cardinality(OpposingGroups(items)) \in Nat
<1>1. PICK s : s = SetToSeq(MaterialGroups(items))
  OBVIOUS
<1>2. PICK t : t = SetToSeq(OpposingGroups(items))
  OBVIOUS
<1>3. IsList(s) /\ Len(s) = Cardinality(MaterialGroups(items))
  BY <1>1, FiniteGroups, SetAsList
<1>4. IsList(t) /\ Len(t) = Cardinality(OpposingGroups(items))
  BY <1>2, FiniteGroups, SetAsList
<1>5. IsList(s \o t) /\ Len(s \o t) = Len(s) + Len(t)
  BY <1>3, <1>4, Concatenated
<1>6. ContradictionRows(items) = s \o t
  BY <1>1, <1>2 DEF ContradictionRows
<1>7. /\ Cardinality(MaterialGroups(items)) <= Cardinality(Disagreeing(items))
      /\ Cardinality(MaterialGroups(items)) \in Nat
      /\ Cardinality(OpposingGroups(items)) \in Nat
  BY FiniteGroups, FS_Subset, FS_CardinalityType
<1>8. QED
  BY <1>3, <1>4, <1>5, <1>6, <1>7

\* What an analysis says in one part follows from what it says in another.
AnalysisAgrees(input, answer) ==
    LET dims == Len(input.scope.dimensions)
        subjects == Len(input.scope.subjects)
        absent == answer.gapCount["missing_metric"] + dims * answer.gapCount["no_evidence"]
    IN /\ dims > 0 => answer.coverage.metrics =
                         Points(dims * subjects - absent, dims * subjects)
       /\ answer.coverage.subjects =
             Points(subjects - answer.gapCount["no_evidence"], subjects)
       /\ Len(answer.contradictions.rows) + answer.contradictions.omitted
             = answer.summary.material + answer.summary.opposing
       /\ answer.summary.material <= answer.summary.disagreements
       /\ answer.complete =>
             /\ Len(answer.gaps.rows) =
                   absent - dims * answer.gapCount["no_evidence"]
                   + answer.gapCount["no_evidence"]
                   + answer.gapCount["single_source"]
                   + answer.gapCount["stale_evidence"]
             /\ {row.key : row \in RowsOf(answer.latest)} = MetricKeys(Evidence(input))

LEMMA AnalysisCounts ==
    ASSUME NEW input \in Researches, Valid(input),
           NEW answer, answer = Analysis(input)
    PROVE  AnalysisAgrees(input, answer)
<1>1. PICK items : items = Evidence(input)
  OBVIOUS
<1>2. IsFiniteSet(items)
  BY <1>1, FiniteEvidence
<1>3. PICK latest : latest = Section(LatestMetrics(items, MaxBindings), MaxLatest)
  OBVIOUS
<1>4. PICK trends : trends = Section(Trends(items), MaxTrends)
  OBVIOUS
<1>5. PICK contradictions :
         contradictions = Section(ContradictionRows(items), MaxContradictions)
  OBVIOUS
<1>6. PICK gaps : gaps = Section(Gaps(input), MaxGaps)
  OBVIOUS
<1>7. /\ answer.latest = latest
      /\ answer.contradictions = contradictions
      /\ answer.gaps = gaps
      /\ answer.summary = ContradictionSummary(items)
      /\ answer.coverage = Coverage(input)
      /\ answer.complete =>
            latest.omitted + trends.omitted + contradictions.omitted + gaps.omitted = 0
  BY <1>1, <1>3, <1>4, <1>5, <1>6 DEF Analysis
<1>8. answer.gapCount = [type \in GapTypes |-> GapCount(input, type)]
  <2>1. GapTypes = {"no_evidence", "missing_metric", "single_source", "stale_evidence"}
    BY DEF GapTypes
  <2>2. QED
    BY <2>1 DEF Analysis
<1>9. /\ answer.gapCount["missing_metric"] = GapCount(input, "missing_metric")
      /\ answer.gapCount["no_evidence"] = GapCount(input, "no_evidence")
      /\ answer.gapCount["single_source"] = GapCount(input, "single_source")
      /\ answer.gapCount["stale_evidence"] = GapCount(input, "stale_evidence")
  BY <1>8 DEF GapTypes
<1>10. /\ MaxLatest \in Nat /\ MaxTrends \in Nat
       /\ MaxContradictions \in Nat /\ MaxGaps \in Nat
  BY EvidenceAssumption
<1>11. PICK dims \in Nat : dims = Len(input.scope.dimensions)
  BY ScopeCounted
<1>12. PICK subjects \in Nat : subjects = Len(input.scope.subjects)
  BY ScopeCounted
<1>13. PICK l \in Nat : l = GapCount(input, "missing_metric")
  BY TypeCounted
<1>14. PICK u \in Nat : u = GapCount(input, "no_evidence")
  BY TypeCounted
<1>15. PICK expected :
          expected = ToSet(input.scope.subjects) \X ToSet(input.scope.dimensions)
  OBVIOUS
<1>16. /\ Cardinality(MetricKeys(items) \cap expected) = dims * subjects - (l + dims * u)
       /\ Cardinality(expected) = dims * subjects
       /\ Cardinality({item.subject : item \in items}) = subjects - u
       /\ Cardinality(ToSet(input.scope.subjects)) = subjects
       /\ dims > 0 => expected # {}
  BY <1>1, <1>11, <1>12, <1>13, <1>14, <1>15, ScopeCounted
<1>17. dims > 0 => answer.coverage.metrics =
                      Points(dims * subjects - (l + dims * u), dims * subjects)
  <2>1. Coverage(input).metrics =
          IF expected = {} THEN Points(1, 1)
          ELSE Points(Cardinality(MetricKeys(items) \cap expected), Cardinality(expected))
    BY <1>1, <1>15 DEF Coverage, Evidence
  <2>2. QED
    BY <1>7, <1>16, <2>1
<1>18. answer.coverage.subjects = Points(subjects - u, subjects)
  <2>1. Coverage(input).subjects =
          Points(Cardinality({item.subject : item \in items}),
                 Cardinality(ToSet(input.scope.subjects)))
    BY <1>1 DEF Coverage, Evidence
  <2>2. QED
    BY <1>7, <1>16, <2>1
<1>19. /\ Len(contradictions.rows) + contradictions.omitted
             = Cardinality(MaterialGroups(items)) + Cardinality(OpposingGroups(items))
       /\ Cardinality(MaterialGroups(items)) <= Cardinality(Disagreeing(items))
       /\ contradictions.omitted \in Nat
  BY <1>2, <1>5, <1>10, ContradictionsListed, SectionAgrees
<1>20. /\ answer.summary.material = Cardinality(MaterialGroups(items))
       /\ answer.summary.opposing = Cardinality(OpposingGroups(items))
       /\ answer.summary.disagreements = Cardinality(Disagreeing(items))
  BY <1>7 DEF ContradictionSummary
<1>21. /\ latest.omitted \in Nat
       /\ latest.omitted = 0 => latest.rows = LatestMetrics(items, MaxBindings)
  BY <1>2, <1>3, <1>10, LatestRows, SectionAgrees
<1>22. trends.omitted \in Nat
  BY <1>2, <1>4, <1>10, TrendRows, SectionAgrees
<1>23. /\ gaps.omitted \in Nat
       /\ gaps.omitted = 0 => gaps.rows = Gaps(input)
  BY <1>6, <1>10, GapsCounted, SectionAgrees
<1>24. answer.complete => latest.omitted = 0 /\ gaps.omitted = 0
  BY <1>7, <1>19, <1>21, <1>22, <1>23
<1>25. answer.complete =>
          Len(answer.gaps.rows) = l + u + GapCount(input, "single_source")
                                  + GapCount(input, "stale_evidence")
  <2>1. Len(Gaps(input)) = l + u + GapCount(input, "single_source")
                           + GapCount(input, "stale_evidence")
    BY <1>13, <1>14, GapsCounted
  <2>2. QED
    BY <1>7, <1>23, <1>24, <2>1
<1>26. answer.complete =>
          {row.key : row \in RowsOf(answer.latest)} = MetricKeys(Evidence(input))
  <2>1. {row.key : row \in ToSet(LatestMetrics(items, MaxBindings))} = MetricKeys(items)
    BY <1>1, KeysListed
  <2>2. QED
    BY <1>1, <1>7, <1>21, <1>24, <2>1 DEF RowsOf
<1>27. l = (l + dims * u) - dims * u
  <2>1. PICK n \in Nat : n = dims * u
    OBVIOUS
  <2>2. l = (l + n) - n
    OBVIOUS
  <2>3. QED
    BY <2>1, <2>2
<1>28. QED
  BY <1>7, <1>9, <1>11, <1>12, <1>13, <1>14, <1>17, <1>18, <1>19, <1>20, <1>25, <1>26,
     <1>27 DEF AnalysisAgrees

-----------------------------------------------------------------------------
(* The bindings that a landscape emits and leaves out *)

LEMMA CappedNumber ==
    ASSUME NEW n \in Nat, NEW limit \in Nat
    PROVE  /\ Capped(n, limit) \in Nat
           /\ Capped(n, limit) <= limit
           /\ Capped(n, limit) <= n
           /\ n - Capped(n, limit) \in Nat
BY DEF Capped

LEMMA OmittedCounted ==
    ASSUME NEW items, IsFiniteSet(items), NEW limit \in Nat
    PROVE  OmittedBindings(items, limit) \in Nat
<1>1. Cardinality(items) \in Nat
  BY FS_CardinalityType
<1>2. QED
  BY <1>1, CappedNumber DEF OmittedBindings

\* A row whose omissions are numbers.
CountsOmissions(row) ==
    /\ row.omittedBindings \in Nat
    /\ "omittedValues" \in DOMAIN row => row.omittedValues \in Nat

LEMMA RowsCounted ==
    ASSUME NEW rows, IsList(rows), \A n \in DOMAIN rows : CountsOmissions(rows[n])
    PROVE  /\ RowOmissions(rows) \in Nat
           /\ RowOmissions(rows) = 0 =>
                 \A n \in DOMAIN rows : rows[n].omittedBindings = 0
<1>1. PICK f : f = [n \in DOMAIN rows |->
                      rows[n].omittedBindings
                      + IF "omittedValues" \in DOMAIN rows[n]
                        THEN rows[n].omittedValues ELSE 0]
  OBVIOUS
<1>2. RowOmissions(rows) = SumFunction(f)
  BY <1>1 DEF RowOmissions
<1>3. ASSUME NEW n \in DOMAIN rows
      PROVE  f[n] \in Nat /\ rows[n].omittedBindings \in Nat
             /\ rows[n].omittedBindings <= f[n]
  BY <1>1 DEF CountsOmissions
<1>4. f \in [DOMAIN rows -> Nat]
  BY <1>1, <1>3
<1>5. IsFiniteSet(DOMAIN rows)
  BY ListDomain, FS_Interval
<1>6. SumFunction(f) \in Nat
  BY <1>4, <1>5, SumIsNumber
<1>7. ASSUME SumFunction(f) = 0, NEW n \in DOMAIN rows
      PROVE  rows[n].omittedBindings = 0
  <2>1. f[n] = 0
    BY <1>4, <1>5, <1>7, SumIsZero
  <2>2. QED
    BY <1>3, <2>1
<1>8. QED
  BY <1>2, <1>6, <1>7

LEMMA LatestOmits ==
    ASSUME NEW items, IsFiniteSet(items), NEW key, NEW limit \in Nat
    PROVE  CountsOmissions(LatestRow(items, key, limit))
<1>1. PICK latest : latest = EndingAt(items, key, Highest(Ends(items, key)))
  OBVIOUS
<1>2. PICK row : row = LatestRow(items, key, limit)
  OBVIOUS
<1>3. PICK reported : reported = Cardinality(ValuesOf(latest))
  OBVIOUS
<1>4. /\ row.omittedBindings = OmittedBindings(latest, limit)
      /\ row.omittedValues = reported - Capped(reported, MaxBindings)
  BY <1>1, <1>2, <1>3 DEF LatestRow
<1>5. IsFiniteSet(latest) /\ IsFiniteSet(ValuesOf(latest))
  BY <1>1, FiniteMetrics
<1>6. reported \in Nat
  BY <1>3, <1>5, FS_CardinalityType
<1>7. MaxBindings \in Nat
  BY EvidenceAssumption
<1>8. row.omittedBindings \in Nat
  BY <1>4, <1>5, OmittedCounted
<1>9. row.omittedValues \in Nat
  BY <1>4, <1>6, <1>7, CappedNumber
<1>10. QED
  BY <1>2, <1>8, <1>9 DEF CountsOmissions

\* The profile of an entity.
LEMMA ProfileCounted ==
    ASSUME NEW input \in Landscapes, NEW entity,
           NEW profile, profile = Profile(input, entity)
    PROVE  /\ profile.bindings \in Nat
           /\ profile.bindings <= ProfileBindings + ProfileMetrics
           /\ profile.latest.omitted \in Nat
           /\ CountsOmissions(profile)
           /\ profile.contradictions = SubjectContradictions(Evidence(input), entity)
<1>1. PICK items : items = About(Evidence(input), entity)
  OBVIOUS
<1>2. PICK latest : latest = Section(LatestMetrics(items, 1), ProfileMetrics)
  OBVIOUS
<1>3. /\ profile.latest = latest
      /\ profile.contradictions = SubjectContradictions(Evidence(input), entity)
      /\ profile.bindings = Capped(Cardinality(items), ProfileBindings)
                            + Len(latest.rows)
      /\ profile.omittedBindings = OmittedBindings(items, ProfileBindings)
                                   + RowOmissions(latest.rows)
      /\ "omittedValues" \notin DOMAIN profile
  BY <1>1, <1>2 DEF Profile
<1>4. IsFiniteSet(items)
  <2>1. items \in SUBSET Evidence(input)
    BY <1>1 DEF About
  <2>2. QED
    BY <2>1, FiniteEvidence, FS_Subset
<1>5. ProfileMetrics \in Nat /\ ProfileBindings \in Nat
  BY MarketAssumption
<1>6. PICK rows : rows = LatestMetrics(items, 1)
  OBVIOUS
<1>7. IsList(rows) /\ \A row \in ToSet(rows) : \E key : row = LatestRow(items, key, 1)
  BY <1>4, <1>6, LatestRows
<1>8. /\ latest.omitted \in Nat
      /\ Len(latest.rows) \in Nat /\ Len(latest.rows) <= ProfileMetrics
      /\ IsList(latest.rows)
  BY <1>2, <1>5, <1>6, <1>7, SectionAgrees
<1>9. ToSet(latest.rows) \subseteq ToSet(rows)
  BY <1>2, <1>5, <1>6, <1>7, SectionRows DEF RowsOf
<1>10. ASSUME NEW n \in DOMAIN latest.rows PROVE CountsOmissions(latest.rows[n])
  <2>1. latest.rows[n] \in ToSet(rows)
    BY <1>9, <1>10 DEF ToSet
  <2>2. PICK key : latest.rows[n] = LatestRow(items, key, 1)
    BY <1>7, <2>1
  <2>3. CountsOmissions(LatestRow(items, key, 1))
    BY <1>4, LatestOmits
  <2>4. QED
    BY <2>2, <2>3
<1>11. RowOmissions(latest.rows) \in Nat
  BY <1>8, <1>10, RowsCounted
<1>12. OmittedBindings(items, ProfileBindings) \in Nat
  BY <1>4, <1>5, OmittedCounted
<1>13. Cardinality(items) \in Nat
  BY <1>4, FS_CardinalityType
<1>14. PICK c \in Nat : c = Capped(Cardinality(items), ProfileBindings) /\ c <= ProfileBindings
  BY <1>5, <1>13, CappedNumber
<1>15. QED
  BY <1>3, <1>5, <1>8, <1>11, <1>12, <1>14 DEF CountsOmissions

-----------------------------------------------------------------------------
(* The comparisons of a landscape *)

LEMMA ObservedCounted ==
    ASSUME NEW input \in Landscapes, Valid(input)
    PROVE  /\ IsFiniteSet(Observed(Evidence(input)))
           /\ Observed(Evidence(input)) \subseteq Nat
           /\ Observed(Evidence(input)) \subseteq ToSet(input.scope.dimensions)
           /\ Cardinality(Observed(Evidence(input))) \in Nat
           /\ Cardinality(Observed(Evidence(input))) <= MaxDimensions
<1>1. PICK items : items = Evidence(input)
  OBVIOUS
<1>2. PICK D : D = ToSet(input.scope.dimensions)
  OBVIOUS
<1>3. /\ IsList(input.scope.dimensions) /\ Distinct(input.scope.dimensions)
      /\ Len(input.scope.dimensions) <= MaxDimensions
      /\ \A item \in items : IsMetric(item) => item.dimension \in D
  BY <1>1, <1>2, ValidRequest
<1>4. D \subseteq Nat
  BY <1>2, RequestAssumption
<1>5. \A d \in Observed(items) : d \in D
  BY <1>3 DEF Observed, MetricKeys, Metrics, KeyOf
<1>6. /\ IsFiniteSet(D) /\ Cardinality(D) = Len(input.scope.dimensions)
      /\ Len(input.scope.dimensions) \in Nat
  BY <1>2, <1>3, ElementsCounted
<1>7. Observed(items) \in SUBSET D
  BY <1>5
<1>8. IsFiniteSet(Observed(items)) /\ Cardinality(Observed(items)) <= Cardinality(D)
  BY <1>6, <1>7, FS_Subset
<1>9. Cardinality(Observed(items)) \in Nat
  BY <1>8, FS_CardinalityType
<1>10. MaxDimensions \in Nat
  BY MarketAssumption
<1>11. QED
  BY <1>1, <1>2, <1>3, <1>4, <1>5, <1>6, <1>8, <1>9, <1>10

LEMMA ComparisonsListed ==
    ASSUME NEW input \in Landscapes, Valid(input),
           NEW rows, rows = MetricComparisons(input)
    PROVE  /\ IsList(rows)
           /\ Len(rows) <= MaxDimensions
           /\ \A row \in ToSet(rows) : \E d : row = Comparison(input, d)
           /\ \A d \in Observed(Evidence(input)) : Comparison(input, d) \in ToSet(rows)
<1>1. PICK observed : observed = Observed(Evidence(input))
  OBVIOUS
<1>2. PICK m \in Nat : m = Cardinality(observed) /\ m <= MaxDimensions
  BY <1>1, ObservedCounted
<1>3. PICK order : order = InOrder(observed, <)
  OBVIOUS
<1>4. Lists(order, observed)
  BY <1>1, <1>3, ObservedCounted, Ascending
<1>5. DOMAIN order = 1..m
  BY <1>2, <1>4 DEF Lists
<1>6. rows = [n \in DOMAIN order |-> Comparison(input, order[n])]
  BY <1>1, <1>3 DEF MetricComparisons
<1>7. rows \in [1..m -> {Comparison(input, order[n]) : n \in 1..m}]
  BY <1>5, <1>6
<1>8. IsList(rows) /\ Len(rows) = m
  BY <1>7, ListOfInterval
<1>9. \A row \in ToSet(rows) : \E d : row = Comparison(input, d)
  BY <1>6 DEF ToSet
<1>10. ASSUME NEW d \in observed PROVE Comparison(input, d) \in ToSet(rows)
  <2>1. PICK n \in DOMAIN order : order[n] = d
    BY <1>4 DEF Lists
  <2>2. rows[n] = Comparison(input, d) /\ n \in DOMAIN rows
    BY <1>6, <2>1
  <2>3. QED
    BY <2>2 DEF ToSet
<1>11. QED
  BY <1>1, <1>2, <1>8, <1>9, <1>10

\* Every entity present in a dimension brings an item of evidence.
LatestIn(items, d) ==
    UNION {EndingAt(items, <<entity, d>>, LatestOf(items, entity, d).end) :
              entity \in Present(items, d)}

LEMMA EntityBringsItem ==
    ASSUME NEW input \in Landscapes, NEW d, NEW e \in Present(Evidence(input), d)
    PROVE  \E item \in LatestIn(Evidence(input), d) : item.subject = e
<1>1. PICK items : items = Evidence(input)
  OBVIOUS
<1>2. IsFiniteSet(items)
  BY <1>1, FiniteEvidence
<1>3. PICK ends : ends = Ends(items, <<e, d>>)
  OBVIOUS
<1>4. PICK last : last = LatestOf(items, e, d).end
  OBVIOUS
<1>5. last = Highest(ends)
  BY <1>3, <1>4 DEF LatestOf, LatestRow
<1>6. ends # {}
  <2>1. PICK key \in MetricKeys(items) : key[2] = d /\ e = key[1]
    BY <1>1 DEF Present
  <2>2. PICK item \in Metrics(items) : key = KeyOf(item)
    BY <2>1 DEF MetricKeys
  <2>3. KeyOf(item) = <<e, d>>
    BY <2>1, <2>2 DEF KeyOf
  <2>4. QED
    BY <1>3, <2>2, <2>3 DEF Ends
<1>7. \A x \in ends : x \in Int
  <2>1. \A item \in items : item.end \in Int
    BY <1>1, RequestAssumption DEF Evidence, ToSet
  <2>2. QED
    BY <1>3, <2>1 DEF Ends, Metrics
<1>8. IsFiniteSet(ends)
  BY <1>2, <1>3, FiniteMetrics
<1>9. last \in ends
  BY <1>5, <1>6, <1>7, <1>8, GreatestOf DEF Highest
<1>10. PICK item \in EndingAt(items, <<e, d>>, last) : TRUE
  BY <1>3, <1>9 DEF Ends, EndingAt
<1>11. item \in LatestIn(items, d)
  BY <1>1, <1>4, <1>10 DEF LatestIn
<1>12. item.subject = e
  <2>1. KeyOf(item) = <<e, d>>
    BY <1>10 DEF EndingAt
  <2>2. QED
    BY <2>1 DEF KeyOf
<1>13. QED
  BY <1>1, <1>11, <1>12

LEMMA FinitePresent ==
    ASSUME NEW items, IsFiniteSet(items), NEW d
    PROVE  IsFiniteSet(Present(items, d)) /\ IsFiniteSet(LatestIn(items, d))
<1>1. PICK K : K = {k \in MetricKeys(items) : k[2] = d}
  OBVIOUS
<1>2. K \in SUBSET MetricKeys(items)
  BY <1>1
<1>3. IsFiniteSet(K)
  BY <1>2, FiniteMetrics, FS_Subset
<1>4. PICK f : f = [key \in K |-> key[1]]
  OBVIOUS
<1>5. DOMAIN f = K /\ {f[key] : key \in K} = Present(items, d)
  BY <1>1, <1>4 DEF Present
<1>6. IsFiniteSet(Present(items, d))
  BY <1>3, <1>5, FiniteImage
<1>7. LatestIn(items, d) \in SUBSET items
  BY DEF LatestIn, EndingAt, Metrics
<1>8. IsFiniteSet(LatestIn(items, d))
  BY <1>7, FS_Subset
<1>9. QED
  BY <1>6, <1>8

\* One binding is kept, and two entities that can be compared bring two.
LEMMA ComparisonCounted ==
    ASSUME NEW input \in Landscapes, NEW d, NEW row, row = Comparison(input, d)
    PROVE  /\ row.emittedBindings \in Nat
           /\ row.emittedBindings <= ComparisonBindings
           /\ CountsOmissions(row)
           /\ row.comparable => row.omittedBindings > 0
           /\ row.comparable = (Reasons(input, d) = {})
<1>1. PICK items : items = Evidence(input)
  OBVIOUS
<1>2. IsFiniteSet(items)
  BY <1>1, FiniteEvidence
<1>3. PICK P : P = Present(items, d)
  OBVIOUS
<1>4. PICK latest : latest = LatestIn(items, d)
  OBVIOUS
<1>5. IsFiniteSet(P) /\ IsFiniteSet(latest)
  BY <1>2, <1>3, <1>4, FinitePresent
<1>6. PICK p \in Nat, l \in Nat : p = Cardinality(P) /\ l = Cardinality(latest)
  BY <1>5, FS_CardinalityType
<1>7. PICK emitted : emitted = Capped(p, ComparisonBindings)
  OBVIOUS
<1>8. /\ row.emittedBindings = emitted
      /\ row.omittedBindings = l - emitted
      /\ row.comparable = (Reasons(input, d) = {})
      /\ "omittedValues" \notin DOMAIN row
  BY <1>1, <1>3, <1>4, <1>6, <1>7 DEF Comparison, LatestIn
<1>9. ComparisonBindings \in Nat /\ ComparisonBindings <= 1
  BY MarketAssumption, BudgetAssumption
<1>10. /\ emitted \in Nat /\ emitted <= ComparisonBindings /\ emitted <= p
  BY <1>6, <1>7, <1>9, CappedNumber
<1>11. \A e \in P : \E item \in latest : item.subject = e
  BY <1>1, <1>3, <1>4, EntityBringsItem
<1>12. p > 0 => l > 0
  <2>1. p = 0 \/ P # {}
    BY <1>6, FS_EmptySet
  <2>2. ASSUME P # {} PROVE l # 0
    <3>1. latest # {}
      BY <1>11, <2>2
    <3>2. QED
      BY <1>5, <1>6, <3>1, FS_EmptySet
  <2>3. QED
    BY <1>6, <2>1, <2>2
<1>13. ASSUME row.comparable PROVE l > 1
  <2>1. p >= 2
    <3>1. Cardinality(Present(Evidence(input), d)) < 2
            => "fewer_than_two_entities" \in Reasons(input, d)
      BY DEF Reasons
    <3>2. Reasons(input, d) = {}
      BY <1>8, <1>13
    <3>3. ~(Cardinality(Present(Evidence(input), d)) < 2)
      BY <3>1, <3>2
    <3>4. ~(p < 2)
      BY <1>1, <1>3, <1>6, <3>3
    <3>5. QED
      BY <1>6, <3>4
  <2>2. PICK e \in P, f \in P : e # f
    <3>1. P # {}
      BY <1>6, <2>1, FS_EmptySet
    <3>2. PICK e \in P : TRUE
      BY <3>1
    <3>3. CASE P = {e}
      <4>1. Cardinality(P) = 1
        BY <3>3, FS_Singleton
      <4>2. QED
        BY <1>6, <2>1, <4>1
    <3>4. QED
      BY <3>2, <3>3
  <2>3. PICK x \in latest, y \in latest : x.subject = e /\ y.subject = f
    BY <1>11
  <2>4. x # y
    BY <2>2, <2>3
  <2>5. Cardinality(latest) > 1
    BY <1>5, <2>4, NoDifference
  <2>6. QED
    BY <1>6, <2>5
<1>14. l - emitted \in Nat
  BY <1>9, <1>10, <1>12
<1>15. row.comparable => row.omittedBindings > 0
  BY <1>8, <1>9, <1>10, <1>13
<1>16. QED
  BY <1>8, <1>10, <1>14, <1>15 DEF CountsOmissions

-----------------------------------------------------------------------------
(* The counts of a landscape *)

LEMMA ScopeListed ==
    ASSUME NEW input \in Landscapes, Valid(input),
           NEW rows, rows = Incomparable(input)
    PROVE  /\ IsList(rows)
           /\ \A d \in ToSet(input.scope.dimensions) :
                 \/ d \in ToSet(rows)
                 \/ d \in Observed(Evidence(input)) /\ Reasons(input, d) = {}
<1>1. PICK observed : observed = Observed(Evidence(input))
  OBVIOUS
<1>2. PICK S : S = {d \in observed : Reasons(input, d) # {}}
  OBVIOUS
<1> DEFINE at(n) == CHOOSE x \in S : Cardinality({y \in S : y < x}) = n - 1
<1>3. PICK s : s = [n \in 1..Cardinality(S) |-> at(n)]
  OBVIOUS
<1>4. InOrder(S, <) = s
  BY <1>3 DEF InOrder
<1> HIDE DEF at
<1>5. PICK D : D = ToSet(input.scope.dimensions)
  OBVIOUS
<1>6. PICK t : t = Those(input.scope.dimensions, D \ observed)
  OBVIOUS
<1>7. rows = s \o t
  BY <1>1, <1>2, <1>4, <1>5, <1>6 DEF Incomparable
<1>8. S \in SUBSET observed
  BY <1>2
<1>9. IsFiniteSet(S) /\ S \subseteq Nat
  BY <1>1, <1>8, ObservedCounted, FS_Subset
<1>10. Lists(s, S)
  BY <1>4, <1>9, Ascending
<1>11. IsList(s) /\ \A d \in S : d \in ToSet(s)
  <2>1. PICK m \in Nat : m = Cardinality(S)
    BY <1>9, FS_CardinalityType
  <2>2. DOMAIN s = 1..m
    BY <1>10, <2>1 DEF Lists
  <2>3. s = [n \in DOMAIN s |-> s[n]]
    BY <1>3
  <2>4. \A n \in 1..m : s[n] \in S
    BY <1>10, <2>2 DEF Lists
  <2>5. s \in [1..m -> S]
    BY <2>2, <2>3, <2>4
  <2>6. IsList(s)
    BY <2>5, ListOfInterval
  <2>7. \A d \in S : \E n \in DOMAIN s : s[n] = d
    BY <1>10 DEF Lists
  <2>8. QED
    BY <2>6, <2>7 DEF ToSet
<1>12. IsList(t) /\ ToSet(t) = D \cap (D \ observed)
  BY <1>5, <1>6, ValidRequest, PickedElements
<1>13. PICK a \in Nat, b \in Nat : a = Len(s) /\ b = Len(t)
  BY <1>11, <1>12, Concatenated
<1>14. /\ IsList(rows)
       /\ DOMAIN rows = 1..(a + b)
       /\ \A n \in 1..(a + b) : rows[n] = IF n <= a THEN s[n] ELSE t[n - a]
  BY <1>7, <1>11, <1>12, <1>13, Concatenated
<1>15. DOMAIN s = 1..a /\ DOMAIN t = 1..b
  BY <1>11, <1>12, <1>13, ListDomain
<1>16. ASSUME NEW d \in ToSet(s) PROVE d \in ToSet(rows)
  <2>1. PICK n \in 1..a : s[n] = d
    BY <1>15 DEF ToSet
  <2>2. n \in 1..(a + b) /\ n <= a
    OBVIOUS
  <2>3. rows[n] = d /\ n \in DOMAIN rows
    BY <1>14, <2>1, <2>2
  <2>4. QED
    BY <2>3 DEF ToSet
<1>17. ASSUME NEW d \in ToSet(t) PROVE d \in ToSet(rows)
  <2>1. PICK n \in 1..b : t[n] = d
    BY <1>15 DEF ToSet
  <2>2. a + n \in 1..(a + b) /\ ~(a + n <= a) /\ (a + n) - a = n
    OBVIOUS
  <2>3. rows[a + n] = d /\ a + n \in DOMAIN rows
    BY <1>14, <2>1, <2>2
  <2>4. QED
    BY <2>3 DEF ToSet
<1>18. ASSUME NEW d \in D
       PROVE  \/ d \in ToSet(rows)
              \/ d \in observed /\ Reasons(input, d) = {}
  <2>1. CASE d \notin observed
    <3>1. d \in ToSet(t)
      BY <1>12, <2>1
    <3>2. QED
      BY <1>17, <3>1
  <2>2. CASE d \in S
    <3>1. d \in ToSet(s)
      BY <1>11, <2>2
    <3>2. QED
      BY <1>16, <3>1
  <2>3. CASE d \in observed /\ d \notin S
    BY <1>2, <2>3
  <2>4. QED
    BY <2>1, <2>2, <2>3
<1>19. QED
  BY <1>1, <1>5, <1>14, <1>18

\* Contradictions about a subject are among those of the evidence.
LEMMA SubjectContradicts ==
    ASSUME NEW items, IsFiniteSet(items), NEW subject,
           SubjectContradictions(items, subject) > 0
    PROVE  Cardinality(MaterialGroups(items)) + Cardinality(OpposingGroups(items)) > 0
<1>1. PICK A : A = {group \in MaterialGroups(items) :
                       \E item \in group : item.subject = subject}
  OBVIOUS
<1>2. PICK B : B = {group \in OpposingGroups(items) :
                       \E item \in group : item.subject = subject}
  OBVIOUS
<1>3. SubjectContradictions(items, subject) = Cardinality(A) + Cardinality(B)
  BY <1>1, <1>2 DEF SubjectContradictions
<1>4. A \in SUBSET MaterialGroups(items) /\ B \in SUBSET OpposingGroups(items)
  BY <1>1, <1>2
<1>5. /\ Cardinality(A) <= Cardinality(MaterialGroups(items))
      /\ Cardinality(B) <= Cardinality(OpposingGroups(items))
      /\ IsFiniteSet(A) /\ IsFiniteSet(B)
  BY <1>4, FiniteGroups, FS_Subset
<1>6. /\ Cardinality(A) \in Nat /\ Cardinality(B) \in Nat
      /\ Cardinality(MaterialGroups(items)) \in Nat
      /\ Cardinality(OpposingGroups(items)) \in Nat
  BY <1>5, FiniteGroups, FS_CardinalityType
<1>7. QED
  BY <1>3, <1>5, <1>6

\* All profiles, and one binding of every comparison, are within the budget.
LEMMA BudgetHolds ==
    ASSUME NEW p \in Nat, p <= MaxEntities, NEW c \in Nat, c <= MaxDimensions,
           NEW a \in Nat, a <= p * (ProfileBindings + ProfileMetrics),
           NEW b \in Nat, b <= c * ComparisonBindings
    PROVE  ~(a + b > BindingBudget)
<1>1. PICK s \in Nat : s = ProfileBindings + ProfileMetrics
  BY MarketAssumption
<1>2. PICK q \in Nat, m \in Nat, e \in Nat, u \in Nat :
         /\ q = ComparisonBindings /\ m = MaxDimensions
         /\ e = MaxEntities /\ u = BindingBudget
  BY MarketAssumption
<1>3. e * s + m * q <= u
  BY <1>1, <1>2, BudgetAssumption
<1>4. p * s <= e * s
  <2>1. PICK r \in Nat : e = p + r
    <3>1. e - p \in Nat /\ e = p + (e - p)
      BY <1>2
    <3>2. QED
      BY <3>1
  <2>2. e * s = p * s + r * s /\ r * s \in Nat /\ p * s \in Nat
    BY <2>1
  <2>3. QED
    BY <2>2
<1>5. c * q <= m * q
  <2>1. PICK r \in Nat : m = c + r
    <3>1. m - c \in Nat /\ m = c + (m - c)
      BY <1>2
    <3>2. QED
      BY <3>1
  <2>2. m * q = c * q + r * q /\ r * q \in Nat /\ c * q \in Nat
    BY <2>1
  <2>3. QED
    BY <2>2
<1>6. PICK w \in Nat, x \in Nat, y \in Nat, z \in Nat :
         w = p * s /\ x = e * s /\ y = c * q /\ z = m * q
  OBVIOUS
<1>7. a <= w /\ b <= y /\ w <= x /\ y <= z /\ x + z <= u
  BY <1>1, <1>2, <1>3, <1>4, <1>5, <1>6
<1>8. QED
  BY <1>2, <1>6, <1>7

\* What the answer of a comparison says of itself.
LandscapeAgrees(input, answer) ==
    /\ answer.complete =>
          /\ \A row \in RowsOf(answer.comparisons) : ~row.comparable
          /\ \A d \in ToSet(input.scope.dimensions) :
                d \in ToSet(answer.incomparable.rows)
    /\ \A profile \in ToSet(answer.profiles) :
          profile.contradictions > 0 =>
              answer.summary.material + answer.summary.opposing > 0
    /\ ~(answer.emittedBindings > BindingBudget)

LEMMA LandscapeCounts ==
    ASSUME NEW input \in Landscapes, ValidLandscape(input),
           NEW answer, answer = Landscape(input)
    PROVE  LandscapeAgrees(input, answer)
<1>1. PICK all : all = MetricComparisons(input)
  OBVIOUS
<1>2. PICK comparisons : comparisons = Section(all, MaxRows)
  OBVIOUS
<1>3. PICK rows : rows = comparisons.rows
  OBVIOUS
<1>4. PICK others : others = Incomparable(input)
  OBVIOUS
<1>5. PICK incomparable : incomparable = Section(others, MaxRows - Len(rows))
  OBVIOUS
<1>6. PICK profiles : profiles = [n \in DOMAIN input.entities |->
                                    Profile(input, input.entities[n])]
  OBVIOUS
<1>7. PICK left : left = [n \in DOMAIN profiles |-> profiles[n].latest.omitted]
  OBVIOUS
<1>8. PICK taken : taken = [n \in DOMAIN profiles |-> profiles[n].bindings]
  OBVIOUS
<1>9. PICK kept : kept = [n \in DOMAIN rows |-> rows[n].emittedBindings]
  OBVIOUS
<1>10. /\ answer.comparisons = comparisons
       /\ answer.incomparable = incomparable
       /\ answer.profiles = profiles
       /\ answer.summary = ContradictionSummary(Evidence(input))
       /\ answer.emittedBindings = SumFunction(taken) + SumFunction(kept)
       /\ answer.complete =>
             /\ comparisons.omitted + incomparable.omitted + SumFunction(left) = 0
             /\ RowOmissions(rows) + RowOmissions(profiles) = 0
  BY <1>1, <1>2, <1>3, <1>4, <1>5, <1>6, <1>7, <1>8, <1>9 DEF Landscape
<1>11. /\ Valid(input) /\ Len(input.entities) <= MaxEntities
       /\ IsList(input.entities)
  BY RequestAssumption DEF ValidLandscape
<1>12. /\ MaxRows \in Nat /\ ComparisonBindings \in Nat
       /\ ProfileBindings + ProfileMetrics \in Nat
  BY MarketAssumption
<1>13. /\ IsList(all)
       /\ Len(all) <= MaxDimensions
       /\ \A row \in ToSet(all) : \E d : row = Comparison(input, d)
       /\ \A d \in Observed(Evidence(input)) : Comparison(input, d) \in ToSet(all)
  BY <1>1, <1>11, ComparisonsListed
<1>14. /\ comparisons.omitted \in Nat
       /\ comparisons.omitted = 0 => rows = all
       /\ IsList(rows) /\ Len(rows) \in Nat
       /\ Len(rows) <= MaxRows /\ Len(rows) <= Len(all) /\ Len(all) \in Nat
  BY <1>2, <1>3, <1>12, <1>13, SectionAgrees
<1>15. ASSUME NEW n \in DOMAIN rows
       PROVE  \E d : rows[n] = Comparison(input, d)
  <2>1. ToSet(rows) \subseteq ToSet(all)
    BY <1>2, <1>3, <1>12, <1>13, SectionRows DEF RowsOf
  <2>2. rows[n] \in ToSet(all)
    BY <1>15, <2>1 DEF ToSet
  <2>3. QED
    BY <1>13, <2>2
<1>16. ASSUME NEW n \in DOMAIN rows
       PROVE  /\ kept[n] \in Nat /\ kept[n] <= ComparisonBindings
              /\ CountsOmissions(rows[n])
              /\ rows[n].comparable => rows[n].omittedBindings > 0
  <2>1. PICK d : rows[n] = Comparison(input, d)
    BY <1>15
  <2>2. kept[n] = rows[n].emittedBindings
    BY <1>9
  <2>3. QED
    BY <2>1, <2>2, ComparisonCounted
<1>17. IsList(profiles) /\ DOMAIN profiles = DOMAIN input.entities
  <2>1. profiles = [n \in DOMAIN input.entities |-> profiles[n]]
    BY <1>6
  <2>2. QED
    BY <1>11, <2>1, MadeOfList
<1>18. ASSUME NEW n \in DOMAIN profiles
       PROVE  /\ left[n] \in Nat
              /\ taken[n] \in Nat /\ taken[n] <= ProfileBindings + ProfileMetrics
              /\ CountsOmissions(profiles[n])
              /\ \E e : profiles[n].contradictions
                          = SubjectContradictions(Evidence(input), e)
  <2>1. profiles[n] = Profile(input, input.entities[n])
    BY <1>6, <1>17
  <2>2. left[n] = profiles[n].latest.omitted /\ taken[n] = profiles[n].bindings
    BY <1>7, <1>8
  <2>3. QED
    BY <2>1, <2>2, ProfileCounted
<1>19. IsFiniteSet(DOMAIN profiles) /\ IsFiniteSet(DOMAIN rows)
  BY <1>14, <1>17, ListDomain, FS_Interval
<1>20. SumFunction(left) \in Nat
  <2>1. left \in [DOMAIN profiles -> Nat]
    BY <1>7, <1>18
  <2>2. QED
    BY <1>19, <2>1, SumIsNumber
<1>21. /\ RowOmissions(rows) \in Nat
       /\ RowOmissions(rows) = 0 => \A n \in DOMAIN rows : rows[n].omittedBindings = 0
  BY <1>14, <1>16, RowsCounted
<1>22. RowOmissions(profiles) \in Nat
  BY <1>17, <1>18, RowsCounted
<1>23. /\ IsList(others)
       /\ \A d \in ToSet(input.scope.dimensions) :
             \/ d \in ToSet(others)
             \/ d \in Observed(Evidence(input)) /\ Reasons(input, d) = {}
  BY <1>4, <1>11, ScopeListed, Zenon
<1>24. incomparable.omitted \in Nat /\ (incomparable.omitted = 0 => incomparable.rows = others)
  <2>1. MaxRows - Len(rows) \in Nat
    BY <1>12, <1>14
  <2>2. QED
    BY <1>5, <1>23, <2>1, SectionAgrees
<1>25. answer.complete =>
          /\ rows = all /\ incomparable.rows = others
          /\ \A n \in DOMAIN rows : rows[n].omittedBindings = 0
  <2>1. answer.complete => /\ comparisons.omitted = 0 /\ incomparable.omitted = 0
                           /\ RowOmissions(rows) = 0
    BY <1>10, <1>14, <1>20, <1>21, <1>22, <1>24
  <2>2. QED
    BY <1>14, <1>21, <1>24, <2>1
<1>26. ASSUME answer.complete, NEW row \in ToSet(rows) PROVE ~row.comparable
  <2>1. PICK n \in DOMAIN rows : row = rows[n]
    BY <1>26 DEF ToSet
  <2>2. rows[n].omittedBindings = 0
    BY <1>25, <1>26
  <2>3. QED
    BY <1>16, <2>1, <2>2
<1>27. ASSUME answer.complete, NEW d \in ToSet(input.scope.dimensions)
       PROVE  d \in ToSet(incomparable.rows)
  <2>1. CASE d \in Observed(Evidence(input)) /\ Reasons(input, d) = {}
    <3>1. Comparison(input, d) \in ToSet(rows)
      BY <1>13, <1>25, <1>27, <2>1
    <3>2. Comparison(input, d).comparable
      BY <2>1, ComparisonCounted
    <3>3. QED
      BY <1>26, <1>27, <3>1, <3>2
  <2>2. QED
    BY <1>23, <1>25, <1>27, <2>1
<1>28. ASSUME NEW profile \in ToSet(profiles), profile.contradictions > 0
       PROVE  answer.summary.material + answer.summary.opposing > 0
  <2>1. PICK n \in DOMAIN profiles : profile = profiles[n]
    BY <1>28 DEF ToSet
  <2>2. PICK e : profile.contradictions = SubjectContradictions(Evidence(input), e)
    BY <1>18, <2>1
  <2>3. Cardinality(MaterialGroups(Evidence(input)))
          + Cardinality(OpposingGroups(Evidence(input))) > 0
    BY <1>28, <2>2, FiniteEvidence, SubjectContradicts
  <2>4. /\ answer.summary.material = Cardinality(MaterialGroups(Evidence(input)))
        /\ answer.summary.opposing = Cardinality(OpposingGroups(Evidence(input)))
    BY <1>10 DEF ContradictionSummary
  <2>5. QED
    BY <2>3, <2>4
<1>29. ~(answer.emittedBindings > BindingBudget)
  <2>1. PICK p \in Nat : p = Len(input.entities) /\ p <= MaxEntities
    BY <1>11, ListDomain
  <2>2. PICK c \in Nat : c = Len(rows) /\ c <= MaxDimensions
    <3>1. MaxDimensions \in Nat
      BY MarketAssumption
    <3>2. QED
      BY <1>13, <1>14, <3>1
  <2>3. /\ DOMAIN profiles = 1..p /\ Cardinality(1..p) = p
        /\ DOMAIN rows = 1..c /\ Cardinality(1..c) = c
    <3>1. DOMAIN profiles = 1..p
      BY <1>11, <1>17, <2>1, ListDomain
    <3>2. DOMAIN rows = 1..c
      BY <1>14, <2>2, ListDomain
    <3>3. Cardinality(1..p) = p /\ Cardinality(1..c) = c
      BY FS_Interval
    <3>4. QED
      BY <3>1, <3>2, <3>3
  <2>4. taken \in [DOMAIN profiles -> Nat]
    BY <1>8, <1>18
  <2>5. kept \in [DOMAIN rows -> Nat]
    BY <1>9, <1>16
  <2>6. PICK a \in Nat : a = SumFunction(taken)
    BY <1>19, <2>4, SumIsNumber
  <2>7. PICK b \in Nat : b = SumFunction(kept)
    BY <1>19, <2>5, SumIsNumber
  <2>8. a <= p * (ProfileBindings + ProfileMetrics)
    BY <1>12, <1>18, <1>19, <2>3, <2>4, <2>6, SumIsBounded
  <2>9. b <= c * ComparisonBindings
    BY <1>12, <1>16, <1>19, <2>3, <2>5, <2>7, SumIsBounded
  <2>10. ~(a + b > BindingBudget)
    BY <2>1, <2>2, <2>8, <2>9, BudgetHolds
  <2>11. QED
    BY <1>10, <2>6, <2>7, <2>10
<1>30. QED
  BY <1>3, <1>10, <1>26, <1>27, <1>28, <1>29 DEF LandscapeAgrees, RowsOf

-----------------------------------------------------------------------------
(* The parts of an answer *)

LEMMA AnswerCounts ==
    ASSUME CountsAgree, [MarketNext]_marketVars
    PROVE  CountsAgree'
<1>1. ASSUME NEW input \in Researches, AnalyzeEvidence(input)
      PROVE  CountsAgree'
  <2>1. /\ market' # "compared" /\ market' # "over budget"
        /\ research' = input
        /\ market' = "analyzed" => Valid(input) /\ findings' = Analysis(input)
        /\ market' = "failed" =>
              \/ \E item \in Evidence(input) : item.blank
              \/ \E row \in ToSet(Analysis(input).trends.rows) : TooSteep(row)
    BY <1>1 DEF AnalyzeEvidence, Unbindable
  <2>2. CASE market' = "analyzed"
    <3>1. AnalysisAgrees(research', findings')
      BY <2>1, <2>2, AnalysisCounts
    <3>2. QED
      BY <2>2, <3>1 DEF CountsAgree, AnalysisAgrees
  <2>3. CASE market' = "failed"
    <3>1. Analysis(input).trends = Section(Trends(Evidence(input)), MaxTrends)
      BY DEF Analysis
    <3>2. IsList(Trends(Evidence(input)))
      BY FiniteEvidence, TrendRows
    <3>3. ToSet(Analysis(input).trends.rows) \subseteq ToSet(Trends(Evidence(input)))
      BY <3>1, <3>2, EvidenceAssumption, SectionRows DEF RowsOf
    <3>4. \/ \E item \in Evidence(research') : item.blank
          \/ \E row \in ToSet(Trends(Evidence(research'))) : TooSteep(row)
      BY <2>1, <2>3, <3>3
    <3>5. QED
      BY <2>3, <3>4 DEF CountsAgree
  <2>4. CASE market' # "analyzed" /\ market' # "failed"
    BY <2>1, <2>4 DEF CountsAgree
  <2>5. QED
    BY <2>2, <2>3, <2>4
<1>2. ASSUME NEW input \in Landscapes, CompareLandscape(input)
      PROVE  CountsAgree'
  <2>1. /\ market' # "analyzed" /\ research' = input
        /\ market' = "failed" => \E item \in Evidence(input) : item.blank
        /\ market' \in {"compared", "over budget"} => ValidLandscape(input)
        /\ market' = "compared" => findings' = Landscape(input)
        /\ market' = "over budget" => Landscape(input).emittedBindings > BindingBudget
    BY <1>2 DEF CompareLandscape, Unbindable
  <2>2. ASSUME market' \in {"compared", "over budget"}
        PROVE  LandscapeAgrees(input, Landscape(input))
    BY <2>1, <2>2, LandscapeCounts
  <2>3. market' # "over budget"
    BY <2>1, <2>2 DEF LandscapeAgrees
  <2>4. CASE market' = "compared"
    <3>1. LandscapeAgrees(research', findings')
      BY <2>1, <2>2, <2>4
    <3>2. QED
      BY <2>4, <3>1 DEF CountsAgree, LandscapeAgrees
  <2>5. CASE market' # "compared"
    BY <2>1, <2>3, <2>5 DEF CountsAgree
  <2>6. QED
    BY <2>4, <2>5
<1>3. CASE UNCHANGED marketVars
  BY <1>3 DEF marketVars, CountsAgree, Evidence, RowsOf
<1>4. QED
  BY <1>1, <1>2, <1>3 DEF MarketNext

\* The parts of an answer count the same evidence, for evidence of any size and
\* limits of any height: what the coverage score lacks are the metrics and
\* subjects that the gaps name, and an answer that says it is complete holds
\* every row and binding, which a landscape with a comparable dimension never
\* does.  The budget of bindings holds, and a valid request that gets no answer
\* has a blank statement or a percentage that cannot be represented
\* (analyze_market_evidence, compare_competitive_landscape).
THEOREM PartsOfAnswersAgree == MarketSpec => []CountsAgree
<1>1. MarketInit => CountsAgree
  BY DEF MarketInit, CountsAgree
<1>2. CountsAgree /\ [MarketNext]_marketVars => CountsAgree'
  BY AnswerCounts
<1>3. QED
  BY <1>1, <1>2, PTL DEF MarketSpec
=============================================================================

---------------------------- MODULE ContractRisks ----------------------------
(***************************************************************************)
(* The issue spotting of src/grandice_domain/legal.py: five rules for the  *)
(* wording of a clause, two for a category that is absent, and those of    *)
(* the caller's playbook, in the order of the code; at most MaxFindings    *)
(* findings are kept, the rest is counted.  A comparison reports which     *)
(* findings the revision keeps, resolves and adds.                         *)
(*                                                                         *)
(* One word stands for the phrases a rule treats alike.                    *)
(***************************************************************************)
EXTENDS ContractText

CONSTANTS MaxFindings,  (* MAX_FINDINGS                                    *)
          LongIds       (* policy ids of more than 73 characters           *)

ASSUME RisksAssumption == MaxFindings \in Nat

DocumentWide == "document"

Clauses(text) == Segments(text)
Categories(clauses) == {clauses[k].category : k \in DOMAIN clauses}

\* The wording rules: a rule fires when a clause of its categories holds all
\* the phrases of one of its grounds and none of the exceptions.
Rule(name, categories, grounds, unless) ==
    [name |-> name, categories |-> categories, grounds |-> grounds,
     unless |-> unless]

WordingRules ==
    << Rule("unlimited-liability", {"liability", "indemnity"},
            {{"unlimited liability"}}, {}),
       Rule("broad-indemnity", {"indemnity"}, {{"any and all claims"}}, {}),
       Rule("unilateral-termination", {"termination"},
            {{"customer may terminate"}}, {"either party may terminate"}),
       Rule("automatic-renewal", {"renewal", "term"},
            {{"automatically renew"}}, {}),
       Rule("assignment-imbalance", {"assignment"},
            {{"may assign without consent"},
             {"shall not assign", "without the prior written consent"}}, {}) >>

ExpectedCategories == <<"confidentiality", "data_protection">>
CapTerms == {"shall not exceed"}

\* A rule with its parameter, a category or a policy id.
Finding(rule, parameter, clauses, k, matched) ==
    [rule |-> rule, parameter |-> parameter, clause |-> k, matched |-> matched,
     category |-> IF k = 0 THEN DocumentWide ELSE clauses[k].category]

Listed(condition, finding) == IF condition THEN <<finding>> ELSE <<>>

ClauseWords(clause) == WordsOf(clause.body)

WordingFindings(clauses) ==
    FlattenSeq([k \in DOMAIN clauses |->
        FlattenSeq([r \in DOMAIN WordingRules |->
            LET rule == WordingRules[r]
                words == ClauseWords(clauses[k])
            IN Listed(/\ clauses[k].category \in rule.categories
                      /\ \E ground \in rule.grounds : ground \subseteq words
                      /\ rule.unless \cap words = {},
                      Finding(rule.name, "", clauses, k,
                              words \cap UNION rule.grounds))])])

GapFindings(clauses, categories, prefix) ==
    FlattenSeq([n \in DOMAIN categories |->
        Listed(categories[n] \notin Categories(clauses),
               Finding(prefix, categories[n], clauses, 0, {}))])

MissingCap(clauses, playbook) ==
    LET liability == {k \in DOMAIN clauses : clauses[k].category = "liability"}
    IN Listed(/\ playbook.capRequired
              /\ \A k \in liability : CapTerms \cap ClauseWords(clauses[k]) = {},
              Finding("missing-liability-cap", "", clauses, 0, {}))

\* A prohibited phrase may stand where no clause is: behind the last segment
\* that is kept.
ProhibitedFindings(text, clauses, playbook) ==
    FlattenSeq([n \in DOMAIN playbook.prohibited |->
        LET phrase == playbook.prohibited[n]
            holders == {k \in DOMAIN clauses :
                            phrase \in ClauseWords(clauses[k])}
            holder == IF holders = {} THEN 0
                      ELSE CHOOSE k \in holders : \A l \in holders : k <= l
        IN Listed(phrase \in WordsOf(text),
                  Finding("prohibited-phrase", "", clauses, holder, {phrase}))])

LawMismatch(clauses, playbook) ==
    LET laws == {k \in DOMAIN clauses : clauses[k].category = "governing_law"}
    IN Listed(/\ playbook.law # {}
              /\ laws # {}
              /\ \A k \in laws : playbook.law \cap ClauseWords(clauses[k]) = {},
              Finding("governing-law-mismatch", "", clauses,
                      CHOOSE k \in laws : \A l \in laws : k <= l,
                      playbook.law))

PolicyFindings(clauses, playbook) ==
    FlattenSeq([p \in DOMAIN playbook.policies |->
        LET policy == playbook.policies[p]
        IN FlattenSeq([k \in DOMAIN clauses |->
            LET matched == policy.phrases \cap ClauseWords(clauses[k])
            IN Listed(/\ policy.categories = {}
                            \/ clauses[k].category \in policy.categories
                      /\ \/ matched # {}
                         \/ policy.phrases = {} /\ policy.categories # {},
                      Finding("policy", policy.id, clauses, k, matched))])])

\* What the type of a playbook holds.
IsPlaybook(playbook) ==
    /\ IsList(playbook.required)
    /\ IsList(playbook.prohibited)
    /\ IsList(playbook.policies)

\* An absent playbook is one that asks for nothing.
NoPlaybook ==
    [required |-> <<>>, capRequired |-> FALSE, prohibited |-> <<>>,
     law |-> {}, policies |-> <<>>]

\* _collect_legal_risks() without its cap.
AllFindings(text, playbook) ==
    LET clauses == Clauses(text)
    IN WordingFindings(clauses)
       \o GapFindings(clauses, ExpectedCategories, "gap")
       \o GapFindings(clauses, playbook.required, "missing")
       \o MissingCap(clauses, playbook)
       \o ProhibitedFindings(text, clauses, playbook)
       \o LawMismatch(clauses, playbook)
       \o PolicyFindings(clauses, playbook)

Findings(text, playbook) == AtMost(AllFindings(text, playbook), MaxFindings)

OmittedFindings(text, playbook) ==
    Len(AllFindings(text, playbook)) - Len(Findings(text, playbook))

\* The rule id of a policy is its id behind "policy-".  OpaqueId holds both to
\* 80 characters, so the finding of a policy with a long id cannot be built.
Unnameable(findings) ==
    \E n \in DOMAIN findings :
        findings[n].rule = "policy" /\ findings[n].parameter \in LongIds

\* _risk_delta_key(): what makes two findings the same in a comparison.
DeltaKey(finding) ==
    [rule |-> finding.rule, parameter |-> finding.parameter,
     category |-> finding.category,
     phrase |-> IF finding.rule = "prohibited-phrase"
                THEN finding.matched ELSE {}]

Occurrences(findings, key) ==
    Cardinality({n \in DOMAIN findings : DeltaKey(findings[n]) = key})

\* The risk ids of the delta: a key and a number.
DeltaIds(findings) ==
    UNION {{<<key, n>> : n \in 1 .. Occurrences(findings, key)} :
              key \in {DeltaKey(findings[n]) : n \in DOMAIN findings}}

RiskDelta(old, new) ==
    [persistent |-> DeltaIds(old) \cap DeltaIds(new),
     resolved |-> DeltaIds(old) \ DeltaIds(new),
     new |-> DeltaIds(new) \ DeltaIds(old)]
=============================================================================

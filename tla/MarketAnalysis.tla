--------------------------- MODULE MarketAnalysis ---------------------------
(***************************************************************************)
(* The two market analyses of src/grandice_domain/market.py:               *)
(* analyze_market_evidence() and compare_competitive_landscape().          *)
(*                                                                         *)
(* The code calls each on a validated input and gets an answer, or an      *)
(* exception: the answer of a pure function is one step.                   *)
(***************************************************************************)
EXTENDS MarketEvidence

CONSTANTS MaxDimensions,       (* MAX_SCOPE_METRICS                        *)
          MaxEntities,         (* MAX_ENTITIES                             *)
          MaxRows,             (* MAX_OUTPUT_ROWS                          *)
          ProfileMetrics,      (* MAX_PROFILE_METRICS                      *)
          ProfileBindings,     (* MAX_PROFILE_BINDINGS                     *)
          ComparisonBindings,  (* MAX_COMPARISON_BINDINGS                  *)
          BindingBudget,       (* MAX_COMPETITIVE_TOTAL_BINDINGS           *)
          Researches,          (* inputs of analyze_market_evidence()      *)
          Landscapes           (* inputs of compare_competitive_landscape()*)

ASSUME MarketAssumption ==
    {MaxDimensions, MaxEntities, MaxRows, ProfileMetrics, ProfileBindings,
     ComparisonBindings, BindingBudget} \subseteq Nat

\* The budget is what all profiles and a comparison of every dimension can take,
\* 250 = 25 * (2 + 4) + 100 * 1 in the code.
ASSUME BudgetAssumption ==
    /\ ComparisonBindings <= 1
    /\ MaxEntities * (ProfileBindings + ProfileMetrics)
         + MaxDimensions * ComparisonBindings <= BindingBudget

\* What the types of the request hold before anything is validated here.
ASSUME RequestAssumption ==
    /\ \A input \in Researches \cup Landscapes :
          /\ IsList(input.evidence)
          /\ IsList(input.scope.subjects)
          /\ IsList(input.scope.dimensions)
          /\ ToSet(input.scope.dimensions) \subseteq Nat
          /\ \A item \in ToSet(input.evidence) :
                /\ item.end \in Int /\ item.subject \in Nat
                /\ item.dimension \in Nat /\ item.blank \in BOOLEAN
    /\ \A input \in Landscapes : IsList(input.entities)

VARIABLES market,    (* "idle" or how the request ended: "refused",        *)
                     (* "analyzed", "compared", "failed" or "over budget"  *)
          research,  (* the input of the request                           *)
          findings   (* the answer                                         *)

marketVars == <<market, research, findings>>

Nothing == [complete |-> FALSE]

MarketInit == market = "idle" /\ research = Nothing /\ findings = Nothing

Evidence(input) == ToSet(input.evidence)

\* MAX_SCOPE_METRICS bounds the dimensions of a scope, and so those of the
\* evidence.
Valid(input) ==
    /\ Len(input.scope.dimensions) <= MaxDimensions
    /\ input.evidence # <<>>
    /\ ValidResearch(input)

-----------------------------------------------------------------------------
(* The evidence of one market                                              *)

Omitted(rows, limit) == Len(rows) - Len(AtMost(rows, limit))

\* A list with its SectionCounts.
Section(rows, limit) ==
    [rows |-> AtMost(rows, limit), omitted |-> Omitted(rows, limit)]

\* The bindings, and the values if a row has them, that rows have left out.
RowOmissions(rows) ==
    SumFunction([n \in DOMAIN rows |->
              rows[n].omittedBindings
              + IF "omittedValues" \in DOMAIN rows[n]
                THEN rows[n].omittedValues ELSE 0])

Analysis(input) ==
    LET items == Evidence(input)
        latest == Section(LatestMetrics(items, MaxBindings), MaxLatest)
        trends == Section(Trends(items), MaxTrends)
        contradictions == Section(ContradictionRows(items), MaxContradictions)
        gaps == Section(Gaps(input), MaxGaps)
        omitted == latest.omitted + trends.omitted + contradictions.omitted
                   + gaps.omitted
        unbound == RowOmissions(latest.rows) + RowOmissions(trends.rows)
                   + SumFunction([n \in DOMAIN contradictions.rows |->
                       OmittedBindings(contradictions.rows[n], MaxBindings)])
                   + RowOmissions(gaps.rows)
    IN [latest |-> latest, trends |-> trends,
        contradictions |-> contradictions, gaps |-> gaps,
        summary |-> ContradictionSummary(items),
        gapCount |-> [type \in {"no_evidence", "missing_metric",
                                "single_source", "stale_evidence"} |->
                         GapCount(input, type)],
        coverage |-> Coverage(input),
        shares |-> SourceShares(items),
        signals |-> Signals(items),
        observed |-> ObservationRecency(input, items),
        sourceDates |-> SourceRecency(input, items),
        omitted |-> omitted,
        omittedBindings |-> unbound,
        complete |-> omitted = 0 /\ unbound = 0]

-----------------------------------------------------------------------------
(* Competitors                                                             *)

ValidLandscape(input) ==
    /\ 2 <= Len(input.entities) /\ Len(input.entities) <= MaxEntities
    /\ Distinct(input.entities)
    /\ ToSet(input.entities) = ToSet(input.scope.subjects)
    /\ \A item \in Evidence(input) : item.type = "entity"
    /\ Valid(input)

Observed(items) == {key[2] : key \in MetricKeys(items)}
Present(items, d) == {key[1] : key \in {k \in MetricKeys(items) : k[2] = d}}
LatestOf(items, entity, d) == LatestRow(items, <<entity, d>>, 1)

\* Why the latest values in one dimension cannot be compared.
Reasons(input, d) ==
    LET items == Evidence(input)
        present == Present(items, d)
        rows == {LatestOf(items, entity, d) : entity \in present}
        variants == {e \in Observed(items) :
                        Dimensions[e].name = Dimensions[d].name}
        reason(condition, name) == IF condition THEN {name} ELSE {}
        differ(values) == Cardinality(values) > 1
    IN reason(Cardinality(present) < 2, "fewer_than_two_entities")
       \cup reason(ToSet(input.entities) \ present # {}, "missing_entities")
       \cup reason(differ({row.end : row \in rows}), "period_end_mismatch")
       \cup reason(differ({row.start : row \in rows}), "period_start_mismatch")
       \cup reason(\E row \in rows : row.disputed, "disputed_latest_value")
       \cup reason(Dimensions[d].basis = "unknown", "unknown_accounting_basis")
       \cup reason(differ({Dimensions[e].unit : e \in variants}), "unit_mismatch")

Comparison(input, d) ==
    LET items == Evidence(input)
        present == Present(items, d)
        latest == UNION {EndingAt(items, <<entity, d>>,
                                  LatestOf(items, entity, d).end) :
                            entity \in present}
        \* every row brings one of its bindings, and one of those is kept
        emitted == Capped(Cardinality(present), ComparisonBindings)
    IN [dimension |-> d,
        values |-> [entity \in present |-> LatestOf(items, entity, d)],
        missing |-> ToSet(input.entities) \ present,
        reasons |-> Reasons(input, d),
        comparable |-> Reasons(input, d) = {},
        emittedBindings |-> emitted,
        omittedBindings |-> Cardinality(latest) - emitted]

MetricComparisons(input) ==
    LET order == InOrder(Observed(Evidence(input)), <)
    IN [n \in DOMAIN order |-> Comparison(input, order[n])]

\* The dimensions that are not comparable, and behind them those of the scope
\* that nothing was observed in.
Incomparable(input) ==
    LET dimensions == input.scope.dimensions
        observed == Observed(Evidence(input))
    IN InOrder({d \in observed : Reasons(input, d) # {}}, <)
       \o Those(dimensions, ToSet(dimensions) \ observed)

Profile(input, entity) ==
    LET items == About(Evidence(input), entity)
        latest == Section(LatestMetrics(items, 1), ProfileMetrics)
    IN [entity |-> entity,
        latest |-> latest,
        contradictions |-> SubjectContradictions(Evidence(input), entity),
        bindings |-> Capped(Cardinality(items), ProfileBindings)
                     + Len(latest.rows),
        omittedBindings |-> OmittedBindings(items, ProfileBindings)
                            + RowOmissions(latest.rows)]

Landscape(input) ==
    LET comparisons == Section(MetricComparisons(input), MaxRows)
        incomparable == Section(Incomparable(input),
                                MaxRows - Len(comparisons.rows))
        profiles == [n \in DOMAIN input.entities |->
                        Profile(input, input.entities[n])]
        rows == comparisons.rows
        omitted == comparisons.omitted + incomparable.omitted
                   + SumFunction([n \in DOMAIN profiles |->
                               profiles[n].latest.omitted])
        unbound == RowOmissions(rows) + RowOmissions(profiles)
    IN [comparisons |-> comparisons, incomparable |-> incomparable,
        profiles |-> profiles,
        missing |-> {e \in ToSet(input.entities) :
                        About(Evidence(input), e) = {}},
        summary |-> ContradictionSummary(Evidence(input)),
        emittedBindings |->
            SumFunction([n \in DOMAIN profiles |-> profiles[n].bindings])
            + SumFunction([n \in DOMAIN rows |-> rows[n].emittedBindings]),
        omitted |-> omitted,
        omittedBindings |-> unbound,
        complete |-> omitted = 0 /\ unbound = 0]

-----------------------------------------------------------------------------
(* Steps                                                                   *)

\* Every item is bound for the provenance of an answer, and a statement of
\* nothing but white space has no excerpt to bind it with.
Unbindable(input) == \E item \in Evidence(input) : item.blank

\* A row or a binding that cannot be built is an exception.
AnalyzeEvidence(input) ==
    LET answer == Analysis(input)
    IN /\ market = "idle"
       /\ research' = input
       /\ IF ~Valid(input)
          THEN market' = "refused" /\ UNCHANGED findings
          ELSE IF \/ \E row \in ToSet(answer.trends.rows) : TooSteep(row)
                  \/ Unbindable(input)
          THEN market' = "failed" /\ UNCHANGED findings
          ELSE market' = "analyzed" /\ findings' = answer

\* Going over the budget of bindings is an internal error.
CompareLandscape(input) ==
    LET answer == Landscape(input)
    IN /\ market = "idle"
       /\ research' = input
       /\ IF ~ValidLandscape(input)
          THEN market' = "refused" /\ UNCHANGED findings
          ELSE IF Unbindable(input)
          THEN market' = "failed" /\ UNCHANGED findings
          ELSE IF answer.emittedBindings > BindingBudget
          THEN market' = "over budget" /\ UNCHANGED findings
          ELSE market' = "compared" /\ findings' = answer

MarketNext ==
    \/ \E input \in Researches : AnalyzeEvidence(input)
    \/ \E input \in Landscapes : CompareLandscape(input)

MarketSpec == MarketInit /\ [][MarketNext]_marketVars

-----------------------------------------------------------------------------
(* Properties                                                              *)

RowsOf(section) == ToSet(section.rows)

\* Two values for one metric and one period, far enough apart to be reported
\* as a contradiction, leave no part of the answer in which one of them passes
\* for the value: the latest row, every trend that starts or ends there and
\* the comparison of that dimension are disputed and state none.  And a value
\* that is stated is the one that all the evidence for it gives
\* (_latest_metrics, _trends, _contradictions, compare_competitive_landscape).
DisputesAgree ==
    LET items == Evidence(research)
        contested(key, end) ==
            \E group \in MaterialGroups(items) :
                \E item \in group : KeyOf(item) = key /\ item.end = end
        agreed(key, end, values) ==
            \A item \in EndingAt(items, key, end) : values = {item.value}
    IN /\ market = "analyzed" =>
            /\ \A row \in RowsOf(findings.latest) :
                  /\ contested(row.key, row.end) => row.disputed /\ row.value = {}
                  /\ ~row.disputed => agreed(row.key, row.end, row.value)
            /\ \A row \in RowsOf(findings.trends) :
                  /\ contested(row.key, row.from) \/ contested(row.key, row.to) =>
                        row.disputed /\ row.endValue = {}
                  /\ ~row.disputed => /\ agreed(row.key, row.from, row.startValue)
                                      /\ agreed(row.key, row.to, row.endValue)
       /\ market = "compared" =>
            \A row \in RowsOf(findings.comparisons) :
                /\ \A e \in DOMAIN row.values :
                      contested(<<e, row.dimension>>, row.values[e].end) =>
                          row.values[e].value = {} /\ ~row.comparable
                /\ row.comparable =>
                      \A e, f \in ToSet(research.entities) :
                          /\ row.values[e].start = row.values[f].start
                          /\ row.values[e].end = row.values[f].end
                          /\ row.values[e].value # {}

\* The parts of an answer count the same evidence: what the coverage score
\* lacks are the metrics and subjects the gaps name; the lists and their
\* counts agree.
\* An answer is complete exactly if every row and every binding is in it, and
\* so a landscape that finds two entities comparable never is: one binding is
\* kept of two or more.
\* A valid request gets an answer, unless a statement is blank or a value moves
\* so far from near zero that its percentage does not fit; the budget of
\* bindings, which would be an internal error, holds.
CountsAgree ==
    /\ market = "analyzed" =>
          LET dims == Len(research.scope.dimensions)
              subjects == Len(research.scope.subjects)
              absent == findings.gapCount["missing_metric"]
                        + dims * findings.gapCount["no_evidence"]
          IN /\ dims > 0 => findings.coverage.metrics =
                               Points(dims * subjects - absent, dims * subjects)
             /\ findings.coverage.subjects =
                   Points(subjects - findings.gapCount["no_evidence"], subjects)
             /\ Len(findings.contradictions.rows)
                   + findings.contradictions.omitted
                   = findings.summary.material + findings.summary.opposing
             /\ findings.summary.material <= findings.summary.disagreements
             /\ findings.complete =>
                   /\ Len(findings.gaps.rows) =
                         absent - dims * findings.gapCount["no_evidence"]
                         + findings.gapCount["no_evidence"]
                         + findings.gapCount["single_source"]
                         + findings.gapCount["stale_evidence"]
                   /\ {row.key : row \in RowsOf(findings.latest)} =
                         MetricKeys(Evidence(research))
    /\ market = "compared" =>
          /\ findings.complete =>
                /\ \A row \in RowsOf(findings.comparisons) : ~row.comparable
                /\ \A d \in ToSet(research.scope.dimensions) :
                      d \in ToSet(findings.incomparable.rows)
          /\ \A profile \in ToSet(findings.profiles) :
                profile.contradictions > 0 =>
                    findings.summary.material + findings.summary.opposing > 0
    /\ market # "over budget"
    /\ market = "failed" =>
          \/ \E item \in Evidence(research) : item.blank
          \/ \E row \in ToSet(Trends(Evidence(research))) : TooSteep(row)
=============================================================================

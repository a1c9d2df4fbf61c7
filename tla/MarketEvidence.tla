--------------------------- MODULE MarketEvidence ---------------------------
(***************************************************************************)
(* The synthesis of caller-provided evidence in                            *)
(* src/grandice_domain/market.py: the latest value of each metric, its     *)
(* trends, contradictions between sources, research gaps and the coverage  *)
(* score.  Every list is cut off at its limit and says what it left out.   *)
(*                                                                         *)
(* An item of evidence is about a subject and may state a metric: a        *)
(* dimension, a value and the period it is for.  Dates, subjects and       *)
(* dimensions are numbers, in the order in which the code sorts them; a    *)
(* dimension is an index into Dimensions.  The unit stands for all the     *)
(* fields in which dimensions of one name can differ.  Bindings, the       *)
(* excerpts that go with a row, are counted; a statement matters only in   *)
(* that it may be blank.                                                   *)
(***************************************************************************)
EXTENDS DomainCommon

CONSTANTS Dimensions,     (* MetricDimension: name, unit and period        *)
          Durations,      (* the least and the most days of each period    *)
          Ages,           (* the last days of the buckets of a recency     *)
          Epsilon,        (* the least spread that is material             *)
          SteepestChange, (* the first percentage ExactDecimal refuses     *)
          MaxLatest, MaxTrends, MaxContradictions, MaxGaps,
          MaxBindings     (* MAX_BINDINGS_PER_OUTPUT                       *)

ASSUME EvidenceAssumption ==
    /\ Epsilon \in Nat \ {0}
    /\ SteepestChange \in Nat
    /\ {MaxLatest, MaxTrends, MaxContradictions, MaxGaps, MaxBindings}
         \subseteq Nat

NoDimension == 0
NoDate == -1

Highest(S) == CHOOSE x \in S : \A y \in S : y <= x
Lowest(S) == CHOOSE x \in S : \A y \in S : x <= y
Magnitude(x) == IF x < 0 THEN -x ELSE x
Capped(n, limit) == IF n < limit THEN n ELSE limit
Successive(S) ==   \* the neighbours in a set of dates
    {p \in S \X S : p[1] < p[2] /\ \A c \in S : c <= p[1] \/ p[2] <= c}

-----------------------------------------------------------------------------
(* Inputs                                                                  *)

IsMetric(item) == item.dimension # NoDimension

ValidPeriod(item) ==
    LET period == Dimensions[item.dimension].period
        days == item.end - item.start
    IN IF period = "instant" THEN item.start = NoDate
       ELSE /\ item.start # NoDate
            /\ item.start < item.end
            /\ Durations[period].least <= days /\ days <= Durations[period].most

ValidItem(item) ==
    IsMetric(item) => item.end <= item.observed /\ ValidPeriod(item)

ValidScope(scope) ==
    /\ scope.start <= scope.end
    /\ Distinct(scope.subjects)
    /\ Distinct(scope.dimensions)

ValidResearch(input) ==
    LET evidence == ToSet(input.evidence)
    IN /\ ValidScope(input.scope)
       /\ \A item \in evidence : ValidItem(item)
       /\ ValidSources(input)
       /\ input.scope.end <= input.asOf
       /\ Distinct([n \in DOMAIN input.evidence |-> input.evidence[n].id])
       /\ \A item \in evidence :
             /\ IsMetric(item) => Contains(input.scope.dimensions, item.dimension)
             /\ item.source \in SourceIds(input)
             /\ Contains(input.scope.subjects, item.subject)
             /\ input.scope.start <= item.observed
             /\ item.observed <= input.scope.end
             /\ item.observed <= SourceOf(input, item.source).asOf
             /\ \A other \in evidence :
                   other.subject = item.subject => other.type = item.type

-----------------------------------------------------------------------------
(* Metrics; items is a set of evidence                                     *)

KeyOf(item) == <<item.subject, item.dimension>>
Metrics(items) == {item \in items : IsMetric(item)}
MetricKeys(items) == {KeyOf(item) : item \in Metrics(items)}
Ends(items, key) == {item.end : item \in {i \in Metrics(items) : KeyOf(i) = key}}
EndingAt(items, key, end) ==
    {item \in Metrics(items) : KeyOf(item) = key /\ item.end = end}

ValuesOf(items) == {item.value : item \in items}
StartsOf(items) == {item.start : item \in items}
StartDisputed(items) == Cardinality(StartsOf(items)) > 1
\* Mutant of IsDisputed: "and" for "or".
DisputedTwice(items) ==
    Cardinality(ValuesOf(items)) > 1 /\ StartDisputed(items)

IsDisputed(items) == Cardinality(ValuesOf(items)) > 1 \/ StartDisputed(items)
AgreedValues(items) == IF IsDisputed(items) THEN {} ELSE ValuesOf(items)

\* What a row of at most `limit` bindings leaves out of these items.
OmittedBindings(items, limit) ==
    Cardinality(items) - Capped(Cardinality(items), limit)

EarlierKey(a, b) == a[1] < b[1] \/ (a[1] = b[1] /\ a[2] < b[2])
KeysInOrder(items) == InOrder(MetricKeys(items), EarlierKey)

\* The item of the latest that the row takes its dimension and start from.
Representative(latest) ==
    CHOOSE item \in latest :
        \A other \in latest :
            \/ other.observed < item.observed
            \/ other.observed = item.observed /\ other.id <= item.id

LatestRow(items, key, limit) ==
    LET end == Highest(Ends(items, key))
        latest == EndingAt(items, key, end)
        reported == Cardinality(ValuesOf(latest))
    IN [key |-> key, end |-> end,
        start |-> Representative(latest).start,
        value |-> AgreedValues(latest),
        disputed |-> IsDisputed(latest),
        bindings |-> Cardinality(latest),
        omittedBindings |-> OmittedBindings(latest, limit),
        omittedValues |-> reported - Capped(reported, MaxBindings)]

LatestMetrics(items, limit) ==
    LET keys == KeysInOrder(items)
    IN [n \in DOMAIN keys |-> LatestRow(items, keys[n], limit)]

TrendRow(items, key, from, to) ==
    LET starting == EndingAt(items, key, from)
        ending == EndingAt(items, key, to)
        disputed == IsDisputed(starting) \/ IsDisputed(ending)
        values(endpoint) == IF disputed THEN {} ELSE ValuesOf(endpoint)
    IN [key |-> key, from |-> from, to |-> to, disputed |-> disputed,
        startValue |-> values(starting),
        endValue |-> values(ending),
        omittedBindings |-> OmittedBindings(starting \cup ending, MaxBindings)]

Trends(items) ==
    LET keys == KeysInOrder(items)
        earlier(a, b) == a[1] < b[1]
        of(key) == InOrder(Successive(Ends(items, key)), earlier)
    IN FlattenSeq([n \in DOMAIN keys |->
          [m \in DOMAIN of(keys[n]) |->
              TrendRow(items, keys[n], of(keys[n])[m][1], of(keys[n])[m][2])]])

\* percentage_change holds less than 1E25; a row that would say more cannot be
\* built.  From zero there is no percentage.
TooSteep(row) ==
    \E v \in row.startValue \ {0}, w \in row.endValue :
        100 * Magnitude(w - v) >= SteepestChange * Magnitude(v)

-----------------------------------------------------------------------------
(* Contradictions                                                          *)

PeriodKey(item) == <<item.subject, item.dimension, item.start, item.end>>
PeriodGroups(items) ==
    {{i \in Metrics(items) : PeriodKey(i) = PeriodKey(item)} :
        item \in Metrics(items)}

Disagreeing(items) ==
    {group \in PeriodGroups(items) : Cardinality(ValuesOf(group)) > 1}

\* They differ by 1% of the largest or more, and by Epsilon at least.
Material(group) ==
    LET spread == Highest(ValuesOf(group)) - Lowest(ValuesOf(group))
    IN /\ spread >= Epsilon
       /\ 100 * spread >= Highest({Magnitude(v) : v \in ValuesOf(group)})

MaterialGroups(items) == {group \in Disagreeing(items) : Material(group)}

Signalling(items, key) ==
    {item \in items : KeyOf(item) = key /\ item.signal # "none"}
SignalKeys(items) == {KeyOf(item) : item \in items}
SignalsOn(items, key, day) ==
    {item.signal : item \in {i \in Signalling(items, key) : i.observed = day}}
SignalDays(items, key) == {item.observed : item \in Signalling(items, key)}

OpposingGroups(items) ==
    {{i \in Signalling(items, at[1]) :
         i.observed = at[2] /\ i.signal \in {"positive", "negative"}} :
       at \in {keyDay \in SignalKeys(items) \X {i.observed : i \in items} :
                 {"positive", "negative"} \subseteq
                     SignalsOn(items, keyDay[1], keyDay[2])}}

\* A day whose signals are not one clear direction is ambiguous.
Ambiguous(signals) == Cardinality(signals) # 1 \/ "mixed" \in signals
Transitions(items) ==
    UNION {{<<key, days>> : days \in Successive(SignalDays(items, key))} :
              key \in SignalKeys(items)}
Before(items, t) == SignalsOn(items, t[1], t[2][1])
After(items, t) == SignalsOn(items, t[1], t[2][2])
AmbiguousTransitions(items) ==
    {t \in Transitions(items) :
        Ambiguous(Before(items, t)) \/ Ambiguous(After(items, t))}
Reversals(items) ==
    {t \in Transitions(items) \ AmbiguousTransitions(items) :
        Before(items, t) \cup After(items, t) = {"positive", "negative"}}

\* The rows: metric contradictions first.  A set has no order here, a
\* contradiction is told by its items.
ContradictionRows(items) ==
    SetToSeq(MaterialGroups(items)) \o SetToSeq(OpposingGroups(items))

ContradictionSummary(items) ==
    [disagreements |-> Cardinality(Disagreeing(items)),
     material |-> Cardinality(MaterialGroups(items)),
     opposing |-> Cardinality(OpposingGroups(items)),
     reversals |-> Cardinality(Reversals(items)),
     ambiguous |-> Cardinality(AmbiguousTransitions(items))]

SubjectContradictions(items, subject) ==
    LET about(groups) ==
            {group \in groups : \E item \in group : item.subject = subject}
    IN Cardinality(about(MaterialGroups(items)))
       + Cardinality(about(OpposingGroups(items)))

-----------------------------------------------------------------------------
(* Gaps, coverage and recency                                              *)

About(items, subject) == {item \in items : item.subject = subject}
Sources(items) == {item.source : item \in items}
YearOld == Ages[3]

Gap(subject, type, dimension, items) ==
    [subject |-> subject, type |-> type, dimension |-> dimension,
     omittedBindings |-> OmittedBindings(items, MaxBindings)]

\* Mutant of MissingMetrics: what is known of any subject is not missing.
MissingEverywhere(input, subject, items) ==
    LET known == {item.dimension : item \in ToSet(input.evidence)}
        missing == Those(input.scope.dimensions, ToSet(input.scope.dimensions) \ known)
    IN [n \in DOMAIN missing |->
           Gap(subject, "missing_metric", missing[n], items)]

MissingMetrics(input, subject, items) ==
    LET dimensions == input.scope.dimensions
        missing == Those(dimensions, {d \in ToSet(dimensions) :
                                         <<subject, d>> \notin MetricKeys(items)})
    IN [n \in DOMAIN missing |->
           Gap(subject, "missing_metric", missing[n], items)]

SubjectGaps(input, subject) ==
    LET items == About(ToSet(input.evidence), subject)
        gap(type) == <<Gap(subject, type, NoDimension, items)>>
    IN IF items = {} THEN gap("no_evidence")
       ELSE (IF Cardinality(Sources(items)) = 1 THEN gap("single_source")
             ELSE <<>>)
            \o (IF \A item \in items : input.asOf - item.observed > YearOld
                THEN gap("stale_evidence") ELSE <<>>)
            \o MissingMetrics(input, subject, items)

Gaps(input) ==
    FlattenSeq([n \in DOMAIN input.scope.subjects |->
                   SubjectGaps(input, input.scope.subjects[n])])

GapCount(input, type) ==
    Cardinality({n \in DOMAIN Gaps(input) : Gaps(input)[n].type = type})

\* The four components of the score, in millionths of a point.
Points(part, whole) == RoundHalfEven(25000000 * part, whole)

SourceDates(input, items) ==
    [id \in Sources(items) |-> SourceOf(input, id).asOf]

Coverage(input) ==
    LET items == ToSet(input.evidence)
        dates == SourceDates(input, items)
        recent == {id \in DOMAIN dates : input.asOf - dates[id] <= Ages[2]}
        subjects == ToSet(input.scope.subjects)
        expected == subjects \X ToSet(input.scope.dimensions)
    IN [subjects |-> Points(Cardinality({item.subject : item \in items}),
                            Cardinality(subjects)),
        metrics |-> IF expected = {} THEN Points(1, 1)
                    ELSE Points(Cardinality(MetricKeys(items) \cap expected),
                                Cardinality(expected)),
        sources |-> Points(Capped(Cardinality(Sources(items)), 3), 3),
        recency |-> Points(Cardinality(recent), Cardinality(DOMAIN dates))]

\* How many of these dates fall into each bucket of ages, one per element.
Recency(dates, asOf) ==
    [bucket \in 1 .. 4 |->
        Cardinality({x \in DOMAIN dates :
            /\ bucket = 1 \/ asOf - dates[x] > Ages[bucket - 1]
            /\ bucket = 4 \/ asOf - dates[x] <= Ages[bucket]})]

ObservationRecency(input, items) ==
    Recency([item \in items |-> item.observed], input.asOf)
SourceRecency(input, items) == Recency(SourceDates(input, items), input.asOf)

SourceShares(items) ==   \* in millionths
    [id \in Sources(items) |->
        RoundHalfEven(1000000 * Cardinality({i \in items : i.source = id}),
                      Cardinality(items))]

Signals(items) ==
    [signal \in {"positive", "negative", "stable", "mixed", "none"} |->
        Cardinality({item \in items : item.signal = signal})]
=============================================================================

----------------------------- MODULE MCTransient -----------------------------
(***************************************************************************)
(* The parts that keep nothing from one request to the next: contract      *)
(* reviews, market analyses and the privacy proxy.  They do not interact,  *)
(* so that the instance checks them one at a time: a behaviour is one      *)
(* legal request, one market request, or the requests and notes of the     *)
(* privacy proxy in every order.                                           *)
(***************************************************************************)
EXTENDS ContractComparison, MarketAnalysis, PrivacyProxy

CONSTANTS r1, r2

MCSources == <<[id |-> "s", asOf |-> 3], [id |-> "t", asOf |-> 4]>>
TwinSources == <<[id |-> "s", asOf |-> 3], [id |-> "s", asOf |-> 4]>>
LateSources == <<[id |-> "s", asOf |-> 3], [id |-> "t", asOf |-> 5]>>

-----------------------------------------------------------------------------
(* Contracts                                                               *)

Line(form, words) == [form |-> form, words |-> words]
BlankLine == Line("blank", {})

MCTaxonomy ==
    << [category |-> "governing_law", terms |-> {"governing law"}],
       [category |-> "confidentiality", terms |-> {"confidentiality"}],
       [category |-> "liability", terms |-> {"liability", "damages"}],
       [category |-> "termination", terms |-> {"termination"}],
       [category |-> "term", terms |-> {"term", "termination"}] >>

Lines ==
    {BlankLine,
     Line("plain", {"unlimited liability", "liability"}),
     Line("plain", {"customer may terminate", "either party may terminate"}),
     Line("plain", {"customer may terminate"}),
     Line("plain", {"governing law", "of this state"}),
     Line("numbered", {"agreement"}),
     Line("numbered", {"liability", "damages"}),
     Line("titled", {"termination", "term"}),
     Line("titled", {"other"})}

\* The second policy has an id too long for its finding, and applies to few.
MCPlaybook ==
    [required |-> <<"confidentiality", "liability">>,
     capRequired |-> TRUE,
     prohibited |-> <<"customer may terminate", "b">>,
     law |-> {"of this state", "of that state"},
     policies |->
        << [id |-> "p", categories |-> {"termination"}, phrases |-> {}],
           [id |-> "long", categories |-> {"unknown"}, phrases |-> {"other"}] >>]
LongPlaybook == [NoPlaybook EXCEPT !.policies = <<MCPlaybook.policies[2]>>]
TwinPlaybook == [NoPlaybook EXCEPT !.required = <<"term", "term">>]

MCDocument(id, text) == [id |-> id, source |-> "s", text |-> text]

Review(text, playbook) ==
    [document |-> MCDocument("a", text), playbook |-> playbook,
     sources |-> MCSources, asOf |-> 4]

MCReviews ==
    LET texts == UNION {[1 .. n -> Lines] : n \in 1 .. 3}
        plain == Review(<<Line("plain", {})>>, NoPlaybook)
    IN {Review(text, playbook) :
            text \in texts, playbook \in {NoPlaybook, MCPlaybook}}
       \cup {Review(<<Line("plain", {"other"})>>, LongPlaybook),
             [plain EXCEPT !.playbook = TwinPlaybook],
             [plain EXCEPT !.sources = TwinSources],
             [plain EXCEPT !.sources = LateSources],
             [plain EXCEPT !.document.source = "u"]}

\* Clauses that resemble each other: two that differ in the lines only, two
\* of which a third is a variant, one of another category.
ClauseA == <<Line("numbered", {"liability"}), Line("plain", {"a", "b"})>>
SplitA == <<Line("numbered", {"liability"}), Line("plain", {"b"}),
            Line("plain", {"a"})>>
ClauseB == <<Line("numbered", {"liability"}), Line("plain", {"a", "c"})>>
ClauseC == <<Line("numbered", {"damages"}), Line("plain", {"d", "e", "f"})>>
ClauseT == <<Line("titled", {"termination"}),
             Line("plain", {"customer may terminate"})>>
Library == {ClauseA, SplitA, ClauseB, ClauseC, ClauseT}
ContractsOf(n) == {FlattenSeq(f) : f \in [1 .. n -> Library]}

MCComparison(s, t) ==
    [original |-> MCDocument("a", s), revised |-> MCDocument("b", t),
     playbook |-> MCPlaybook, sources |-> MCSources, asOf |-> 4]

MCComparisons ==
    LET same == MCComparison(ClauseA, ClauseA)
        four == ClauseA \o ClauseB \o ClauseC \o ClauseT
        other == <<Line("numbered", {"c"}), Line("plain", {"other"})>>
    IN {MCComparison(s, t) : s \in ContractsOf(1) \cup ContractsOf(2),
                             t \in ContractsOf(1) \cup ContractsOf(2)}
       \cup {MCComparison(s, t) : s \in ContractsOf(2),
                t \in {f \o ClauseA : f \in ContractsOf(2)}}
       \cup {MCComparison(t, s) : s \in ContractsOf(2),
                t \in {f \o ClauseB : f \in ContractsOf(2)}}
       \cup {MCComparison(four, ClauseA), MCComparison(ClauseA, other),
             MCComparison(<<BlankLine>> \o ClauseA, ClauseA),
             MCComparison(ClauseA \o ClauseC, ClauseT \o ClauseT \o ClauseT)}
       \cup {[MCComparison(ClauseA, other) EXCEPT !.playbook = LongPlaybook],
             [same EXCEPT !.revised.id = "a"],
             [same EXCEPT !.revised.source = "u"],
             [same EXCEPT !.sources = TwinSources]}

-----------------------------------------------------------------------------
(* Markets                                                                 *)

Dim(name, unit, period) ==
    [name |-> name, unit |-> unit, period |-> period, basis |-> "gaap"]
MCDimensions ==
    << Dim("revenue", "usd", "month"), Dim("revenue", "eur", "month"),
       [Dim("users", "number", "instant") EXCEPT !.basis = "unknown"] >>
MCDurations == [month |-> [least |-> 1, most |-> 2]]
MCAges == <<0, 1, 2>>

Item(id, source, subject, dimension, value, period, signal) ==
    [id |-> id, source |-> source, subject |-> subject, type |-> "entity",
     dimension |-> dimension, value |-> value, start |-> period[1],
     end |-> period[2], observed |-> period[3], signal |-> signal,
     blank |-> FALSE]

Opinion(id, subject, day, signal) ==
    Item(id, "t", subject, NoDimension, 0, <<NoDate, NoDate, day>>, signal)
Opinions(id, subjects, days) ==
    {Opinion(id, subject, day, signal) : subject \in subjects, day \in days,
        signal \in {"positive", "negative", "mixed"}}
Figures(id, subjects, dimensions) ==
    {Item(id, "s", subject, d, value, period, "none") :
        subject \in subjects, d \in dimensions, value \in {1, 200},
        period \in {<<0, 1, 1>>, <<0, 2, 2>>, <<1, 2, 3>>}}
Users(id, subject) == Item(id, "t", subject, 3, 5, <<NoDate, 2, 2>>, "none")

EvidenceOf(first, second, third) ==
    {<<x, y, z>> : x \in first, y \in second, z \in third}

MCEvidence ==
    {<<x>> : x \in Figures(1, {1}, {1}) \cup Opinions(1, {1}, {1})}
    \cup {<<x, y>> : x \in Figures(1, {1, 2}, {1, 2}) \cup Opinions(1, {1}, {1}),
                     y \in Figures(2, {1, 2}, {1, 2}) \cup Opinions(2, {1, 2}, {1, 3})}
    \cup EvidenceOf(Figures(1, {1}, {1}), Figures(2, {1, 2}, {1}),
                    Figures(3, {1, 2}, {1, 2}))
    \cup EvidenceOf(Opinions(1, {1}, {1, 2, 3}), Opinions(2, {1, 2}, {1, 2}),
                    Opinions(3, {1}, {2, 3}))

MCScope == [subjects |-> <<1, 2>>, dimensions |-> <<1, 2>>, start |-> 0, end |-> 4]
MCResearch(evidence) ==
    [sources |-> MCSources, asOf |-> 4, scope |-> MCScope,
     entities |-> <<2, 1>>, evidence |-> evidence]

MCResearches ==
    LET users == MCResearch(<<Users(1, 1), Users(2, 2)>>)
        same == MCResearch(<<Opinion(1, 1, 2, "positive")>>)
    IN {MCResearch(evidence) : evidence \in MCEvidence}
       \cup {[users EXCEPT !.scope.dimensions = <<3>>],
             users,                        \* a dimension out of scope
             [same EXCEPT !.scope.dimensions = <<>>],
             [same EXCEPT !.scope.dimensions = <<1, 1>>],
             [same EXCEPT !.scope.subjects = <<2>>, !.entities = <<2>>],
             [same EXCEPT !.scope.end = 1],
             [same EXCEPT !.scope.end = 5],
             [same EXCEPT !.sources = TwinSources],
             [same EXCEPT !.sources = LateSources],
             [same EXCEPT !.evidence[1].source = "u"],
             [same EXCEPT !.evidence[1].type = "market"],
             [same EXCEPT !.evidence[1].blank = TRUE],
             [users EXCEPT !.scope.dimensions = <<3>>,
                           !.evidence[2].blank = TRUE],
             [same EXCEPT !.evidence = <<>>],
             [same EXCEPT !.entities = <<1, 1>>],
             [same EXCEPT !.entities = <<1, 2, 1>>],
             MCResearch(<<Opinion(1, 1, 2, "mixed"), Opinion(1, 2, 2, "mixed")>>),
             MCResearch(<<Item(1, "s", 1, 1, 1, <<0, 3, 3>>, "none")>>),
             MCResearch(<<Item(1, "s", 1, 1, 1, <<0, 2, 1>>, "none")>>)}

-----------------------------------------------------------------------------
(* Privacy                                                                 *)

w == Word("w")
a == Word("a")
b == Word("b")
c == Word("c")

\* A detector without a validator that may border on anything.
Detector(type, words, confidence, length) ==
    [type |-> type, words |-> words, valid |-> ToSet(words), glue |-> {},
     confidence |-> confidence, length |-> length]

\* Values of one word and of two that overlap, a long value that is tried
\* first and that a validator refuses, which hides a shorter one, one that is
\* tried after a shorter one and so is never found, and that may not be next
\* to b; only a client may have the second policy, with a literal of its own
\* that looks like a token.
MCPolicies ==
    [strict |-> << Detector("E", << <<a>>, <<b>> >>, 2, 5),
                   [Detector("PH", << <<c, a>>, <<c>> >>, 2, 8)
                        EXCEPT !.valid = {<<c>>}],
                   [Detector("PH", << <<a, c>>, <<a, c, a>> >>, 2, 8)
                        EXCEPT !.glue = {b}],
                   Detector("PH", << <<b, a>> >>, 3, 8) >>,
     literal |-> << Detector("E", << <<a>>, <<b>> >>, 2, 5),
                    Detector("LIT", << <<c, Token("E", 2)>> >>, 3, 3) >>]

MCTexts ==
    UNION {[1 .. n -> {w, a, b, c, Token("E", 1), Token("PH", 1)}] : n \in 1 .. 2}
    \cup [1 .. 3 -> {a, b, c, Token("E", 1)}]

Request(via, document) ==
    [via |-> via, policy |-> "strict", body |-> document, query |-> FALSE,
     json |-> TRUE, stream |-> FALSE, url |-> <<w>>]
Content(text) == <<Leaf(<<"content">>, text)>>

MCInputs ==
    LET plain == Request("sidecar", Content(<<a>>))
        media(name) == Leaf(<<"messages", "image_url">>, <<Mark(name, 1)>>)
    IN [r \in Requests |->
          IF r = r1
          THEN {Request("sidecar", Content(text)) : text \in MCTexts}
               \cup {[plain EXCEPT !.query = TRUE],
                     [plain EXCEPT !.json = FALSE],
                     [plain EXCEPT !.stream = TRUE],
                     [plain EXCEPT !.policy = "unknown"],
                     [plain EXCEPT !.url = <<b>>],
                     [plain EXCEPT !.body = <<Leaf(<<"a">>, <<w>>)>>],
                     [plain EXCEPT !.body = Content(<<a>>) \o <<media("image")>>],
                     [plain EXCEPT !.body = <<media(Unusable)>>]}
          ELSE {Request("client", Content(<<b, a>>)),
                Request("client", Content(<<b>>) \o Content(<<a, b>>)),
                Request("client", <<media("image")>>),
                [Request("client", Content(<<w>>)) EXCEPT !.stream = TRUE]}]

Reply(document) == [json |-> TRUE, document |-> document]

MCAnswers ==
    {Reply(<<Leaf(<<"content">>, text), Leaf(<<"arguments", "content">>, text),
             Leaf(<<"messages", "text">>, text)>>) :
        text \in {<<a, Token("E", 1)>>, <<w, Token("PH", 1), c>>}}
    \cup {Reply(<<Leaf(<<"audio">>, <<Mark("sound", 2)>>)>>),
          Reply(<<Leaf(<<"audio">>, <<Mark(Unusable, 2)>>)>>),
          [Reply(Content(<<a>>)) EXCEPT !.json = FALSE]}

MCNotes ==
    {[policy |-> "literal", document |-> Content(<<c, Token("E", 2)>>)]}
    \cup {[policy |-> "strict", document |-> Content(text)] :
             text \in {<<a>>, <<b, a>>, <<a, w, b>>}}

-----------------------------------------------------------------------------
(* One at a time                                                           *)

TransientVars == <<legalVars, marketVars, proxyVars>>

TransientInit == LegalInit /\ MarketInit /\ ProxyInit

NoLegal == legal = "idle" /\ UNCHANGED legalVars
NoMarket == market = "idle" /\ UNCHANGED marketVars
NoPrivacy ==
    /\ \A r \in Requests : leg[r] = "new"
    /\ notes = <<>>
    /\ UNCHANGED proxyVars

LegalTurn == NoMarket /\ NoPrivacy
MarketTurn == NoLegal /\ NoPrivacy
PrivacyTurn == NoLegal /\ NoMarket

\* The texts a client protects by itself are of no concern to the sidecar: they
\* are interleaved with the request of a client only, r2.
ClientTurn == PrivacyTurn /\ leg[r1] = "new"

NewReview == legal = "idle" /\ LegalTurn
NewResearch == market = "idle" /\ MarketTurn

TransientNext ==
    \/ NewReview /\ \E input \in Reviews : ReviewContract(input)
    \/ NewReview /\ \E input \in Comparisons : CompareContracts(input)
    \/ LegalTurn /\ PairClause
    \/ LegalTurn /\ ReportRemoved
    \/ LegalTurn /\ ReportAdded
    \/ LegalTurn /\ NextCategory
    \/ LegalTurn /\ ReportComparison
    \/ NewResearch /\ \E input \in Researches : AnalyzeEvidence(input)
    \/ NewResearch /\ \E input \in Landscapes : CompareLandscape(input)
    \/ PrivacyTurn /\ \E r \in Requests :
                         \E input \in Inputs[r] :
                             (r = r1 => notes = <<>>) /\ Submit(r, input)
    \/ PrivacyTurn /\ \E r \in Requests, reply \in Answers : Answer(r, reply)
    \/ PrivacyTurn /\ \E r \in Requests : Fail(r)
    \/ ClientTurn /\ \E note \in Notes : Protect(note.document, note.policy)

TransientSpec == TransientInit /\ [][TransientNext]_TransientVars
=============================================================================

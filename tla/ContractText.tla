---------------------------- MODULE ContractText ----------------------------
(***************************************************************************)
(* How src/grandice_domain/legal.py cuts a contract into clauses: headings *)
(* start a clause, the text before the first heading is a clause without   *)
(* one, at most MaxSegments of them are kept, and each gets a category     *)
(* from the first entry of a fixed taxonomy that its heading, or else its  *)
(* body, mentions.                                                         *)
(*                                                                         *)
(* A document is a sequence of lines.  What _HEADING_RE and the tests on a *)
(* label tell apart is the form of a line: "blank", "plain" (no heading    *)
(* whatever it says), "titled" (a short label, a heading if it names a     *)
(* category) and "numbered" (a numbered label or one in capitals).  Its    *)
(* words stand for the terms and phrases it contains, case folded.         *)
(* Offsets in characters are offsets in lines here, and a hash of a text   *)
(* is the text.                                                            *)
(***************************************************************************)
EXTENDS DomainCommon

CONSTANTS MaxSegments,  (* MAX_SEGMENTS                                    *)
          Taxonomy      (* _TAXONOMY: a sequence of a category and a set   *)
                        (* of terms                                        *)

ASSUME TextAssumption ==
    /\ MaxSegments \in Nat \ {0}
    /\ \A k \in DOMAIN Taxonomy : Taxonomy[k].terms # {}

\* What the type of a text holds: it is not empty, and a line has finitely many
\* words.
IsText(text) ==
    /\ IsList(text) /\ text # <<>>
    /\ \A n \in DOMAIN text : IsFiniteSet(text[n].words)

NoHeading == {"(no heading)"}
AgreementTitle == "agreement"   \* a label of up to 8 words that ends so

Terms == UNION {Taxonomy[k].terms : k \in DOMAIN Taxonomy}

LooksLikeHeading(line) ==
    \/ line.form = "numbered"
    \/ line.form = "titled" /\ line.words \cap Terms # {}

\* Mutant of Boundaries: the text before the first heading is forgotten.
BoundariesAtHeadings(text) ==
    LET headings == {n \in DOMAIN text : LooksLikeHeading(text[n])}
    IN IF headings = {} THEN {1} ELSE headings

\* The lines that start a segment.
Boundaries(text) == {1} \cup {n \in DOMAIN text : LooksLikeHeading(text[n])}

DetectedSegmentCount(text) == Cardinality(Boundaries(text))

RawEnd(text, start) ==
    CHOOSE n \in start .. Len(text) :
        /\ n = Len(text) \/ n + 1 \in Boundaries(text)
        /\ \A m \in (start + 1) .. n : m \notin Boundaries(text)

Written(text, start) ==
    {n \in start .. RawEnd(text, start) : text[n].form # "blank"}

\* The first MaxSegments segments, without one that is blank.
Kept(text) ==
    {b \in Boundaries(text) :
        /\ Cardinality({a \in Boundaries(text) : a <= b}) <= MaxSegments
        /\ Written(text, b) # {}}

WordsOf(lines) == UNION {lines[n].words : n \in DOMAIN lines}

FirstCategory(words) ==
    Taxonomy[CHOOSE k \in DOMAIN Taxonomy :
                /\ Taxonomy[k].terms \cap words # {}
                /\ \A l \in 1 .. (k - 1) :
                      Taxonomy[l].terms \cap words = {}].category

Classify(heading, words) ==
    IF AgreementTitle \in heading THEN "preamble"
    ELSE IF heading \cap Terms # {} THEN FirstCategory(heading)
    ELSE IF words \cap Terms # {} THEN FirstCategory(words)
    ELSE "unknown"

ClauseFrom(text, start) ==
    LET written == Written(text, start)
        first == CHOOSE n \in written : \A m \in written : n <= m
        last == CHOOSE n \in written : \A m \in written : m <= n
        body == SubSeq(text, first, last)
        heading == IF LooksLikeHeading(text[start])
                   THEN text[start].words ELSE NoHeading
    IN [heading |-> heading,
        category |-> Classify(heading, WordsOf(body)),
        first |-> first,
        last |-> last,
        body |-> body]

\* segment_contract(): the clauses in the order of the document.
Segments(text) ==
    LET starts == InOrder(Kept(text), <)
    IN [k \in DOMAIN starts |-> ClauseFrom(text, starts[k])]

OmittedClauses(text) == DetectedSegmentCount(text) - Len(Segments(text))
=============================================================================

---------------------------- MODULE DomainCommon ----------------------------
(***************************************************************************)
(* What the analyses of src/grandice_domain share: the metadata every      *)
(* request carries, with its validation, rounding half to even, and the    *)
(* lists that are cut off at a limit.                                      *)
(***************************************************************************)
EXTENDS ListsInOrder

Distinct(list) == \A m, n \in DOMAIN list : list[m] = list[n] => m = n

SourceIds(input) == {input.sources[n].id : n \in DOMAIN input.sources}

\* Sources are told apart, and none is from the future.
ValidSources(input) ==
    /\ Distinct([n \in DOMAIN input.sources |-> input.sources[n].id])
    /\ \A n \in DOMAIN input.sources : input.sources[n].asOf <= input.asOf

SourceOf(input, id) ==
    input.sources[CHOOSE n \in DOMAIN input.sources : input.sources[n].id = id]

\* quantize(divide(p, q)) for p >= 0 and q > 0.
RoundHalfEven(p, q) ==
    LET whole == p \div q
        twice == 2 * (p % q)
    IN IF twice > q \/ (twice = q /\ whole % 2 = 1) THEN whole + 1 ELSE whole

\* The elements of a list that are in S.
Those(list, S) ==
    LET places == InOrder({n \in DOMAIN list : list[n] \in S}, <)
    IN [k \in DOMAIN places |-> list[places[k]]]

AtMost(list, n) == SubSeq(list, 1, IF Len(list) < n THEN Len(list) ELSE n)
=============================================================================

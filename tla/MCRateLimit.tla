---------------------------- MODULE MCRateLimit ----------------------------
(***************************************************************************)
(* The limiter on a small instance: two keys of one member of one          *)
(* organization, limits of one or two requests in a window of one second   *)
(* of two ticks, two requests in flight, whose identities do not matter.   *)
(***************************************************************************)
EXTENDS RateLimit, TLC

CONSTANTS k1, k2, m, o, r1, r2

MCKeyMember == [k \in Keys |-> m]
MCKeyOrg    == [k \in Keys |-> o]

(* Key k1 has no limit of its own and k2 allows one request in the window;
   either the organization allows one and the member two, or both two. *)
MCStartRpm ==
    {[b \in Buckets |-> IF b = k1 THEN None ELSE IF b \in {k2} \cup S THEN 1 ELSE 2] :
        S \in {{}, {o}}}

MCSymmetry == Permutations(Requests)
=============================================================================

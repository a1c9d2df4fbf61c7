---------------------------- MODULE MCDomainRuns ----------------------------
(***************************************************************************)
(* Two runs of any kind, one slot for their processes and one thread for   *)
(* everything they have done elsewhere.                                    *)
(***************************************************************************)
EXTENDS DomainRuns

CONSTANTS r1, r2
=============================================================================

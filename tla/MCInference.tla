---------------------------- MODULE MCInference ----------------------------
(***************************************************************************)
(* Two slots, three streams and a JSON request: the fewest that can leave  *)
(* a permit free while one waiter is awake and another one is asleep.      *)
(***************************************************************************)
EXTENDS Inference

CONSTANTS s1, s2, s3, j1
=============================================================================

----------------------------- MODULE MCAccounts -----------------------------
(***************************************************************************)
(* One organization with one seat, two addresses, two administrative       *)
(* requests at a time and a key that can be rotated twice: the fewest that *)
(* overrun the allowance and leave two live keys of one rotation.          *)
(***************************************************************************)
EXTENDS Accounts, TLC

CONSTANTS h1, h2, c1, a, e1, e2, x

MCSymmetry == Permutations(Handlers) \cup Permutations(Emails)
=============================================================================

---------------------------- MODULE ListsInOrder ----------------------------
(***************************************************************************)
(* Lists, and the members of a finite set in an order.                     *)
(***************************************************************************)
EXTENDS Integers, SequencesExt

\* A finite sequence.
IsList(list) == list \in Seq(ToSet(list))

\* The members of a finite set in the order that `before` gives them, without
\* a recursion, so that it can be reasoned about.
InOrder(S, before(_, _)) ==
    [n \in 1 .. Cardinality(S) |->
        CHOOSE x \in S : Cardinality({y \in S : before(y, x)}) = n - 1]
=============================================================================

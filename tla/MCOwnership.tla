----------------------------- MODULE MCOwnership -----------------------------
(* Ownership on two gateway nodes. *)
EXTENDS Ownership, TLC

CONSTANTS n1, n2

MCNode == {n1, n2}
NodeSymmetry == Permutations(MCNode)

=============================================================================

-------------------------- MODULE MCMessageTracker --------------------------
(* Instances of MessageTracker for TLC. *)
EXTENDS MessageTracker, TLC

CONSTANTS c1, c2

CallSymmetry == Permutations(Call)

=============================================================================

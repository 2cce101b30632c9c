--------------------------- MODULE MCUpdateStream ---------------------------
(* Instances of UpdateStream for TLC: writers and sockets are model values. *)
EXTENDS UpdateStream, TLC

Symmetry == Permutations(Writer) \cup Permutations(Socket)

=============================================================================

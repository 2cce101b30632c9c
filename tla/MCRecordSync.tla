----------------------------- MODULE MCRecordSync -----------------------------
(* Requests are interchangeable. *)
EXTENDS RecordSync, TLC

Symmetry == Permutations(Request)

=============================================================================

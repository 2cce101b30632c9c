--------------------------- MODULE MCToolApproval ---------------------------
(* Instances of ToolApproval for TLC. *)
EXTENDS ToolApproval, TLC

CONSTANTS k1, k2, q1, a, b

\* The content of a is a glob that matches b's content too.
Ops == [k \in Tool |-> IF k = k1 THEN a ELSE b]
Globs == [p \in Op |-> IF p = a THEN {a, b} ELSE {b}]

=============================================================================

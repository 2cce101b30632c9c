------------------------------ MODULE MCAgentRun ------------------------------
(* Instances of AgentRun for TLC: conversations, runs and messages are     *)
(* model values.                                                           *)
EXTENDS AgentRun, TLC

CONSTANTS c1, c2, m1, m2

\* Every message goes to c1, a conversation nobody spawned.
OneConv == [m \in Msg |-> c1]
NoParents == [c \in Conv |-> NoConv]

\* m2 is the prompt of the sub-conversation c2 of c1.
TwoConvs == [m \in Msg |-> IF m = m1 THEN c1 ELSE c2]
Nested == [c \in Conv |-> IF c = c2 THEN c1 ELSE NoConv]

Symmetry == Permutations(Run)

=============================================================================

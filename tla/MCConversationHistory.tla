----------------------- MODULE MCConversationHistory -----------------------
(* Instances of ConversationHistory for TLC. *)
EXTENDS ConversationHistory

CONSTANTS c1, c2, p1, k1, k2, b1

=============================================================================

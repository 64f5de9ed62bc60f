--------------------------- MODULE MCConversation ---------------------------
(* Values of the constants of Conversation for TLC. *)
EXTENDS Conversation, TLC

Symmetry == Permutations(User)
=============================================================================

---------------------------- MODULE MCConversation -----------------------------
(* Conversation on the bounds that TLC explores.                            *)
EXTENDS Conversation
=============================================================================

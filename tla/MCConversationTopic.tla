------------------------- MODULE MCConversationTopic -------------------------
(* Instances of ConversationTopic.                                         *)
EXTENDS ConversationTopic
=============================================================================

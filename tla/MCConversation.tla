--------------------------- MODULE MCConversation ---------------------------
(* Conversation for TLC: all jobs are of one chat.                           *)
EXTENDS Conversation

OneChat == [j \in ChatJobs |-> "p"]
=============================================================================

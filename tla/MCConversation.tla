--------------------------- MODULE MCConversation ---------------------------
(* A small instance of Conversation for TLC: one change to two files. *)
EXTENDS Conversation

CONSTANTS chat, lsp, both

Reach == [p \in Plans |-> Files]
=============================================================================

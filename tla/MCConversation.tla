--------------------------- MODULE MCConversation ---------------------------
EXTENDS Conversation, TLC
=============================================================================

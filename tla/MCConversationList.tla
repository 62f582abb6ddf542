-------------------------- MODULE MCConversationList --------------------------
EXTENDS ConversationList, TLC
=============================================================================

--------------------------- MODULE MCConversation ---------------------------
EXTENDS Conversation, TLC

AllMessages == Turns \X Roles
Symmetry == Permutations(Tabs) \union Permutations(Turns)
=============================================================================

---------------------------- MODULE MCChatServer ----------------------------
(* One administrator at first, room for another account, one chat, two      *)
(* handlers waiting for their bodies.                                       *)
EXTENDS ChatServer, TLC

Symmetry == Permutations(Sessions) \union Permutations(Requests)
=============================================================================

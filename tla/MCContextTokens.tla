---------------------------- MODULE MCContextTokens ----------------------------
(* Bounds for ContextTokens, and the symmetry of its unordered constants.  *)
EXTENDS ContextTokens, TLC

Symmetry == Permutations(Chats) \cup Permutations(Tokens) \cup Permutations(Handlers)
=============================================================================

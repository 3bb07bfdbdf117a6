---------------------------- MODULE MCListener ----------------------------
(***************************************************************************)
(* Small instances of Listener: two users, the last message from the first *)
(* one, so that a batch has a conversation with two messages and another.  *)
(***************************************************************************)
EXTENDS Listener, TLC

CONSTANTS u1, u2

MCUserOf == [n \in 1..MaxItems |-> IF n = 2 THEN u2 ELSE u1]
CallerSymmetry == Permutations(Callers)
=============================================================================

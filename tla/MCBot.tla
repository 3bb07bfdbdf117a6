-------------------------------- MODULE MCBot --------------------------------
(***************************************************************************)
(* Small instances of Bot: one process, messages of one user, the second   *)
(* of which cannot be answered.                                            *)
(***************************************************************************)
EXTENDS Bot

CONSTANTS u1, Defect

MCUserOf == [n \in 1..MaxItems |-> u1]
MCDefectOf == [n \in 1..MaxItems |-> IF n = 2 THEN Defect ELSE "none"]
=============================================================================

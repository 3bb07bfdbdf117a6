---------------------------- MODULE StateRegister ----------------------------
(***************************************************************************)
(* What the file store promises, as a register per path: an operation      *)
(* takes effect at one instant between its call and its return; one that   *)
(* returns nil has taken effect, one that returns an error has not.        *)
(* BufStorage (src/storage.go:14-21) asks for less, namely that a          *)
(* *successful* save replaces the old value completely.                    *)
(***************************************************************************)
CONSTANTS Procs,     \* the goroutines that use the store
          Paths,     \* the files
          Values,    \* what a file may hold
          Missing,   \* the value of a file that does not exist
          NoOp       \* a goroutine outside any call

VARIABLES value,     \* per path: its current value
          op,        \* per goroutine: the call it is in, or NoOp
          applied,   \* per goroutine: its call has taken effect
          got,       \* per goroutine: what its load read
          outcome    \* per goroutine: "none", "ok" or "error"

vars == <<value, op, applied, got, outcome>>

Ops == [kind : {"save"}, path : Paths, value : Values]
         \cup [kind : {"clear", "load"}, path : Paths, value : {Missing}]

Init ==
    /\ value = [f \in Paths |-> Missing]
    /\ op = [p \in Procs |-> NoOp]
    /\ applied = [p \in Procs |-> FALSE]
    /\ got = [p \in Procs |-> Missing]
    /\ outcome = [p \in Procs |-> "none"]

Call(p, o) ==
    /\ op[p] = NoOp
    /\ op' = [op EXCEPT ![p] = o]
    /\ outcome' = [outcome EXCEPT ![p] = "none"]
    /\ got' = [got EXCEPT ![p] = Missing]
    /\ UNCHANGED <<value, applied>>

Apply(p) ==
    /\ op[p] # NoOp /\ ~applied[p]
    /\ applied' = [applied EXCEPT ![p] = TRUE]
    /\ IF op[p].kind = "load"
       THEN got' = [got EXCEPT ![p] = value[op[p].path]] /\ UNCHANGED value
       ELSE value' = [value EXCEPT ![op[p].path] = op[p].value] /\ UNCHANGED got
    /\ UNCHANGED <<op, outcome>>

Return(p, o) ==
    /\ op[p] # NoOp
    /\ o = "ok" => applied[p]
    /\ o = "error" => ~applied[p] \/ op[p].kind = "load"
    /\ op' = [op EXCEPT ![p] = NoOp]
    /\ applied' = [applied EXCEPT ![p] = FALSE]
    /\ outcome' = [outcome EXCEPT ![p] = o]
    /\ UNCHANGED <<value, got>>

(* The process dies: calls disappear, applied or not; values stay.         *)
Crash ==
    /\ op' = [p \in Procs |-> NoOp]
    /\ applied' = [p \in Procs |-> FALSE]
    /\ got' = [p \in Procs |-> Missing]
    /\ outcome' = [p \in Procs |-> "none"]
    /\ UNCHANGED value

Next ==
    \/ \E p \in Procs :
        \/ \E o \in Ops : Call(p, o)
        \/ Apply(p)
        \/ \E o \in {"ok", "error"} : Return(p, o)
    \/ Crash

Spec == Init /\ [][Next]_vars
=============================================================================

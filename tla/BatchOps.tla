------------------------------ MODULE BatchOps ------------------------------
(***************************************************************************)
(* What Client.processBatch (src/listener.go:144-198) promises to its      *)
(* caller, as operators on a record that describes one batch in progress:  *)
(*                                                                         *)
(*   work    the handler invocations the batch stands for                  *)
(*   needs   for each of them, the invocations that have to succeed first  *)
(*   done    the invocations whose handler returned nil                    *)
(*   failed  the invocations whose handler returned an error or panicked   *)
(*   lost    the invocations whose handler never returns: it ended the     *)
(*           goroutine it ran in (runtime.Goexit)                          *)
(*                                                                         *)
(* BatchContract turns these operators into a specification that module    *)
(* Batch (the goroutines) implements; module Listener (the poll loop) uses *)
(* the same operators for the part of Start that runs a batch.             *)
(***************************************************************************)

CONSTANT CtxError    \* the error of a cancelled context (ctx.Err())

(* A batch nobody has worked on: the messages of one getupdates reply.     *)
NewBatch(work, needs) ==
    [work |-> work, needs |-> needs, done |-> {}, failed |-> {}, lost |-> {}]

EmptyBatch == NewBatch({}, [x \in {} |-> {}])

(* A batch over the items S: the type of the record.                       *)
IsBatch(b, S) ==
    /\ b = [work |-> b.work, needs |-> b.needs, done |-> b.done,
            failed |-> b.failed, lost |-> b.lost]
    /\ b.work \subseteq S
    /\ b.needs \in [b.work -> SUBSET b.work]
    /\ b.done \subseteq b.work
    /\ b.failed \subseteq b.work
    /\ b.lost \subseteq b.work

(* The handler may return for x: x is part of the batch, has not returned  *)
(* or been lost before, and everything x has to wait for has succeeded.    *)
CanRun(b, x) ==
    /\ x \in b.work \ (b.done \cup b.failed \cup b.lost)
    /\ b.needs[x] \subseteq b.done

Succeeded(b, x) == [b EXCEPT !.done = @ \cup {x}]
Failed(b, x) == [b EXCEPT !.failed = @ \cup {x}]
Abandoned(b, x) == [b EXCEPT !.lost = @ \cup {x}]

(* What lost handlers keep from ever being done: their own invocations and *)
(* those that have to wait for one of them.                                *)
HeldUp(b) == {x \in b.work : (b.needs[x] \cup {x}) \cap b.lost # {}}

(* A nil error is a receipt for all of the batch but that: nothing tells   *)
(* processBatch of a worker that was ended by its handler.                 *)
MayReturnNil(b) == b.work \subseteq b.done \cup HeldUp(b)

(* The errors processBatch may return: that of an invocation which failed, *)
(* or the context's when the context of Start is cancelled.                *)
ErrorsOf(b, canceled) == b.failed \cup (IF canceled THEN {CtxError} ELSE {})
=============================================================================

--------------------------- MODULE BatchContract ---------------------------
(***************************************************************************)
(* The abstract specification of one call of Client.processBatch, without  *)
(* goroutines, channels or a derived context: handlers return one at a     *)
(* time in an order that respects "needs", or are lost with the goroutine  *)
(* they end; and the call returns nil only when MayReturnNil allows it and *)
(* an error only for a reason it can name.  Once the call has returned, no *)
(* handler returns any more.                                               *)
(***************************************************************************)
EXTENDS BatchOps

CONSTANTS NoError,     \* the nil error
          Running      \* the call has not returned

VARIABLES b,           \* the batch record of BatchOps
          canceled,    \* the context given to Start is cancelled
          verdict      \* Running, NoError or the error returned

vars == <<b, canceled, verdict>>

Init ==
    /\ b = NewBatch(b.work, b.needs)
    /\ canceled = FALSE
    /\ verdict = Running

Cancel ==
    /\ ~canceled
    /\ canceled' = TRUE
    /\ UNCHANGED <<b, verdict>>

(* The handler returns nil, fails, or is lost.                             *)
HandlerEnds(x) ==
    /\ verdict = Running
    /\ CanRun(b, x)
    /\ b' \in {Succeeded(b, x), Failed(b, x), Abandoned(b, x)}
    /\ UNCHANGED <<canceled, verdict>>

ReturnNil ==
    /\ verdict = Running
    /\ MayReturnNil(b)
    /\ verdict' = NoError
    /\ UNCHANGED <<b, canceled>>

ReturnError(e) ==
    /\ verdict = Running
    /\ e \in ErrorsOf(b, canceled)
    /\ verdict' = e
    /\ UNCHANGED <<b, canceled>>

Next ==
    \/ Cancel
    \/ ReturnNil
    \/ \E x \in b.work : HandlerEnds(x)
    \/ \E e \in ErrorsOf(b, canceled) : ReturnError(e)

Spec == Init /\ [][Next]_vars
=============================================================================

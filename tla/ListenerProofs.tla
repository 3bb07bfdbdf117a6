--------------------------- MODULE ListenerProofs ---------------------------
(***************************************************************************)
(* Proofs about Listener, for any number of callers and messages, any      *)
(* assignment of messages to users, any threshold and either kind of store;*)
(* about Bot, which implements it; and about ListenerHistory, with the     *)
(* retry delay of RetryDelay, for any bounds NewClient accepts.            *)
(***************************************************************************)
EXTENDS Bot, ListenerHistory, ConfigProofs, FiniteSetTheorems, FunctionTheorems,
        SequenceTheorems, WellFoundedInduction

-----------------------------------------------------------------------------
(* Lemmas about the operators of BatchOps and the work of a reply.         *)

LEMMA EmptyBatchType == \A S : IsBatch(EmptyBatch, S)
BY DEF EmptyBatch, NewBatch, IsBatch

(* The record of a new batch is well-formed: what a message needs is part  *)
(* of the batch.                                                           *)
LEMMA NewBatchType ==
    ASSUME NEW lo, NEW hi
    PROVE  IsBatch(NewBatch(Work(lo, hi), Needs(Work(lo, hi))), Eligible)
BY DEF IsBatch, NewBatch, Needs, Work

(* What the return of a handler does to the record.                        *)
LEMMA SucceededFields ==
    ASSUME NEW b, NEW S, NEW x, IsBatch(b, S)
    PROVE  /\ Succeeded(b, x).work = b.work
           /\ Succeeded(b, x).needs = b.needs
           /\ Succeeded(b, x).done = b.done \cup {x}
           /\ Succeeded(b, x).lost = b.lost
<1>1. PICK w, nd, d, f, l :
        b = [work |-> w, needs |-> nd, done |-> d, failed |-> f, lost |-> l]
    BY DEF IsBatch
<1> QED
    BY <1>1 DEF Succeeded

LEMMA SucceededBatch ==
    ASSUME NEW b, NEW S, NEW x, IsBatch(b, S), CanRun(b, x)
    PROVE  IsBatch(Succeeded(b, x), S)
<1>1. PICK w, nd, d, f, l :
        /\ b = [work |-> w, needs |-> nd, done |-> d, failed |-> f, lost |-> l]
        /\ w \subseteq S /\ nd \in [w -> SUBSET w]
        /\ d \subseteq w /\ f \subseteq w /\ l \subseteq w
    BY DEF IsBatch
<1>2. Succeeded(b, x) = [work |-> w, needs |-> nd, done |-> d \cup {x}, failed |-> f, lost |-> l]
  <2>1. b = [work |-> w, needs |-> nd, done |-> d, failed |-> f, lost |-> l]
    BY <1>1
  <2> QED
    BY <2>1 DEF Succeeded
<1>3. x \in w
    BY <1>1 DEF CanRun
<1> QED
    BY <1>1, <1>2, <1>3 DEF IsBatch

LEMMA FailedBatch ==
    ASSUME NEW b, NEW S, NEW x, IsBatch(b, S), CanRun(b, x)
    PROVE  /\ IsBatch(Failed(b, x), S)
           /\ Failed(b, x).work = b.work
           /\ Failed(b, x).needs = b.needs
           /\ Failed(b, x).done = b.done
           /\ Failed(b, x).lost = b.lost
<1>1. PICK w, nd, d, f, l :
        /\ b = [work |-> w, needs |-> nd, done |-> d, failed |-> f, lost |-> l]
        /\ w \subseteq S /\ nd \in [w -> SUBSET w]
        /\ d \subseteq w /\ f \subseteq w /\ l \subseteq w
    BY DEF IsBatch
<1>2. Failed(b, x) = [work |-> w, needs |-> nd, done |-> d, failed |-> f \cup {x}, lost |-> l]
  <2>1. b = [work |-> w, needs |-> nd, done |-> d, failed |-> f, lost |-> l]
    BY <1>1
  <2> QED
    BY <2>1 DEF Failed
<1>3. x \in w
    BY <1>1 DEF CanRun
<1> QED
    BY <1>1, <1>2, <1>3 DEF IsBatch

LEMMA AbandonedBatch ==
    ASSUME NEW b, NEW S, NEW x, IsBatch(b, S), CanRun(b, x)
    PROVE  /\ IsBatch(Abandoned(b, x), S)
           /\ Abandoned(b, x).work = b.work
           /\ Abandoned(b, x).needs = b.needs
           /\ Abandoned(b, x).done = b.done
<1>1. PICK w, nd, d, f, l :
        /\ b = [work |-> w, needs |-> nd, done |-> d, failed |-> f, lost |-> l]
        /\ w \subseteq S /\ nd \in [w -> SUBSET w]
        /\ d \subseteq w /\ f \subseteq w /\ l \subseteq w
    BY DEF IsBatch
<1>2. Abandoned(b, x) = [work |-> w, needs |-> nd, done |-> d, failed |-> f, lost |-> l \cup {x}]
  <2>1. b = [work |-> w, needs |-> nd, done |-> d, failed |-> f, lost |-> l]
    BY <1>1
  <2> QED
    BY <2>1 DEF Abandoned
<1>3. x \in w
    BY <1>1 DEF CanRun
<1> QED
    BY <1>1, <1>2, <1>3 DEF IsBatch

(* What lost handlers hold up is part of the batch.                        *)
LEMMA HeldUpType ==
    ASSUME NEW b, NEW S, IsBatch(b, S)
    PROVE  HeldUp(b) \subseteq b.work /\ HeldUp(b) \subseteq S
BY DEF HeldUp, IsBatch
-----------------------------------------------------------------------------
(* Types.  TypeOK is inductive together with the fact that the expiry      *)
(* count stays below the threshold until the Start gives up.               *)

CountBelow ==
    \A c \in Callers :
        pc[c] \notin {"revoke", "callback"} => expiredCount[c] < Threshold

(* The part of the state a call of Start owns, with its type.              *)
CallType ==
    /\ pc \in [Callers -> Places]
    /\ result \in Results
    /\ ctxDone \in [Callers -> BOOLEAN]
    /\ hasExpired \in [Callers -> BOOLEAN]
    /\ cursor \in [Callers -> 0..published]
    /\ failures \in [Callers -> 0..FailureCap]
    /\ expiredCount \in [Callers -> 0..Threshold]
    /\ buf \in [Callers -> 0..published]
    /\ batch = [c \in Callers |-> batch[c]]
    /\ \A c \in Callers : IsBatch(batch[c], Eligible)

SharedType ==
    /\ published \in 0..MaxItems
    /\ retained \in 0..published
    /\ stored \in 0..published
    /\ running \in BOOLEAN /\ onMessage \in BOOLEAN /\ onExpired \in BOOLEAN
    /\ handled \subseteq Eligible /\ missed \subseteq Eligible

LEMMA TypeParts == TypeOK <=> SharedType /\ CallType
BY DEF TypeOK, SharedType, CallType

(* Returning from Start keeps the types, whatever is returned.             *)
LEMMA ReturnType ==
    ASSUME TypeOK, CountBelow, NEW c \in Callers, NEW r \in Results,
           Return(c, r), published' = published
    PROVE  CallType' /\ CountBelow' /\ running' \in BOOLEAN
<1>1. IsBatch(EmptyBatch, Eligible)
    BY EmptyBatchType
<1>2. batch' = [d \in Callers |-> batch'[d]] /\ \A d \in Callers : IsBatch(batch'[d], Eligible)
    BY <1>1 DEF TypeOK, Return, ForgetLocals
<1>3. 0 \in 0..published /\ 0 \in 0..FailureCap /\ 0 \in 0..Threshold /\ 0 < Threshold
    BY ItemsAssumption, ThresholdAssumption DEF TypeOK
<1>4. /\ pc' \in [Callers -> Places]
      /\ result' \in Results
      /\ ctxDone' \in [Callers -> BOOLEAN]
      /\ hasExpired' \in [Callers -> BOOLEAN]
    BY DEF TypeOK, Return, ForgetLocals, Places
<1>5. /\ cursor' \in [Callers -> 0..published]
      /\ failures' \in [Callers -> 0..FailureCap]
      /\ expiredCount' \in [Callers -> 0..Threshold]
      /\ buf' \in [Callers -> 0..published]
    BY <1>3 DEF TypeOK, Return, ForgetLocals
<1>6. CountBelow'
    BY <1>3 DEF TypeOK, CountBelow, Return, ForgetLocals
<1>7. running' \in BOOLEAN
    BY DEF Return
<1> QED
    BY <1>2, <1>4, <1>5, <1>6, <1>7 DEF CallType

(* Going back to the loop through the backoff timer keeps them too.        *)
LEMMA BackoffType ==
    ASSUME TypeOK, NEW c \in Callers, Backoff(c)
    PROVE  /\ failures' \in [Callers -> 0..FailureCap]
           /\ pc' \in [Callers -> Places]
           /\ result' = result
           /\ pc' = [pc EXCEPT ![c] = "wait"]
BY ThresholdAssumption DEF TypeOK, Backoff, Failures, Goto, Places

(* Types after one step of a call of Start, action by action.              *)
LEMMA TypeStartStep ==
    ASSUME TypeOK, CountBelow, NEW c \in Callers, StartStep(c)
    PROVE  TypeOK' /\ CountBelow'
<1> USE DEF serverVars, clientVars, localVars, callVars, fates
<1>0. SharedType /\ CallType /\ 0 \in 0..published
    BY TypeParts, ItemsAssumption DEF SharedType
<1> SUFFICES SharedType' /\ CallType' /\ CountBelow'
    BY DEF TypeOK, SharedType, CallType
<1>1. ASSUME NEW r \in Results, Return(c, r), UNCHANGED <<serverVars, handled>>,
             stored' \in 0..published, missed' \subseteq Eligible
      PROVE  SharedType' /\ CallType' /\ CountBelow'
    BY <1>0, <1>1, ReturnType DEF SharedType, Return
<1>2. ASSUME NEW place \in Places, Goto(c, place),
             pc[c] \in {"revoke", "callback"} => place \in {"revoke", "callback"},
             UNCHANGED <<serverVars, stored, clientVars, localVars, fates>>
      PROVE  SharedType' /\ CallType' /\ CountBelow'
  <2>1. CountBelow'
    BY <1>0, <1>2 DEF CallType, CountBelow, Goto
  <2>2. pc' \in [Callers -> Places] /\ result' = result
    BY <1>0, <1>2 DEF CallType, Goto
  <2> QED
    BY <1>0, <1>2, <2>1, <2>2 DEF SharedType, CallType
<1>3. /\ "canceled" \in Results /\ "no_handler" \in Results /\ "storage" \in Results
      /\ "revoked" \in Results /\ "handler" \in Results
    BY DEF Results
<1>4. /\ "load" \in Places /\ "loop" \in Places /\ "poll" \in Places
      /\ "reset" \in Places /\ "callback" \in Places /\ "save" \in Places
    BY DEF Places
<1>5. ASSUME Snapshot(c) PROVE SharedType' /\ CallType' /\ CountBelow'
  <2>1. CASE ~onMessage \/ ctxDone[c]
    BY <1>0, <1>1, <1>3, <1>5, <2>1 DEF Snapshot, SharedType
  <2>2. CASE onMessage /\ ~ctxDone[c]
    BY <1>0, <1>5, <2>2 DEF Snapshot, Goto, SharedType, CallType, CountBelow, Places
  <2> QED
    BY <1>0, <2>1, <2>2
<1>6. ASSUME LoadCursor(c) PROVE SharedType' /\ CallType' /\ CountBelow'
    BY <1>0, <1>6 DEF LoadCursor, Goto, SharedType, CallType, CountBelow, Places
<1>7. ASSUME LoopTop(c) PROVE SharedType' /\ CallType' /\ CountBelow'
    BY <1>0, <1>1, <1>2, <1>3, <1>4, <1>7 DEF LoopTop, SharedType
<1>8. ASSUME PollFails(c) PROVE SharedType' /\ CallType' /\ CountBelow'
  <2>1. CASE ctxDone[c]
    BY <1>0, <1>1, <1>3, <1>8, <2>1 DEF PollFails, SharedType
  <2>2. CASE ~ctxDone[c]
    BY <1>0, <1>8, <2>2, BackoffType DEF PollFails, SharedType, CallType, CountBelow, Places
  <2> QED
    BY <2>1, <2>2
<1>9. ASSUME PollRejected(c) PROVE SharedType' /\ CallType' /\ CountBelow'
    BY <1>0, <1>9, BackoffType DEF PollRejected, SharedType, CallType, CountBelow, Places
<1>10. ASSUME PollExpiredCursor(c) PROVE SharedType' /\ CallType' /\ CountBelow'
    BY <1>0, <1>2, <1>4, <1>10 DEF PollExpiredCursor
<1>11. ASSUME PollExpiredEmpty(c) PROVE SharedType' /\ CallType' /\ CountBelow'
  <2>1. expiredCount[c] < Threshold /\ expiredCount[c] \in Nat /\ Threshold \in Nat
    BY <1>0, <1>11, ThresholdAssumption DEF PollExpiredEmpty, CountBelow, CallType
  <2>2. expiredCount[c] + 1 \in 0..Threshold
    BY <2>1
  <2>3. CASE expiredCount[c] + 1 >= Threshold
    BY <1>0, <1>11, <2>2, <2>3 DEF PollExpiredEmpty, Goto, SharedType, CallType, CountBelow, Places
  <2>4. CASE ~(expiredCount[c] + 1 >= Threshold)
    <3>1. expiredCount[c] + 1 < Threshold
      BY <2>1, <2>4
    <3> QED
      BY <1>0, <1>11, <2>2, <2>4, <3>1, BackoffType
      DEF PollExpiredEmpty, SharedType, CallType, CountBelow, Places
  <2> QED
    BY <2>3, <2>4
<1>13. ASSUME NEW hi, NEW b, PollDelivers(c, hi, b)
       PROVE  SharedType' /\ CallType' /\ CountBelow'
  <2>1. hi \in 0..published /\ b \in 0..published
    BY <1>0, <1>13, ItemsAssumption DEF PollDelivers, From, Larger, SharedType, CallType
  <2>2. /\ batch' = [d \in Callers |-> batch'[d]]
        /\ \A d \in Callers : IsBatch(batch'[d], Eligible)
    BY <1>0, <1>13, NewBatchType DEF PollDelivers, CallType
  <2>3. /\ failures' \in [Callers -> 0..FailureCap]
        /\ expiredCount' \in [Callers -> 0..Threshold]
        /\ buf' \in [Callers -> 0..published]
        /\ pc' \in [Callers -> Places]
    BY <1>0, <1>13, <2>1, ThresholdAssumption DEF PollDelivers, Goto, CallType, Places
  <2>4. CountBelow'
    BY <1>0, <1>13, ThresholdAssumption DEF PollDelivers, Goto, CallType, CountBelow, Places
  <2> QED
    BY <1>0, <1>13, <2>2, <2>3, <2>4 DEF PollDelivers, Goto, SharedType, CallType
<1>14. ASSUME LoadFails(c) PROVE SharedType' /\ CallType' /\ CountBelow'
    BY <1>0, <1>1, <1>3, <1>14 DEF LoadFails, SharedType
<1>15. ASSUME ClearCursor(c) PROVE SharedType' /\ CallType' /\ CountBelow'
    BY <1>0, <1>15, BackoffType, ThresholdAssumption
    DEF ClearCursor, SharedType, CallType, CountBelow, Places
<1>16. ASSUME ClearFails(c) \/ RevokeClearFails(c) PROVE SharedType' /\ CallType' /\ CountBelow'
    BY <1>0, <1>1, <1>3, <1>16 DEF ClearFails, RevokeClearFails, SharedType
<1>17. ASSUME RevokeClears(c) PROVE SharedType' /\ CallType' /\ CountBelow'
  <2>1. CASE hasExpired[c]
    BY <1>0, <1>17, <2>1 DEF RevokeClears, Goto, SharedType, CallType, CountBelow, Places
  <2>2. CASE ~hasExpired[c]
    BY <1>0, <1>1, <1>3, <1>17, <2>2 DEF RevokeClears, SharedType
  <2> QED
    BY <2>1, <2>2
<1>18. ASSUME ExpiredCallback(c) \/ WaitCanceled(c) PROVE SharedType' /\ CallType' /\ CountBelow'
    BY <1>0, <1>1, <1>3, <1>18 DEF ExpiredCallback, WaitCanceled, SharedType
<1>19. ASSUME WaitEnds(c) PROVE SharedType' /\ CallType' /\ CountBelow'
    BY <1>0, <1>2, <1>4, <1>19 DEF WaitEnds
<1>20. ASSUME NEW n \in Eligible, HandlerSucceeds(c, n)
       PROVE  SharedType' /\ CallType' /\ CountBelow'
  <2>1. IsBatch(Succeeded(batch[c], n), Eligible)
    BY <1>0, <1>20, SucceededBatch DEF HandlerSucceeds, CallType
  <2>2. /\ batch' = [d \in Callers |-> batch'[d]]
        /\ \A d \in Callers : IsBatch(batch'[d], Eligible)
    BY <1>0, <1>20, <2>1 DEF HandlerSucceeds, CallType
  <2> QED
    BY <1>0, <1>20, <2>2 DEF HandlerSucceeds, SharedType, CallType, CountBelow
<1>21. ASSUME NEW n \in Eligible, HandlerFails(c, n)
       PROVE  SharedType' /\ CallType' /\ CountBelow'
  <2>1. IsBatch(Failed(batch[c], n), Eligible)
    BY <1>0, <1>21, FailedBatch DEF HandlerFails, CallType
  <2>2. /\ batch' = [d \in Callers |-> batch'[d]]
        /\ \A d \in Callers : IsBatch(batch'[d], Eligible)
    BY <1>0, <1>21, <2>1 DEF HandlerFails, CallType
  <2> QED
    BY <1>0, <1>21, <2>2 DEF HandlerFails, SharedType, CallType, CountBelow
<1>22. ASSUME BatchFails(c) PROVE SharedType' /\ CallType' /\ CountBelow'
    BY <1>0, <1>1, <1>3, <1>22 DEF BatchFails, SharedType
<1>23. ASSUME BatchSucceeds(c) PROVE SharedType' /\ CallType' /\ CountBelow'
  <2>1. CASE ctxDone[c]
    BY <1>0, <1>1, <1>3, <1>23, <2>1 DEF BatchSucceeds, SharedType
  <2>2. CASE ~ctxDone[c]
    BY <1>0, <1>2, <1>4, <1>23, <2>2 DEF BatchSucceeds
  <2> QED
    BY <2>1, <2>2
<1>h. HeldUp(batch[c]) \subseteq Eligible
    BY <1>0, HeldUpType DEF CallType
<1>24. ASSUME SaveCursor(c) PROVE SharedType' /\ CallType' /\ CountBelow'
    BY <1>0, <1>h, <1>24
    DEF SaveCursor, Acknowledge, Goto, SharedType, CallType, CountBelow, Places
<1>25. ASSUME SaveFails(c) PROVE SharedType' /\ CallType' /\ CountBelow'
    BY <1>0, <1>1, <1>3, <1>h, <1>25 DEF SaveFails, Acknowledge, SharedType, CallType
<1>26. ASSUME NEW n \in Eligible, HandlerIsLost(c, n)
       PROVE  SharedType' /\ CallType' /\ CountBelow'
  <2>1. CASE Serial
    <3>1. "none" \in Results
      BY DEF Results
    <3> QED
      BY <1>0, <1>1, <1>26, <2>1, <3>1 DEF HandlerIsLost, SharedType
  <2>2. CASE ~Serial
    <3>1. IsBatch(Abandoned(batch[c], n), Eligible)
      BY <1>0, <1>26, AbandonedBatch DEF HandlerIsLost, CallType
    <3>2. /\ batch' = [d \in Callers |-> batch'[d]]
          /\ \A d \in Callers : IsBatch(batch'[d], Eligible)
      BY <1>0, <1>26, <2>2, <3>1 DEF HandlerIsLost, CallType
    <3> QED
      BY <1>0, <1>26, <2>2, <3>2 DEF HandlerIsLost, SharedType, CallType, CountBelow
  <2> QED
    BY <2>1, <2>2
<1> QED
    BY <1>5, <1>6, <1>7, <1>8, <1>9, <1>10, <1>11, <1>13, <1>14, <1>15, <1>16,
       <1>17, <1>18, <1>19, <1>20, <1>21, <1>22, <1>23, <1>24, <1>25, <1>26
    DEF StartStep, PollReturns, Proceed

(* Types after any step.                                                   *)
LEMMA TypeStep ==
    ASSUME TypeOK, CountBelow, [Next]_vars
    PROVE  TypeOK' /\ CountBelow'
<1> USE DEF serverVars, clientVars, localVars, callVars, fates
<1>0. SharedType /\ CallType /\ 0 \in 0..published /\ 0 < Threshold
    BY TypeParts, ItemsAssumption, ThresholdAssumption DEF SharedType
<1>1. ASSUME NEW c \in Callers, StartStep(c) PROVE TypeOK' /\ CountBelow'
    BY <1>1, TypeStartStep
<1> SUFFICES ASSUME ~ \E c \in Callers : StartStep(c)
             PROVE  SharedType' /\ CallType' /\ CountBelow'
    BY <1>1 DEF TypeOK, SharedType, CallType
<1>2. CASE UNCHANGED vars
    BY <1>0, <1>2 DEF vars, SharedType, CallType, CountBelow
<1>3. ASSUME NEW c \in Callers, StartAccepted(c)
      PROVE  SharedType' /\ CallType' /\ CountBelow'
    BY <1>0, <1>3 DEF StartAccepted, SharedType, CallType, CountBelow, Places, Results
<1>4. ASSUME NEW c \in Callers, StartRejected(c)
      PROVE  SharedType' /\ CallType' /\ CountBelow'
    BY <1>0, <1>4 DEF StartRejected, SharedType, CallType, CountBelow, Results
<1>5. ASSUME NEW c \in Callers, Cancel(c)
      PROVE  SharedType' /\ CallType' /\ CountBelow'
    BY <1>0, <1>5 DEF Cancel, SharedType, CallType, CountBelow
<1>6. ASSUME NEW registered \in BOOLEAN, OnMessage(registered) \/ OnExpired(registered)
      PROVE  SharedType' /\ CallType' /\ CountBelow'
    BY <1>0, <1>6 DEF OnMessage, OnExpired, SharedType, CallType, CountBelow
<1>7. CASE Crash
  <2>1. /\ batch' = [d \in Callers |-> batch'[d]]
        /\ \A d \in Callers : IsBatch(batch'[d], Eligible)
    BY <1>7, EmptyBatchType DEF Crash
  <2>2. SharedType' /\ CountBelow'
    BY <1>0, <1>7 DEF Crash, SharedType, CountBelow
  <2>3. /\ pc' \in [Callers -> Places] /\ result' \in Results
        /\ ctxDone' \in [Callers -> BOOLEAN] /\ hasExpired' \in [Callers -> BOOLEAN]
    BY <1>7 DEF Crash, Places, Results
  <2>4. /\ failures' \in [Callers -> 0..FailureCap]
        /\ expiredCount' \in [Callers -> 0..Threshold]
        /\ cursor' \in [Callers -> 0..published']
        /\ buf' \in [Callers -> 0..published']
    BY <1>0, <1>7, ThresholdAssumption DEF Crash
  <2> QED
    BY <2>1, <2>2, <2>3, <2>4 DEF CallType
<1>8. CASE Publish
  <2>1. published' \in 0..MaxItems /\ 0..published \subseteq 0..published'
    BY <1>0, <1>8, ItemsAssumption DEF Publish, SharedType
  <2> QED
    BY <1>0, <1>8, <2>1 DEF Publish, SharedType, CallType, CountBelow
<1>9. ASSUME NEW n \in 1..MaxItems, Drop(n)
      PROVE  SharedType' /\ CallType' /\ CountBelow'
  <2>1. n \in 0..published
    BY <1>0, <1>9, ItemsAssumption DEF Drop, SharedType
  <2> QED
    BY <1>0, <1>9, <2>1 DEF Drop, SharedType, CallType, CountBelow
<1> QED
    BY <1>2, <1>3, <1>4, <1>5, <1>6, <1>7, <1>8, <1>9 DEF Next, Environment

LEMMA TypeInit == Init => TypeOK /\ CountBelow
<1> SUFFICES ASSUME Init PROVE TypeOK /\ CountBelow
    OBVIOUS
<1>1. /\ 0 \in 0..MaxItems /\ 0 \in 0..FailureCap /\ 0 \in 0..Threshold
      /\ 0 \in 0..0 /\ 0 < Threshold
    BY ItemsAssumption, ThresholdAssumption
<1>2. batch = [d \in Callers |-> batch[d]] /\ \A d \in Callers : IsBatch(batch[d], Eligible)
    BY EmptyBatchType DEF Init
<1>3. CallType /\ CountBelow
    BY <1>1, <1>2 DEF Init, CallType, CountBelow, Places, Results
<1>4. SharedType
    BY <1>1 DEF Init, SharedType
<1> QED
    BY <1>3, <1>4, TypeParts

(* Every variable always has its type; in particular the counters of the   *)
(* loop stay within the caps that stand for the backoff limit and for the  *)
(* expiry threshold.                                                       *)
THEOREM TypeCorrect == Spec => []TypeOK
<1>1. TypeOK /\ CountBelow /\ [Next]_vars => (TypeOK /\ CountBelow)'
    BY TypeStep
<1> QED
    BY TypeInit, <1>1, PTL DEF Spec
-----------------------------------------------------------------------------
(* The running flag.                                                       *)

(* What a step of a call of Start does to its own place and to the flag.   *)
LEMMA StartStepShape ==
    ASSUME TypeOK, NEW c \in Callers, StartStep(c)
    PROVE  /\ pc[c] # "idle"
           /\ \A d \in Callers \ {c} : pc'[d] = pc[d]
           /\ pc'[c] = "idle" => ~running'
           /\ pc'[c] # "idle" => running' = running
BY DEF TypeOK, StartStep, PollReturns, Proceed, Return, Goto, Backoff,
       Snapshot, LoadCursor, LoadFails, LoopTop, PollFails, PollRejected,
       PollExpiredCursor, PollExpiredEmpty, PollDelivers, ClearCursor,
       ClearFails, RevokeClears, RevokeClearFails, ExpiredCallback, WaitEnds,
       WaitCanceled, HandlerSucceeds, HandlerFails, HandlerIsLost, BatchFails,
       BatchSucceeds, SaveCursor, SaveFails, clientVars, callVars

LEMMA OneStartStep ==
    ASSUME TypeOK, OneStart, [Next]_vars
    PROVE  OneStart'
<1> USE DEF OneStart, callVars, clientVars, serverVars, localVars
<1>1. ASSUME NEW c \in Callers, StartStep(c) PROVE OneStart'
    BY <1>1, StartStepShape
<1>2. ASSUME NEW c \in Callers, StartAccepted(c) PROVE OneStart'
    BY <1>2 DEF StartAccepted, TypeOK
<1>3. ASSUME NEW c \in Callers, StartRejected(c) \/ Cancel(c) PROVE OneStart'
    BY <1>3 DEF StartRejected, Cancel
<1>4. CASE Crash
    BY <1>4 DEF Crash
<1>5. CASE Environment /\ ~Crash
    BY <1>5 DEF Environment, OnMessage, OnExpired, Publish, Drop
<1>6. CASE UNCHANGED vars
    BY <1>6 DEF vars
<1> QED
    BY <1>1, <1>2, <1>3, <1>4, <1>5, <1>6 DEF Next

(* Only one Start runs at a time, and the flag says whether one does: the  *)
(* compare-and-swap with the deferred reset is a lock.                     *)
THEOREM OnlyOneStart == Spec => []OneStart
<1>1. Init => OneStart
    BY DEF Init, OneStart
<1>2. TypeOK /\ OneStart /\ [Next]_vars => OneStart'
    BY OneStartStep
<1> QED
    BY TypeCorrect, <1>1, <1>2, PTL DEF Spec
-----------------------------------------------------------------------------
(* Cursor and messages.                                                    *)

(* CountBelow is the first conjunct of LoopKnows.                          *)
LEMMA CountBelowOfLoop == LoopKnows => CountBelow
BY DEF LoopKnows, CountBelow

(* Everything that is true of the data and of the Start in progress.       *)
Knows ==
    /\ CursorAgrees
    /\ LoopKnows
    /\ BatchKnows
    /\ CommittedIsHandled
    /\ FirstHandledInOrder

Context == TypeOK /\ OneStart /\ Knows

(* Numbers the arithmetic below is about.                                  *)
LEMMA NumberFacts ==
    ASSUME TypeOK
    PROVE  /\ \A n \in Eligible : n \in Nat /\ 1 <= n
           /\ stored \in Nat /\ retained \in Nat /\ published \in Nat
           /\ \A c \in Callers : buf[c] \in Nat /\ cursor[c] \in Nat
           /\ \A c \in Callers : batch[c].work \subseteq Eligible
BY ItemsAssumption DEF TypeOK, IsBatch

(* While Start runs in c, nobody else is inside it, before or after.       *)
LEMMA Alone ==
    ASSUME TypeOK, OneStart, NEW c \in Callers, StartStep(c)
    PROVE  \A d \in Callers \ {c} : pc[d] = "idle" /\ pc'[d] = "idle"
BY StartStepShape DEF OneStart

(* A cursor about to be saved covers only what is handled or was held up:  *)
(* the receipt of the batch, and what was behind the old cursor.           *)
LEMMA SaveCovers ==
    ASSUME Context, NEW c \in Callers, pc[c] = "save"
    PROVE  \A n \in Eligible :
              n <= buf[c] => \/ n \in handled \/ n \in missed \/ n \in HeldUp(batch[c])
                             \/ n <= retained
<1> SUFFICES ASSUME NEW n \in Eligible, n <= buf[c],
                    n \notin handled, n \notin missed, n \notin HeldUp(batch[c])
             PROVE  n <= retained
    OBVIOUS
<1>1. CASE n <= stored
    BY <1>1 DEF Context, Knows, CommittedIsHandled
<1>2. CASE ~(n <= stored)
  <2>1. n \notin batch[c].work
    BY DEF Context, Knows, BatchKnows, MayReturnNil
  <2>2. stored < n
    BY <1>2, NumberFacts DEF Context
  <2>3. Skipped(c, n)
    BY <2>1, <2>2 DEF Skipped
  <2> QED
    BY <2>3 DEF Context, Knows, BatchKnows
<1> QED
    BY <1>1, <1>2

(* A handler that may run has nothing of its conversation left before it.  *)
LEMMA HandlerCovers ==
    ASSUME Context, NEW c \in Callers, pc[c] = "batch",
           NEW n \in Eligible, CanRun(batch[c], n)
    PROVE  \A m \in Eligible : m < n /\ SameConversation(m, n) =>
                m \in handled \/ m \in missed \/ m <= retained
<1> SUFFICES ASSUME NEW m \in Eligible, m < n, SameConversation(m, n),
                    m \notin handled, m \notin missed
             PROVE  m <= retained
    OBVIOUS
<1>1. n \in batch[c].work /\ batch[c].needs[n] \subseteq batch[c].done
    BY DEF CanRun
<1>2. CASE m <= stored
    BY <1>2 DEF Context, Knows, CommittedIsHandled
<1>3. CASE ~(m <= stored)
  <2>1. m \notin batch[c].work
    <3> SUFFICES ASSUME m \in batch[c].work PROVE FALSE
      OBVIOUS
    <3>1. batch[c].needs = Needs(batch[c].work) /\ batch[c].done \subseteq handled
      BY DEF Context, Knows, BatchKnows
    <3>2. m \in Needs(batch[c].work)[n]
      BY <1>1 DEF Needs
    <3> QED
      BY <1>1, <3>1, <3>2
  <2>2. stored < m
    BY <1>3, NumberFacts DEF Context
  <2>3. Skipped(c, m)
    BY <1>1, <2>1, <2>2 DEF Skipped
  <2> QED
    BY <2>3 DEF Context, Knows, BatchKnows
<1> QED
    BY <1>2, <1>3

(* When nobody is inside Start, only the last two invariants say anything. *)
LEMMA KnowsWhenIdle ==
    ASSUME TypeOK', CountBelow', \A d \in Callers : pc'[d] = "idle",
           CommittedIsHandled', FirstHandledInOrder'
    PROVE  Knows'
BY DEF Knows, CursorAgrees, LoopKnows, BatchKnows, CountBelow

(* Start returning: the store may have been cleared or, if a save failed,  *)
(* replaced by a cursor that covers only messages accounted for.           *)
LEMMA ReturnKnows ==
    ASSUME Context, NEW c \in Callers, StartStep(c), pc'[c] = "idle",
           TypeOK', CountBelow', UNCHANGED <<published, retained, handled>>,
           (UNCHANGED missed /\ stored' \in {stored, 0}) \/ (pc[c] = "save" /\ Acknowledge(c))
    PROVE  Knows'
<1>1. \A d \in Callers : pc'[d] = "idle"
    BY Alone DEF Context
<1>2. CommittedIsHandled'
  <2>1. CASE stored' = stored /\ UNCHANGED missed
    BY <2>1 DEF Context, Knows, CommittedIsHandled
  <2>2. CASE stored' = 0
    BY <2>2, NumberFacts DEF Context, CommittedIsHandled
  <2>3. CASE pc[c] = "save" /\ Acknowledge(c)
    BY <2>3, SaveCovers DEF CommittedIsHandled, Acknowledge
  <2> QED
    BY <2>1, <2>2, <2>3
<1>3. FirstHandledInOrder'
    BY DEF Context, Knows, FirstHandledInOrder, Acknowledge
<1> QED
    BY <1>1, <1>2, <1>3, KnowsWhenIdle

(* Start moving on with the same cursor, store and messages, and without   *)
(* entering the places where it holds a batch.                             *)
LEMMA MoveKnows ==
    ASSUME Context, NEW c \in Callers, StartStep(c), CountBelow',
           pc[c] \notin {"idle", "starting", "load"} \/ pc'[c] = "load",
           pc'[c] \notin {"batch", "save"},
           pc'[c] \in {"revoke", "callback"} => cursor[c] = 0,
           pc'[c] = "callback" => stored' = 0,
           UNCHANGED <<published, retained, fates, cursor>>,
           stored' = stored \/ (stored' = 0 /\ cursor[c] = 0)
    PROVE  Knows'
<1>1. \A d \in Callers \ {c} : pc'[d] = "idle"
    BY Alone DEF Context
<1>2. CursorAgrees'
    BY <1>1 DEF Context, Knows, CursorAgrees
<1>3. LoopKnows'
    BY <1>1 DEF LoopKnows, CountBelow
<1>4. BatchKnows'
    BY <1>1 DEF BatchKnows
<1>5. CommittedIsHandled'
    BY NumberFacts DEF Context, Knows, CommittedIsHandled, fates
<1>6. FirstHandledInOrder'
    BY DEF Context, Knows, FirstHandledInOrder, fates
<1> QED
    BY <1>2, <1>3, <1>4, <1>5, <1>6 DEF Knows

(* The invariants after one step of a call of Start, action by action.     *)
LEMMA KnowsStartStep ==
    ASSUME Context, NEW c \in Callers, StartStep(c), TypeOK', CountBelow'
    PROVE  Knows'
<1> USE DEF serverVars, clientVars, localVars, callVars, fates
<1>0. /\ TypeOK /\ OneStart /\ Knows
      /\ pc \in [Callers -> Places] /\ cursor \in [Callers -> 0..published]
    BY DEF Context, TypeOK
<1>a. \A d \in Callers \ {c} : pc[d] = "idle" /\ pc'[d] = "idle"
    BY <1>0, Alone
<1>1. ASSUME NEW r, Return(c, r), UNCHANGED <<serverVars, handled>>,
             (UNCHANGED missed /\ stored' \in {stored, 0}) \/ (pc[c] = "save" /\ Acknowledge(c))
      PROVE  Knows'
  <2>1. pc'[c] = "idle"
    BY <1>0, <1>1 DEF Return
  <2> QED
    BY <1>1, <2>1, ReturnKnows
<1>2. ASSUME NEW place, pc' = [pc EXCEPT ![c] = place],
             place \in {"load", "loop", "poll", "wait", "reset", "revoke", "callback"},
             pc[c] \notin {"idle", "starting", "load"} \/ place = "load",
             place \in {"revoke", "callback"} => cursor[c] = 0,
             place = "callback" => stored' = 0,
             UNCHANGED <<serverVars, fates, cursor>>,
             stored' = stored \/ (stored' = 0 /\ cursor[c] = 0)
      PROVE  Knows'
  <2>1. pc'[c] = place
    BY <1>0, <1>2
  <2> QED
    BY <1>2, <2>1, MoveKnows
<1>3. CASE Snapshot(c)
  <2>1. CASE ~onMessage \/ ctxDone[c]
    BY <1>1, <1>3, <2>1 DEF Snapshot
  <2>2. CASE onMessage /\ ~ctxDone[c]
    BY <1>2, <1>3, <2>2 DEF Snapshot, Goto
  <2> QED
    BY <2>1, <2>2
<1>4. CASE LoadFails(c) \/ ExpiredCallback(c) \/ WaitCanceled(c) \/ BatchFails(c)
    BY <1>1, <1>4 DEF LoadFails, ExpiredCallback, WaitCanceled, BatchFails
<1>5. CASE ClearFails(c) \/ RevokeClearFails(c) \/ SaveFails(c)
    BY <1>1, <1>5 DEF ClearFails, RevokeClearFails, SaveFails
<1>6. CASE LoopTop(c)
    BY <1>1, <1>2, <1>6 DEF LoopTop, Goto
<1>7. CASE PollFails(c)
    BY <1>1, <1>2, <1>7 DEF PollFails, Backoff, Goto
<1>8. CASE PollRejected(c)
    BY <1>2, <1>8 DEF PollRejected, Backoff, Goto
<1>9. CASE PollExpiredCursor(c) \/ WaitEnds(c)
    BY <1>2, <1>9 DEF PollExpiredCursor, WaitEnds, Goto
<1>10. CASE PollExpiredEmpty(c)
    BY <1>2, <1>10 DEF PollExpiredEmpty, Backoff, Goto
<1>11. CASE RevokeClears(c)
  <2>1. pc[c] = "revoke" /\ cursor[c] = 0
    BY <1>0, <1>11 DEF RevokeClears, Knows, LoopKnows
  <2> QED
    BY <1>1, <1>2, <1>11, <2>1 DEF RevokeClears, Goto
<1>12. CASE LoadCursor(c)
  <2>1. pc'[c] = "loop" /\ cursor'[c] = stored
    BY <1>0, <1>12 DEF LoadCursor, Goto
  <2>2. CursorAgrees' /\ BatchKnows'
    BY <1>a, <1>12, <2>1 DEF CursorAgrees, BatchKnows, LoadCursor
  <2>3. LoopKnows'
    BY <1>a, <2>1 DEF LoopKnows, CountBelow
  <2> QED
    BY <1>0, <1>12, <2>2, <2>3
    DEF LoadCursor, Knows, CommittedIsHandled, FirstHandledInOrder
<1>13. CASE ClearCursor(c)
  <2>1. pc'[c] = "wait" /\ cursor'[c] = 0
    BY <1>0, <1>13 DEF ClearCursor, Backoff, Goto
  <2>2. CursorAgrees' /\ BatchKnows'
    BY <1>a, <1>13, <2>1 DEF CursorAgrees, BatchKnows, ClearCursor
  <2>3. LoopKnows'
    BY <1>a, <2>1 DEF LoopKnows, CountBelow
  <2>4. CommittedIsHandled'
    BY <1>0, <1>13, NumberFacts DEF ClearCursor, CommittedIsHandled
  <2> QED
    BY <1>0, <1>13, <2>2, <2>3, <2>4 DEF ClearCursor, Knows, FirstHandledInOrder
<1>14. CASE SaveCursor(c)
  <2>1. pc[c] = "save" /\ pc'[c] = "loop" /\ cursor'[c] = stored'
    BY <1>0, <1>14 DEF SaveCursor, Acknowledge, Goto
  <2>2. CursorAgrees' /\ BatchKnows'
    BY <1>a, <2>1 DEF CursorAgrees, BatchKnows
  <2>3. LoopKnows'
    BY <1>a, <2>1 DEF LoopKnows, CountBelow
  <2>4. CommittedIsHandled'
    BY <1>14, <2>1, SaveCovers DEF SaveCursor, Acknowledge, CommittedIsHandled
  <2> QED
    BY <1>0, <1>14, <2>2, <2>3, <2>4 DEF SaveCursor, Acknowledge, Knows, FirstHandledInOrder
<1>15. ASSUME NEW hi, NEW b, PollDelivers(c, hi, b) PROVE Knows'
  <2> DEFINE lo == From(cursor[c])
  <2>1. /\ pc[c] = "poll" /\ pc'[c] = "batch" /\ cursor[c] = stored
        /\ buf'[c] = b /\ b \in {0, hi}
        /\ batch'[c] = NewBatch(Work(lo, hi), Needs(Work(lo, hi)))
    BY <1>0, <1>15 DEF PollDelivers, Goto, Knows, CursorAgrees, TypeOK
  <2>2. /\ batch'[c].work = Work(lo, hi)
        /\ batch'[c].needs = Needs(Work(lo, hi))
        /\ batch'[c].done = {}
    BY <2>1 DEF NewBatch
  <2>3. /\ stored \in Nat /\ retained \in Nat /\ lo \in Nat /\ hi \in Nat
        /\ stored <= lo /\ retained <= lo /\ (lo = stored \/ lo = retained)
    BY <1>0, <1>15, <2>1, NumberFacts DEF From, Larger, PollDelivers
  <2>4. \A n \in Work(lo, hi) : n > stored
    BY <1>0, <2>3, NumberFacts DEF Work
  <2>5. \A m \in Eligible : Skipped(c, m)' => m <= retained
    <3> SUFFICES ASSUME NEW m \in Eligible, stored < m, m \notin Work(lo, hi),
                        m <= b \/ \E n \in Work(lo, hi) : m < n
                 PROVE  m <= retained
      BY <1>15, <2>1, <2>2 DEF Skipped, PollDelivers
    <3>1. m \in Nat /\ m <= hi
      BY <1>0, <2>1, <2>3, NumberFacts DEF Work
    <3>2. m <= lo
      BY <3>1, <2>3 DEF Work
    <3> QED
      BY <2>3, <3>1, <3>2
  <2>6. BatchKnows'
    <3>1. b # 0 => stored <= b
      BY <1>15, <2>1, <2>3 DEF PollDelivers
    <3> QED
      BY <1>a, <1>15, <2>1, <2>2, <2>4, <2>5, <3>1 DEF BatchKnows, PollDelivers
  <2>7. CursorAgrees' /\ LoopKnows'
    BY <1>a, <1>15, <2>1 DEF CursorAgrees, LoopKnows, CountBelow, PollDelivers
  <2> QED
    BY <1>0, <1>15, <2>6, <2>7
    DEF PollDelivers, Knows, CommittedIsHandled, FirstHandledInOrder
<1>16. ASSUME NEW n \in Eligible, HandlerSucceeds(c, n) PROVE Knows'
  <2>1. /\ pc[c] = "batch" /\ pc' = pc /\ CanRun(batch[c], n)
        /\ IsBatch(batch[c], Eligible)
        /\ batch'[c] = Succeeded(batch[c], n)
    BY <1>0, <1>16 DEF HandlerSucceeds, TypeOK
  <2>2. /\ batch'[c].work = batch[c].work
        /\ batch'[c].needs = batch[c].needs
        /\ batch'[c].done = batch[c].done \cup {n}
    <3>1. CanRun(batch[c], n) /\ IsBatch(batch[c], Eligible)
      BY <2>1
    <3>2. /\ Succeeded(batch[c], n).work = batch[c].work
          /\ Succeeded(batch[c], n).needs = batch[c].needs
          /\ Succeeded(batch[c], n).done = batch[c].done \cup {n}
      BY <3>1, SucceededFields
    <3> QED
      BY <2>1, <3>2
  <2>3. BatchKnows'
    <3>1. \A m : Skipped(c, m)' <=> Skipped(c, m)
      BY <1>16, <2>2 DEF Skipped, HandlerSucceeds
    <3> QED
      BY <1>0, <1>a, <1>16, <2>1, <2>2, <3>1 DEF HandlerSucceeds, Knows, BatchKnows
  <2>4. CursorAgrees' /\ LoopKnows'
    BY <1>0, <1>16 DEF HandlerSucceeds, Knows, CursorAgrees, LoopKnows
  <2>5. CommittedIsHandled'
    BY <1>0, <1>16 DEF HandlerSucceeds, Knows, CommittedIsHandled
  <2>6. FirstHandledInOrder'
    BY <1>0, <1>16, <2>1, HandlerCovers DEF HandlerSucceeds, Knows, FirstHandledInOrder
  <2> QED
    BY <2>3, <2>4, <2>5, <2>6 DEF Knows
<1>17. ASSUME NEW n \in Eligible, HandlerFails(c, n) PROVE Knows'
  <2>1. /\ pc[c] = "batch" /\ pc' = pc /\ CanRun(batch[c], n)
        /\ IsBatch(batch[c], Eligible)
        /\ batch'[c] = Failed(batch[c], n)
    BY <1>0, <1>17 DEF HandlerFails, TypeOK
  <2>2. /\ batch'[c].work = batch[c].work
        /\ batch'[c].needs = batch[c].needs
        /\ batch'[c].done = batch[c].done
    <3>1. /\ Failed(batch[c], n).work = batch[c].work
          /\ Failed(batch[c], n).needs = batch[c].needs
          /\ Failed(batch[c], n).done = batch[c].done
      BY <2>1, FailedBatch
    <3> QED
      BY <2>1, <3>1
  <2>3. BatchKnows'
    <3>1. \A m : Skipped(c, m)' <=> Skipped(c, m)
      BY <1>17, <2>2 DEF Skipped, HandlerFails
    <3> QED
      BY <1>0, <1>a, <1>17, <2>1, <2>2, <3>1 DEF HandlerFails, Knows, BatchKnows
  <2> QED
    BY <1>0, <1>17, <2>3
    DEF HandlerFails, Knows, CursorAgrees, LoopKnows, CommittedIsHandled,
        FirstHandledInOrder
<1>18. CASE BatchSucceeds(c)
  <2>1. CASE ctxDone[c]
    BY <1>1, <1>18, <2>1 DEF BatchSucceeds
  <2>2. CASE ~ctxDone[c] /\ buf[c] \in {0, cursor[c]}
    BY <1>2, <1>18, <2>2 DEF BatchSucceeds, Goto
  <2>3. CASE ~ctxDone[c] /\ buf[c] \notin {0, cursor[c]}
    <3>1. /\ pc[c] = "batch" /\ pc'[c] = "save" /\ buf' = buf /\ batch' = batch
          /\ MayReturnNil(batch[c])
          /\ UNCHANGED <<stored, cursor, fates, retained, expiredCount>>
      BY <1>0, <1>18, <2>3 DEF BatchSucceeds, Goto
    <3>2. buf[c] # 0
      BY <2>3
    <3>3. BatchKnows'
      BY <1>0, <1>a, <3>1, <3>2 DEF Knows, BatchKnows, Skipped
    <3>4. CursorAgrees' /\ LoopKnows'
      BY <1>0, <1>a, <3>1 DEF Knows, CursorAgrees, LoopKnows, CountBelow
    <3> QED
      BY <1>0, <3>1, <3>3, <3>4 DEF Knows, CommittedIsHandled, FirstHandledInOrder
  <2> QED
    BY <2>1, <2>2, <2>3
<1>19. ASSUME NEW n \in Eligible, HandlerIsLost(c, n) PROVE Knows'
  <2>1. CASE Serial
    BY <1>1, <1>19, <2>1 DEF HandlerIsLost
  <2>2. CASE ~Serial
    <3>1. /\ pc[c] = "batch" /\ pc' = pc /\ CanRun(batch[c], n)
          /\ IsBatch(batch[c], Eligible)
          /\ batch'[c] = Abandoned(batch[c], n)
      BY <1>0, <1>19, <2>2 DEF HandlerIsLost, TypeOK
    <3>2. /\ batch'[c].work = batch[c].work
          /\ batch'[c].needs = batch[c].needs
          /\ batch'[c].done = batch[c].done
      <4>1. /\ Abandoned(batch[c], n).work = batch[c].work
            /\ Abandoned(batch[c], n).needs = batch[c].needs
            /\ Abandoned(batch[c], n).done = batch[c].done
        BY <3>1, AbandonedBatch
      <4> QED
        BY <3>1, <4>1
    <3>3. BatchKnows'
      <4>1. \A m : Skipped(c, m)' <=> Skipped(c, m)
        BY <1>19, <2>2, <3>2 DEF Skipped, HandlerIsLost
      <4> QED
        BY <1>0, <1>a, <1>19, <2>2, <3>1, <3>2, <4>1 DEF HandlerIsLost, Knows, BatchKnows
    <3> QED
      BY <1>0, <1>19, <2>2, <3>3
      DEF HandlerIsLost, Knows, CursorAgrees, LoopKnows, CommittedIsHandled,
          FirstHandledInOrder
  <2> QED
    BY <2>1, <2>2
<1> QED
    BY <1>3, <1>4, <1>5, <1>6, <1>7, <1>8, <1>9, <1>10, <1>11, <1>12, <1>13,
       <1>14, <1>15, <1>16, <1>17, <1>18, <1>19
    DEF StartStep, PollReturns, Proceed

(* The invariants after any other step.                                    *)
LEMMA KnowsStep ==
    ASSUME Context, [Next]_vars, TypeOK', CountBelow'
    PROVE  Knows'
<1> USE DEF serverVars, clientVars, localVars, callVars, fates
<1>0. TypeOK /\ OneStart /\ Knows
    BY DEF Context
<1>1. ASSUME NEW c \in Callers, StartStep(c) PROVE Knows'
    BY <1>1, KnowsStartStep
<1>2. ASSUME NEW c \in Callers, StartAccepted(c) PROVE Knows'
  <2>1. \A d \in Callers : pc'[d] \in {"idle", "starting"}
    BY <1>0, <1>2 DEF StartAccepted, OneStart, TypeOK
  <2>2. CursorAgrees' /\ LoopKnows' /\ BatchKnows'
    BY <2>1 DEF CursorAgrees, LoopKnows, BatchKnows, CountBelow
  <2> QED
    BY <1>0, <1>2, <2>2 DEF StartAccepted, Knows, CommittedIsHandled, FirstHandledInOrder
<1>3. ASSUME NEW c \in Callers, StartRejected(c) \/ Cancel(c) PROVE Knows'
    BY <1>0, <1>3
    DEF StartRejected, Cancel, Knows, CursorAgrees, LoopKnows, BatchKnows,
        Skipped, CommittedIsHandled, FirstHandledInOrder
<1>4. CASE Crash
  <2>1. CommittedIsHandled'
    BY <1>0, <1>4, NumberFacts DEF Crash, Knows, CommittedIsHandled
  <2>2. FirstHandledInOrder'
    BY <1>0, <1>4 DEF Crash, Knows, FirstHandledInOrder
  <2> QED
    BY <1>4, <2>1, <2>2, KnowsWhenIdle DEF Crash
<1>5. CASE Publish \/ \E registered \in BOOLEAN : OnMessage(registered) \/ OnExpired(registered)
    BY <1>0, <1>5
    DEF Publish, OnMessage, OnExpired, Knows, CursorAgrees, LoopKnows,
        BatchKnows, Skipped, CommittedIsHandled, FirstHandledInOrder
<1>6. ASSUME NEW n \in 1..MaxItems, Drop(n) PROVE Knows'
  <2>1. /\ retained' \in Nat /\ retained \in Nat /\ retained <= retained'
        /\ \A m \in Eligible : m \in Nat
    BY <1>0, <1>6, NumberFacts DEF Drop
  <2>2. \A m \in Eligible : m <= retained => m <= retained'
    BY <2>1
  <2>3. UNCHANGED <<published, stored, clientVars, localVars, callVars, fates>>
    BY <1>6 DEF Drop
  <2>4. BatchKnows'
    BY <1>0, <2>2, <2>3 DEF Knows, BatchKnows, Skipped
  <2> QED
    BY <1>0, <2>2, <2>3, <2>4
    DEF Knows, CursorAgrees, LoopKnows, CommittedIsHandled, FirstHandledInOrder
<1>7. CASE UNCHANGED vars
    BY <1>0, <1>7
    DEF vars, Knows, CursorAgrees, LoopKnows, BatchKnows, Skipped,
        CommittedIsHandled, FirstHandledInOrder
<1> QED
    BY <1>1, <1>2, <1>3, <1>4, <1>5, <1>6, <1>7 DEF Next, Environment

LEMMA KnowsInit == Init => Knows
<1> SUFFICES ASSUME Init PROVE Knows
    OBVIOUS
<1>1. TypeOK
    BY TypeInit
<1>2. \A d \in Callers : pc[d] = "idle" /\ expiredCount[d] = 0
    BY DEF Init
<1>3. CursorAgrees /\ LoopKnows /\ BatchKnows
    BY <1>2, ThresholdAssumption DEF CursorAgrees, LoopKnows, BatchKnows
<1>4. CommittedIsHandled
    BY <1>1, NumberFacts DEF Init, CommittedIsHandled
<1> QED
    BY <1>3, <1>4 DEF Init, Knows, FirstHandledInOrder

(* The inductive invariant, with the types it needs, is one.               *)
THEOREM Inductive == Spec => []InductiveInvariant
<1>1. Init => Context
    BY TypeInit, KnowsInit DEF Context, Init, OneStart
<1>2. Context /\ [Next]_vars => Context'
  <2> SUFFICES ASSUME Context, [Next]_vars PROVE Context'
    OBVIOUS
  <2>1. TypeOK' /\ CountBelow'
    BY TypeStep, CountBelowOfLoop DEF Context, Knows
  <2>2. OneStart'
    BY OneStartStep DEF Context
  <2> QED
    BY <2>1, <2>2, KnowsStep DEF Context
<1>3. Context => InductiveInvariant
    BY DEF Context, Knows, InductiveInvariant
<1> QED
    BY <1>1, <1>2, <1>3, PTL DEF Spec

(* No message is acknowledged before it is handled: the promise on which   *)
(* at-least-once processing rests (src/listener.go:34), for every number   *)
(* of messages and every interleaving of failures, crashes and restarts,   *)
(* and up to what handlers that end a worker's goroutine hold up.          *)
THEOREM NothingLost == Spec => []CommittedIsHandled
BY Inductive, PTL DEF InductiveInvariant

(* Per-user order survives failures, replays and restarts: nobody's later  *)
(* message is handled before an earlier one ever was, unless a cursor went *)
(* past the earlier one because a lost handler had held it up.             *)
THEOREM OrderKept == Spec => []FirstHandledInOrder
BY Inductive, PTL DEF InductiveInvariant

(* The local cursor and the stored one never diverge inside the loop.      *)
THEOREM CursorsAgree == Spec => []CursorAgrees
BY Inductive, PTL DEF InductiveInvariant
-----------------------------------------------------------------------------
(* Replays and the direction of the cursor.                                *)

(* A batch in progress never holds an acknowledged message.                *)
THEOREM NoReplay == Spec => []NoReplayOfCommitted
<1>1. InductiveInvariant => NoReplayOfCommitted
    BY DEF InductiveInvariant, BatchKnows, NoReplayOfCommitted
<1> QED
    BY Inductive, <1>1, PTL

(* The stored cursor advances or is cleared; no step takes it back.        *)
THEOREM CursorOnlyAdvances == Spec => CursorAdvances
<1>1. TypeOK /\ InductiveInvariant /\ [Next]_vars =>
          [stored' >= stored \/ stored' = 0]_stored
  <2> SUFFICES ASSUME TypeOK, InductiveInvariant, [Next]_vars, stored' # stored
               PROVE  stored' >= stored \/ stored' = 0
    OBVIOUS
  <2>1. CASE stored' = 0
    BY <2>1
  <2>2. CASE stored' # 0
    <3>1. PICK c \in Callers : StartStep(c)
      BY <2>2 DEF vars, Next, Environment, StartAccepted, StartRejected, Cancel,
                  OnMessage, OnExpired, Publish, Drop, Crash
    <3>2. pc[c] = "save" /\ stored' = buf[c]
      BY <2>2, <3>1
      DEF StartStep, PollReturns, Proceed, Snapshot, LoadCursor, LoadFails,
          LoopTop, PollFails, PollRejected, PollExpiredCursor,
          PollExpiredEmpty, PollDelivers, ClearCursor, ClearFails,
          RevokeClears, RevokeClearFails, ExpiredCallback, WaitEnds,
          WaitCanceled, HandlerSucceeds, HandlerFails, HandlerIsLost, BatchFails,
          BatchSucceeds, SaveCursor, SaveFails, Acknowledge
    <3>3. stored <= buf[c]
      BY <2>2, <3>2 DEF InductiveInvariant, BatchKnows
    <3> QED
      BY <3>2, <3>3, NumberFacts
  <2> QED
    BY <2>1, <2>2
<1> QED
    BY TypeCorrect, Inductive, <1>1, PTL DEF Spec, CursorAdvances

(* The expiry callback only ever runs after the cursor is gone.            *)
THEOREM ClearedFirst == Spec => []ClearedBeforeCallback
<1>1. InductiveInvariant => ClearedBeforeCallback
    BY DEF InductiveInvariant, LoopKnows, ClearedBeforeCallback
<1> QED
    BY Inductive, <1>1, PTL
-----------------------------------------------------------------------------
(* Bot implements Listener, so what is shown of Listener holds of it, and  *)
(* its dead-letter file completes the promise of the poll loop.            *)

CurrentType == current \in Eligible \cup {0}

LEMMA CurrentStep == CurrentType /\ [BotNext]_botVars => CurrentType'
<1> SUFFICES ASSUME CurrentType, [BotNext]_botVars PROVE CurrentType'
  OBVIOUS
<1> USE DEF CurrentType, handlerVars
<1>1. ASSUME NEW c \in Callers, Handler(c) PROVE CurrentType'
  BY <1>1 DEF Handler, CallHandler, ReplySucceeds, ReplyFails, Open, Write, Sync, Close,
              ReturnNil, ReturnError
<1>2. ASSUME NEW c \in Callers, HandlerFault(c) PROVE CurrentType'
  BY <1>2 DEF HandlerFault, ReplyFails, OpenFails, WriteFails, SyncOrCloseFails, ReturnError
<1>3. CASE KeepHandler BY <1>3 DEF KeepHandler
<1>4. CASE ProcessDies BY <1>4 DEF ProcessDies
<1>5. CASE UNCHANGED botVars BY <1>5 DEF botVars
<1> QED
  BY <1>1, <1>2, <1>3, <1>4, <1>5
  DEF BotNext, Works, Fails, Loop, LoopFault, Register, CallStart

(* A step of the bot is a step of the poll loop, or leaves it alone.       *)
LEMMA BotStepIsListenerStep == CurrentType /\ [BotNext]_botVars => [Next]_vars
<1> SUFFICES ASSUME CurrentType, [BotNext]_botVars PROVE [Next]_vars
  OBVIOUS
<1>0. 0 \notin Eligible
  BY ItemsAssumption
<1>1. ASSUME NEW c \in Callers, current # 0, HandlerSucceeds(c, current) \/ HandlerFails(c, current)
      PROVE  Next
  <2>1. \E n \in Eligible : HandlerSucceeds(c, n) \/ HandlerFails(c, n)
    BY <1>1 DEF CurrentType
  <2> QED
    BY <2>1 DEF Next, StartStep, Proceed
<1>2. ASSUME NEW c \in Callers, Handler(c) PROVE [Next]_vars
  BY <1>1, <1>2 DEF Handler, CallHandler, ReplySucceeds, ReplyFails, Open, Write, Sync, Close,
                    ReturnNil, ReturnError, Running
<1>3. ASSUME NEW c \in Callers, HandlerFault(c) PROVE [Next]_vars
  BY <1>1, <1>3 DEF HandlerFault, ReplyFails, OpenFails, WriteFails, SyncOrCloseFails,
                    ReturnError, Running
<1>4. ASSUME NEW c \in Callers, Loop(c) PROVE Next
  BY <1>4 DEF Loop, Next, StartStep, Proceed, PollReturns
<1>5. ASSUME NEW c \in Callers, LoopFault(c) PROVE Next
  BY <1>5 DEF LoopFault, Next, StartStep, Proceed, PollReturns
<1>6. ASSUME NEW c \in Callers, CallStart(c) PROVE Next
  BY <1>6 DEF CallStart, Next
<1>7. CASE Register
  BY <1>7 DEF Register, Next, Environment
<1>8. CASE Publish \/ Crash \/ \E n \in 1..MaxItems : Drop(n)
  BY <1>8 DEF Next, Environment
<1>9. CASE UNCHANGED botVars
  BY <1>9 DEF botVars
<1> QED
  BY <1>2, <1>3, <1>4, <1>5, <1>6, <1>7, <1>8, <1>9 DEF BotNext, Works, Fails, ProcessDies

(* The bot implements the poll loop: its handler, several steps long, is   *)
(* the one step of Listener that returns from a handler.                   *)
THEOREM BotImplementsListener == BotSpec => Spec
<1>1. BotInit => Init /\ CurrentType
  BY DEF BotInit, CurrentType
<1> QED
  BY <1>1, CurrentStep, BotStepIsListenerStep, PTL DEF BotSpec, Spec
(* The handler of the bot never ends its goroutine, so none of its         *)
(* messages is lost and no cursor is stored past one that was.             *)
NoneLost == missed = {} /\ \A c \in Callers : batch[c].lost = {}

LEMMA NoneLostStep ==
    ASSUME TypeOK, NoneLost, CurrentType, [BotNext]_botVars
    PROVE  NoneLost'
<1> USE DEF NoneLost, localVars, callVars, fates
<1>1. batch = [c \in Callers |-> batch[c]] /\ \A c \in Callers : IsBatch(batch[c], Eligible)
  BY DEF TypeOK
<1>2. EmptyBatch.lost = {} /\ \A w, n : NewBatch(w, n).lost = {}
  BY DEF EmptyBatch, NewBatch
<1>3. \A c \in Callers : HeldUp(batch[c]) = {}
  BY DEF HeldUp
<1>4. ASSUME NEW c \in Callers, batch' = [batch EXCEPT ![c] = EmptyBatch], missed' = missed
      PROVE  NoneLost'
  BY <1>1, <1>2, <1>4
<1>5. ASSUME UNCHANGED <<batch, missed>> PROVE NoneLost'
  BY <1>5
<1>6. ASSUME NEW c \in Callers, NEW n \in Eligible, HandlerSucceeds(c, n) \/ HandlerFails(c, n)
      PROVE  NoneLost'
  <2>1. CanRun(batch[c], n) /\ missed' = missed
    BY <1>6 DEF HandlerSucceeds, HandlerFails
  <2>2. /\ Succeeded(batch[c], n).lost = batch[c].lost
        /\ Failed(batch[c], n).lost = batch[c].lost
    <3>1. CanRun(batch[c], n) /\ IsBatch(batch[c], Eligible)
      BY <1>1, <2>1
    <3>2. Succeeded(batch[c], n).lost = batch[c].lost
      BY <3>1, SucceededFields
    <3>3. Failed(batch[c], n).lost = batch[c].lost
      BY <3>1, FailedBatch
    <3> QED
      BY <3>2, <3>3
  <2>3. \/ batch' = [batch EXCEPT ![c] = Succeeded(batch[c], n)]
        \/ batch' = [batch EXCEPT ![c] = Failed(batch[c], n)]
    BY <1>6 DEF HandlerSucceeds, HandlerFails
  <2> QED
    BY <1>1, <2>1, <2>2, <2>3
<1>7. 0 \notin Eligible
  BY ItemsAssumption
<1>8. ASSUME NEW c \in Callers, Handler(c) \/ HandlerFault(c) PROVE NoneLost'
  <2>1. ASSUME current # 0, HandlerSucceeds(c, current) \/ HandlerFails(c, current)
        PROVE  NoneLost'
    BY <1>6, <2>1 DEF CurrentType
  <2> QED
    BY <1>5, <1>8, <2>1
    DEF Handler, HandlerFault, CallHandler, ReplySucceeds, ReplyFails, Open, OpenFails,
        Write, WriteFails, Sync, Close, SyncOrCloseFails, ReturnNil, ReturnError,
        Running, vars
<1>9. ASSUME NEW c \in Callers, NEW r, Return(c, r), missed' = missed PROVE NoneLost'
  BY <1>4, <1>9 DEF Return, ForgetLocals
<1>10. ASSUME NEW c \in Callers, Loop(c) PROVE NoneLost'
  <2>1. ASSUME NEW hi, NEW b, PollDelivers(c, hi, b) PROVE NoneLost'
    BY <1>1, <1>2, <2>1 DEF PollDelivers
  <2>2. CASE SaveCursor(c)
    BY <1>3, <2>2 DEF SaveCursor, Acknowledge
  <2>3. CASE Snapshot(c) \/ LoopTop(c) \/ PollFails(c) \/ RevokeClears(c) \/ BatchSucceeds(c)
    BY <1>5, <1>9, <2>3 DEF Snapshot, LoopTop, PollFails, Backoff, RevokeClears, BatchSucceeds
  <2>4. CASE LoadCursor(c) \/ PollRejected(c) \/ ClearCursor(c) \/ WaitEnds(c)
    BY <1>5, <2>4 DEF LoadCursor, PollRejected, ClearCursor, WaitEnds
  <2>5. CASE ExpiredCallback(c) \/ WaitCanceled(c) \/ BatchFails(c)
    BY <1>9, <2>5 DEF ExpiredCallback, WaitCanceled, BatchFails
  <2> QED
    BY <1>10, <2>1, <2>2, <2>3, <2>4, <2>5 DEF Loop
<1>11. ASSUME NEW c \in Callers, LoopFault(c) PROVE NoneLost'
  <2>1. CASE Cancel(c) \/ PollRejected(c) \/ PollExpiredCursor(c) \/ PollExpiredEmpty(c)
    BY <1>5, <2>1 DEF Cancel, PollRejected, PollExpiredCursor, PollExpiredEmpty
  <2>2. CASE PollFails(c)
    BY <1>5, <1>9, <2>2 DEF PollFails, Backoff
  <2>3. CASE LoadFails(c) \/ ClearFails(c) \/ RevokeClearFails(c)
    BY <1>9, <2>3 DEF LoadFails, ClearFails, RevokeClearFails
  <2>4. CASE SaveFails(c)
    <3>1. missed' = missed
      BY <1>3, <2>4 DEF SaveFails, Acknowledge
    <3> QED
      BY <1>9, <2>4, <3>1 DEF SaveFails
  <2> QED
    BY <1>11, <2>1, <2>2, <2>3, <2>4 DEF LoopFault
<1>12. ASSUME NEW c \in Callers, CallStart(c) PROVE NoneLost'
  BY <1>5, <1>12 DEF CallStart, StartAccepted, StartRejected
<1>13. CASE Register \/ Publish \/ \E n \in 1..MaxItems : Drop(n)
  BY <1>5, <1>13 DEF Register, OnMessage, OnExpired, Publish, Drop
<1>14. CASE ProcessDies
  BY <1>2, <1>14 DEF ProcessDies, Crash
<1>15. CASE UNCHANGED botVars
  BY <1>5, <1>15 DEF botVars, vars
<1> QED
  BY <1>8, <1>10, <1>11, <1>12, <1>13, <1>14, <1>15 DEF BotNext, Works, Fails

(* So what Listener promises up to lost handlers, the bot has in full.     *)
THEOREM BotLosesNothing == BotSpec => []NoneLost
<1>1. BotInit => NoneLost /\ CurrentType
  BY DEF BotInit, CurrentType, Init, NoneLost, EmptyBatch, NewBatch
<1>2. BotSpec => []TypeOK
  BY BotImplementsListener, TypeCorrect, PTL
<1>3. TypeOK /\ (NoneLost /\ CurrentType) /\ [BotNext]_botVars => (NoneLost /\ CurrentType)'
  BY NoneLostStep, CurrentStep
<1> QED
  BY <1>1, <1>2, <1>3, PTL DEF BotSpec

-----------------------------------------------------------------------------
(* A handler returns nil only when its message is answered or its record   *)
(* is on the disk, and what is on the disk stays there.                    *)
SettleInv ==
    /\ handled \subseteq replied \cup synced
    /\ synced \subseteq written
    /\ step \in {"sync", "close"} => current \in written
    /\ step = "close" => current \in synced

LEMMA OthersKeepHandled ==
    ASSUME NEW c \in Callers, Loop(c) \/ LoopFault(c) \/ CallStart(c)
    PROVE  UNCHANGED <<handled, handlerVars, fileVars, replied>>
<1>1. UNCHANGED <<handlerVars, fileVars, replied>>
  BY DEF Loop, LoopFault, CallStart, KeepHandler
<1>2. ASSUME Loop(c) PROVE handled' = handled
  BY <1>2 DEF Loop, Snapshot, LoadCursor, LoopTop, PollFails, PollRejected,
     PollDelivers, ClearCursor, RevokeClears, ExpiredCallback, WaitEnds, WaitCanceled,
     BatchFails, BatchSucceeds, SaveCursor, fates
<1>3. ASSUME LoopFault(c) PROVE handled' = handled
  BY <1>3 DEF LoopFault, Cancel, PollFails, PollRejected, PollExpiredCursor,
     PollExpiredEmpty, LoadFails, ClearFails, RevokeClearFails, SaveFails, fates
<1>4. ASSUME CallStart(c) PROVE handled' = handled
  BY <1>4 DEF CallStart, StartAccepted, StartRejected, fates
<1> QED
  BY <1>1, <1>2, <1>3, <1>4

LEMMA SettleStep == SettleInv /\ [BotNext]_botVars => SettleInv'
<1> SUFFICES ASSUME SettleInv, [BotNext]_botVars PROVE SettleInv'
  OBVIOUS
<1> USE DEF SettleInv, handlerVars, fileVars, fates
<1>0. ASSUME UNCHANGED <<handled, handlerVars, fileVars, replied>> PROVE SettleInv'
  BY <1>0
<1>1. ASSUME NEW c \in Callers, Handler(c) PROVE SettleInv'
  <2>1. ASSUME NEW n \in Eligible, CallHandler(c, n) PROVE SettleInv'
    BY <2>1 DEF CallHandler, vars
  <2>2. CASE ReplySucceeds(c)
    BY <2>2 DEF ReplySucceeds, ReturnNil, HandlerSucceeds
  <2>3. ASSUME NEW err, ReplyFails(c, err) PROVE SettleInv'
    BY <2>3 DEF ReplyFails, ReturnError, HandlerFails, vars
  <2>4. CASE Open(c) BY <2>4 DEF Open, vars
  <2>5. CASE Write(c) BY <2>5 DEF Write, vars
  <2>6. CASE Sync(c) BY <2>6 DEF Sync, Running, vars
  <2>7. CASE Close(c) BY <2>7 DEF Close, Running, ReturnNil, HandlerSucceeds
  <2> QED
    BY <1>1, <2>1, <2>2, <2>3, <2>4, <2>5, <2>6, <2>7 DEF Handler
<1>2. ASSUME NEW c \in Callers, HandlerFault(c) PROVE SettleInv'
  BY <1>2 DEF HandlerFault, ReplyFails, OpenFails, WriteFails, SyncOrCloseFails,
              ReturnError, HandlerFails, vars
<1>3. ASSUME NEW c \in Callers, Loop(c) \/ LoopFault(c) \/ CallStart(c) PROVE SettleInv'
  BY <1>0, <1>3, OthersKeepHandled
<1>4. CASE Register \/ (KeepHandler /\ (Publish \/ \E n \in 1..MaxItems : Drop(n)))
  BY <1>0, <1>4 DEF Register, KeepHandler, OnMessage, OnExpired, Publish, Drop
<1>5. CASE ProcessDies
  BY <1>5 DEF ProcessDies, Crash
<1>6. CASE UNCHANGED botVars
  BY <1>6 DEF botVars, vars
<1> QED
  BY <1>1, <1>2, <1>3, <1>4, <1>5, <1>6 DEF BotNext, Works, Fails

(* Nothing is acknowledged that is neither answered nor durably recorded:  *)
(* crashes of process and machine, failing files and replays included.     *)
THEOREM NothingForgotten == BotSpec => []CommittedIsSettled
<1>1. BotInit => SettleInv
  BY DEF BotInit, Init, SettleInv
<1>2. BotSpec => []SettleInv
  BY <1>1, SettleStep, PTL DEF BotSpec
<1>3. BotSpec => []CommittedIsHandled
  BY BotImplementsListener, NothingLost, PTL
<1>4. SettleInv /\ NoneLost /\ CommittedIsHandled => CommittedIsSettled
  BY DEF SettleInv, NoneLost, CommittedIsHandled, CommittedIsSettled
<1> QED
  BY <1>2, <1>3, <1>4, BotLosesNothing, PTL

(* The bot first handles the messages of a conversation in order, and no   *)
(* message of it is excepted.                                              *)
THEOREM BotKeepsOrder == BotSpec => [](FirstHandledInOrder /\ missed = {})
<1>1. NoneLost => missed = {}
  BY DEF NoneLost
<1> QED
  BY <1>1, BotImplementsListener, OrderKept, BotLosesNothing, PTL
-----------------------------------------------------------------------------
(* The counters of the loop against the log of ListenerHistory.            *)

(* The log of ListenerHistory changes no step of Listener.                 *)
LEMMA HistoryStepIsListenerStep == [HNext]_historyVars => [Next]_vars
<1>1. ASSUME NEW c \in Callers, Poll(c) PROVE Next
  BY <1>1 DEF Poll, Next, StartStep, PollReturns
<1>2. ASSUME NEW c \in Callers,
             StartAccepted(c) \/ StartRejected(c) \/ Cancel(c) \/ Proceed(c)
      PROVE  Next
  BY <1>2 DEF Next, StartStep
<1>3. Environment => Next
  BY DEF Next
<1>4. UNCHANGED historyVars => UNCHANGED vars
  BY DEF historyVars
<1> QED
  BY <1>1, <1>2, <1>3, <1>4 DEF HNext

(* Keeping the log leaves Start as it is: what is proved of Listener holds *)
(* beside it.                                                              *)
THEOREM HistoryImplementsListener == HSpec => Spec
<1>1. HInit => Init
  BY DEF HInit
<1> QED
  BY <1>1, HistoryStepIsListenerStep, PTL DEF HSpec, Spec
-----------------------------------------------------------------------------
Outcomes == {"failed", "rejected", "expired", "empty", "ok"}

LogType == log \in Seq(Outcomes) /\ Len(log) <= MaxPolls

(* The polls since an outcome are among the polls logged.                  *)
LEMMA SinceIsFinite ==
    ASSUME LogType, NEW stops
    PROVE  /\ Since(stops) \subseteq 1..Len(log)
           /\ IsFiniteSet(Since(stops))
           /\ Cardinality(Since(stops)) \in Nat
           /\ Cardinality(Since(stops)) <= Len(log)
<1>1. Len(log) \in Nat /\ DOMAIN log = 1..Len(log)
  BY LenProperties DEF LogType
<1>2. Since(stops) \subseteq 1..Len(log)
  BY <1>1 DEF Since
<1>3. IsFiniteSet(1..Len(log)) /\ Cardinality(1..Len(log)) = Len(log)
  <2>1. \A n \in Nat : IsFiniteSet(1..n) /\ Cardinality(1..n) = n
    BY FS_Interval
  <2> QED
    BY <1>1, <2>1
<1> QED
  BY <1>2, <1>3, FS_Subset, FS_CardinalityType

(* So are the expiries, which makes counting them meaningful.              *)
LEMMA ExpiriesIsFinite ==
    ASSUME LogType
    PROVE  /\ Expiries \subseteq 1..Len(log)
           /\ IsFiniteSet(Expiries)
           /\ Cardinality(Expiries) \in Nat
<1>1. Expiries \subseteq Since({"ok", "expired"})
  BY DEF Expiries
<1> QED
  BY <1>1, SinceIsFinite, FS_Subset, FS_CardinalityType

(* One more outcome: a stopping one empties the polls since, any other     *)
(* joins them.                                                             *)
LEMMA SinceAfter ==
    ASSUME LogType, NEW o \in Outcomes, NEW stops, log' = Append(log, o)
    PROVE  /\ log' \in Seq(Outcomes) /\ Len(log') = Len(log) + 1
           /\ \A i \in 1..Len(log) : log'[i] = log[i]
           /\ log'[Len(log) + 1] = o
           /\ Since(stops)' = IF o \in stops THEN {}
                              ELSE Since(stops) \cup {Len(log) + 1}
<1> DEFINE n == Len(log)
<1>1. /\ log \in Seq(Outcomes) /\ n \in Nat /\ DOMAIN log = 1..n
  BY LenProperties DEF LogType
<1>2. /\ log' \in Seq(Outcomes) /\ Len(log') = n + 1 /\ DOMAIN log' = 1..(n + 1)
      /\ \A i \in 1..n : log'[i] = log[i]
      /\ log'[n + 1] = o
  BY <1>1, AppendProperties
<1>3. Since(stops)' = {i \in 1..(n + 1) : \A j \in i..(n + 1) : log'[j] \notin stops}
  BY <1>2 DEF Since
<1>4. Since(stops) = {i \in 1..n : \A j \in i..n : log[j] \notin stops}
  BY <1>1 DEF Since
<1> HIDE DEF n
<1>5. CASE o \in stops
  BY <1>1, <1>2, <1>3, <1>5 DEF n
<1>6. CASE o \notin stops
  <2>1. \A i \in 1..n : i..(n + 1) = (i..n) \cup {n + 1}
    BY <1>1
  <2>2. \A i \in 1..n : \A j \in i..n : log'[j] = log[j]
    BY <1>1, <1>2
  <2>3. \A i \in 1..n : (\A j \in i..(n + 1) : log'[j] \notin stops) <=>
                        (\A j \in i..n : log[j] \notin stops)
    BY <1>2, <1>6, <2>1, <2>2
  <2>4. \A j \in (n + 1)..(n + 1) : j = n + 1
    BY <1>1
  <2>5. \A j \in (n + 1)..(n + 1) : log'[j] \notin stops
    BY <1>2, <1>6, <2>4
  <2>6. 1..(n + 1) = 1..n \cup {n + 1}
    BY <1>1
  <2>7. Since(stops)' = Since(stops) \cup {n + 1}
    BY <1>3, <1>4, <2>3, <2>5, <2>6
  <2> QED
    BY <1>2, <1>6, <2>7 DEF n
<1> QED
  BY <1>5, <1>6

(* What one more outcome does to the two counts.                           *)
LEMMA CountsAfter ==
    ASSUME LogType, NEW o \in Outcomes, log' = Append(log, o)
    PROVE  /\ Cardinality(Since({"ok"}))' =
                IF o = "ok" THEN 0 ELSE Cardinality(Since({"ok"})) + 1
           /\ Cardinality(Expiries)' =
                IF o \in {"ok", "expired"} THEN 0
                ELSE IF o = "empty" THEN Cardinality(Expiries) + 1
                ELSE Cardinality(Expiries)
<1> DEFINE n == Len(log)
<1>0. n \in Nat /\ n + 1 \notin 1..n
  BY LenProperties DEF LogType
<1>1. Cardinality(Since({"ok"}))' = IF o = "ok" THEN 0 ELSE Cardinality(Since({"ok"})) + 1
  <2>1. Since({"ok"})' = IF o \in {"ok"} THEN {} ELSE Since({"ok"}) \cup {n + 1}
    BY SinceAfter
  <2>2. n + 1 \notin Since({"ok"}) /\ IsFiniteSet(Since({"ok"}))
    BY <1>0, SinceIsFinite
  <2>3. Cardinality(Since({"ok"}) \cup {n + 1}) = Cardinality(Since({"ok"})) + 1
    BY <2>2, FS_AddElement
  <2> QED
    BY <2>1, <2>3, FS_EmptySet
<1> DEFINE stops == {"ok", "expired"}
<1>2. /\ Since(stops)' = IF o \in stops THEN {} ELSE Since(stops) \cup {n + 1}
      /\ \A i \in 1..n : log'[i] = log[i]
      /\ log'[n + 1] = o
  BY SinceAfter
<1>3. Expiries' = {i \in Since(stops)' : log'[i] = "empty"}
  BY DEF Expiries
<1>4. Expiries = {i \in Since(stops) : log[i] = "empty"} /\ Since(stops) \subseteq 1..n
  BY SinceIsFinite DEF Expiries
<1>5. Expiries' = IF o \in stops THEN {}
                  ELSE IF o = "empty" THEN Expiries \cup {n + 1} ELSE Expiries
  <2>1. CASE o \in stops
    BY <1>2, <1>3, <2>1
  <2>2. CASE o \notin stops
    BY <1>2, <1>3, <1>4, <2>2
  <2> QED
    BY <2>1, <2>2
<1>6. n + 1 \notin Expiries /\ IsFiniteSet(Expiries)
  BY <1>0, ExpiriesIsFinite
<1>7. Cardinality(Expiries \cup {n + 1}) = Cardinality(Expiries) + 1
  BY <1>6, FS_AddElement
<1> QED
  BY <1>1, <1>5, <1>7, FS_EmptySet

(* An empty log counts nothing.                                            *)
LEMMA CountsOfNothing ==
    ASSUME log = <<>>
    PROVE  Cardinality(Since({"ok"})) = 0 /\ Cardinality(Expiries) = 0
<1>1. Since({"ok"}) = {} /\ Since({"ok", "expired"}) = {}
  BY DEF Since
<1> QED
  BY <1>1, FS_EmptySet DEF Expiries
-----------------------------------------------------------------------------
(* The two counters of the loop are what the log says they count: expiries *)
(* with an empty cursor since the last success or reset, and failures of   *)
(* any kind since the last success.  Between an expired cursor and its     *)
(* reset the log is one poll ahead of both.                                *)
Counts(c) ==
    /\ pc[c] \in {"idle", "starting", "load"} => failures[c] = 0 /\ expiredCount[c] = 0
    /\ pc[c] \in {"starting", "load"} => log = <<>>
    /\ pc[c] \in {"loop", "poll", "wait", "batch", "save", "revoke", "callback"} =>
            expiredCount[c] = Cardinality(Expiries)
    /\ pc[c] \in {"loop", "poll", "wait", "batch", "save"} =>
            failures[c] = Cardinality(Since({"ok"}))
    /\ pc[c] = "wait" => failures[c] # 0
    /\ pc[c] = "reset" => /\ Cardinality(Expiries) = 0
                          /\ failures[c] + 1 = Cardinality(Since({"ok"}))
    /\ pc[c] \in {"revoke", "callback"} => expiredCount[c] >= Threshold

Counted == LogType /\ \A c \in Callers : Counts(c)

(* What the counting needs to know of the rest of the state.               *)
Proper == TypeOK /\ OneStart

(* A call of Start that is not in progress counts nothing, so a step of    *)
(* another one leaves it alone.                                            *)
LEMMA OthersCount ==
    ASSUME Proper, Counted, NEW c \in Callers, StartStep(c), LogType', Counts(c)',
           \A d \in Callers \ {c} : failures'[d] = failures[d] /\ expiredCount'[d] = expiredCount[d]
    PROVE  Counted'
<1> SUFFICES ASSUME NEW d \in Callers \ {c} PROVE Counts(d)'
  BY DEF Counted
<1>1. pc[d] = "idle" /\ pc'[d] = "idle"
  BY Alone DEF Proper
<1>2. failures'[d] = 0 /\ expiredCount'[d] = 0
  BY <1>1 DEF Counted, Counts
<1> QED
  BY <1>1, <1>2 DEF Counts

(* When Start returns its counters go with it.                             *)
LEMMA ReturnCounts ==
    ASSUME Proper, Counted, NEW c \in Callers, StartStep(c), NEW r, Return(c, r), log' = log
    PROVE  Counted'
<1>1. /\ failures' = [failures EXCEPT ![c] = 0] /\ expiredCount' = [expiredCount EXCEPT ![c] = 0]
      /\ pc' = [pc EXCEPT ![c] = "idle"]
  BY DEF Return, ForgetLocals
<1>2. LogType'
  BY DEF Counted, LogType
<1>3. pc'[c] = "idle" /\ failures'[c] = 0 /\ expiredCount'[c] = 0
  BY <1>1 DEF Proper, TypeOK
<1>4. Counts(c)'
  BY <1>3 DEF Counts
<1> QED
  BY <1>1, <1>2, <1>4, OthersCount DEF Proper, TypeOK

(* Moving on with the counters and the log as they are.                    *)
LEMMA MoveCounts ==
    ASSUME Proper, Counted, NEW c \in Callers, StartStep(c), NEW place, Goto(c, place),
           UNCHANGED <<failures, expiredCount, log>>,
           \/ pc[c] = "starting" /\ place = "load"
           \/ pc[c] = "load" /\ place = "loop"
           \/ pc[c] \in {"loop", "wait", "batch", "save"} /\ place \in {"loop", "poll", "save"}
           \/ pc[c] = "revoke" /\ place = "callback"
    PROVE  Counted'
<1>1. LogType' /\ pc'[c] = place
  BY DEF Counted, LogType, Goto, Proper, TypeOK
<1>2. UNCHANGED <<Expiries, Since({"ok"})>>
  BY DEF Expiries, Since
<1>3. Counts(c)
  BY DEF Counted
<1>4. Counts(c)'
  BY <1>1, <1>2, <1>3, CountsOfNothing DEF Counts
<1> QED
  BY <1>1, <1>4, OthersCount

(* A failure that is logged counts for one: the cap is not met.            *)
LEMMA CountedFailure ==
    ASSUME Proper, LogType, NEW c \in Callers, NEW n \in Nat, failures[c] = n, n + 1 <= MaxPolls,
           failures' = [failures EXCEPT ![c] = Failures(c)]
    PROVE  failures'[c] = n + 1
<1>1. MaxPolls \in Nat /\ MaxPolls <= FailureCap /\ FailureCap \in Nat
  BY MaxPollsAssumption, ThresholdAssumption
<1>2. n < FailureCap
  BY <1>1
<1> QED
  BY <1>2 DEF Failures, Proper, TypeOK

(* Logging an outcome keeps the type of the log and its bound.             *)
LEMMA LoggedType ==
    ASSUME LogType, NEW o \in Outcomes, Logged(o)
    PROVE  /\ LogType' /\ Len(log) + 1 <= MaxPolls
           /\ log' = Append(log, o)
<1>1. Len(log) \in Nat /\ MaxPolls \in Nat
  BY LenProperties, MaxPollsAssumption DEF LogType
<1>2. log' = Append(log, o) /\ Len(log) < MaxPolls
  BY DEF Logged
<1>3. Len(log') = Len(log) + 1 /\ log' \in Seq(Outcomes)
  BY <1>2, SinceAfter
<1> QED
  BY <1>1, <1>2, <1>3 DEF LogType

(* What a poll that is answered does to the two counters.                  *)
LEMMA PollCounts ==
    ASSUME Proper, CountBelow, Counted, NEW c \in Callers, Poll(c)
    PROVE  Counted'
<1> DEFINE fails == Cardinality(Since({"ok"}))
           empties == Cardinality(Expiries)
<1>1. StartStep(c) /\ pc[c] = "poll"
  BY DEF Poll, StartStep, PollReturns, PollFails, PollRejected, PollExpiredCursor,
         PollExpiredEmpty, PollDelivers
<1>2. /\ LogType /\ Counts(c)
      /\ failures[c] = fails /\ expiredCount[c] = empties
      /\ fails \in Nat /\ empties \in Nat /\ fails <= Len(log) /\ Len(log) \in Nat
      /\ MaxPolls \in Nat /\ empties < Threshold /\ Threshold \in Nat
  BY <1>1, SinceIsFinite, ExpiriesIsFinite, LenProperties, MaxPollsAssumption, ThresholdAssumption
  DEF Counted, Counts, LogType, CountBelow
<1>3. ASSUME NEW o \in Outcomes, Logged(o)
      PROVE  /\ LogType' /\ log' = Append(log, o) /\ fails + 1 <= MaxPolls
             /\ fails' = IF o = "ok" THEN 0 ELSE fails + 1
             /\ empties' = IF o \in {"ok", "expired"} THEN 0
                           ELSE IF o = "empty" THEN empties + 1 ELSE empties
  <2>1. LogType' /\ log' = Append(log, o) /\ Len(log) + 1 <= MaxPolls
    BY <1>2, <1>3, LoggedType
  <2>2. fails + 1 <= MaxPolls
    BY <1>2, <2>1
  <2> QED
    BY <1>2, <2>1, <2>2, CountsAfter
<1> HIDE DEF fails, empties
<1>4. ASSUME Backoff(c), fails + 1 <= MaxPolls PROVE failures'[c] = fails + 1 /\ pc'[c] = "wait"
  BY <1>2, <1>4, CountedFailure DEF Backoff, Goto, Proper, TypeOK
<1>5. \A d \in Callers \ {c} : failures'[d] = failures[d] /\ expiredCount'[d] = expiredCount[d]
  BY DEF Poll, PollFails, PollRejected, PollExpiredCursor, PollExpiredEmpty, PollDelivers,
         Return, ForgetLocals, Backoff, localVars, Proper, TypeOK
<1>6. CASE ctxDone[c] /\ PollFails(c) /\ log' = log
  BY <1>1, <1>6, ReturnCounts DEF PollFails
<1>7. CASE ~ctxDone[c] /\ PollFails(c) /\ Logged("failed")
  <2>1. Backoff(c) /\ expiredCount' = expiredCount
    BY <1>7 DEF PollFails
  <2>2. LogType' /\ fails' = fails + 1 /\ empties' = empties /\ fails + 1 <= MaxPolls
    BY <1>3, <1>7 DEF Outcomes
  <2>3. Counts(c)'
    BY <1>2, <1>4, <2>1, <2>2 DEF Counts, fails, empties
  <2> QED
    BY <1>1, <1>5, <2>2, <2>3, OthersCount
<1>8. CASE PollRejected(c) /\ Logged("rejected")
  <2>1. Backoff(c) /\ expiredCount' = expiredCount
    BY <1>8 DEF PollRejected
  <2>2. LogType' /\ fails' = fails + 1 /\ empties' = empties /\ fails + 1 <= MaxPolls
    BY <1>3, <1>8 DEF Outcomes
  <2>3. Counts(c)'
    BY <1>2, <1>4, <2>1, <2>2 DEF Counts, fails, empties
  <2> QED
    BY <1>1, <1>5, <2>2, <2>3, OthersCount
<1>9. CASE PollExpiredCursor(c) /\ Logged("expired")
  <2>1. pc'[c] = "reset" /\ failures' = failures
    BY <1>9 DEF PollExpiredCursor, Goto, localVars, Proper, TypeOK
  <2>2. LogType' /\ fails' = fails + 1 /\ empties' = 0
    BY <1>3, <1>9 DEF Outcomes
  <2>3. Counts(c)'
    BY <1>2, <2>1, <2>2 DEF Counts, fails, empties
  <2> QED
    BY <1>1, <1>5, <2>2, <2>3, OthersCount
<1>10. CASE PollExpiredEmpty(c) /\ Logged("empty")
  <2>1. LogType' /\ fails' = fails + 1 /\ empties' = empties + 1 /\ fails + 1 <= MaxPolls
    BY <1>3, <1>10 DEF Outcomes
  <2>2. expiredCount'[c] = empties + 1
    BY <1>2, <1>10 DEF PollExpiredEmpty, Proper, TypeOK
  <2>3. CASE empties + 1 >= Threshold
    <3>1. pc'[c] = "revoke"
      BY <1>2, <1>10, <2>3 DEF PollExpiredEmpty, Goto, Proper, TypeOK
    <3>2. Counts(c)'
      BY <2>1, <2>2, <2>3, <3>1 DEF Counts, fails, empties
    <3> QED
      BY <1>1, <1>5, <2>1, <3>2, OthersCount
  <2>4. CASE ~(empties + 1 >= Threshold)
    <3>1. Backoff(c)
      BY <1>2, <1>10, <2>4 DEF PollExpiredEmpty
    <3>2. Counts(c)'
      BY <1>2, <1>4, <2>1, <2>2, <3>1 DEF Counts, fails, empties
    <3> QED
      BY <1>1, <1>5, <2>1, <3>2, OthersCount
  <2> QED
    BY <2>3, <2>4
<1>11. ASSUME NEW hi, NEW b, PollDelivers(c, hi, b), Logged("ok") PROVE Counted'
  <2>1. pc'[c] = "batch" /\ failures'[c] = 0 /\ expiredCount'[c] = 0
    BY <1>11 DEF PollDelivers, Goto, Proper, TypeOK
  <2>2. LogType' /\ fails' = 0 /\ empties' = 0
    BY <1>3, <1>11 DEF Outcomes
  <2>3. Counts(c)'
    BY <2>1, <2>2 DEF Counts, fails, empties
  <2> QED
    BY <1>1, <1>5, <2>2, <2>3, OthersCount
<1> QED
  BY <1>6, <1>7, <1>8, <1>9, <1>10, <1>11 DEF Poll

(* The other steps of a call leave the log alone; only the reset of an     *)
(* expired cursor touches a counter and goes on.                           *)
LEMMA ProceedCounts ==
    ASSUME Proper, Counted, NEW c \in Callers, Proceed(c), log' = log
    PROVE  Counted'
<1> USE DEF localVars
<1>0. StartStep(c)
  BY DEF StartStep
<1>1. CASE ClearCursor(c)
  <2> DEFINE fails == Cardinality(Since({"ok"}))
  <2>1. /\ LogType /\ failures[c] \in Nat /\ failures[c] + 1 = fails /\ Cardinality(Expiries) = 0
        /\ fails <= Len(log) /\ Len(log) <= MaxPolls /\ Len(log) \in Nat /\ MaxPolls \in Nat
        /\ fails \in Nat
    BY <1>1, SinceIsFinite, LenProperties, MaxPollsAssumption, ThresholdAssumption
    DEF ClearCursor, Counted, Counts, LogType, Proper, TypeOK
  <2>2. fails' = fails /\ Expiries' = Expiries /\ LogType'
    BY <2>1 DEF Since, Expiries, LogType
  <2> HIDE DEF fails
  <2>3. failures[c] + 1 <= MaxPolls
    BY <2>1
  <2>4. failures'[c] = failures[c] + 1 /\ pc'[c] = "wait" /\ expiredCount'[c] = 0
    BY <1>1, <2>1, <2>3, CountedFailure DEF ClearCursor, Backoff, Goto, Proper, TypeOK
  <2>5. Counts(c)'
    BY <2>1, <2>2, <2>4 DEF Counts, fails
  <2>6. \A d \in Callers \ {c} : failures'[d] = failures[d] /\ expiredCount'[d] = expiredCount[d]
    BY <1>1 DEF ClearCursor, Backoff, Proper, TypeOK
  <2> QED
    BY <1>0, <2>2, <2>5, <2>6, OthersCount
<1>2. ASSUME NEW r, Return(c, r) PROVE Counted'
  BY <1>0, <1>2, ReturnCounts
<1>3. CASE Snapshot(c)
  <2>1. CASE ~onMessage \/ ctxDone[c]
    BY <1>2, <1>3, <2>1 DEF Snapshot
  <2>2. CASE onMessage /\ ~ctxDone[c]
    BY <1>0, <1>3, <2>2, MoveCounts DEF Snapshot
  <2> QED
    BY <2>1, <2>2
<1>4. CASE LoadCursor(c)
  BY <1>0, <1>4, MoveCounts DEF LoadCursor
<1>5. CASE LoadFails(c) \/ ClearFails(c) \/ RevokeClearFails(c) \/ ExpiredCallback(c)
           \/ WaitCanceled(c) \/ BatchFails(c) \/ SaveFails(c)
  BY <1>2, <1>5 DEF LoadFails, ClearFails, RevokeClearFails, ExpiredCallback,
                    WaitCanceled, BatchFails, SaveFails
<1>6. CASE LoopTop(c)
  <2>1. CASE ctxDone[c]
    BY <1>2, <1>6, <2>1 DEF LoopTop
  <2>2. CASE ~ctxDone[c]
    BY <1>0, <1>6, <2>2, MoveCounts DEF LoopTop
  <2> QED
    BY <2>1, <2>2
<1>7. CASE RevokeClears(c)
  <2>1. CASE ~hasExpired[c]
    BY <1>2, <1>7, <2>1 DEF RevokeClears
  <2>2. CASE hasExpired[c]
    BY <1>0, <1>7, <2>2, MoveCounts DEF RevokeClears
  <2> QED
    BY <2>1, <2>2
<1>8. CASE WaitEnds(c)
  BY <1>0, <1>8, MoveCounts DEF WaitEnds
<1>9. CASE BatchSucceeds(c)
  <2>1. CASE ctxDone[c]
    BY <1>2, <1>9, <2>1 DEF BatchSucceeds
  <2>2. CASE ~ctxDone[c]
    BY <1>0, <1>9, <2>2, MoveCounts DEF BatchSucceeds
  <2> QED
    BY <2>1, <2>2
<1>10. CASE SaveCursor(c)
  BY <1>0, <1>10, MoveCounts DEF SaveCursor
<1>11. ASSUME NEW n \in Eligible, HandlerSucceeds(c, n) \/ HandlerFails(c, n) PROVE Counted'
  <2>1. UNCHANGED <<pc, failures, expiredCount, log>>
    BY <1>11 DEF HandlerSucceeds, HandlerFails, callVars
  <2> QED
    BY <2>1 DEF Counted, Counts, LogType, Since, Expiries
<1>12. ASSUME NEW n \in Eligible, HandlerIsLost(c, n) PROVE Counted'
  <2>1. CASE Serial
    BY <1>2, <1>12, <2>1 DEF HandlerIsLost
  <2>2. CASE ~Serial
    <3>1. UNCHANGED <<pc, failures, expiredCount, log>>
      BY <1>12, <2>2 DEF HandlerIsLost, callVars
    <3> QED
      BY <3>1 DEF Counted, Counts, LogType, Since, Expiries
  <2> QED
    BY <2>1, <2>2
<1> QED
  BY <1>1, <1>3, <1>4, <1>5, <1>6, <1>7, <1>8, <1>9, <1>10, <1>11, <1>12 DEF Proceed

(* Every step of the loop with its log keeps the counters right.           *)
LEMMA CountedStep ==
    ASSUME Proper, CountBelow, Counted, [HNext]_historyVars
    PROVE  Counted'
<1> USE DEF callVars, localVars
<1>1. ASSUME NEW c \in Callers, Poll(c) PROVE Counted'
  BY <1>1, PollCounts
<1>2. ASSUME NEW c \in Callers, StartAccepted(c), log' = <<>> PROVE Counted'
  <2>1. LogType'
    BY <1>2, LenProperties, MaxPollsAssumption DEF LogType
  <2>2. \A d \in Callers : pc[d] = "idle"
    BY <1>2 DEF StartAccepted, Proper, OneStart
  <2>3. UNCHANGED <<failures, expiredCount>> /\ \A d \in Callers : pc'[d] \in {"idle", "starting"}
    BY <1>2, <2>2 DEF StartAccepted, Proper, TypeOK
  <2> QED
    BY <1>2, <2>1, <2>2, <2>3 DEF Counted, Counts
<1>3. ASSUME NEW c \in Callers, Proceed(c), log' = log PROVE Counted'
  BY <1>3, ProceedCounts
<1>4. ASSUME UNCHANGED <<pc, failures, expiredCount, log>> PROVE Counted'
  BY <1>4 DEF Counted, Counts, LogType, Since, Expiries
<1>5. ASSUME NEW c \in Callers, StartRejected(c) \/ Cancel(c), log' = log PROVE Counted'
  BY <1>4, <1>5 DEF StartRejected, Cancel
<1>6. CASE Environment /\ log' = log
  <2>1. CASE Crash
    <3>1. \A c \in Callers : pc'[c] = "idle" /\ failures'[c] = 0 /\ expiredCount'[c] = 0
      BY <2>1 DEF Crash
    <3> QED
      BY <1>6, <3>1 DEF Counted, Counts, LogType
  <2>2. CASE ~Crash
    BY <1>4, <1>6, <2>2 DEF Environment, OnMessage, OnExpired, Publish, Drop
  <2> QED
    BY <2>1, <2>2
<1>7. CASE UNCHANGED historyVars
  BY <1>4, <1>7 DEF historyVars, vars
<1> QED
  BY <1>1, <1>2, <1>3, <1>5, <1>6, <1>7 DEF HNext

(* What the polls of a Start have come to is what its counters say, for    *)
(* any threshold and any number of polls.                                  *)
THEOREM CountersTellHistory == HSpec => []Counted
<1>1. HInit => Counted
  <2> SUFFICES ASSUME HInit PROVE Counted
    OBVIOUS
  <2>1. LogType
    BY LenProperties, MaxPollsAssumption DEF HInit, LogType
  <2> QED
    BY <2>1 DEF HInit, Init, Counted, Counts
<1>2. HSpec => [](Proper /\ CountBelow)
  <2>1. TypeOK /\ InductiveInvariant => Proper /\ CountBelow
    BY CountBelowOfLoop DEF InductiveInvariant, Proper
  <2> QED
    BY <2>1, HistoryImplementsListener, TypeCorrect, Inductive, PTL
<1>3. (Proper /\ CountBelow) /\ Counted /\ [HNext]_historyVars => Counted'
  BY CountedStep
<1> QED
  BY <1>1, <1>2, <1>3, PTL DEF HSpec

(* Start gives up on the session at exactly the Threshold-th expiry with   *)
(* an empty cursor since the last success or reset (src/listener.go:80).   *)
THEOREM RevokedExactly == HSpec => []RevokedAtThreshold
<1>1. TypeOK /\ InductiveInvariant /\ Counted => RevokedAtThreshold
  <2> SUFFICES ASSUME TypeOK, InductiveInvariant, Counted, NEW c \in Callers
               PROVE  /\ pc[c] \in {"loop", "poll", "wait", "batch", "save"} =>
                              Cardinality(Expiries) < Threshold
                      /\ pc[c] \in {"revoke", "callback"} =>
                              Cardinality(Expiries) = Threshold
    BY DEF RevokedAtThreshold
  <2>1. /\ pc[c] \notin {"revoke", "callback"} => expiredCount[c] < Threshold
        /\ expiredCount[c] \in 0..Threshold
        /\ Counts(c) /\ Threshold \in Nat
    BY ThresholdAssumption DEF InductiveInvariant, LoopKnows, TypeOK, Counted
  <2> QED
    BY <2>1 DEF Counts
<1> QED
  BY <1>1, CountersTellHistory, HistoryImplementsListener, TypeCorrect, Inductive, PTL
-----------------------------------------------------------------------------
(* The delay before a retry.                                               *)

(* A set of natural numbers has a least one.                               *)
LEMMA Least ==
    ASSUME NEW T, T \subseteq Nat, T # {}
    PROVE  \E x \in T : \A y \in T : ~ (y < x)
<1>1. \E x \in T : \A y \in T : ~ (<<y, x>> \in OpToRel(<, Nat))
  BY WFMin, NatLessThanWellFounded
<1>2. \A x, y \in Nat : y < x => <<y, x>> \in OpToRel(<, Nat)
  BY DEF OpToRel
<1> QED
  BY <1>1, <1>2

(* 2^n is the number of subsets of a set of n elements, and one more       *)
(* element doubles it.                                                     *)
LEMMA PowerDoubles == ASSUME NEW n \in Nat PROVE 2^(n + 1) = 2 * 2^n /\ 2^n \in Nat \ {0}
<1> DEFINE S == 1..n
           T == S \cup {n + 1}
           P == SUBSET S
           Q == {X \cup {n + 1} : X \in P}
<1>0. P # {}
  BY {} \in P
<1>1. IsFiniteSet(S) /\ Cardinality(S) = n /\ n + 1 \notin S
  BY FS_Interval
<1>2. IsFiniteSet(T) /\ Cardinality(T) = n + 1
  BY <1>1, FS_AddElement
<1>3. IsFiniteSet(P) /\ Cardinality(P) = 2^n /\ Cardinality(P) \in Nat \ {0}
  BY <1>0, <1>1, FS_SUBSET, FS_CardinalityType, FS_EmptySet
<1>4. IsFiniteSet(SUBSET T) /\ Cardinality(SUBSET T) = 2^(n + 1)
  BY <1>2, FS_SUBSET
<1>5. SUBSET T = P \cup Q /\ P \cap Q = {}
  <2>1. ASSUME NEW X \in SUBSET T, X \notin P PROVE X \in Q
    <3>1. X = (X \ {n + 1}) \cup {n + 1} /\ X \ {n + 1} \in P
      BY <2>1
    <3> QED BY <3>1
  <2>2. \A X \in P : X \in SUBSET T
    OBVIOUS
  <2>3. \A X \in Q : X \in SUBSET T /\ X \notin P
    BY <1>1
  <2> QED
    BY <2>1, <2>2, <2>3
<1> DEFINE f == [X \in P |-> X \cup {n + 1}]
<1>6. f \in Bijection(P, Q)
  <2>1. f \in [P -> Q] /\ \A Y \in Q : \E X \in P : f[X] = Y
    OBVIOUS
  <2>2. ASSUME NEW X \in P, NEW Y \in P, f[X] = f[Y] PROVE X = Y
    <3>1. X \cup {n + 1} = Y \cup {n + 1}
      BY <2>2
    <3>2. \A Z \in P : Z = (Z \cup {n + 1}) \ {n + 1}
      BY <1>1
    <3> QED BY <3>1, <3>2, Zenon
  <2> QED
    BY <2>1, <2>2, Fun_IsBij
<1>7. IsFiniteSet(Q) /\ Cardinality(Q) = Cardinality(P)
  BY <1>3, <1>6, FS_Bijection DEF ExistsBijection
<1>8. Cardinality(P \cup Q) = Cardinality(P) + Cardinality(Q) - Cardinality(P \cap Q)
  BY <1>3, <1>7, FS_Union
<1>9. Cardinality(P \cap Q) = 0
  BY <1>5, FS_EmptySet
<1> HIDE DEF P, Q, T, S
<1>10. Cardinality(P \cup Q) = 2 * Cardinality(P)
  BY <1>3, <1>7, <1>8, <1>9
<1>11. Cardinality(P \cup Q) = 2^(n + 1)
  BY <1>4, <1>5, Zenon
<1> QED
  BY <1>3, <1>10, <1>11, Zenon

(* The empty set has one subset.                                           *)
LEMMA PowerOfZero == 2^0 = 1
<1>1. IsFiniteSet({}) /\ Cardinality({}) = 0
  BY FS_EmptySet
<1>2. Cardinality(SUBSET {}) = 2^Cardinality({})
  BY <1>1, FS_SUBSET
<1>3. SUBSET {} = {{}}
  OBVIOUS
<1>4. Cardinality({{}}) = 1
  BY FS_Singleton
<1> QED
  BY <1>1, <1>2, <1>3, <1>4, Zenon

(* The delay that is meant: exponential, and capped.                       *)
Exponential(initial, max, n) == Minimum(initial * 2^(n - 1), max)

(* It begins with the initial delay, doubles up to the cap, and lies       *)
(* between them.                                                           *)
LEMMA ExponentialGrows ==
    ASSUME NEW max \in Nat, NEW initial \in 1..max, NEW n \in Nat \ {0}
    PROVE  /\ Exponential(initial, max, n) \in 1..max
           /\ Exponential(initial, max, 1) = initial
           /\ Exponential(initial, max, n + 1) = Minimum(2 * Exponential(initial, max, n), max)
<1> DEFINE p == 2^(n - 1)
           x == initial * p
<1>1. n - 1 \in Nat /\ (n - 1) + 1 = n /\ (n + 1) - 1 = n
  OBVIOUS
<1>2. p \in Nat \ {0} /\ 2^n = 2 * p
  BY <1>1, PowerDoubles
<1>3. Exponential(initial, max, 1) = initial
  <2>1. initial * 2^(1 - 1) = initial
    BY PowerOfZero
  <2> QED
    BY <2>1 DEF Exponential, Minimum
<1>4. Exponential(initial, max, n) = Minimum(x, max)
  BY DEF Exponential
<1>5. Exponential(initial, max, n + 1) = Minimum(initial * (2 * p), max)
  BY <1>1, <1>2 DEF Exponential
<1> HIDE DEF p
<1>6. initial * (2 * p) = 2 * x /\ x \in Nat /\ x >= 1
  BY <1>2
<1> HIDE DEF x
<1>7. Minimum(x, max) \in 1..max
  BY <1>6 DEF Minimum
<1>8. Minimum(2 * x, max) = Minimum(2 * Minimum(x, max), max)
  BY <1>6 DEF Minimum
<1> QED
  BY <1>3, <1>4, <1>5, <1>6, <1>7, <1>8

(* A turn of the loop doubles the delay up to the cap, and never wraps.    *)
LEMMA DoubledIsExact ==
    ASSUME NEW max \in Int64, NEW d \in 1..max
    PROVE  Doubled(d, max) = Minimum(2 * d, max)
<1>0. MaxInt \in Nat
  BY MachineAssumption
<1>1. max - d \in Int64
  BY <1>0 DEF Int64
<1>2. Wrap(max - d) = max - d
  BY <1>1, NoWrap
<1>3. CASE d >= max - d
  BY <1>0, <1>2, <1>3 DEF Doubled, Minimum, Int64
<1>4. CASE ~(d >= max - d)
  <2>1. d * 2 \in Int64 /\ 2 * d < max /\ d * 2 = 2 * d
    BY <1>0, <1>4 DEF Int64
  <2>2. Wrap(d * 2) = d * 2
    BY <2>1, NoWrap
  <2> QED
    BY <1>2, <1>4, <2>1, <2>2 DEF Doubled, Minimum
<1> QED
  BY <1>3, <1>4

(* backoffBase computes it, after any number of failures: the loop is the  *)
(* recursion of Exponential, and a difference would have a first place.    *)
THEOREM BackoffIsExponential ==
    ASSUME NEW max \in Int64, NEW initial \in 1..max, NEW n \in 1..MaxFailures
    PROVE  BackoffBase(initial, max, n) = Exponential(initial, max, n)
<1> DEFINE Turn(g, i) == IF i = 1 THEN initial ELSE Doubled(g[i - 1], max)
           Turns(g) == g = [i \in 1..MaxFailures |-> Turn(g, i)]
           turn == CHOOSE g : Turns(g)
           exact == [i \in 1..MaxFailures |-> Exponential(initial, max, i)]
<1>0. MaxFailures \in Nat /\ max \in Nat /\ MaxInt \in Nat
  BY MaxFailuresAssumption, MachineAssumption DEF Int64
<1>1. BackoffBase(initial, max, n) = Minimum(turn[n], max)
  BY DEF BackoffBase
<1>2. \A i \in 1..MaxFailures : exact[i] \in 1..max
  BY <1>0, ExponentialGrows
<1>3. \A i \in 1..MaxFailures : exact[i] = Turn(exact, i)
  <2> SUFFICES ASSUME NEW i \in 1..MaxFailures PROVE exact[i] = Turn(exact, i)
    OBVIOUS
  <2>1. CASE i = 1
    BY <1>0, <2>1, ExponentialGrows
  <2>2. CASE i # 1
    <3>1. i - 1 \in 1..MaxFailures /\ i - 1 \in Nat \ {0} /\ (i - 1) + 1 = i
      BY <1>0, <2>2
    <3>2. Exponential(initial, max, i) = Minimum(2 * Exponential(initial, max, i - 1), max)
      BY <1>0, <3>1, ExponentialGrows
    <3>3. Doubled(exact[i - 1], max) = Minimum(2 * exact[i - 1], max)
      BY <1>2, <3>1, DoubledIsExact
    <3> QED
      BY <2>2, <3>1, <3>2, <3>3
  <2> QED
    BY <2>1, <2>2
<1>4. Turns(exact)
  BY <1>3
<1>5. Turns(turn)
  BY <1>4
<1>6. \A i \in 1..MaxFailures : turn[i] = Turn(turn, i)
  BY <1>5
<1> HIDE DEF turn, exact
<1>7. ASSUME NEW i \in 1..MaxFailures, turn[i] # exact[i] PROVE FALSE
  <2> DEFINE Wrong == {j \in 1..MaxFailures : turn[j] # exact[j]}
  <2>1. PICK j \in Wrong : \A k \in Wrong : ~ (k < j)
    <3>1. Wrong \subseteq Nat /\ Wrong # {}
      BY <1>0, <1>7
    <3> QED
      BY <3>1, Least
  <2>2. CASE j = 1
    BY <1>3, <1>6, <2>1, <2>2
  <2>3. CASE j # 1
    <3>1. j - 1 \in 1..MaxFailures /\ j - 1 < j
      BY <1>0, <2>1, <2>3
    <3>2. turn[j - 1] = exact[j - 1]
      BY <2>1, <3>1
    <3> QED
      BY <1>3, <1>6, <2>1, <2>3, <3>2
  <2> QED
    BY <2>2, <2>3
<1>8. turn[n] = exact[n] /\ exact[n] \in 1..max
  BY <1>2, <1>7
<1> QED
  BY <1>0, <1>1, <1>8 DEF Minimum, exact

(* Jitter keeps the delay within the upper half of what was computed.      *)
LEMMA JitterStaysInUpperHalf ==
    ASSUME NEW d \in Nat
    PROVE  Jittered(d) \subseteq (d \div 2)..d
<1>1. d \div 2 \in Int /\ d % 2 \in 0..1 /\ d = 2 * (d \div 2) + (d % 2)
  BY Z3
<1> DEFINE half == d \div 2
<1>2. half \in Nat /\ half <= d
  BY <1>1
<1>3. Jittered(d) = IF d <= 1 THEN {d} ELSE {half + r : r \in 0..(d - half)}
  BY DEF Jittered
<1> HIDE DEF half
<1>4. \A r \in 0..(d - half) : half + r \in half..d
  BY <1>2
<1>5. d \in half..d
  BY <1>2
<1> QED
  BY <1>3, <1>4, <1>5 DEF half

(* The bounds of a client that NewClient built.                            *)
LEMMA BoundsAreAccepted ==
    ASSUME NEW b \in Bounds
    PROVE  b[2] \in Int64 /\ b[2] \in Nat /\ b[1] \in 1..b[2]
<1>1. PICK i \in Int64, m \in Int64 :
          LET raw == [Unset EXCEPT !["BackoffInitial"] = i, !["BackoffMax"] = m]
          IN  /\ Accepted(raw)
              /\ b = <<SetDefaults(raw)["BackoffInitial"], SetDefaults(raw)["BackoffMax"]>>
  BY DEF Bounds
<1> DEFINE one == [Unset EXCEPT !["BackoffInitial"] = i]
           raw == [one EXCEPT !["BackoffMax"] = m]
<1>2. 0 \in Int64
  BY MachineAssumption DEF Int64
<1>3. one \in [Settings -> Int64]
  BY <1>2 DEF Unset
<1>4. raw \in [Settings -> Int64]
  BY <1>3
<1>5. /\ Accepted(raw)
      /\ b = <<SetDefaults(raw)["BackoffInitial"], SetDefaults(raw)["BackoffMax"]>>
  BY <1>1
<1> HIDE DEF raw
<1>6. "BackoffMax" \in Settings
  BY DEF Settings, ZeroIsUnset
<1>7. SetDefaults(raw) \in [Settings -> Int64] /\ b[1] \in 1..b[2]
  BY <1>4, <1>5, AcceptedNumbersFit
<1>8. b[2] \in Int64
  BY <1>5, <1>6, <1>7
<1> QED
  BY <1>7, <1>8, MachineAssumption DEF Int64

(* Whatever Config said, the delay before a retry is exponential in the    *)
(* failures since the last success and capped, jitter included             *)
(* (src/listener.go:284-310).                                              *)
THEOREM DelayIsExponential == HSpec => []DelayFollowsFailures
<1>1. TypeOK /\ Counted => DelayFollowsFailures
  <2> SUFFICES ASSUME TypeOK, Counted, NEW c \in Callers, pc[c] = "wait", NEW b \in Bounds
               PROVE  LET exact == Minimum(b[1] * 2^(Cardinality(Since({"ok"})) - 1), b[2])
                          base == BaseDelay[b][failures[c]]
                      IN  base = exact /\ Jittered(base) \subseteq (exact \div 2)..exact
    BY DEF DelayFollowsFailures
  <2> DEFINE n == failures[c]
             exact == Exponential(b[1], b[2], n)
  <2>1. n = Cardinality(Since({"ok"})) /\ n # 0
    BY DEF Counted, Counts
  <2>2. n \in 1..MaxFailures /\ n \in Nat \ {0}
    BY <2>1, ThresholdAssumption, MaxFailuresAssumption, MaxPollsAssumption DEF TypeOK
  <2>3. BaseDelay[b][n] = BackoffBase(b[1], b[2], n)
    BY <2>2 DEF BaseDelay
  <2>4. b[2] \in Int64 /\ b[2] \in Nat /\ b[1] \in 1..b[2]
    BY BoundsAreAccepted
  <2>5. BackoffBase(b[1], b[2], n) = exact /\ exact \in Nat
    <3> HIDE DEF n
    <3>1. BackoffBase(b[1], b[2], n) = exact
      BY <2>2, <2>4, BackoffIsExponential
    <3>2. exact \in 1..b[2]
      BY <2>2, <2>4, ExponentialGrows
    <3> QED
      BY <2>4, <3>1, <3>2
  <2>6. Jittered(exact) \subseteq (exact \div 2)..exact
    BY <2>5, JitterStaysInUpperHalf
  <2>7. exact = Minimum(b[1] * 2^(Cardinality(Since({"ok"})) - 1), b[2])
    BY <2>1 DEF Exponential
  <2> QED
    BY <2>3, <2>5, <2>6, <2>7
<1> QED
  BY <1>1, CountersTellHistory, HistoryImplementsListener, TypeCorrect, PTL
=============================================================================

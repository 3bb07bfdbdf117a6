-------------------------------- MODULE Batch --------------------------------
(***************************************************************************)
(* One call of Client.processBatch (src/listener.go:144-198) together with *)
(* Client.dispatchInbound (200-259) and Client.invokeHandler (261-270).    *)
(*                                                                         *)
(* With HandlerConcurrency = 1 the goroutine of Start walks the messages   *)
(* itself under the context of Start.  Otherwise the messages are grouped  *)
(* by user, min(HandlerConcurrency, groups) workers receive whole groups   *)
(* from an unbuffered channel, and all of them work under batchCtx, which  *)
(* is cancelled by the first worker that fails and by the context of Start.*)
(*                                                                         *)
(* An invocation of the handler is a pair <<i, k>>: item k of message i of *)
(* the batch.  A message is a record                                       *)
(*   user      FromUserID                                                  *)
(*   eligible  MessageType = MsgTypeUser and MessageState = MsgStateFinish *)
(*   items     Len(ItemList)                                               *)
(* and a batch or a group is a set of them, walked by increasing index:    *)
(* both are only ever appended to in the order of the reply.               *)
(***************************************************************************)
EXTENDS Naturals, FiniteSets, BatchOps

CONSTANTS Batches,             \* the batches one getupdates reply may carry
          Concurrencies,       \* the values Config.HandlerConcurrency may have
          HandlerOutcomes,     \* what a handler may do: see HandlerReturns
          NoError,             \* the nil error
          Running              \* processBatch has not returned

\* Config.validate (src/config.go:216) refuses a concurrency below one.
ASSUME ConcurrencyAssumption == Concurrencies \subseteq Nat \ {0}

ASSUME OutcomeAssumption == HandlerOutcomes \subseteq {"ok", "error", "goexit"}

ASSUME BatchAssumption ==
    \A m \in Batches :
        /\ IsFiniteSet(DOMAIN m)
        /\ \A i \in DOMAIN m :
              i \in Nat /\ m[i].eligible \in BOOLEAN /\ m[i].items \in Nat

VARIABLES
    batch,      \* the messages of this call
    HandlerConcurrency,     \* of the client's Config
    pctx,       \* the context of Start is cancelled
    cause,      \* NoError, or the first error that ended the batch: the cause
                \* of batchCtx, and in the serial mode the error to return
    main,       \* the goroutine of Start: "enqueue", "wait" or "returned"
    queued,     \* the messages of the groups it has not handed out
    wpc,        \* per worker: where it is (see below)
    group,      \* per worker: the messages of its group still to dispatch,
                \* the one being dispatched included
    at,         \* per worker: the invocation it is at
    done,       \* the invocations that returned nil
    failed,     \* the invocations that returned an error or panicked
    late,       \* history: handler calls a worker began after cancellation
    ret         \* what processBatch returned

inputs == <<batch, HandlerConcurrency>>
vars == <<inputs, pctx, cause, main, queued, wpc, group, at, done, failed, late, ret>>
mainVars == <<main, queued, ret>>
workerVars == <<wpc, group, at, late>>

Serial == HandlerConcurrency = 1
Workers == 1..HandlerConcurrency
Left == {"exited", "gone"}
-----------------------------------------------------------------------------
(* The work of a batch.                                                    *)

Eligible(m) == m.eligible

(* The invocations the batch asks for, and the order it must keep: that of *)
(* the whole batch in the serial mode, that of one user's items otherwise. *)
Work(msgs) ==
    UNION {{<<i, k>> : k \in 1..msgs[i].items} : i \in {j \in DOMAIN msgs : Eligible(msgs[j])}}

Before(x, y) == x[1] < y[1] \/ (x[1] = y[1] /\ x[2] < y[2])

Needs(msgs) ==
    [x \in Work(msgs) |->
        {y \in Work(msgs) :
            /\ Before(y, x)
            /\ Serial \/ msgs[y[1]].user = msgs[x[1]].user}]

(* What is grouped: finished user messages, in the concurrent mode.        *)
Grouped(msgs) == {i \in DOMAIN msgs : Eligible(msgs[i])}

Conversations(msgs) == {msgs[i].user : i \in Grouped(msgs)}

\* Variant of GroupOf: every message is a group of its own.
UngroupedByUser(msgs, i) == {i}

(* The group message i is in: those of its user.                           *)
GroupOf(msgs, i) == {j \in Grouped(msgs) : msgs[j].user = msgs[i].user}

First(S, i) == i \in S /\ \A j \in S : i <= j

\* The verdicts of a call are different from each other and from its work.
ASSUME VerdictAssumption ==
    /\ NoError # CtxError /\ NoError # Running /\ CtxError # Running
    /\ \A m \in Batches : {NoError, CtxError, Running} \cap Work(m) = {}

(* The context dispatchInbound looks at is dead.                           *)
ContextDone == IF Serial THEN pctx ELSE cause # NoError

(* cancel(err) and return: only the first cause is kept.                   *)
FirstCause(err) == IF cause = NoError THEN err ELSE cause

Stop(w, err) ==
    /\ cause' = FirstCause(err)
    /\ wpc' = [wpc EXCEPT ![w] = "exited"]
-----------------------------------------------------------------------------
(* Worker states: "idle" receives from jobs; "message" is at the context   *)
(* check that opens dispatchInbound; "item" at the check before an item;   *)
(* "call" has passed it; "handler" runs the handler; "exited" has returned *)
(* and "gone" was ended by its handler.                                    *)
(* Workers beyond the number of groups are never started.  In the serial   *)
(* mode the only worker is Start's own goroutine, inside dispatchInbound.  *)
Nowhere == <<0, 0>>

Init ==
    /\ batch \in Batches
    /\ HandlerConcurrency \in Concurrencies
    /\ pctx = FALSE
    /\ cause = NoError
    /\ main = IF Serial THEN "wait" ELSE "enqueue"
    /\ queued = IF Serial THEN {} ELSE Grouped(batch)
    /\ wpc = [w \in Workers |->
                IF Serial THEN "message"
                ELSE IF w <= Cardinality(Conversations(batch)) THEN "idle" ELSE "exited"]
    /\ group = [w \in Workers |-> IF Serial THEN DOMAIN batch ELSE {}]
    /\ at = [w \in Workers |-> Nowhere]
    /\ done = {}
    /\ failed = {}
    /\ late = [w \in Workers |-> 0]
    /\ ret = Running

(* The caller cancels the context of Start.                                *)
CancelParent ==
    /\ ~pctx
    /\ ret = Running
    /\ pctx' = TRUE
    /\ UNCHANGED <<inputs, cause, mainVars, workerVars, done, failed>>

(* The cancellation reaches batchCtx, unless it has a cause already.       *)
Propagate ==
    /\ ~Serial
    /\ pctx /\ cause = NoError
    /\ ret = Running
    /\ cause' = CtxError
    /\ UNCHANGED <<inputs, pctx, mainVars, workerVars, done, failed>>

(* jobs <- group meets a worker's receive.  The groups are handed out in   *)
(* the order of their first messages.                                      *)
HandOut(w) ==
    /\ main = "enqueue"
    /\ wpc[w] = "idle"
    /\ \E i \in queued :
        /\ First(queued, i)
        /\ group' = [group EXCEPT ![w] = GroupOf(batch, i)]
        /\ queued' = queued \ GroupOf(batch, i)
    /\ wpc' = [wpc EXCEPT ![w] = "message"]
    /\ UNCHANGED <<inputs, pctx, cause, main, ret, at, late, done, failed>>

\* Variant of StopHandingOut: jobs <- group without the batchCtx.Done() branch.
KeepsHandingOut == FALSE

(* The other branch of the select: a cancelled batch is not handed out any *)
(* further, and jobs is closed.                                            *)
StopHandingOut ==
    /\ main = "enqueue"
    /\ queued # {}
    /\ cause # NoError
    /\ main' = "wait"
    /\ UNCHANGED <<inputs, pctx, cause, queued, ret, workerVars, done, failed>>

(* All groups are handed out: close(jobs).                                 *)
CloseJobs ==
    /\ main = "enqueue"
    /\ queued = {}
    /\ main' = "wait"
    /\ UNCHANGED <<inputs, pctx, cause, queued, ret, workerVars, done, failed>>

(* A worker finds jobs closed and leaves its loop.                         *)
WorkerDrains(w) ==
    /\ wpc[w] = "idle"
    /\ main # "enqueue"
    /\ wpc' = [wpc EXCEPT ![w] = "exited"]
    /\ UNCHANGED <<inputs, pctx, cause, mainVars, group, at, late, done, failed>>

(* The group is finished: back to the channel, or back to Start.           *)
GroupFinished(w) ==
    /\ wpc[w] = "message"
    /\ group[w] = {}
    /\ wpc' = [wpc EXCEPT ![w] = IF Serial THEN "exited" ELSE "idle"]
    /\ UNCHANGED <<inputs, pctx, cause, mainVars, group, at, late, done, failed>>

(* dispatchInbound begins: it gives up on a dead context, skips a message  *)
(* that is not a finished user message, and otherwise turns to its items.  *)
(* (Encoding a message that came without its raw JSON cannot fail.)        *)
BeginMessage(w) ==
    /\ wpc[w] = "message"
    /\ \E i \in group[w] :
        /\ First(group[w], i)
        /\ IF ContextDone
           THEN Stop(w, CtxError) /\ UNCHANGED <<group, at>>
           ELSE /\ UNCHANGED cause
                /\ IF Eligible(batch[i])
                   THEN /\ wpc' = [wpc EXCEPT ![w] = "item"]
                        /\ at' = [at EXCEPT ![w] = <<i, 1>>]
                        /\ UNCHANGED group
                   ELSE /\ group' = [group EXCEPT ![w] = @ \ {i}]
                        /\ UNCHANGED <<wpc, at>>
    /\ UNCHANGED <<inputs, pctx, mainVars, late, done, failed>>

MessageFinished(w) == at[w][2] > batch[at[w][1]].items

(* The message is finished: on to the next one of the group.               *)
LeaveMessage(w) ==
    /\ wpc' = [wpc EXCEPT ![w] = "message"]
    /\ group' = [group EXCEPT ![w] = @ \ {at[w][1]}]
    /\ at' = [at EXCEPT ![w] = Nowhere]
    /\ UNCHANGED cause

\* Variant of NextItem: no look at the context before an item.
UncheckedNextItem(w) ==
    /\ wpc[w] = "item"
    /\ IF MessageFinished(w) THEN LeaveMessage(w)
       ELSE /\ wpc' = [wpc EXCEPT ![w] = "call"]
            /\ UNCHANGED <<group, at, cause>>
    /\ UNCHANGED <<inputs, pctx, mainVars, late, done, failed>>

(* The head of the item loop: the message is finished, or the context is   *)
(* looked at once more before the handler is called.                       *)
NextItem(w) ==
    /\ wpc[w] = "item"
    /\ IF MessageFinished(w) THEN LeaveMessage(w)
       ELSE /\ IF ContextDone
               THEN Stop(w, CtxError)
               ELSE wpc' = [wpc EXCEPT ![w] = "call"] /\ UNCHANGED cause
            /\ UNCHANGED <<group, at>>
    /\ UNCHANGED <<inputs, pctx, mainVars, late, done, failed>>

(* The handler is called.  The context may have died since the check.      *)
CallHandler(w) ==
    /\ wpc[w] = "call"
    /\ wpc' = [wpc EXCEPT ![w] = "handler"]
    /\ late' = [late EXCEPT ![w] = IF ContextDone THEN @ + 1 ELSE @]
    /\ UNCHANGED <<inputs, pctx, cause, mainVars, group, at, done, failed>>

NextOf(x) == <<x[1], x[2] + 1>>

\* Variant of HandlerReturns: the worker returns without cancel(err).
ForgetsToCancel(w, outcome) ==
    /\ wpc[w] = "handler"
    /\ \/ /\ outcome = "ok"
          /\ done' = done \cup {at[w]}
          /\ wpc' = [wpc EXCEPT ![w] = "item"]
          /\ at' = [at EXCEPT ![w] = NextOf(@)]
          /\ UNCHANGED failed
       \/ /\ outcome = "error"
          /\ failed' = failed \cup {at[w]}
          /\ wpc' = [wpc EXCEPT ![w] = "exited"]
          /\ UNCHANGED <<at, done>>
    /\ UNCHANGED <<inputs, pctx, cause, mainVars, group, late>>

(* The handler returns nil; or it returns an error or panics, which        *)
(* invokeHandler turns into one; or it ends its goroutine with             *)
(* runtime.Goexit, which recover() does not see: only the deferred calls   *)
(* of the worker run, and none of them is cancel(err).  In the serial mode *)
(* Goexit would end the caller of Start itself.                            *)
HandlerReturns(w, outcome) ==
    /\ wpc[w] = "handler"
    /\ \/ /\ outcome = "ok"
          /\ done' = done \cup {at[w]}
          /\ wpc' = [wpc EXCEPT ![w] = "item"]
          /\ at' = [at EXCEPT ![w] = NextOf(@)]
          /\ UNCHANGED <<cause, failed>>
       \/ /\ outcome = "error"
          /\ failed' = failed \cup {at[w]}
          /\ Stop(w, at[w])
          /\ UNCHANGED <<at, done>>
       \/ /\ outcome = "goexit" /\ ~Serial
          /\ wpc' = [wpc EXCEPT ![w] = "gone"]
          /\ UNCHANGED <<cause, at, done, failed>>
    /\ UNCHANGED <<inputs, pctx, mainVars, group, late>>

\* Variant of Return: no workers.Wait() after a failure.
ReturnWithoutWaiting ==
    /\ main = "wait"
    /\ cause # NoError \/ \A w \in Workers : wpc[w] \in Left
    /\ main' = "returned"
    /\ ret' = cause
    /\ UNCHANGED <<inputs, pctx, cause, queued, workerVars, done, failed>>

(* workers.Wait() comes back: processBatch returns the cause of batchCtx.  *)
(* Serial mode: the loop over the messages has ended.                      *)
Return ==
    /\ main = "wait"
    /\ \A w \in Workers : wpc[w] \in Left
    /\ main' = "returned"
    /\ ret' = cause
    /\ UNCHANGED <<inputs, pctx, cause, queued, workerVars, done, failed>>

(* The call is over; stuttering here keeps TLC from reporting a deadlock.  *)
Returned == main = "returned" /\ UNCHANGED vars

WorkerStep(w) ==
    \/ WorkerDrains(w)
    \/ GroupFinished(w)
    \/ BeginMessage(w)
    \/ NextItem(w)
    \/ CallHandler(w)
    \/ \E outcome \in HandlerOutcomes : HandlerReturns(w, outcome)

MainStep == StopHandingOut \/ CloseJobs \/ Return

Next ==
    \/ CancelParent
    \/ Propagate
    \/ MainStep
    \/ Returned
    \/ \E w \in Workers : HandOut(w) \/ WorkerStep(w)

Spec == Init /\ [][Next]_vars

(* The Go scheduler runs every goroutine that can run, and a handler       *)
(* eventually returns: README.en.md asks handlers to honour their context  *)
(* and to put timeouts on their own I/O.                                   *)
Fairness ==
    /\ WF_vars(MainStep)
    /\ \A w \in UNION {1..n : n \in Concurrencies} :
           WF_vars(w \in Workers /\ (HandOut(w) \/ WorkerStep(w)))

FairSpec == Spec /\ Fairness
-----------------------------------------------------------------------------
(* Properties.                                                             *)

(* The variables have their types; an item that was handled or has failed  *)
(* is one of the batch, so no index runs past the end of an item list.     *)
TypeOK ==
    /\ batch \in Batches /\ HandlerConcurrency \in Concurrencies
    /\ pctx \in BOOLEAN
    /\ cause \in {NoError, CtxError} \cup Work(batch)
    /\ main \in {"enqueue", "wait", "returned"}
    /\ queued \subseteq Grouped(batch)
    /\ wpc \in [Workers -> {"idle", "message", "item", "call", "handler"} \cup Left]
    /\ group \in [Workers -> SUBSET DOMAIN batch]
    /\ late \in [Workers -> Nat]
    /\ at \in [Workers -> {Nowhere} \cup (DOMAIN batch) \X (Nat \ {0})]
    /\ done \subseteq Work(batch)
    /\ failed \subseteq Work(batch)
    /\ ret \in {Running, NoError, CtxError} \cup Work(batch)

(* A conversation is never processed out of order or by two workers at     *)
(* once: when the handler is called for an item, every earlier item of the *)
(* same user (of anyone, in the serial mode) has returned nil.  This is    *)
(* the point of grouping before scheduling, src/listener.go:153-154.       *)
PerUserOrder ==
    \A w \in Workers :
        wpc[w] \in {"call", "handler"} => Needs(batch)[at[w]] \subseteq done

(* A nil error is a receipt for the whole batch: every item of every       *)
(* eligible message has been handled successfully.  Start saves the cursor *)
(* on the strength of it (src/listener.go:34, 116-128).                    *)
NilMeansAllHandled ==
    ret = NoError => done = Work(batch)

(* The handlers that took their worker's goroutine with them.              *)
Lost == {at[w] : w \in {v \in Workers : wpc[v] = "gone"}}

(* How far that receipt goes with handlers that end their goroutine: what  *)
(* is missing under a nil error is the item of such a handler and what the *)
(* same user sent after it, and nothing of anyone else.                    *)
NilMissesOnlyLost ==
    ret = NoError =>
        \A x \in Work(batch) \ done : (Needs(batch)[x] \cup {x}) \cap Lost # {}

(* After the batch is cancelled a worker may begin at most the one handler *)
(* call whose context check had already passed.                            *)
OneCallAfterCancel == \A w \in Workers : late[w] <= 1

(* The goroutines implement the abstract call of BatchContract, which uses *)
(* the operators of BatchOps as Listener does: the order of the handlers,  *)
(* what nil and what an error may mean, and no handler after the return.   *)
Contract == INSTANCE BatchContract WITH
    b <- [work |-> Work(batch), needs |-> Needs(batch),
          done |-> done, failed |-> failed, lost |-> Lost],
    canceled <- pctx,
    verdict <- ret
ImplementsContract == Contract!Spec

(* processBatch returns, whatever fails and whenever it is cancelled:      *)
(* neither the hand-over of groups nor workers.Wait can block for ever,    *)
(* unless handlers have taken every single worker with them.               *)
Returns == <>(main = "returned" \/ \A w \in Workers : wpc[w] = "gone")
=============================================================================

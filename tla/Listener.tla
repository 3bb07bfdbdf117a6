------------------------------ MODULE Listener ------------------------------
(***************************************************************************)
(* Client.Start (src/listener.go:37-131): the poll loop, the cursor it     *)
(* keeps in memory and in storage, session expiry, cancellation, and the   *)
(* running flag that rejects a second Start.  The server's message log and *)
(* the crash of the process are modelled as the code meets them.           *)
(*                                                                         *)
(* Messages are numbered 1..MaxItems in the order the server delivers them *)
(* to the account, one item each.  A cursor (get_updates_buf) stands for a *)
(* position in that log: everything up to it has been acknowledged; 0 is   *)
(* the empty string.  A batch is processed as BatchOps says: the module    *)
(* BatchContract is made of the same operators, and module Batch shows     *)
(* that the goroutines of processBatch implement it, lost handlers         *)
(* included.                                                               *)
(***************************************************************************)
EXTENDS Naturals, FiniteSets, BatchOps

CONSTANTS
    Callers,        \* the goroutines that may call Start on this client
    MaxItems,       \* bound: messages the server ever has
    Eligible,       \* the messages that are finished user messages
    UserOf,         \* who wrote each message
    Serial,         \* HandlerConcurrency = 1
    Threshold,      \* Config.EmptyBufExpiredThreshold
    FailureCap,     \* bound: the failure count stops here, as its delay does
    Durable         \* the store survives the process (FileBufStorage)

ASSUME ItemsAssumption ==
    /\ MaxItems \in Nat
    /\ Eligible \subseteq 1..MaxItems

ASSUME UserAssumption == UserOf \in [1..MaxItems -> {UserOf[n] : n \in 1..MaxItems}]

\* Config.setDefaults (src/config.go:192-194) replaces a threshold below one.
ASSUME ThresholdAssumption == Threshold \in Nat \ {0} /\ FailureCap \in Nat \ {0}

ASSUME FlagAssumption == Serial \in BOOLEAN /\ Durable \in BOOLEAN

VARIABLES
    published,      \* the server has messages 1..published
    retained,       \* and no longer has messages 1..retained
    stored,         \* the cursor in BufStorage
    running,        \* Client.running
    onMessage,      \* a message handler is registered
    onExpired,      \* an expiry callback is registered
    pc,             \* per caller of Start: where it is
    ctxDone,        \* per caller: its context is cancelled
    hasExpired,     \* per caller: the snapshot of onExpired
    cursor,         \* per caller: the local cursor
    failures,       \* per caller: the local failure count
    expiredCount,   \* per caller: the local count of empty-cursor expiries
    batch,          \* per caller: the batch being processed (BatchOps)
    buf,            \* per caller: GetUpdatesBuf of the last reply
    result,         \* what the last call of Start has returned, if it has
    handled,        \* history: messages whose handler has returned nil
    missed          \* history: messages that a cursor was stored past
                    \* although a lost handler had held them up

serverVars == <<published, retained>>
clientVars == <<running, onMessage, onExpired>>
localVars == <<ctxDone, hasExpired, cursor, failures, expiredCount, batch, buf>>
callVars == <<pc, result>>
fates == <<handled, missed>>
vars == <<serverVars, stored, clientVars, localVars, callVars, fates>>

Places == {"idle", "starting", "load", "loop", "poll", "wait", "reset",
           "revoke", "callback", "batch", "save"}
Results == {"none", "already_started", "no_handler", "canceled", "storage",
            "revoked", "handler"}
-----------------------------------------------------------------------------
(* The work of a reply that delivers messages lo+1..hi.                    *)

SameConversation(m, n) == Serial \/ UserOf[m] = UserOf[n]

Work(lo, hi) == {n \in Eligible : lo < n /\ n <= hi}

Needs(work) ==
    [n \in work |-> {m \in work : m < n /\ SameConversation(m, n)}]

Larger(m, n) == IF m < n THEN n ELSE m

(* What is left to the server to deliver after a cursor.                   *)
From(k) == Larger(k, retained)
-----------------------------------------------------------------------------
Init ==
    /\ published = 0 /\ retained = 0 /\ stored = 0
    /\ running = FALSE /\ onMessage = FALSE /\ onExpired = FALSE
    /\ pc = [c \in Callers |-> "idle"]
    /\ result = "none"
    /\ ctxDone = [c \in Callers |-> FALSE]
    /\ hasExpired = [c \in Callers |-> FALSE]
    /\ cursor = [c \in Callers |-> 0]
    /\ failures = [c \in Callers |-> 0]
    /\ expiredCount = [c \in Callers |-> 0]
    /\ batch = [c \in Callers |-> EmptyBatch]
    /\ buf = [c \in Callers |-> 0]
    /\ handled = {} /\ missed = {}

Goto(c, place) == pc' = [pc EXCEPT ![c] = place] /\ UNCHANGED result

(* The locals of a call disappear with it.                                 *)
ForgetLocals(c) ==
    /\ ctxDone' = [ctxDone EXCEPT ![c] = FALSE]
    /\ hasExpired' = [hasExpired EXCEPT ![c] = FALSE]
    /\ cursor' = [cursor EXCEPT ![c] = 0]
    /\ failures' = [failures EXCEPT ![c] = 0]
    /\ expiredCount' = [expiredCount EXCEPT ![c] = 0]
    /\ batch' = [batch EXCEPT ![c] = EmptyBatch]
    /\ buf' = [buf EXCEPT ![c] = 0]

(* Start returns r; the deferred running.Store(false) is its last act.     *)
Return(c, r) ==
    /\ pc' = [pc EXCEPT ![c] = "idle"]
    /\ result' = r
    /\ running' = FALSE
    /\ ForgetLocals(c)
    /\ UNCHANGED <<onMessage, onExpired>>

(* failures++ and the backoff timer.  The count only feeds backoff(), whose*)
(* delay stops growing at BackoffMax, so it may stop at a cap.             *)
Failures(c) == IF failures[c] < FailureCap THEN failures[c] + 1 ELSE FailureCap

Backoff(c) ==
    /\ failures' = [failures EXCEPT ![c] = Failures(c)]
    /\ Goto(c, "wait")
-----------------------------------------------------------------------------
(* Calling Start.                                                          *)

\* Variant of StartAccepted: running is stored without a compare.
StartUnguarded(c) ==
    /\ pc[c] = "idle"
    /\ running' = TRUE
    /\ Goto(c, "starting")
    /\ UNCHANGED <<serverVars, stored, onMessage, onExpired, localVars, fates>>

StartAccepted(c) ==
    /\ pc[c] = "idle"
    /\ ~running
    /\ running' = TRUE
    /\ pc' = [pc EXCEPT ![c] = "starting"]
    /\ result' = "none"
    /\ UNCHANGED <<serverVars, stored, onMessage, onExpired, localVars, fates>>

(* ErrAlreadyStarted: nothing else changes, in particular not running.     *)
StartRejected(c) ==
    /\ pc[c] = "idle"
    /\ running
    /\ result' = "already_started"
    /\ UNCHANGED <<serverVars, stored, clientVars, localVars, pc, fates>>

(* The callbacks are snapshotted; then the early returns.                  *)
Snapshot(c) ==
    /\ pc[c] = "starting"
    /\ IF ~onMessage THEN Return(c, "no_handler")
       ELSE IF ctxDone[c] THEN Return(c, "canceled")
       ELSE /\ hasExpired' = [hasExpired EXCEPT ![c] = onExpired]
            /\ Goto(c, "load")
            /\ UNCHANGED <<clientVars, ctxDone, cursor, failures,
                           expiredCount, batch, buf>>
    /\ UNCHANGED <<serverVars, stored, fates>>

LoadCursor(c) ==
    /\ pc[c] = "load"
    /\ cursor' = [cursor EXCEPT ![c] = stored]
    /\ Goto(c, "loop")
    /\ UNCHANGED <<serverVars, stored, clientVars, ctxDone, hasExpired,
                   failures, expiredCount, batch, buf, fates>>

LoadFails(c) ==
    /\ pc[c] = "load"
    /\ Return(c, "storage")
    /\ UNCHANGED <<serverVars, stored, fates>>
-----------------------------------------------------------------------------
(* One round of the loop.                                                  *)

\* Variant of LoopTop: no look at the context.
LoopUnchecked(c) ==
    /\ pc[c] = "loop"
    /\ Goto(c, "poll")
    /\ UNCHANGED <<serverVars, stored, clientVars, localVars, fates>>

(* The context is checked, and getupdates is sent with the local cursor.   *)
LoopTop(c) ==
    /\ pc[c] = "loop"
    /\ IF ctxDone[c] THEN Return(c, "canceled")
       ELSE Goto(c, "poll") /\ UNCHANGED <<clientVars, localVars>>
    /\ UNCHANGED <<serverVars, stored, fates>>

(* doPost failed: network, timeout, HTTP status, body limit or JSON.       *)
PollFails(c) ==
    /\ pc[c] = "poll"
    /\ IF ctxDone[c] THEN Return(c, "canceled")
       ELSE /\ Backoff(c)
            /\ UNCHANGED <<clientVars, ctxDone, hasExpired, cursor,
                           expiredCount, batch, buf>>
    /\ UNCHANGED <<serverVars, stored, fates>>

(* Any other error code: expiredCount is left alone.                       *)
PollRejected(c) ==
    /\ pc[c] = "poll"
    /\ Backoff(c)
    /\ UNCHANGED <<serverVars, stored, clientVars, ctxDone, hasExpired, cursor,
                   expiredCount, batch, buf, fates>>

(* Session expired with a cursor: drop the cursor and try without.         *)
PollExpiredCursor(c) ==
    /\ pc[c] = "poll"
    /\ cursor[c] # 0
    /\ Goto(c, "reset")
    /\ UNCHANGED <<serverVars, stored, clientVars, localVars, fates>>

\* Variant of PollExpiredEmpty: expiries with a cursor are counted too.
RevokesEarly(c) ==
    /\ pc[c] = "poll"
    /\ expiredCount' = [expiredCount EXCEPT ![c] = @ + 1]
    /\ IF expiredCount[c] + 1 >= Threshold
       THEN Goto(c, "revoke") /\ UNCHANGED failures
       ELSE Backoff(c)
    /\ UNCHANGED <<serverVars, stored, clientVars, ctxDone, hasExpired, cursor,
                   batch, buf, fates>>

\* Variant of PollExpiredEmpty: > for >=.
RevokesLate(c) ==
    /\ pc[c] = "poll"
    /\ cursor[c] = 0
    /\ expiredCount' = [expiredCount EXCEPT ![c] = @ + 1]
    /\ IF expiredCount[c] + 1 > Threshold
       THEN Goto(c, "revoke") /\ UNCHANGED failures
       ELSE Backoff(c)
    /\ UNCHANGED <<serverVars, stored, clientVars, ctxDone, hasExpired, cursor,
                   batch, buf, fates>>

(* Session expired without a cursor: count, and give up at the threshold.  *)
PollExpiredEmpty(c) ==
    /\ pc[c] = "poll"
    /\ cursor[c] = 0
    /\ expiredCount' = [expiredCount EXCEPT ![c] = @ + 1]
    /\ IF expiredCount[c] + 1 >= Threshold
       THEN Goto(c, "revoke") /\ UNCHANGED failures
       ELSE Backoff(c)
    /\ UNCHANGED <<serverVars, stored, clientVars, ctxDone, hasExpired, cursor,
                   batch, buf, fates>>

\* Variant of ClearCursor: the local cursor survives the reset.
ClearKeepingCursor(c) ==
    /\ pc[c] = "reset"
    /\ stored' = 0
    /\ expiredCount' = [expiredCount EXCEPT ![c] = 0]
    /\ Backoff(c)
    /\ UNCHANGED <<serverVars, clientVars, ctxDone, hasExpired, cursor, batch,
                   buf, fates>>

(* ClearBuf succeeds, and the local cursor follows the store.              *)
ClearCursor(c) ==
    /\ pc[c] = "reset"
    /\ stored' = 0
    /\ cursor' = [cursor EXCEPT ![c] = 0]
    /\ expiredCount' = [expiredCount EXCEPT ![c] = 0]
    /\ Backoff(c)
    /\ UNCHANGED <<serverVars, clientVars, ctxDone, hasExpired, batch, buf,
                   fates>>

(* ClearBuf reports an error.  BufStorage promises nothing about the value *)
(* then, so the entry may be gone or not.                                  *)
ClearFails(c) ==
    /\ pc[c] = "reset"
    /\ stored' \in {stored, 0}
    /\ Return(c, "storage")
    /\ UNCHANGED <<serverVars, fates>>

(* The threshold is reached: the stored cursor goes before anyone is told. *)
RevokeClears(c) ==
    /\ pc[c] = "revoke"
    /\ stored' = 0
    /\ IF hasExpired[c] THEN Goto(c, "callback") /\ UNCHANGED <<clientVars, localVars>>
       ELSE Return(c, "revoked")
    /\ UNCHANGED <<serverVars, fates>>

RevokeClearFails(c) ==
    /\ pc[c] = "revoke"
    /\ stored' \in {stored, 0}
    /\ Return(c, "revoked")
    /\ UNCHANGED <<serverVars, fates>>

(* The expiry callback returns or panics; ErrTokenRevoked either way.      *)
ExpiredCallback(c) ==
    /\ pc[c] = "callback"
    /\ Return(c, "revoked")
    /\ UNCHANGED <<serverVars, stored, fates>>

(* waitContext: the timer fires, or the context ends first.                *)
WaitEnds(c) ==
    /\ pc[c] = "wait"
    /\ Goto(c, "loop")
    /\ UNCHANGED <<serverVars, stored, clientVars, localVars, fates>>

WaitCanceled(c) ==
    /\ pc[c] = "wait"
    /\ ctxDone[c]
    /\ Return(c, "canceled")
    /\ UNCHANGED <<serverVars, stored, fates>>
-----------------------------------------------------------------------------
(* A reply with messages.                                                  *)

(* The server delivers the messages up to hi, perhaps none, and the cursor *)
(* that acknowledges them, perhaps none either.                            *)
PollDelivers(c, hi, b) ==
    /\ pc[c] = "poll"
    /\ hi \in From(cursor[c])..published
    /\ b \in {0, hi}
    /\ failures' = [failures EXCEPT ![c] = 0]
    /\ expiredCount' = [expiredCount EXCEPT ![c] = 0]
    /\ LET work == Work(From(cursor[c]), hi)
       IN  batch' = [batch EXCEPT ![c] = NewBatch(work, Needs(work))]
    /\ buf' = [buf EXCEPT ![c] = b]
    /\ Goto(c, "batch")
    /\ UNCHANGED <<serverVars, stored, clientVars, ctxDone, hasExpired, cursor,
                   fates>>

\* Variant of HandlerSucceeds: a conversation is not kept in order.
HandleAnyOrder(c, n) ==
    /\ pc[c] = "batch"
    /\ n \in batch[c].work \ (batch[c].done \cup batch[c].failed)
    /\ batch' = [batch EXCEPT ![c] = Succeeded(@, n)]
    /\ handled' = handled \cup {n}
    /\ UNCHANGED <<serverVars, stored, clientVars, callVars, ctxDone, missed,
                   hasExpired, cursor, failures, expiredCount, buf>>

(* The handler of message n returns nil.                                   *)
HandlerSucceeds(c, n) ==
    /\ pc[c] = "batch"
    /\ CanRun(batch[c], n)
    /\ batch' = [batch EXCEPT ![c] = Succeeded(@, n)]
    /\ handled' = handled \cup {n}
    /\ UNCHANGED <<serverVars, stored, clientVars, callVars, ctxDone, missed,
                   hasExpired, cursor, failures, expiredCount, buf>>

(* The handler of message n returns an error or panics.                    *)
HandlerFails(c, n) ==
    /\ pc[c] = "batch"
    /\ CanRun(batch[c], n)
    /\ batch' = [batch EXCEPT ![c] = Failed(@, n)]
    /\ UNCHANGED <<serverVars, stored, clientVars, callVars, ctxDone,
                   hasExpired, cursor, failures, expiredCount, buf, fates>>

(* The handler of message n ends its goroutine with runtime.Goexit.  That  *)
(* of a worker is lost without a word to processBatch.  In the serial mode *)
(* it is the goroutine Start runs in: Start never returns, but its         *)
(* deferred running.Store(false) is carried out.                           *)
HandlerIsLost(c, n) ==
    /\ pc[c] = "batch"
    /\ CanRun(batch[c], n)
    /\ IF Serial THEN Return(c, "none")
       ELSE /\ batch' = [batch EXCEPT ![c] = Abandoned(@, n)]
            /\ UNCHANGED <<clientVars, callVars, ctxDone, hasExpired, cursor,
                           failures, expiredCount, buf>>
    /\ UNCHANGED <<serverVars, stored, fates>>

(* processBatch returns an error: nothing of the batch is acknowledged.    *)
BatchFails(c) ==
    /\ pc[c] = "batch"
    /\ ErrorsOf(batch[c], ctxDone[c]) # {}
    /\ \/ batch[c].failed # {} /\ Return(c, "handler")
       \/ ctxDone[c] /\ Return(c, "canceled")
    /\ UNCHANGED <<serverVars, stored, fates>>

\* Variant of BatchSucceeds: an unfinished batch counts as a success.
AcknowledgesPartly(c) ==
    /\ pc[c] = "batch"
    /\ IF ctxDone[c] THEN Return(c, "canceled")
       ELSE /\ Goto(c, IF buf[c] \notin {0, cursor[c]} THEN "save" ELSE "loop")
            /\ UNCHANGED <<clientVars, localVars>>
    /\ UNCHANGED <<serverVars, stored, fates>>

(* processBatch returns nil; the context is checked once more; the new     *)
(* cursor, if the reply had one, is to be saved.                           *)
BatchSucceeds(c) ==
    /\ pc[c] = "batch"
    /\ MayReturnNil(batch[c])
    /\ IF ctxDone[c] THEN Return(c, "canceled")
       ELSE /\ Goto(c, IF buf[c] \notin {0, cursor[c]} THEN "save" ELSE "loop")
            /\ UNCHANGED <<clientVars, localVars>>
    /\ UNCHANGED <<serverVars, stored, fates>>

(* The cursor of the reply is in the store.                                *)
Acknowledge(c) ==
    /\ stored' = buf[c]
    /\ missed' = missed \cup HeldUp(batch[c])

\* Variant of SaveCursor: the local cursor is not moved.
SaveForgetsCursor(c) ==
    /\ pc[c] = "save"
    /\ Acknowledge(c)
    /\ Goto(c, "loop")
    /\ UNCHANGED <<serverVars, clientVars, localVars, handled>>

SaveCursor(c) ==
    /\ pc[c] = "save"
    /\ Acknowledge(c)
    /\ cursor' = [cursor EXCEPT ![c] = buf[c]]
    /\ Goto(c, "loop")
    /\ UNCHANGED <<serverVars, clientVars, ctxDone, hasExpired, failures,
                   expiredCount, batch, buf, handled>>

(* SaveBuf reports an error; the value may have been replaced all the same.*)
SaveFails(c) ==
    /\ pc[c] = "save"
    /\ Acknowledge(c) \/ UNCHANGED <<stored, missed>>
    /\ Return(c, "storage")
    /\ UNCHANGED <<serverVars, handled>>
-----------------------------------------------------------------------------
(* Around the loop.                                                        *)

(* OnMessage and OnExpired register a callback, or nil to remove it.       *)
OnMessage(registered) ==
    /\ onMessage' = registered
    /\ onMessage' # onMessage
    /\ UNCHANGED <<serverVars, stored, running, onExpired, localVars, callVars,
                   fates>>

OnExpired(registered) ==
    /\ onExpired' = registered
    /\ onExpired' # onExpired
    /\ UNCHANGED <<serverVars, stored, running, onMessage, localVars, callVars,
                   fates>>

(* The context a caller gave to Start is cancelled.                        *)
Cancel(c) ==
    /\ pc[c] # "idle"
    /\ ~ctxDone[c]
    /\ ctxDone' = [ctxDone EXCEPT ![c] = TRUE]
    /\ UNCHANGED <<serverVars, stored, clientVars, callVars, hasExpired, cursor,
                   failures, expiredCount, batch, buf, fates>>

(* The process dies and comes back with a new client.                      *)
Crash ==
    /\ \E c \in Callers : pc[c] # "idle"
    /\ pc' = [c \in Callers |-> "idle"]
    /\ result' = "none"
    /\ running' = FALSE /\ onMessage' = FALSE /\ onExpired' = FALSE
    /\ ctxDone' = [c \in Callers |-> FALSE]
    /\ hasExpired' = [c \in Callers |-> FALSE]
    /\ cursor' = [c \in Callers |-> 0]
    /\ failures' = [c \in Callers |-> 0]
    /\ expiredCount' = [c \in Callers |-> 0]
    /\ batch' = [c \in Callers |-> EmptyBatch]
    /\ buf' = [c \in Callers |-> 0]
    /\ stored' = IF Durable THEN stored ELSE 0
    /\ UNCHANGED <<serverVars, fates>>

(* The server: a message arrives; old messages are dropped, read or not.   *)
Publish ==
    /\ published < MaxItems
    /\ published' = published + 1
    /\ UNCHANGED <<retained, stored, clientVars, localVars, callVars, fates>>

Drop(n) ==
    /\ n \in (retained + 1)..published
    /\ retained' = n
    /\ UNCHANGED <<published, stored, clientVars, localVars, callVars, fates>>
-----------------------------------------------------------------------------
(* getupdates returns.                                                     *)
PollReturns(c) ==
    \/ PollFails(c)
    \/ PollRejected(c)
    \/ PollExpiredCursor(c)
    \/ PollExpiredEmpty(c)
    \/ \E hi, b \in 0..MaxItems : PollDelivers(c, hi, b)

(* Any other step of a call of Start after its compare-and-swap.           *)
Proceed(c) ==
    \/ Snapshot(c)
    \/ LoadCursor(c)
    \/ LoadFails(c)
    \/ LoopTop(c)
    \/ ClearCursor(c)
    \/ ClearFails(c)
    \/ RevokeClears(c)
    \/ RevokeClearFails(c)
    \/ ExpiredCallback(c)
    \/ WaitEnds(c)
    \/ WaitCanceled(c)
    \/ \E n \in Eligible :
           HandlerSucceeds(c, n) \/ HandlerFails(c, n) \/ HandlerIsLost(c, n)
    \/ BatchFails(c)
    \/ BatchSucceeds(c)
    \/ SaveCursor(c)
    \/ SaveFails(c)

StartStep(c) == PollReturns(c) \/ Proceed(c)

Environment ==
    \/ \E registered \in BOOLEAN : OnMessage(registered) \/ OnExpired(registered)
    \/ Crash
    \/ Publish
    \/ \E n \in 1..MaxItems : Drop(n)

Next ==
    \/ \E c \in Callers :
        StartAccepted(c) \/ StartRejected(c) \/ Cancel(c) \/ StartStep(c)
    \/ Environment

Spec == Init /\ [][Next]_vars
-----------------------------------------------------------------------------
(* Properties.                                                             *)

(* The variables have their types; no cursor lies beyond what the server   *)
(* has sent, and the expiry count stops at the threshold.                  *)
TypeOK ==
    /\ published \in 0..MaxItems
    /\ retained \in 0..published
    /\ stored \in 0..published
    /\ running \in BOOLEAN /\ onMessage \in BOOLEAN /\ onExpired \in BOOLEAN
    /\ pc \in [Callers -> Places]
    /\ result \in Results
    /\ ctxDone \in [Callers -> BOOLEAN]
    /\ hasExpired \in [Callers -> BOOLEAN]
    /\ cursor \in [Callers -> 0..published]
    /\ failures \in [Callers -> 0..FailureCap]
    /\ expiredCount \in [Callers -> 0..Threshold]
    /\ buf \in [Callers -> 0..published]
    /\ handled \subseteq Eligible
    /\ missed \subseteq Eligible
    /\ batch = [c \in Callers |-> batch[c]]
    /\ \A c \in Callers : IsBatch(batch[c], Eligible)

(* No message is acknowledged before it is handled: whatever the stored    *)
(* cursor has moved past, its handler has returned nil, unless the server  *)
(* had already dropped it or a handler that ended its worker's goroutine   *)
(* held it up in the very batch the cursor was stored for.  This is how    *)
(* far "a batch cursor is saved only after every item succeeds"            *)
(* (src/listener.go:34) goes, across failures, cancelled batches,          *)
(* half-failed saves, expired sessions, crashes and restarts; for those    *)
(* handlers it does not hold (run BatchGoexitReceipt of module Batch).     *)
CommittedIsHandled ==
    \A n \in Eligible :
        n <= stored => n \in handled \/ n \in missed \/ n <= retained

(* While a batch is in progress no message in it lies behind the stored    *)
(* cursor: only messages that were never acknowledged are processed again. *)
NoReplayOfCommitted ==
    \A c \in Callers : pc[c] \in {"batch", "save"} =>
        \A n \in batch[c].work : n > stored

(* A user's messages are handled in order even across batches, failures    *)
(* and restarts: a message has not been handled while an earlier one of    *)
(* the same conversation, which the server still has, never was, unless a  *)
(* cursor went past that one because a lost handler had held it up.        *)
FirstHandledInOrder ==
    \A n \in handled, m \in Eligible :
        m < n /\ SameConversation(m, n) =>
            m \in handled \/ m \in missed \/ m <= retained

(* "Only one Start call may run at a time" (src/client.go:49): two callers *)
(* are never inside the loop together, and the flag tells whether one is.  *)
OneStart ==
    /\ \A c, d \in Callers : pc[c] # "idle" /\ pc[d] # "idle" => c = d
    /\ running <=> \E c \in Callers : pc[c] # "idle"

(* The cursor a Start polls with is the one in storage, at every point     *)
(* from loading it to the next save: no path of the loop, in particular    *)
(* not the session reset, updates one without the other.                   *)
CursorAgrees ==
    \A c \in Callers : pc[c] \notin {"idle", "starting", "load"} => cursor[c] = stored

(* The stored cursor only ever advances, or is cleared altogether: no      *)
(* save, however late or ambiguous, takes it back to an older position.    *)
CursorAdvances == [][stored' >= stored \/ stored' = 0]_stored

(* When the expiry callback runs, the cursor is gone from storage and from *)
(* the loop: the owner may log in again and call Start at once, and begins *)
(* with an empty cursor (src/listener.go:84-93).                           *)
ClearedBeforeCallback ==
    \A c \in Callers : pc[c] = "callback" => stored = 0 /\ cursor[c] = 0

(* Why these invariants hold, as one inductive invariant: what each place  *)
(* of the loop knows about its locals ...                                  *)
LoopKnows ==
    \A c \in Callers :
        /\ pc[c] \notin {"revoke", "callback"} => expiredCount[c] < Threshold
        /\ pc[c] \in {"revoke", "callback"} => cursor[c] = 0
        /\ pc[c] = "callback" => stored = 0

(* ... and what a Start with a batch in hand knows: it starts right behind *)
(* the stored cursor and skips nothing the server still has, up to the     *)
(* cursor that is to be saved; and "save" is reached with all of it done   *)
(* but what lost handlers held up.                                         *)
Skipped(c, m) ==
    /\ stored < m /\ m \notin batch[c].work
    /\ m <= buf[c] \/ \E n \in batch[c].work : m < n

BatchKnows ==
    \A c \in Callers : pc[c] \in {"batch", "save"} =>
        /\ batch[c].needs = Needs(batch[c].work)
        /\ batch[c].done \subseteq handled
        /\ \A n \in batch[c].work : n > stored
        /\ \A m \in Eligible : Skipped(c, m) => m <= retained
        /\ buf[c] # 0 => stored <= buf[c]
        /\ pc[c] = "save" => MayReturnNil(batch[c]) /\ buf[c] # 0

InductiveInvariant ==
    /\ OneStart
    /\ CursorAgrees
    /\ LoopKnows
    /\ BatchKnows
    /\ CommittedIsHandled
    /\ FirstHandledInOrder

(* A cancelled Start returns, wherever the cancellation meets it, provided *)
(* its handlers and storage calls return (checked with the fairness of     *)
(* Bot).                                                                   *)
CancelEndsStart == \A c \in Callers : ctxDone[c] ~> pc[c] = "idle"
=============================================================================

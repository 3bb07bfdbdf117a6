--------------------------------- MODULE Bot ---------------------------------
(***************************************************************************)
(* The example bot (src/examples/basic/main.go) on top of the poll loop:   *)
(* its message handler (64-92), which answers a message, hands temporary   *)
(* failures back to Start and writes messages it can never answer to a     *)
(* dead-letter file (record, 172-201), and a supervisor that starts it     *)
(* again.  At most MaxFaults things go wrong from outside, of any kind and *)
(* at any time.                                                            *)
(*                                                                         *)
(* The handler that Listener has as one step is several here: the reply,   *)
(* and one step per system call on the file.  Every step of the bot is a   *)
(* step of Listener or leaves the variables of Listener alone.             *)
(***************************************************************************)
EXTENDS Listener

CONSTANTS
    DefectOf,     \* why a message can never be answered, or "none"
    MaxFaults     \* bound: faults the environment may produce

\* The errors of reply that the split tells apart: the six sentinel errors of
\* permanent(); an HTTP status from 400 to 499 other than 408 and 429; every
\* other one, HTTP or not; and the key of an image that does not decode, for
\* which imageAESKey (src/cdn.go:213-238) has no sentinel.
ReplyErrors == {"sentinel", "client", "other", "bad_key"}
Defects == {"sentinel", "bad_key"}

ASSUME BotAssumption ==
    /\ DefectOf \in [1..MaxItems -> Defects \cup {"none"}]
    /\ MaxFaults \in Nat

VARIABLES
    faults,       \* faults still to come
    current,      \* the message whose handler is running, 0 if none
    step,         \* where that handler is
    written,      \* the messages with a whole record in the dead-letter file
    synced,       \* those whose record is on the disk
    replied       \* history: messages that were answered

handlerVars == <<current, step>>
fileVars == <<written, synced>>
botVars == <<vars, faults, handlerVars, fileVars, replied>>

Steps == {"none", "reply", "open", "write", "sync", "close"}
-----------------------------------------------------------------------------
BotInit ==
    /\ Init
    /\ faults = MaxFaults
    /\ current = 0 /\ step = "none"
    /\ written = {} /\ synced = {}
    /\ replied = {}

Works(A) == A /\ faults' = faults

(* Something goes wrong from outside.                                      *)
Fails(A) ==
    /\ faults > 0
    /\ faults' = faults - 1
    /\ A

KeepHandler == UNCHANGED <<handlerVars, fileVars, replied>>
-----------------------------------------------------------------------------
(* The handler.                                                            *)

(* dispatchInbound looks at the context and calls it.                      *)
CallHandler(c, n) ==
    /\ pc[c] = "batch" /\ ~ctxDone[c]
    /\ current = 0
    /\ CanRun(batch[c], n)
    /\ current' = n /\ step' = "reply"
    /\ UNCHANGED <<vars, fileVars, replied>>

Running(c, place) == pc[c] = "batch" /\ current # 0 /\ step = place

ReturnNil(c) ==
    /\ HandlerSucceeds(c, current)
    /\ current' = 0 /\ step' = "none"

ReturnError(c) ==
    /\ HandlerFails(c, current)
    /\ current' = 0 /\ step' = "none"

(* reply succeeds: case err == nil.                                        *)
ReplySucceeds(c) ==
    /\ Running(c, "reply")
    /\ DefectOf[current] = "none"
    /\ replied' = replied \cup {current}
    /\ ReturnNil(c)
    /\ UNCHANGED fileVars

\* Variant of permanent: the list of sentinel errors is missing.
PermanentStatusOnly(err) == err = "client"

permanent(err) == err \in {"sentinel", "client"}

(* reply fails.  A context that has ended is no property of the message;   *)
(* otherwise a permanent error is recorded and any other one returned.     *)
ReplyFails(c, err) ==
    /\ Running(c, "reply")
    /\ IF permanent(err) /\ ~ctxDone[c]
       THEN step' = "open" /\ UNCHANGED <<vars, current>>
       ELSE ReturnError(c)
    /\ UNCHANGED <<fileVars, replied>>

(* record: the directory and the file are opened for appending.            *)
Open(c) ==
    /\ Running(c, "open")
    /\ step' = "write"
    /\ UNCHANGED <<vars, current, fileVars, replied>>

OpenFails(c) ==
    /\ Running(c, "open")
    /\ ReturnError(c)
    /\ UNCHANGED <<fileVars, replied>>

Write(c) ==
    /\ Running(c, "write")
    /\ written' = written \cup {current}
    /\ step' = "sync"
    /\ UNCHANGED <<vars, current, synced, replied>>

(* A write that fails leaves a part of a record at most.                   *)
WriteFails(c) ==
    /\ Running(c, "write")
    /\ ReturnError(c)
    /\ UNCHANGED <<fileVars, replied>>

\* Variant of Sync: the file is closed without it.
SkipsSync(c) ==
    /\ Running(c, "sync")
    /\ step' = "close"
    /\ UNCHANGED <<vars, current, fileVars, replied>>

Sync(c) ==
    /\ Running(c, "sync")
    /\ synced' = written
    /\ step' = "close"
    /\ UNCHANGED <<vars, current, written, replied>>

Close(c) ==
    /\ Running(c, "close")
    /\ ReturnNil(c)
    /\ UNCHANGED <<fileVars, replied>>

(* file.Sync or file.Close reports an error.                               *)
SyncOrCloseFails(c) ==
    /\ Running(c, "sync") \/ Running(c, "close")
    /\ ReturnError(c)
    /\ UNCHANGED <<fileVars, replied>>
-----------------------------------------------------------------------------
(* The rest of Start (a batch is not left while its handler runs).         *)

Loop(c) ==
    /\ current = 0
    /\ \/ Snapshot(c)
       \/ LoadCursor(c)
       \/ LoopTop(c)
       \/ ctxDone[c] /\ (PollFails(c) \/ PollRejected(c))
       \/ \E hi, b \in 0..MaxItems : PollDelivers(c, hi, b)
       \/ ClearCursor(c)
       \/ RevokeClears(c)
       \/ ExpiredCallback(c)
       \/ WaitEnds(c)
       \/ WaitCanceled(c)
       \/ BatchFails(c)
       \/ BatchSucceeds(c)
       \/ SaveCursor(c)
    /\ KeepHandler

(* A poll of a cancelled Start that goes wrong is not counted as a fault:  *)
(* Start has to end by itself then, however often its polls fail.          *)
LoopFault(c) ==
    /\ \/ Cancel(c)
       \/ ~ctxDone[c] /\ (PollFails(c) \/ PollRejected(c))
       \/ PollExpiredCursor(c)
       \/ PollExpiredEmpty(c)
       \/ LoadFails(c)
       \/ ClearFails(c)
       \/ RevokeClearFails(c)
       \/ SaveFails(c)
    /\ KeepHandler

(* The process dies, and the file stays as it is; or the machine dies with *)
(* it, and a record that was not synced may be gone.                       *)
ProcessDies ==
    /\ Crash
    /\ current' = 0 /\ step' = "none"
    /\ \/ UNCHANGED fileVars
       \/ \E lost \in SUBSET (written \ synced) :
            written' = written \ lost /\ synced' = written'
    /\ UNCHANGED replied

(* What the handler does when nothing goes wrong around it.                *)
Handler(c) ==
    \/ \E n \in Eligible : CallHandler(c, n)
    \/ ReplySucceeds(c)
    \/ current # 0 /\ DefectOf[current] # "none" /\ ReplyFails(c, DefectOf[current])
    \/ Open(c)
    \/ Write(c)
    \/ Sync(c)
    \/ Close(c)

HandlerFault(c) ==
    \/ \E err \in {"client", "other"} : ReplyFails(c, err)
    \/ OpenFails(c)
    \/ WriteFails(c)
    \/ SyncOrCloseFails(c)

(* run (29-102): a new process registers its callbacks, then calls Start.  *)
(* When Start has returned, the process ends and the supervisor starts the *)
(* next, which registers the same callbacks and is not told apart here.    *)
Register ==
    /\ \/ OnMessage(TRUE)
       \/ onMessage /\ OnExpired(TRUE)
    /\ KeepHandler

CallStart(c) ==
    /\ onMessage /\ onExpired
    /\ StartAccepted(c) \/ StartRejected(c)
    /\ KeepHandler

BotNext ==
    \/ Works(\E c \in Callers : Handler(c) \/ Loop(c) \/ CallStart(c))
    \/ Works(Register)
    \/ Works(Publish /\ KeepHandler)
    \/ Fails(\E c \in Callers : HandlerFault(c) \/ LoopFault(c))
    \/ Fails(ProcessDies)
    \/ Fails(\E n \in 1..MaxItems : Drop(n) /\ KeepHandler)

(* A poll that hands over everything there is, with its cursor.            *)
DeliversAll(c) ==
    ~ctxDone[c] /\ PollDelivers(c, published, published) /\ KeepHandler

(* The process runs when it can, its supervisor starts it again, and a     *)
(* server that is polled again and again hands over its messages some      *)
(* time, instead of answering with nothing, or without a cursor, for ever. *)
(* It owes that to a Start that is not cancelled.                          *)
BotFairness ==
    \A c \in Callers :
        /\ WF_botVars(Works(Handler(c) \/ Loop(c)))
        /\ WF_botVars(Works(Register))
        /\ WF_botVars(Works(CallStart(c)))
        /\ SF_botVars(Works(DeliversAll(c)))

BotSpec == BotInit /\ [][BotNext]_botVars /\ BotFairness
-----------------------------------------------------------------------------
(* Properties.                                                             *)

(* The variables of the bot have their types.                              *)
BotTypeOK ==
    /\ faults \in 0..MaxFaults
    /\ current \in Eligible \cup {0}
    /\ step \in Steps
    /\ written \subseteq Eligible
    /\ synced \subseteq written
    /\ replied \subseteq Eligible

(* A message behind the stored cursor was answered, or its record is on    *)
(* the disk, or the server had dropped it: "returning nil lets the cursor  *)
(* advance", so a record must survive whatever happens from then on        *)
(* (src/examples/basic/main.go:77-85, 170-171, README.en.md:146).          *)
CommittedIsSettled ==
    \A n \in Eligible : n <= stored => n \in replied \cup synced \/ n <= retained

(* Every message is acknowledged in the end, also one that can never be    *)
(* answered: no message, and no combination of finitely many failures,     *)
(* crashes, expired sessions and cancellations, leaves the bot stuck where *)
(* it "receives no further messages" (README.en.md:141,                    *)
(* src/examples/basic/main.go:65-67), unless the server drops it first.    *)
EventuallyAcknowledged ==
    \A n \in 1..MaxItems :
        published >= n ~> (stored >= n \/ retained >= n)
=============================================================================

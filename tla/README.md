# Verification of the WeChat iLink bot client

TLA+ models of the Go client library in this repository (`package wechat`), the
TLC runs that check them on small instances, and proofs of the most important
properties with TLAPS. Line numbers refer to the source files in `src/`.

## The system

The library polls a message server for one bot account, hands every message to
an application's handler, and sends replies. It has these parts.

| Part | State | Operations | Hard because of |
| --- | --- | --- | --- |
| Poll loop (`listener.go` 16-142, `client.go` 48-71) | `running`, the registered callbacks, and per call of `Start` the cursor, `failures`, `expiredCount` | `Start`, `OnMessage`, `OnExpired` | crash or failure between handling and saving the cursor; two copies of the cursor; session expiry; cancellation everywhere; concurrent `Start` |
| Batch processing (`listener.go` 144-270) | groups, the `jobs` channel, `batchCtx`, workers | `processBatch`, `dispatchInbound`, `invokeHandler` | goroutines that fail, stop on a dead context or are ended by their handler; hand-over on an unbuffered channel; order per user |
| Retry backoff (`listener.go` 284-310) | none | `backoff`, `backoffBase`, `equalJitter` | overflow, jitter |
| Storage (`storage.go`) | files, a mutex | `LoadBuf`, `SaveBuf`, `ClearBuf`, `SaveCredentials`, `LoadCredentials` | crash in a save, error paths, unlocked credentials |
| QR login (`login.go`) | the call's base URL, redirects, attempts, code | `WaitForQRConfirmation`, `GetQRCode`, `CheckQRStatus` | an arbitrary server, two kinds of redirects, callbacks that outlive the context, throttling |
| URL policy (`urlpolicy.go`) | none | `check`, `checkRedirect` | every hop counts |
| Context tokens (`client.go` 115-181) | map and LRU list, a token in each handler's context | `SetContextToken`, `ContextToken`, `ForgetContextToken`, `contextTokenFor` | handlers and application share a bounded cache |
| Sending and download (`notify.go`, `cdn.go`) | one call's | `Send...`, `UploadToCDN`, `DownloadDecryptedImage` | retries, lost answers, redirects, one timeout over several requests, size limits of an untrusted body |
| Media encryption (`crypto.go`) | none | `PKCS7Pad`, `PKCS7Unpad`, `AESECBPaddedSize` | padding at block boundaries, damaged data |
| Configuration (`config.go`) | none | `setDefaults`, `validate` | zero and negative values, sums that overflow |
| Diagnostics (`diagnostics.go`) | phases of one request | hooks of `net/http` | hooks run in other goroutines, overlap and come late |
| Example bot (`examples/basic`) | dead-letter file | a message handler, `permanent`, `record` | durable record before returning nil; an error that is not recognised as permanent |
| Markdown (`markdown.go`), wire format | none | pure functions | wording |

Interaction: the application calls `Start` and registers callbacks. `Start`
calls `getupdates`, then `processBatch`, which calls the handlers, then the
storage. Handlers call the sending methods, which read the token cache that
`dispatchInbound` fills. Login and sending use the URL policy; sending and the
poll loop take their limits and delays from the configuration. The example bot
is a handler with a file of its own, under a supervisor that starts it again.
The server is an environment that may answer anything its protocol allows.

What makes each part correct is stated as properties in its module; the
hazards behind them are listed in `PROJECT.json`.

## Modules

| Module | Models | Built on |
| --- | --- | --- |
| `BatchOps` | what one batch promises, as operators on a record | |
| `BatchContract` | abstract specification of one `processBatch` call | `BatchOps` |
| `Batch` | its goroutines; implements `BatchContract` | `BatchOps` |
| `Listener` | the poll loop, with server, store and crashes | `BatchOps` |
| `ListenerHistory` | the loop with a log of its polls: its counters and delays | `Listener`, `RetryDelay` |
| `RetryDelay` | `backoffBase` and `equalJitter` as pure operators | `Config` |
| `Bot` | the example bot: handler, dead-letter file, supervisor; implements `Listener` | `Listener` |
| `StateRegister` | abstract register per state path | |
| `FileStorage` | files, system calls and the mutex; implements `StateRegister` | `StateRegister` |
| `UrlPolicy` | the policy as pure operators | |
| `Config` | `setDefaults` and `validate` over machine integers, as pure operators | `UrlPolicy` |
| `MediaCodec` | padding and sizes as pure operators on bytes | |
| `Login` | `WaitForQRConfirmation` | `UrlPolicy` |
| `ContextTokens` | the token cache and its users | |
| `Outbound` | one call that sends something, or downloads an image | `UrlPolicy`, `Config`, `MediaCodec` |
| `Diagnostics` | the request trace and its phases | |
| `MC*` | instances for TLC | the module they are named after |
| `*Proofs` | theorems about the module they are named after; `ListenerProofs` also about `Bot`, `ListenerHistory` and `RetryDelay`, `ConfigProofs` about `UrlPolicy`, `OutboundProofs` about `MediaCodec` | that module, TLAPS |

A definition introduced by "Variant of X" is what a plausible mistake in the
code would make of X. It is not used by the model; putting it in the place of X
has to break a property, which is how the project knows that its properties can
fail. `PROJECT.json` pairs every checked property with one.

### How the models correspond to the code

**Listener.** A place `pc[c]` is a point of `Start` where something outside can
happen: a storage call, a poll, a wait, the batch, a callback. Everything between
two places is one action. `PollDelivers` includes the reset of both counters,
`Return` includes the deferred reset of `running`. Messages are numbers, a cursor
is a position in that sequence, 0 the empty cursor; a message has one item here
(items are in `Batch`). The server may deliver any prefix of what it has, with or
without a new cursor, may refuse in every way the loop tells apart, and may drop
old messages. A failed `SaveBuf` or `ClearBuf` may or may not have changed the
value, which is all `BufStorage` says. The batch runs by `BatchOps`: a handler may
return when everything it has to wait for has succeeded. A handler may also end
its goroutine (`HandlerIsLost`). With several workers `processBatch` does not
learn of it: `MayReturnNil` allows a nil error for all of a batch but what lost
handlers hold up (`HeldUp`), which is what `BatchContract` says and `Batch` is
proved to implement, and `missed` collects the messages that a cursor is stored
past in that way. With one handler at a time it is the goroutine of `Start` that
ends. Context checks between the places are merged with the step they precede. The
failure count only feeds the delay and stops at `FailureCap`.

**Bot.** The one step of a handler in `Listener` becomes several: the reply, and
one for each of opening, writing, syncing and closing the dead-letter file. A
record that was not synced survives the death of the process and may be lost
with the machine. `ReplyErrors` are the classes of errors the code tells apart,
`DefectOf` says which messages can never be answered and why. `Register`,
`CallStart` and the supervisor are `run` and whatever starts the process again.
`MaxFaults` bounds what goes wrong from outside: faults of server, store, file
and network, crashes, cancellations, dropped messages.

**RetryDelay, Config.** Integers run from `-MaxInt - 1` to `MaxInt` and wrap. The
defaults are constants, with the assumption that `validate` accepts them; that
`MediaMargin` is two blocks is an assumption of `Outbound`.

**Batch.** A batch and a group are sets of message indices, walked by increasing
index: the code only appends to them in the order of the reply. `queued` are the
messages not yet handed out; they go as whole groups, in the order of their
first messages. One worker state per place where the scheduler may switch.
`HandOut` is the rendezvous of the unbuffered channel, `StopHandingOut` the other
branch of the `select`; if both are ready either happens. A worker that left by
itself is "exited", one that its handler took with it is "gone". `pctx` is the
context of `Start`, `cause` the cause of `batchCtx`; `Propagate` is the
cancellation travelling from one to the other. `HandlerConcurrency` is chosen
once per behaviour. Logging and the JSON copy of a message are left out.

**FileStorage.** One step per system call that matters: create, write, finish
(the rest of the bytes, `Sync`, `Close`, the context check), rename, deferred
remove. Each may fail, the removal too, whose error the code drops (`stuck` has the
files that stay in this way); the process may die between any two. Files are
identified by number. *Assumption:* a temporary name is never reused; with
reuse, the deferred `Remove` that follows a rename could meet another
goroutine's file of the same random name. Rename is taken to be atomic, which
`storage.go` 225-226 says of Unix file systems, and a crash is one of the
process, not of the power.

**Login.** Places are the context check, the poll about to be sent and the one
under way, `onStatus`, the switch, the code handler and the wait. The server's
reply is any status, with any redirect host of `RedirectHosts`, each time. The base
URL is vetted as in the code. There are redirects of two kinds: those of the
login protocol (`FollowRedirect`), which the policy checks, and HTTP redirects of a
poll (`PollIsRedirected`), which the library's own client (`login.go` 272, no
`CheckRedirect`) follows to any host, up to net/http's limit (`MaxHTTPRedirects`).
A client that a caller passes in follows what its own `CheckRedirect` lets it.
`latePolls` and `lateCallbacks` count the requests, and the
calls of `onStatus` and of the code handler, that begin on a dead context.

**ContextTokens.** Each method holds the mutex, so it is one action. List
elements have identities of their own: the map holds identities, and the
eviction goes from the element at the back to the map by the chat it stores.
The empty chat id, which the methods ignore, is left out.

**Outbound.** A submission and its answer are two steps, and the server may
have taken a message whose answer is lost. `ctxDone` is the context of the
whole call; a timeout that only belongs to one request is a failure of that
request. Failures of the random source and of AES are left out. A download vets
its URL, follows redirects under the same policy, reads the body up to a limit
of a block more than `MaxMediaBytes`, unpads it and checks the limit again; the
server may answer with any of `Bodies`.

**MediaCodec.** AES is reversible and keeps the size of a block, so ciphertext is
represented by what it decrypts to. Encryption is then the padding, decryption
the check of the length and of the padding. A wrong key or a damaged body is any
other sequence of bytes, and it is an image like any other if its last block ends
in valid padding: the code has nothing to tell them apart by.

**Diagnostics.** The variables of `tracePhase` and `httpDiagnostic` beside the
transport that calls the hooks: exchanges one after the other (redirects,
retries), dials in the background, several at a time, and a write loop that may
report after the response, or after the next exchange has begun.

## Runs

| Run | Question | Bounds |
| --- | --- | --- |
| Batch | order, receipt, late calls, return, refinement of `BatchContract` | 1 or 2 workers; all batches of up to 3 messages of 2 users with up to 2 items or to be skipped, and two of 4 messages of 3 users; handlers that succeed, fail or end their goroutine |
| BatchGoexitReceipt | *violated*: a nil error is a receipt | the two larger batches, 2 workers, handlers that may end their goroutine |
| ListenerSafety | everything about cursors, order and concurrent `Start`, with what lost handlers hold up as the one exception | several workers, 2 callers, 3 messages (two of one user), threshold 2 |
| ListenerHistory | the counters and the delay against a log of the polls | one handler at a time, up to 4 polls per `Start`, threshold 2, every pair of 5-bit backoff bounds that is accepted |
| ListenerConsecutive | *violated*: expiries are consecutive | same |
| Bot | answered or durably recorded before acknowledged; cancellation ends `Start`; every message acknowledged in the end | 3 messages, the second can never be answered; 3 faults |
| BotWedge | *violated*: every message acknowledged in the end | 2 messages, the second an image whose key does not decode; 1 fault |
| FileStorage | no leftovers but files whose removal failed, refinement of `StateRegister`, calls end | 2 goroutines, 2 paths, 2 values, 2 files made by saves |
| Login | trust, throttle, codes, late polls and callbacks, no spinning, end with the context | 3 redirects of the protocol, 2 HTTP redirects of a poll; 2 codes or none; 6 hosts; pinned hosts or not |
| ContextTokens | LRU, staleness, replies | limit 2, 3 chats, 2 tokens, 2 handlers |
| Outbound | one message, honest result, trusted hops, images that account for the whole body received, every call returns | 8 URLs, pinned hosts or not, the code's own 3 attempts and 5 requests; blocks of 2 bytes, media limits 1, 2 and 11, the largest accepted over 5-bit integers, and some that are refused, all bodies of up to 4 bytes of 4 kinds and three longer ones |
| Diagnostics | logged times are the times that passed | 2 exchanges, 2 dials at a time, 5 ticks |

`Diagnostics` stops when its exchanges and ticks are used up, so its deadlocks are
not looked at. The type invariant is a run's invariant in `ListenerSafety` only;
those of the other modules hold in the same instances, and the proofs contain
those of `ContextTokens` and `Diagnostics`, and of `Batch`, `FileStorage`, `Login`
and `Outbound` as far as they need them.
The inductive invariants of the proofs were themselves checked by TLC first.

Why the bounds are enough: an order violation needs two messages of one user and a
third to get in between; a hand-over that blocks needs more groups than workers; a
wrong eviction needs one chat more than the limit; a race between two saves, or a
save that dies over an older value, needs two temporary files; a cursor that goes
back needs two different positions and a third to poll from. The redirect and code
limits of `Login` are constants, so that small values reach the boundary in every
combination. That net/http stops at ten redirects and the model at two makes no
difference: an HTTP redirect changes nothing but the request under way, which may
be anywhere after the first. Five-bit integers contain every relation between an
initial delay, its doublings, the maximum and the largest integer, and between a
media limit, a block of padding and the largest integer. For a wedged bot one
message that cannot be answered is enough; a second one behind it shows that the
cursor moves on. Three faults allow a failed record, a crash and a cancellation in
one behaviour. A phase counted twice needs two dials at once, a late hook needs a
second exchange.

Runs with `SYMMETRY` check no liveness. The configuration of a client or of a
login (`HandlerConcurrency`, `config`, `opts`) is a variable that never changes,
so that one run covers several. Models that end (`Batch`, `Login`,
`Outbound`) stutter explicitly in their final state, so that deadlock stays
checked.

### Fairness

- `Batch`: weak fairness of each worker and of `Start`'s goroutine. Go schedules
  every runnable goroutine; a handler that returns is what README.en.md:137 asks
  of applications. Cancellation is not fair.
- `Bot`: weak fairness of the handler, of the steps of `Start` (requests have a
  timeout, timers fire, handlers, files and storage return), of the registration
  of callbacks and of a supervisor that calls `Start` again; faults are finitely
  many; and a server that is polled for ever delivers what it has some time
  (strong fairness of that one answer, and only towards a `Start` that is not
  cancelled). The last one is an assumption about the service that no code in
  this repository can enforce. Polls of a cancelled `Start` may fail without
  bound.
- `FileStorage`: system calls come back; `sync.Mutex` does not starve a waiter
  (its starvation mode), hence strong fairness of `Lock`.
- `Login`: the goroutine runs. That its deadline fires is not assumed, so
  `NeverSpins` and `EndsWithContext` speak of any context.
- `Outbound`: the goroutine runs and requests are answered or fail; no deadline
  is needed.

## What is proved

Every theorem holds for every value of the constants that the named assumptions
(`ASSUME`) of the modules allow: they say that numbers are natural, that the
threshold, the concurrency and the block size are positive, that accepted
defaults are valid, that `NoError`, `NoOp`, `Nil` and the like are no ordinary
values, that the dials of a trace are not called like its other phases, that a batch is
finite. TLC
evaluates them in the runs. `PROJECT.json` lists the theorems.

**ListenerProofs.** For every number of callers and messages, every conversation
structure, threshold, concurrency mode and kind of store: `TypeOK`, `OneStart`,
`InductiveInvariant`, `CommittedIsHandled`, `FirstHandledInOrder`, `CursorAgrees`,
`NoReplayOfCommitted`, `CursorAdvances` and `ClearedBeforeCallback`.

Two of them except a message in `missed`: one that a handler which ended its
goroutine held up, in the very batch the cursor was saved for. Without such
handlers nothing is excepted, and the bot has none (`BotLosesNothing`); with them
the exception is needed, as the run BatchGoexitReceipt shows.

`CommittedIsHandled` is not inductive: a save may only happen because the batch
covers everything between the stored cursor and the new one. `BatchKnows` says so:
a batch starts right behind the stored cursor, misses only what the server has
dropped, its successes are in `handled`, and in the place "save" all of its work
is, but for what lost handlers held up (`MayReturnNil`). That the batch starts
behind the *stored* cursor needs `CursorAgrees` (the poll used the local one),
which in turn needs `OneStart`: with two loops one would move the store under the
other. `LoopKnows` carries what the expiry path knows (the local cursor is empty,
and empty in storage during the callback). `InductiveInvariant` is the
conjunction. Each step of the loop is a step of the proof; the few arithmetic
facts are lemmas (`SaveCovers`, `HandlerCovers`).

Of the bot, `BotImplementsListener`: every step of the bot is a step of `Listener`
or leaves its variables alone, so all theorems about the loop hold of the bot. Its
handlers never end their goroutine, so `missed` stays empty and order and receipt
hold of it without exception (`BotLosesNothing`, `BotKeepsOrder`). On top of that
`CommittedIsSettled`: a message behind the stored cursor was answered or its
record is on the disk. The invariant says that what a batch counts as handled is
settled already, which is where the place of `Sync` before `Close` and the return
of nil matters.

Of the counters, `RevokedAtThreshold` and `DelayFollowsFailures`, for any threshold
and any number of polls (the bounds `MaxPolls`, `FailureCap` and `MaxFailures` may
have any values in that order). `Counted` says, place by place, that
`expiredCount` is the number of empty-cursor expiries in the log since the last
success or reset and `failures` the number of polls since the last success;
between an expired cursor and its reset the log is one poll ahead of both, which
is why the two cannot be compared in every place alike. The delay needs that
`backoffBase` computes the capped exponential (`BackoffIsExponential`): `Doubled`
leaves room before it doubles, so nothing wraps (`DoubledIsExact`), the exponential
satisfies the recursion of the loop, and a function that satisfied it and
differed would do so first at some count. The bounds are all those that
`validate` accepts, whatever the width of the integers.

**BatchProofs.** For every batch and number of workers, with handlers that fail
or end their goroutine: `PerUserOrder`, `NilMissesOnlyLost`, `OneCallAfterCancel`
and `ImplementsContract`, the refinement the poll loop builds on.
Order is not inductive by itself. `HoldInv` adds what a worker holds: the whole
rest of one conversation, everything before it done; `ApartInv` that no message
is in two places, `FreshInv` that nothing is done of what is still queued,
`CoverInv` that every item is done, held or queued unless the batch has a cause
to end, `EndInv` what is known when the call waits and returns. The refinement
maps every step to the end of a handler, lost ones included, the call's return or
a stutter.
`BatchRunsOut` says that no step of a batch repeats: `Remaining` collects the steps
ahead of queue and workers, the queue, the workers that have not left, the queues
with which each may still finish a group, and the signals not yet given; it is
finite, nothing is ever added to it, and every step takes something away.

**FileStorageProofs.** For any number of goroutines, paths, values and files, with
failures and crashes anywhere: `NoTornFile`, `NoLeftovers` and
`ImplementsRegister`. `NoLeftovers` says that a store at rest, if the process
never died, has exactly the temporary files whose removal failed. `StoreInv` says
which temporary file is whose and that every linked file is complete. None of it
rests on the mutex: a file has one writer because every save makes a new one. The
mutex only orders saves of the cursor.

**LoginProofs, ConfigProofs.** `PollsStayTrusted`, `Throttled`, `CodesBounded` and
`OneCallAfterCancel`, for any hosts and limits. `PollsStayTrusted` speaks of the
first request of each poll, wherever earlier ones were redirected; of the requests
the HTTP client adds to a poll nothing can be said (see below). Trust rests on
`CheckedIsTrusted`: what `check` lets pass is on the anchor's host, a pinned host,
or, with none pinned, no private address. `Throttled` needs that every unpaced
poll but the first is paid for by a redirect to a new host, of which there are
finitely many. Behind `NeverSpins` and `EndsWithContext`: outside the wait for the
interval every step uses up one of at most `RoundSteps`, a redirect included
(`RoundsAreShort`); and with the context ended every step is one of the last three
(`CanceledLoginEnds`).

**OutboundProofs.** For data of any length: the announced size is that of the
padded data, `PKCS7Unpad` reverses `PKCS7Pad`, and data that unpads has no other
origin. From these, for every integer width and every accepted configuration,
`ImageIsWhatWasReceived` (what is returned accounts for the whole body received;
that this body is what somebody once encrypted, nothing can show) and
`FittingImageIsReturned`; further `AcceptedNumbersFit` (no sum of limits wraps; in
`ConfigProofs`, with the lemmas on machine integers), `AtMostOneMessage`,
`SuccessIsDelivery` and `HopsStayTrusted`. Behind `CallReturns`: every step of a
call uses up at least one of `StepsLeft`, which is never above `MaxSteps`
(`CallsRunOut`); an attempt that fails leaves fewer attempts, a redirect fewer
hops.

**ContextTokensProofs.** For any limit and any number of users, tokens and
handlers, the type invariant and `MapMatchesList`, `RecentlyUsedKept`,
`NeverStale` and `ReplyKeepsItsToken`. `CacheInv` adds to the agreement of map and
list that the list holds its conversations in the order of their last use
(`ByUse`), each with its latest token. From that, the conversation at the back of
a full list was used before all the others in it (`BackIsOld`), so an insertion
over the limit evicts nothing that is recent (`EvictionKeepsCoherent`). What
`MoveToFront` and `Remove` do to a list without repetitions is proved from the
definition of `Without` (`Fronted`, `FrontedOrder`), with no induction over
sequences: positions in a list ascend, so of n of them the i-th is at least i
(`Ascending`).

**DiagnosticsProofs.** For any number of exchanges, dials and ticks, with the hooks
in any order, late or overlapping: the type invariant, `OverlapsCountOnce` and
`ResponseWaitIsExact`. `Inv` adds that a phase has as many attempts pending as are
going on (`PendingCounts`), that what a phase has accumulated, with the running
attempt, is the time that passed (`ClockIsRight`), and that a report that was made
says so (`ReportIsRight`).

Only model-checked: liveness (`CancelEndsStart`, `EventuallyAcknowledged`,
`Returns`, `CallsEnd`, `NeverSpins`, `EndsWithContext`, `CallReturns`), which is
beyond the prover. Every safety property of the passing runs is proved. The
theorems on what a batch, a login or a call uses up prove one half of `Returns`,
`NeverSpins`, `EndsWithContext` and `CallReturns`, that they do not go on for
ever; the other half, that they never get stuck on the way, is about fairness and
`ENABLED`.

The prover's library has induction only as theorems with an operator parameter,
which cannot be instantiated. Where a proof needs induction on numbers it uses
that a set of natural numbers has a least element (`Least`, from `WFMin` and
`NatLessThanWellFounded`); that 2^(n+1) is twice 2^n is counted in subsets
(`PowerDoubles`).

## Where code and documentation disagree

1. *BatchGoexitReceipt.* A concurrent handler that ends with `runtime.Goexit`
   (as `t.FailNow` does) ends its worker without `cancel(err)`: `processBatch`
   returns nil and `Start` saves the cursor past unhandled messages, against
   `listener.go` 34. Later messages of the same user are then handled although the
   lost one never was. `Listener` has these messages in `missed`.
2. *ListenerConsecutive.* `EmptyBufExpiredThreshold` counts "consecutive"
   responses by `config.go` 69-70; other error codes in between do not reset it.
3. *BotWedge.* The example's `permanent` (`examples/basic/main.go` 150-168) does not
   know the error of an image key that does not decode (`cdn.go` 213-238, a plain
   `fmt.Errorf` without a sentinel). The handler returns it as temporary, and
   every restart fails at the same message: the wedge README.en.md:141-148 warns
   of and says the example avoids.

Seen while reading, and built into the models without a run of their own:

- README.en.md:141 says that messages behind one that always fails are never
  processed; with `HandlerConcurrency` above 1 those of other users can be,
  again on every replay (`FirstHandledInOrder` is what remains true).
- `login.go` 116-117 says that every poll waits for the interval; the poll after
  a redirect does not, as README.en.md:195 says (`Throttled` has the bound).
- README.en.md:186 says that the SDK validates the URLs the server chooses and
  "re-validates **every redirect hop**", the login among them. HTTP redirects of a
  login request are followed by the login client (`login.go` 95), and the
  library's own (`login.go` 272) sets no `CheckRedirect`: token and code of a poll
  may go to any host, over http as well. `PollsStayTrusted` claims what the code
  ensures, the first request of each poll.
- `storage.go` 205 drops the error of `os.Remove`: the temporary file of a failed
  save, with the cursor or credentials in it, may stay without anybody being told
  (`NoLeftovers` excepts exactly these files).
- README.en.md:188 allows five redirect hops; `checkRedirect` counts the first
  request, so four are followed.
- A dead-letter record appended after a write that failed half-way continues
  the line of the fragment (`examples/basic/main.go` 172-201): the record is
  durable, but no longer a line of its own.
- `response_wait` over-reports if the write of an exchange is reported only after
  the next one has begun: nobody ends the wait it starts (`lateWrite` in
  `Diagnostics` excepts this case).

## Not modelled

- AES itself, random keys and `GenerateUIN` (library calls), JSON and the wire
  structures, error types, log lines, and the failure of `json.Marshal` in
  `dispatchInbound`, which no message that was just parsed can cause.
- `markdown.go`: rewriting of text line by line, without state; what could be said
  about it is about wording.
- `doPost`: one request with a bounded body; its outcomes are the answers the
  other models choose from.
- HTTP redirects of `getupdates`, of message submissions and of the other posts:
  their client is the configured one; one answer stands for the chain.
- IPv6 literals with a zone: `net.ParseIP` (`urlpolicy.go` 77) does not take them, so
  that they pass as names. The hosts of `UrlPolicy` are what that function makes of
  them, names and public or private literals.
- `GetQRCode` and the QR code in the terminal: one request, and output.
- `pathForAccount`: that different accounts have different files is a property of
  an encoding (paths are distinct constants in `FileStorage`).
- The option functions and non-numeric defaults of the configuration: plain
  assignments.
- Of the example, its flags, credentials and terminal dialogue.

## Plan

Done: the poll loop and its batch, storage, login, tokens, sending and download,
media encryption, configuration, diagnostics, the example bot; proofs of all
their safety properties that the runs check.

What would add most from here:

1. `Listener` over `StateRegister` in the place of its nondeterministic store, so
   that the chain from the loop to the files is closed. The two are compatible by
   construction (`FileStorage` refines a register in which a failed save has no
   effect, `Listener` allows more), but no module states it.
2. Variants of the same kind for the supervisor of the example bot, the wait of
   `Start` and the file store (batch, login and calls have theirs).
3. The table handling of `markdown.go`, as far as it has control.

--------------------------- MODULE ListenerHistory ---------------------------
(***************************************************************************)
(* Listener with a log of what the polls of the current Start came to, so  *)
(* that its two counters, failures and expiredCount, can be compared with  *)
(* what they are documented to count.                                      *)
(***************************************************************************)
EXTENDS Listener, RetryDelay, Sequences

CONSTANT MaxPolls     \* bound: polls of one Start that are logged

\* The caps of the other modules are not met within these polls.
ASSUME MaxPollsAssumption ==
    MaxPolls \in Nat /\ MaxPolls <= FailureCap /\ FailureCap <= MaxFailures

(* "failed": transport error; "rejected": any other error code; "expired": *)
(* session expired with a cursor; "empty": without one; "ok": a batch.     *)
VARIABLE log

historyVars == <<vars, log>>

HInit == Init /\ log = <<>>

Logged(outcome) == Len(log) < MaxPolls /\ log' = Append(log, outcome)

(* Steps that answer a poll, each with its outcome.                        *)
Poll(c) ==
    \/ ~ctxDone[c] /\ PollFails(c) /\ Logged("failed")
    \/ ctxDone[c] /\ PollFails(c) /\ log' = log
    \/ PollRejected(c) /\ Logged("rejected")
    \/ PollExpiredCursor(c) /\ Logged("expired")
    \/ PollExpiredEmpty(c) /\ Logged("empty")
    \/ \E hi, b \in 0..MaxItems :
           PollDelivers(c, hi, b) /\ Logged("ok")

HNext ==
    \/ \E c \in Callers : Poll(c)
    \/ \E c \in Callers : StartAccepted(c) /\ log' = <<>>
    \/ \E c \in Callers : /\ StartRejected(c) \/ Cancel(c) \/ Proceed(c)
                         /\ log' = log
    \/ Environment /\ log' = log

HSpec == HInit /\ [][HNext]_historyVars
-----------------------------------------------------------------------------
(* The polls since the last one that ended in "ok" or any other of stops.  *)
Since(stops) == {i \in DOMAIN log : \A j \in i..Len(log) : log[j] \notin stops}

Expiries == {i \in Since({"ok", "expired"}) : log[i] = "empty"}

(* Start gives up on the session at the Threshold-th empty-cursor expiry   *)
(* since the last successful poll or cursor reset, neither earlier nor     *)
(* later: rejected and failed polls in between neither count nor forgive.  *)
RevokedAtThreshold ==
    \A c \in Callers :
        /\ pc[c] \in {"loop", "poll", "wait", "batch", "save"} =>
                Cardinality(Expiries) < Threshold
        /\ pc[c] \in {"revoke", "callback"} =>
                Cardinality(Expiries) = Threshold

(* The bounds of the delay a client can have, whatever its Config said.    *)
Unset == [s \in Settings |-> 0]
Bounds ==
    LET raws == {[Unset EXCEPT !["BackoffInitial"] = i, !["BackoffMax"] = m] :
                    i, m \in Int64}
    IN  {<<SetDefaults(raw)["BackoffInitial"], SetDefaults(raw)["BackoffMax"]>> :
            raw \in {r \in raws : Accepted(r)}}

BaseDelay ==
    [b \in Bounds |-> [n \in 1..MaxFailures |-> BackoffBase(b[1], b[2], n)]]

(* The delay before a retry is exponential in the failures in a row, of    *)
(* whatever kind, since the last successful poll (src/listener.go:66, 96,  *)
(* 105, 114), and capped at BackoffMax.  Machine arithmetic never spoils   *)
(* it, for any bounds NewClient accepts, and jitter keeps it "within the   *)
(* upper half of the computed interval" (src/config.go:50-52).             *)
DelayFollowsFailures ==
    \A c \in Callers : pc[c] = "wait" =>
        LET n == Cardinality(Since({"ok"}))
        IN  \A b \in Bounds :
                LET exact == Minimum(b[1] * 2^(n - 1), b[2])
                    base == BaseDelay[b][failures[c]]
                IN  /\ base = exact
                    /\ Jittered(base) \subseteq (exact \div 2)..exact

(* "EmptyBufExpiredThreshold is the number of consecutive empty-buf        *)
(* SessionExpired responses before Start stops and signals                 *)
(* reauthentication" (src/config.go:69-70): the last Threshold responses   *)
(* were all of that kind.  A poll that failed brought no response.         *)
RevokedWhenConsecutive ==
    LET responses == SelectSeq(log, LAMBDA o : o # "failed")
        n == Len(responses)
    IN  \A c \in Callers : pc[c] = "revoke" =>
            /\ n >= Threshold
            /\ \A i \in (n - Threshold + 1)..n : responses[i] = "empty"
=============================================================================

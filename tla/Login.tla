--------------------------------- MODULE Login ---------------------------------
(***************************************************************************)
(* WaitForQRConfirmation (src/login.go:124-233) with checkQRStatus (58-81),*)
(* qrRedirectURL (238-247) and retryQRRequest (249-256): poll the status   *)
(* of a QR code until it is confirmed, refused or expired, following the   *)
(* server to another login host and asking for verification codes on the   *)
(* way, under a context with a deadline.                                   *)
(*                                                                         *)
(* A reply of the server is a record: status, and for a redirect the host  *)
(* it names.  "confirmed" carries credentials, "no_creds" is a confirmed   *)
(* status without them, "unknown" any status the client does not know, and *)
(* "none" a reply without a status.  The user-supplied callbacks onStatus  *)
(* and verificationCodeHandler are places of their own: the context may    *)
(* end while they run.  Both are set here; an onStatus of nil drops calls. *)
(*                                                                         *)
(* A poll goes through the HTTP client of the options.  The one modelled   *)
(* is the library's own (login.go:272), which has no CheckRedirect: it     *)
(* follows HTTP redirects wherever they lead, so that one poll may be      *)
(* several requests.  A client a caller gives with WithLoginHTTPClient     *)
(* follows those its own CheckRedirect lets it.                            *)
(***************************************************************************)
EXTENDS Naturals, FiniteSets, UrlPolicy

CONSTANTS
    Options,            \* the loginOptions a caller may choose (see opts)
    RedirectHosts,      \* the redirect_host values a server may send
    Malformed,          \* one of them: not a bare host
    MaxQRRedirects,     \* the constant maxQRRedirects (5 in the code)
    MaxHTTPRedirects    \* redirects net/http follows for one poll (10)

ASSUME LoginAssumption ==
    /\ MaxQRRedirects \in Nat /\ MaxHTTPRedirects \in Nat
    /\ \A o \in Options : o.maxVerifyAttempts \in Nat \ {0} /\ o.codeHandler \in BOOLEAN
    /\ \A o \in Options : IsURL(o.baseURL) /\ \A h \in o.loginHosts : IsHost(h)
    /\ \A h \in RedirectHosts : IsHost(h)

VARIABLES
    opts,           \* the loginOptions: baseURL (the operator's login host, an
                    \* URL of UrlPolicy), loginHosts (WithLoginHosts, empty if
                    \* unset), maxVerifyAttempts and codeHandler (there is one)
    pc,             \* where the call is
    ctxDone,        \* the context has ended: cancelled, or timed out
    base,           \* lo.baseURL
    at,             \* the URL of the request under way, Home if there is none
    hops,           \* HTTP redirects the poll under way has been through
    redirects,      \* the bases redirected to so far
    verifyAttempts, \* codes asked for so far
    hasCode,        \* verifyCode is not empty
    lastStatus,     \* the last status told to onStatus
    reply,          \* the reply being looked at
    waited,         \* history: the interval has passed since the last poll
    unpaced,        \* history: polls sent without waiting for the interval
    latePolls,      \* history: polls begun on a dead context
    lateCallbacks,  \* history: onStatus and code handler calls begun on one
    result          \* what the call returned

inputVars == <<opts, ctxDone, reply>>
requestVars == <<at, hops>>
loopVars == <<redirects, verifyAttempts, hasCode, lastStatus>>
stateVars == <<base, requestVars, loopVars>>
historyVars == <<waited, unpaced, latePolls, lateCallbacks>>
vars == <<pc, inputVars, stateVars, historyVars, result>>

(* Bounds of the history counters, beyond what the properties allow.       *)
UnpacedCap == MaxQRRedirects + 2
LateCap == 2

Places == {"top", "poll", "sent", "status", "switch", "code", "wait", "returned"}
Results == {"none", "canceled", "credentials", "no_creds", "expired",
            "code_required", "attempts_exhausted", "code_failed", "blocked",
            "bound", "redirect", "no_status", "request"}
Statuses == {"wait", "scanned", "need_code", "blocked", "bound", "redirect",
             "expired", "confirmed", "no_creds", "unknown", "none"}

NoReply == [status |-> "none", host |-> Malformed]
Replies ==
    {[status |-> s, host |-> Malformed] : s \in Statuses \ {"redirect"}}
      \cup {[status |-> "redirect", host |-> h] : h \in RedirectHosts}

(* Where an HTTP redirect may lead.                                        *)
HTTPTargets ==
    {Url(scheme, h) : scheme \in {"https", "http"}, h \in RedirectHosts \ {Malformed}}

Home == opts.baseURL
policy == NewURLPolicy(Home, opts.loginHosts)
-----------------------------------------------------------------------------
Init ==
    /\ opts \in Options
    /\ pc = "top"
    /\ ctxDone = FALSE
    /\ base = Home /\ at = Home /\ hops = 0
    /\ redirects = {}
    /\ verifyAttempts = 0
    /\ hasCode = FALSE
    /\ lastStatus = "none"
    /\ reply = NoReply
    /\ waited = FALSE /\ unpaced = 0 /\ latePolls = 0 /\ lateCallbacks = 0
    /\ result = "none"

Goto(place) == pc' = place /\ UNCHANGED result
Return(r) == pc' = "returned" /\ result' = r

\* Variant of Proceed: no look at the context.
ProceedAnyway(place) == Goto(place)

(* ctx.Err() is looked at before going on.                                 *)
Proceed(place) ==
    IF ctxDone THEN Return("canceled") ELSE Goto(place)

(* One more call of a kind has begun: it counts if the context is dead.    *)
Late(count) == IF ctxDone /\ count < LateCap THEN count + 1 ELSE count

(* The caller cancels, or the timeout of the call fires.                   *)
ContextEnds ==
    /\ pc # "returned"
    /\ ~ctxDone
    /\ ctxDone' = TRUE
    /\ UNCHANGED <<opts, pc, reply, stateVars, historyVars, result>>

LoopTop ==
    /\ pc = "top"
    /\ Proceed("poll")
    /\ UNCHANGED <<inputVars, stateVars, historyVars>>

(* A poll is sent to the base URL.                                         *)
Poll ==
    /\ pc = "poll"
    /\ at' = base
    /\ unpaced' = IF waited \/ unpaced = UnpacedCap THEN unpaced ELSE unpaced + 1
    /\ waited' = FALSE
    /\ latePolls' = Late(latePolls)
    /\ Goto("sent")
    /\ UNCHANGED <<inputVars, base, hops, loopVars, lateCallbacks>>

(* The HTTP client follows a 3xx reply: no policy is asked.  It looks at   *)
(* the context of the request first, and gives up beyond its own limit,    *)
(* which is one of the ways a poll fails.                                  *)
PollIsRedirected(target) ==
    /\ pc = "sent"
    /\ ~ctxDone
    /\ hops < MaxHTTPRedirects
    /\ at' = target
    /\ hops' = hops + 1
    /\ Goto("sent")
    /\ UNCHANGED <<inputVars, base, loopVars, historyVars>>

(* No request is under way any more.                                       *)
RequestOver == at' = Home /\ hops' = 0

(* checkQRStatus fails: a dead context is reported as such; a timeout, 408,*)
(* 429 or 5xx waits for the next poll; anything else ends the login.       *)
PollFails(retryable) ==
    /\ pc = "sent"
    /\ RequestOver
    /\ IF ctxDone THEN Return("canceled")
       ELSE IF retryable THEN Goto("wait")
       ELSE Return("request")
    /\ UNCHANGED <<inputVars, base, loopVars, historyVars>>

(* A reply arrives; a new status is told to onStatus first, with no look   *)
(* at the context in between.                                              *)
PollReplies(r) ==
    /\ pc = "sent"
    /\ RequestOver
    /\ reply' = r
    /\ lastStatus' = r.status
    /\ lateCallbacks' = IF r.status # lastStatus THEN Late(lateCallbacks)
                        ELSE lateCallbacks
    /\ Goto("status")
    /\ UNCHANGED <<opts, ctxDone, base, redirects, verifyAttempts, hasCode,
                   waited, unpaced, latePolls>>

(* onStatus has returned, and the context is looked at again.              *)
StatusTold ==
    /\ pc = "status"
    /\ Proceed("switch")
    /\ UNCHANGED <<inputVars, stateVars, historyVars>>
-----------------------------------------------------------------------------
(* The switch on the status.                                               *)

(* Statuses that end the login, each with its own result.                  *)
Final == [confirmed |-> "credentials", no_creds |-> "no_creds",
          expired |-> "expired", blocked |-> "blocked", bound |-> "bound",
          none |-> "no_status"]

FinalStatus ==
    /\ pc = "switch"
    /\ reply.status \in DOMAIN Final
    /\ Return(Final[reply.status])
    /\ UNCHANGED <<inputVars, stateVars, historyVars>>

(* Keep polling; after "scaned" the code has served its purpose.           *)
KeepPolling ==
    /\ pc = "switch"
    /\ reply.status \in {"wait", "scanned", "unknown"}
    /\ hasCode' = (hasCode /\ reply.status # "scanned")
    /\ Goto("wait")
    /\ UNCHANGED <<inputVars, base, requestVars, redirects, verifyAttempts,
                   lastStatus, historyVars>>

\* Variant of AskForCode: > for >=.
AskOneTooMany ==
    /\ pc = "switch"
    /\ reply.status = "need_code"
    /\ IF ~opts.codeHandler
       THEN Return("code_required") /\ UNCHANGED <<verifyAttempts, lateCallbacks>>
       ELSE IF verifyAttempts > opts.maxVerifyAttempts
       THEN Return("attempts_exhausted") /\ UNCHANGED <<verifyAttempts, lateCallbacks>>
       ELSE /\ verifyAttempts' = verifyAttempts + 1
            /\ lateCallbacks' = Late(lateCallbacks)
            /\ Goto("code")
    /\ UNCHANGED <<inputVars, base, requestVars, redirects, hasCode, lastStatus,
                   waited, unpaced, latePolls>>

(* A code is needed: without a handler, or with no attempt left, that ends *)
(* the login; otherwise the handler is called.                             *)
AskForCode ==
    /\ pc = "switch"
    /\ reply.status = "need_code"
    /\ IF ~opts.codeHandler
       THEN Return("code_required") /\ UNCHANGED <<verifyAttempts, lateCallbacks>>
       ELSE IF verifyAttempts >= opts.maxVerifyAttempts
       THEN Return("attempts_exhausted") /\ UNCHANGED <<verifyAttempts, lateCallbacks>>
       ELSE /\ verifyAttempts' = verifyAttempts + 1
            /\ lateCallbacks' = Late(lateCallbacks)
            /\ Goto("code")
    /\ UNCHANGED <<inputVars, base, requestVars, redirects, hasCode, lastStatus,
                   waited, unpaced, latePolls>>

\* Variant of CodeGiven: continue instead of falling through to the wait.
SubmitAtOnce(answer) ==
    /\ pc = "code"
    /\ IF ctxDone THEN Return("canceled")
       ELSE IF answer = "error" THEN Return("code_failed")
       ELSE IF answer = "blank" THEN Return("code_required")
       ELSE Goto("top")
    /\ hasCode' = (answer = "code")
    /\ UNCHANGED <<inputVars, base, requestVars, redirects, verifyAttempts,
                   lastStatus, historyVars>>

(* The handler returns a code, a blank one, or an error.  The context may  *)
(* have ended meanwhile and is what the caller is told about then.         *)
CodeGiven(answer) ==
    /\ pc = "code"
    /\ IF ctxDone THEN Return("canceled")
       ELSE IF answer = "error" THEN Return("code_failed")
       ELSE IF answer = "blank" THEN Return("code_required")
       ELSE Goto("wait")
    /\ hasCode' = (answer = "code")
    /\ UNCHANGED <<inputVars, base, requestVars, redirects, verifyAttempts,
                   lastStatus, historyVars>>

\* Variant of FollowRedirect: the redirect is not recorded.
ForgetsRedirects ==
    /\ pc = "switch"
    /\ reply.status = "redirect"
    /\ LET target == Url("https", reply.host)
       IN  IF \/ reply.host = Malformed
              \/ ~Check(policy, target)
              \/ Cardinality(redirects) >= MaxQRRedirects
              \/ target \in redirects
           THEN Return("redirect") /\ UNCHANGED <<base, redirects>>
           ELSE base' = target /\ Goto("top") /\ UNCHANGED redirects
    /\ UNCHANGED <<inputVars, verifyAttempts, hasCode, lastStatus, historyVars,
                   requestVars>>

(* The server moves the login to another host, over https, if the host is  *)
(* well-formed, passes the policy and is not one too many or a repetition. *)
(* The next poll follows at once.                                          *)
FollowRedirect ==
    /\ pc = "switch"
    /\ reply.status = "redirect"
    /\ LET target == Url("https", reply.host)
       IN  IF \/ reply.host = Malformed
              \/ ~Check(policy, target)
              \/ Cardinality(redirects) >= MaxQRRedirects
              \/ target \in redirects
           THEN Return("redirect") /\ UNCHANGED <<base, redirects>>
           ELSE /\ base' = target
                /\ redirects' = redirects \cup {target}
                /\ Goto("top")
    /\ UNCHANGED <<inputVars, verifyAttempts, hasCode, lastStatus, historyVars,
                   requestVars>>

(* The select of the shared wait: the timer, or the end of the context;    *)
(* with both ready, either.                                                *)
IntervalPasses ==
    /\ pc = "wait"
    /\ waited' = TRUE
    /\ Goto("top")
    /\ UNCHANGED <<inputVars, stateVars, unpaced, latePolls, lateCallbacks>>

WaitCanceled ==
    /\ pc = "wait"
    /\ ctxDone
    /\ Return("canceled")
    /\ UNCHANGED <<inputVars, stateVars, historyVars>>

Returned == pc = "returned" /\ UNCHANGED vars

ClientStep ==
    \/ LoopTop \/ Poll
    \/ \E target \in HTTPTargets : PollIsRedirected(target)
    \/ \E retryable \in BOOLEAN : PollFails(retryable)
    \/ \E r \in Replies : PollReplies(r)
    \/ StatusTold
    \/ FinalStatus \/ KeepPolling \/ AskForCode \/ FollowRedirect
    \/ \E answer \in {"code", "blank", "error"} : CodeGiven(answer)
    \/ IntervalPasses \/ WaitCanceled

Next == ClientStep \/ ContextEnds \/ Returned

Spec == Init /\ [][Next]_vars

(* The goroutine of the call keeps running: requests end (the context is   *)
(* attached to them), the callbacks return, as their contracts ask.  That  *)
(* the deadline of the call fires is not assumed.                          *)
FairSpec == Spec /\ WF_vars(ClientStep)
-----------------------------------------------------------------------------
(* Properties.                                                             *)

(* The variables have their types.                                         *)
TypeOK ==
    /\ opts \in Options
    /\ pc \in Places
    /\ ctxDone \in BOOLEAN
    /\ base \in {Home} \cup redirects
    /\ redirects \subseteq {Url("https", h) : h \in RedirectHosts \ {Malformed}}
    /\ verifyAttempts \in Nat
    /\ hasCode \in BOOLEAN /\ waited \in BOOLEAN
    /\ lastStatus \in Statuses
    /\ reply \in Replies
    /\ at \in {Home} \cup redirects \cup HTTPTargets /\ hops \in 0..MaxHTTPRedirects
    /\ unpaced \in Nat /\ latePolls \in Nat /\ lateCallbacks \in Nat
    /\ result \in Results

(* However the server chains the redirects of the login protocol, and      *)
(* wherever HTTP redirects have led earlier polls, each poll is first sent *)
(* to the operator's own login host or to a host the operator accepts: one *)
(* it pinned, or, if it pinned none, one that is not a private address; a  *)
(* host the server chose is spoken to over https (src/login.go:134-136,    *)
(* 235-247).  README.en.md:186 promises more, "re-validates every redirect *)
(* hop": the requests excepted here, those the HTTP client goes on to      *)
(* (hops > 0), are not validated at all, and may be to any host.           *)
SameHost(g, h) == g.name = h.name
PollsStayTrusted ==
    pc = "sent" /\ hops = 0 /\ at # Home =>
        /\ at.scheme = "https"
        /\ \/ SameHost(at.host, Home.host)
           \/ \E h \in opts.loginHosts : SameHost(at.host, h)
           \/ opts.loginHosts = {} /\ at.host.kind # "private"

(* The server cannot make the client poll without a pause, whatever it     *)
(* answers and however fast the callbacks are: besides the first poll, one *)
(* poll per distinct redirect goes out without waiting for the interval    *)
(* (README.en.md:195).  The HTTP redirects of one poll are the client's.   *)
Throttled == unpaced <= 1 + Cardinality(redirects) /\ Cardinality(redirects) <= MaxQRRedirects

(* The user is asked for at most WithVerificationAttempts codes in one     *)
(* login, across redirects and retried polls; and a login that ran out of  *)
(* attempts has asked for all of them (README.en.md:195).                  *)
CodesBounded ==
    /\ verifyAttempts <= opts.maxVerifyAttempts
    /\ result = "attempts_exhausted" => verifyAttempts = opts.maxVerifyAttempts

(* Once the context has ended, the loop begins at most one more poll, the  *)
(* one whose context check had passed, and at most one more callback:      *)
(* onStatus if a poll is still answered with a new status, or the code     *)
(* handler if the check after onStatus had passed.                         *)
OneCallAfterCancel == latePolls <= 1 /\ lateCallbacks <= 1

(* Even with a context that never ends, the loop does not spin: it comes   *)
(* to the wait for the interval again and again, or returns.               *)
NeverSpins == []<>(pc \in {"wait", "returned"})

(* Once the context has ended - the caller cancelled, or the timeout of the*)
(* call fired - the call returns, whatever the server still answers.       *)
EndsWithContext == ctxDone ~> pc = "returned"
=============================================================================

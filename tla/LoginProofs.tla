----------------------------- MODULE LoginProofs -----------------------------
(***************************************************************************)
(* Proofs about Login, for any login host and pinned hosts, any hosts a    *)
(* server may redirect to, and any limits.                                 *)
(***************************************************************************)
EXTENDS Login, ConfigProofs, FiniteSetTheorems

-----------------------------------------------------------------------------
(* The inductive invariant, in four independent parts.                     *)

TypeInv ==
    /\ opts \in Options
    /\ pc \in Places
    /\ ctxDone \in BOOLEAN
    /\ redirects \subseteq {Url("https", h) : h \in RedirectHosts}
    /\ reply \in Replies
    /\ verifyAttempts \in Nat
    /\ unpaced \in Nat /\ latePolls \in Nat /\ lateCallbacks \in Nat
    /\ waited \in BOOLEAN
    /\ hops \in 0..MaxHTTPRedirects
    /\ pc # "sent" => hops = 0

(* Only a poll is sent ahead of the interval that begins the login or that *)
(* follows a redirect.                                                     *)
PaceInv ==
    /\ IsFiniteSet(redirects) /\ Cardinality(redirects) <= MaxQRRedirects
    /\ unpaced <= 1 + Cardinality(redirects)
    /\ pc \in {"top", "poll"} /\ ~waited => unpaced <= Cardinality(redirects)

(* A call begun on a dead context is on its way to the check that ends it: *)
(* a poll to the one after onStatus, a callback to the one right behind it.*)
LateInv ==
    /\ latePolls \in {0, 1} /\ lateCallbacks \in {0, 1}
    /\ latePolls = 1 => ctxDone /\ pc \in {"sent", "status", "returned"}
    /\ lateCallbacks = 1 => ctxDone /\ pc \in {"status", "code", "returned"}

(* The base URL is one the operator accepts, and a poll starts there.      *)
TrustInv ==
    /\ base # Home =>
          base.scheme = "https" /\ TrustedHost(Home.host, opts.loginHosts, base.host)
    /\ pc = "sent" /\ hops = 0 => at = base

LoginInv == TypeInv /\ PaceInv /\ LateInv /\ TrustInv /\ CodesBounded

LEMMA RepliesHaveHosts ==
    \A r \in Replies : r.status = "redirect" => r.host \in RedirectHosts
BY DEF Replies, Statuses

LEMMA InitInv == Init => LoginInv
<1> SUFFICES ASSUME Init PROVE LoginInv
  OBVIOUS
<1> USE DEF Init
<1>1. NoReply \in Replies
  BY DEF NoReply, Replies, Statuses
<1>2. IsFiniteSet({}) /\ Cardinality({}) = 0
  BY FS_EmptySet
<1>a. 0 \in 0..MaxHTTPRedirects
  BY LoginAssumption
<1>3. TypeInv
  BY <1>1, <1>a DEF TypeInv, Places
<1>4. PaceInv
  BY <1>2, LoginAssumption DEF PaceInv
<1>5. CodesBounded
  BY LoginAssumption DEF CodesBounded
<1> QED
  BY <1>3, <1>4, <1>5 DEF LoginInv, LateInv, TrustInv

(* A redirect that is followed adds one base to the set.                   *)
LEMMA OneMore ==
    ASSUME IsFiniteSet(redirects), NEW t, t \notin redirects
    PROVE  /\ IsFiniteSet(redirects \cup {t})
           /\ Cardinality(redirects \cup {t}) = Cardinality(redirects) + 1
           /\ Cardinality(redirects) \in Nat
BY FS_AddElement, FS_CardinalityType

(* What sending a poll, and a callback, do to the history.                 *)
LEMMA PollCounted ==
    ASSUME TypeInv, Poll
    PROVE  /\ unpaced' \in Nat /\ waited' = FALSE
           /\ unpaced' = unpaced \/ (~waited /\ unpaced' = unpaced + 1)
           /\ latePolls' \in Nat
           /\ latePolls' = latePolls \/ (ctxDone /\ latePolls' = latePolls + 1)
<1>1. unpaced \in Nat /\ latePolls \in Nat
  BY DEF TypeInv
<1> QED
  BY <1>1 DEF Poll, Late

LEMMA CallbackCounted ==
    ASSUME TypeInv, lateCallbacks' \in {lateCallbacks, Late(lateCallbacks)}
    PROVE  /\ lateCallbacks' \in Nat
           /\ lateCallbacks' = lateCallbacks \/ (ctxDone /\ lateCallbacks' = lateCallbacks + 1)
BY DEF TypeInv, Late

LEMMA StepType == TypeInv /\ [Next]_vars => TypeInv'
<1> SUFFICES ASSUME TypeInv, [Next]_vars PROVE TypeInv'
  OBVIOUS
<1> USE DEF Goto, Return, Proceed, Places, inputVars, stateVars,
           requestVars, loopVars, historyVars
<1>0. 0 \in 0..MaxHTTPRedirects
  BY LoginAssumption
<1>1. CASE LoopTop BY <1>1 DEF TypeInv, LoopTop
<1>2. ASSUME NEW r \in BOOLEAN, PollFails(r) PROVE TypeInv'
  BY <1>0, <1>2 DEF TypeInv, PollFails, RequestOver
<1>3. ASSUME NEW r \in Replies, PollReplies(r) PROVE TypeInv'
  <2>1. lateCallbacks' \in {lateCallbacks, Late(lateCallbacks)}
    BY <1>3 DEF PollReplies
  <2> QED
    BY <1>0, <1>3, <2>1, CallbackCounted DEF TypeInv, PollReplies, RequestOver
<1>4. CASE StatusTold BY <1>4 DEF TypeInv, StatusTold
<1>5. CASE FinalStatus BY <1>5 DEF TypeInv, FinalStatus
<1>6. CASE KeepPolling BY <1>6 DEF TypeInv, KeepPolling
<1>7. CASE AskForCode
  <2>1. lateCallbacks' \in {lateCallbacks, Late(lateCallbacks)}
    BY <1>7 DEF AskForCode
  <2>2. verifyAttempts' \in Nat /\ pc' \in Places \ {"sent"} /\ pc # "sent"
    BY <1>7 DEF TypeInv, AskForCode
  <2> QED
    BY <1>7, <2>1, <2>2, CallbackCounted DEF TypeInv, AskForCode
<1>8. CASE FollowRedirect
  <2>1. reply.host \in RedirectHosts
    BY <1>8, RepliesHaveHosts DEF TypeInv, FollowRedirect
  <2> QED
    BY <1>8, <2>1 DEF TypeInv, FollowRedirect
<1>9. ASSUME NEW a \in {"code", "blank", "error"}, CodeGiven(a) PROVE TypeInv'
  BY <1>9 DEF TypeInv, CodeGiven
<1>10. CASE IntervalPasses BY <1>10 DEF TypeInv, IntervalPasses
<1>11. CASE WaitCanceled BY <1>11 DEF TypeInv, WaitCanceled
<1>12. CASE ContextEnds BY <1>12 DEF TypeInv, ContextEnds
<1>13. CASE UNCHANGED vars BY <1>13 DEF TypeInv, vars
<1>14. CASE Poll
  <2>1. pc = "poll" /\ pc' = "sent" /\ UNCHANGED <<inputVars, base, hops, loopVars, lateCallbacks>>
    BY <1>14 DEF Poll
  <2> QED
    BY <1>14, <2>1, PollCounted DEF TypeInv
<1>15. ASSUME NEW t \in HTTPTargets, PollIsRedirected(t) PROVE TypeInv'
  <2>1. hops' \in 0..MaxHTTPRedirects
    BY <1>15, LoginAssumption DEF TypeInv, PollIsRedirected
  <2> QED
    BY <1>15, <2>1 DEF TypeInv, PollIsRedirected
<1> QED
  BY <1>1, <1>2, <1>3, <1>4, <1>5, <1>6, <1>7, <1>8, <1>9, <1>10, <1>11, <1>12,
     <1>13, <1>14, <1>15 DEF Next, ClientStep, Returned

LEMMA StepPace == TypeInv /\ PaceInv /\ [Next]_vars => PaceInv'
<1> SUFFICES ASSUME TypeInv, PaceInv, [Next]_vars PROVE PaceInv'
  OBVIOUS
<1> USE DEF Goto, Return, Proceed, PaceInv, inputVars, stateVars,
           requestVars, loopVars, historyVars
<1>0. Cardinality(redirects) \in Nat /\ unpaced \in Nat /\ waited \in BOOLEAN
  BY FS_CardinalityType DEF TypeInv
<1>1. CASE LoopTop BY <1>1 DEF LoopTop
<1>2. ASSUME NEW r \in BOOLEAN, PollFails(r) PROVE PaceInv'
  BY <1>2 DEF PollFails
<1>3. ASSUME NEW r \in Replies, PollReplies(r) PROVE PaceInv'
  BY <1>3 DEF PollReplies
<1>4. CASE StatusTold BY <1>4 DEF StatusTold
<1>5. CASE FinalStatus BY <1>5 DEF FinalStatus
<1>6. CASE KeepPolling BY <1>6 DEF KeepPolling
<1>7. CASE AskForCode BY <1>7 DEF AskForCode
<1>8. CASE FollowRedirect
  <2> DEFINE t == Url("https", reply.host)
  <2>1. CASE redirects' = redirects /\ pc' = "returned" /\ unpaced' = unpaced
    BY <2>1
  <2>2. CASE /\ ~(Cardinality(redirects) >= MaxQRRedirects) /\ t \notin redirects
             /\ redirects' = redirects \cup {t}
             /\ unpaced' = unpaced
    <3> HIDE DEF t
    <3>1. Cardinality(redirects') = Cardinality(redirects) + 1 /\ IsFiniteSet(redirects')
      BY <2>2, OneMore
    <3> QED
      BY <1>0, <2>2, <3>1, LoginAssumption
  <2> HIDE DEF t
  <2> QED
    BY <1>8, <2>1, <2>2 DEF FollowRedirect, t
<1>9. ASSUME NEW a \in {"code", "blank", "error"}, CodeGiven(a) PROVE PaceInv'
  BY <1>9 DEF CodeGiven
<1>10. CASE IntervalPasses BY <1>10 DEF IntervalPasses
<1>11. CASE WaitCanceled BY <1>11 DEF WaitCanceled
<1>12. CASE ContextEnds BY <1>12 DEF ContextEnds
<1>13. CASE UNCHANGED vars BY <1>13 DEF vars
<1>14. CASE Poll
  <2>1. pc = "poll" /\ pc' = "sent" /\ redirects' = redirects
    BY <1>14 DEF Poll
  <2> QED
    BY <1>0, <1>14, <2>1, PollCounted
<1>15. ASSUME NEW t \in HTTPTargets, PollIsRedirected(t) PROVE PaceInv'
  BY <1>15 DEF PollIsRedirected
<1> QED
  BY <1>1, <1>2, <1>3, <1>4, <1>5, <1>6, <1>7, <1>8, <1>9, <1>10, <1>11, <1>12,
     <1>13, <1>14, <1>15 DEF Next, ClientStep, Returned

LEMMA StepLate == TypeInv /\ LateInv /\ [Next]_vars => LateInv'
<1> SUFFICES ASSUME TypeInv, LateInv, [Next]_vars PROVE LateInv'
  OBVIOUS
<1> USE DEF Goto, Return, Proceed, LateInv, inputVars, stateVars,
           requestVars, loopVars, historyVars
<1>1. CASE LoopTop BY <1>1 DEF LoopTop
<1>2. ASSUME NEW r \in BOOLEAN, PollFails(r) PROVE LateInv'
  BY <1>2 DEF PollFails
<1>3. ASSUME NEW r \in Replies, PollReplies(r) PROVE LateInv'
  <2>1. /\ pc = "sent" /\ pc' = "status" /\ UNCHANGED <<ctxDone, latePolls>>
        /\ lateCallbacks' \in {lateCallbacks, Late(lateCallbacks)}
    BY <1>3 DEF PollReplies
  <2> QED
    BY <2>1, CallbackCounted
<1>4. CASE StatusTold BY <1>4 DEF StatusTold
<1>5. CASE FinalStatus BY <1>5 DEF FinalStatus
<1>6. CASE KeepPolling BY <1>6 DEF KeepPolling
<1>7. CASE AskForCode
  <2>1. /\ pc = "switch" /\ UNCHANGED <<ctxDone, latePolls>>
        /\ \/ lateCallbacks' = lateCallbacks
           \/ pc' = "code" /\ lateCallbacks' = Late(lateCallbacks)
    BY <1>7 DEF AskForCode
  <2> QED
    BY <2>1, CallbackCounted
<1>8. CASE FollowRedirect BY <1>8 DEF FollowRedirect
<1>9. ASSUME NEW a \in {"code", "blank", "error"}, CodeGiven(a) PROVE LateInv'
  BY <1>9 DEF CodeGiven
<1>10. CASE IntervalPasses BY <1>10 DEF IntervalPasses
<1>11. CASE WaitCanceled BY <1>11 DEF WaitCanceled
<1>12. CASE ContextEnds BY <1>12 DEF ContextEnds
<1>13. CASE UNCHANGED vars BY <1>13 DEF vars
<1>14. CASE Poll
  <2>1. pc = "poll" /\ pc' = "sent" /\ UNCHANGED <<ctxDone, lateCallbacks>>
    BY <1>14 DEF Poll
  <2> QED
    BY <1>14, <2>1, PollCounted
<1>15. ASSUME NEW t \in HTTPTargets, PollIsRedirected(t) PROVE LateInv'
  BY <1>15 DEF PollIsRedirected
<1> QED
  BY <1>1, <1>2, <1>3, <1>4, <1>5, <1>6, <1>7, <1>8, <1>9, <1>10, <1>11, <1>12,
     <1>13, <1>14, <1>15 DEF Next, ClientStep, Returned

(* The only step that changes the base URL checks the new one against a    *)
(* policy that is anchored to the first.                                   *)
LEMMA StepTrust == TypeInv /\ TrustInv /\ [Next]_vars => TrustInv'
<1> SUFFICES ASSUME TypeInv, TrustInv, [Next]_vars PROVE TrustInv'
  OBVIOUS
<1>1. opts' = opts
  BY DEF Next, ClientStep, Returned, vars, inputVars, LoopTop, Poll, PollIsRedirected,
         PollFails, PollReplies,
         StatusTold, FinalStatus, KeepPolling, AskForCode, FollowRedirect, CodeGiven,
         IntervalPasses, WaitCanceled, ContextEnds
<1>a. pc' = "sent" /\ hops' = 0 => at' = base'
  <2>1. CASE Poll
    BY <2>1 DEF Poll
  <2>2. ASSUME NEW t \in HTTPTargets, PollIsRedirected(t) PROVE hops' # 0
    BY <2>2 DEF PollIsRedirected, TypeInv
  <2>3. CASE ~Poll /\ ~\E t \in HTTPTargets : PollIsRedirected(t)
    <3>1. pc' = "sent" => UNCHANGED <<pc, hops, at, base>>
      BY <2>3 DEF Next, ClientStep, Returned, vars, stateVars, requestVars, LoopTop,
             PollFails, PollReplies, StatusTold, FinalStatus, KeepPolling, AskForCode,
             FollowRedirect, CodeGiven, IntervalPasses, WaitCanceled, ContextEnds,
             Goto, Return, Proceed
    <3> QED
      BY <3>1 DEF TrustInv
  <2> QED
    BY <2>1, <2>2, <2>3
<1>2. CASE base' = base
  BY <1>1, <1>2, <1>a DEF TrustInv, Home
<1>3. CASE FollowRedirect
  <2> DEFINE t == Url("https", reply.host)
  <2>1. CASE base' = base
    BY <2>1, <1>2
  <2>2. CASE base' = t /\ Check(policy, t)
    <3>1. IsHost(reply.host)
      BY <1>3, RepliesHaveHosts, LoginAssumption DEF TypeInv, FollowRedirect
    <3>2. t.host = reply.host /\ t.scheme = "https"
      BY DEF Url
    <3>3. IsURL(Home) /\ \A h \in opts.loginHosts : IsHost(h)
      BY LoginAssumption DEF TypeInv, Home
    <3> HIDE DEF t
    <3>4. TrustedHost(Home.host, opts.loginHosts, t.host)
      BY <2>2, <3>1, <3>2, <3>3, CheckedIsTrusted DEF policy
    <3> QED
      BY <2>2, <3>2, <3>4, <1>1, <1>a DEF TrustInv, Home
  <2> QED
    BY <1>3, <2>1, <2>2 DEF FollowRedirect
<1>4. base' = base \/ FollowRedirect
  BY DEF Next, ClientStep, Returned, vars, stateVars, LoopTop, Poll, PollIsRedirected,
         PollFails, PollReplies,
         StatusTold, FinalStatus, KeepPolling, AskForCode, CodeGiven,
         IntervalPasses, WaitCanceled, ContextEnds
<1> QED
  BY <1>2, <1>3, <1>4

LEMMA StepCodes == TypeInv /\ CodesBounded /\ [Next]_vars => CodesBounded'
<1> SUFFICES ASSUME TypeInv, CodesBounded, [Next]_vars PROVE CodesBounded'
  OBVIOUS
<1> USE DEF Goto, Return, Proceed, CodesBounded, inputVars, stateVars,
           requestVars, loopVars, historyVars
<1>0. verifyAttempts \in Nat /\ opts.maxVerifyAttempts \in Nat
  BY LoginAssumption DEF TypeInv
<1>1. CASE LoopTop BY <1>1 DEF LoopTop
<1>2. ASSUME NEW r \in BOOLEAN, PollFails(r) PROVE CodesBounded'
  BY <1>2 DEF PollFails
<1>3. ASSUME NEW r \in Replies, PollReplies(r) PROVE CodesBounded'
  BY <1>3 DEF PollReplies
<1>4. CASE StatusTold BY <1>4 DEF StatusTold
<1>5. CASE FinalStatus
  <2>1. Final[reply.status] # "attempts_exhausted"
    BY <1>5 DEF FinalStatus, Final
  <2> QED
    BY <1>5, <2>1 DEF FinalStatus
<1>6. CASE KeepPolling BY <1>6 DEF KeepPolling
<1>7. CASE AskForCode BY <1>0, <1>7 DEF AskForCode
<1>8. CASE FollowRedirect BY <1>8 DEF FollowRedirect
<1>9. ASSUME NEW a \in {"code", "blank", "error"}, CodeGiven(a) PROVE CodesBounded'
  BY <1>9 DEF CodeGiven
<1>10. CASE IntervalPasses BY <1>10 DEF IntervalPasses
<1>11. CASE WaitCanceled BY <1>11 DEF WaitCanceled
<1>12. CASE ContextEnds BY <1>12 DEF ContextEnds
<1>13. CASE UNCHANGED vars BY <1>13 DEF vars
<1>14. CASE Poll BY <1>14 DEF Poll
<1>15. ASSUME NEW t \in HTTPTargets, PollIsRedirected(t) PROVE CodesBounded'
  BY <1>15 DEF PollIsRedirected
<1> QED
  BY <1>1, <1>2, <1>3, <1>4, <1>5, <1>6, <1>7, <1>8, <1>9, <1>10, <1>11, <1>12,
     <1>13, <1>14, <1>15 DEF Next, ClientStep, Returned

(* The parts of the inductive invariant hold throughout a login, whatever  *)
(* the server answers (src/login.go:124-247).                              *)
THEOREM InductiveLogin == Spec => []LoginInv
<1>1. LoginInv /\ [Next]_vars => LoginInv'
  BY StepType, StepPace, StepLate, StepTrust, StepCodes DEF LoginInv
<1> QED
  BY InitInv, <1>1, PTL DEF Spec
-----------------------------------------------------------------------------
(* However a server chains the redirects of the login protocol, each poll  *)
(* is first sent to a host the operator trusts: for any hosts, pinned or   *)
(* not, and any length of the chain.  Of the requests HTTP redirects add   *)
(* to a poll it says nothing, for no policy looks at them (login.go:95,    *)
(* 272).                                                                   *)
THEOREM TrustKept == Spec => []PollsStayTrusted
<1>1. LoginInv => PollsStayTrusted
  BY DEF LoginInv, TrustInv, TrustedHost, PollsStayTrusted, SameHost
<1> QED
  BY InductiveLogin, <1>1, PTL

(* No server can make the client poll without pause, for any limit of      *)
(* redirects.                                                              *)
THEOREM PaceKept == Spec => []Throttled
<1>1. LoginInv => Throttled
  BY DEF LoginInv, PaceInv, Throttled
<1> QED
  BY InductiveLogin, <1>1, PTL

(* The limit of verification codes holds for every value of it.            *)
THEOREM AttemptsKept == Spec => []CodesBounded
<1>1. LoginInv => CodesBounded
  BY DEF LoginInv
<1> QED
  BY InductiveLogin, <1>1, PTL

(* A dead context lets at most one more poll and one more callback begin,  *)
(* onStatus counted (login.go:143-158, 180).                               *)
THEOREM CancelHeeded == Spec => []OneCallAfterCancel
<1>1. LoginInv => OneCallAfterCancel
  BY DEF LoginInv, LateInv, OneCallAfterCancel
<1> QED
  BY InductiveLogin, <1>1, PTL
-----------------------------------------------------------------------------
(* How long a login can go on without a pause, and after its end.          *)

(* The steps left before the login waits for the interval or returns: each *)
(* redirect takes the login back from the switch to the top of the loop,   *)
(* and the poll there may go through HTTP redirects again.                 *)
PlaceInRound ==
    CASE pc \in {"wait", "returned"} -> 0
      [] pc = "code"   -> 1
      [] pc = "switch" -> 2
      [] pc = "status" -> 3
      [] pc = "sent"   -> 4 + MaxHTTPRedirects - hops
      [] pc = "poll"   -> 5 + MaxHTTPRedirects
      [] pc = "top"    -> 6 + MaxHTTPRedirects

RedirectsLeft == MaxQRRedirects - Cardinality(redirects)
RoundLength == 5 + MaxHTTPRedirects
RoundLeft == PlaceInRound + RoundLength * RedirectsLeft + (IF ctxDone THEN 0 ELSE 1)
RoundSteps == 2 + RoundLength + RoundLength * MaxQRRedirects

(* The steps a login can still take once its context has ended.            *)
EndLeft ==
    CASE pc = "returned" -> 0
      [] pc \in {"top", "status", "code"} -> 1
      [] pc \in {"sent", "wait"} -> 2
      [] pc \in {"poll", "switch"} -> 3

(* A step outside the wait brings the next wait nearer.                    *)
LEMMA StepNearsWait ==
    LoginInv /\ LoginInv' /\ [Next]_vars =>
        vars' = vars \/ pc = "wait" \/ RoundLeft' < RoundLeft
<1> SUFFICES ASSUME LoginInv, LoginInv', [Next]_vars, vars' # vars, pc # "wait"
             PROVE  RoundLeft' < RoundLeft
  OBVIOUS
<1>0. RedirectsLeft \in Nat /\ RedirectsLeft' \in Nat
  <2>1. /\ Cardinality(redirects) \in Nat /\ Cardinality(redirects) <= MaxQRRedirects
        /\ Cardinality(redirects)' \in Nat /\ Cardinality(redirects)' <= MaxQRRedirects
    BY FS_CardinalityType DEF LoginInv, PaceInv
  <2> QED
    BY <2>1, LoginAssumption DEF RedirectsLeft
<1>a. /\ pc \in Places /\ pc' \in Places /\ ctxDone \in BOOLEAN
      /\ hops \in 0..MaxHTTPRedirects /\ hops' \in 0..MaxHTTPRedirects
      /\ MaxHTTPRedirects \in Nat
      /\ pc = "poll" => hops = 0
  BY LoginAssumption DEF LoginInv, TypeInv
<1>b. PlaceInRound \in Nat /\ PlaceInRound' \in Nat
  BY <1>a DEF PlaceInRound, Places
<1>d. RoundLength \in Nat /\ RoundLength' = RoundLength
  BY <1>a DEF RoundLength
<1> DEFINE extra == IF ctxDone THEN 0 ELSE 1
<1>c. extra \in {0, 1}
  OBVIOUS
<1> DEFINE rest == RoundLength * RedirectsLeft
<1>e. rest \in Nat
  BY <1>0, <1>d
<1>1. CASE ContextEnds
  <2>1. RoundLeft = PlaceInRound + rest + 1
    BY <1>1 DEF ContextEnds, RoundLeft
  <2>2. RoundLeft' = PlaceInRound + rest + 0
    BY <1>1 DEF ContextEnds, RoundLeft, PlaceInRound, RedirectsLeft, RoundLength,
                stateVars, requestVars, loopVars
  <2> HIDE DEF rest
  <2> QED
    BY <1>b, <1>e, <2>1, <2>2
<1>2. ASSUME ctxDone' = ctxDone, redirects' = redirects, PlaceInRound' < PlaceInRound
      PROVE  RoundLeft' < RoundLeft
  <2>1. /\ RoundLeft = PlaceInRound + rest + extra
        /\ RoundLeft' = PlaceInRound' + rest + extra
    BY <1>2 DEF RoundLeft, RedirectsLeft, RoundLength
  <2> HIDE DEF extra, rest
  <2>2. \A p, q, r, e \in Nat : q < p => q + r + e < p + r + e
    OBVIOUS
  <2>3. extra \in Nat
    BY <1>c
  <2> QED
    BY ONLY <1>2, <1>b, <1>e, <2>1, <2>2, <2>3
<1> USE DEF Goto, Return, Proceed, inputVars, stateVars,
           requestVars, loopVars, historyVars
<1>3. CASE LoopTop
  <2>1. pc = "top" /\ pc' \in {"poll", "returned"} /\ ctxDone' = ctxDone /\ redirects' = redirects
    BY <1>3 DEF LoopTop
  <2> QED
    BY <1>2, <1>a, <2>1 DEF PlaceInRound
<1>4. ASSUME NEW r \in BOOLEAN, PollFails(r) PROVE RoundLeft' < RoundLeft
  <2>1. pc = "sent" /\ pc' \in {"wait", "returned"} /\ ctxDone' = ctxDone /\ redirects' = redirects
    BY <1>4 DEF PollFails
  <2> QED
    BY <1>2, <1>a, <2>1 DEF PlaceInRound
<1>5. ASSUME NEW r \in Replies, PollReplies(r) PROVE RoundLeft' < RoundLeft
  <2>1. pc = "sent" /\ pc' = "status" /\ ctxDone' = ctxDone /\ redirects' = redirects
    BY <1>5 DEF PollReplies
  <2> QED
    BY <1>2, <1>a, <2>1 DEF PlaceInRound
<1>13. CASE Poll
  <2>1. /\ pc = "poll" /\ pc' = "sent" /\ ctxDone' = ctxDone /\ redirects' = redirects
        /\ hops' = hops
    BY <1>13 DEF Poll
  <2> QED
    BY <1>2, <1>a, <2>1 DEF PlaceInRound
<1>14. ASSUME NEW t \in HTTPTargets, PollIsRedirected(t) PROVE RoundLeft' < RoundLeft
  <2>1. /\ pc = "sent" /\ pc' = "sent" /\ ctxDone' = ctxDone /\ redirects' = redirects
        /\ hops' = hops + 1
    BY <1>14 DEF PollIsRedirected
  <2> QED
    BY <1>2, <1>a, <2>1 DEF PlaceInRound
<1>6. CASE StatusTold
  <2>1. pc = "status" /\ pc' \in {"switch", "returned"} /\ ctxDone' = ctxDone
        /\ redirects' = redirects
    BY <1>6 DEF StatusTold
  <2> QED
    BY <1>2, <2>1 DEF PlaceInRound
<1>7. CASE FinalStatus BY <1>2, <1>7 DEF FinalStatus, PlaceInRound
<1>8. CASE KeepPolling BY <1>2, <1>8 DEF KeepPolling, PlaceInRound
<1>9. CASE AskForCode
  <2>1. pc = "switch" /\ pc' \in {"code", "returned"} /\ ctxDone' = ctxDone
        /\ redirects' = redirects
    BY <1>9 DEF AskForCode
  <2> QED
    BY <1>2, <2>1 DEF PlaceInRound
<1>10. CASE FollowRedirect
  <2> DEFINE t == Url("https", reply.host)
  <2>1. CASE redirects' = redirects /\ pc' = "returned" /\ pc = "switch" /\ ctxDone' = ctxDone
    BY <1>2, <2>1 DEF PlaceInRound
  <2>2. CASE /\ redirects' = redirects \cup {t} /\ t \notin redirects
             /\ pc' = "top" /\ pc = "switch" /\ ctxDone' = ctxDone
    <3> HIDE DEF t
    <3>1. Cardinality(redirects') = Cardinality(redirects) + 1 /\ Cardinality(redirects) \in Nat
      BY <2>2, OneMore DEF LoginInv, PaceInv
    <3>2. RedirectsLeft' = RedirectsLeft - 1
      BY <3>1, LoginAssumption DEF RedirectsLeft
    <3>3. PlaceInRound = 2 /\ PlaceInRound' = RoundLength + 1
      BY <1>a, <2>2 DEF PlaceInRound, RoundLength
    <3>4. RoundLeft = 2 + rest + extra
      BY <3>3 DEF RoundLeft
    <3>5. RoundLeft' = RoundLength + 1 + RoundLength * (RedirectsLeft - 1) + extra
      BY <1>d, <2>2, <3>2, <3>3 DEF RoundLeft
    <3>6. RoundLength * (RedirectsLeft - 1) = rest - RoundLength
      BY <1>0, <1>d
    <3> HIDE DEF extra, rest
    <3> QED
      BY <1>c, <1>d, <1>e, <3>4, <3>5, <3>6
  <2> HIDE DEF t
  <2> QED
    BY <1>10, <2>1, <2>2 DEF FollowRedirect, t
<1>11. ASSUME NEW a \in {"code", "blank", "error"}, CodeGiven(a) PROVE RoundLeft' < RoundLeft
  <2>1. pc = "code" /\ pc' \in {"wait", "returned"} /\ ctxDone' = ctxDone /\ redirects' = redirects
    BY <1>11 DEF CodeGiven
  <2> QED
    BY <1>2, <2>1 DEF PlaceInRound
<1>12. ~IntervalPasses /\ ~WaitCanceled
  BY DEF IntervalPasses, WaitCanceled
<1> QED
  BY <1>1, <1>3, <1>4, <1>5, <1>6, <1>7, <1>8, <1>9, <1>10, <1>11, <1>12, <1>13,
     <1>14 DEF Next, ClientStep, Returned

(* The server cannot keep the client busy, with any chain of redirects of  *)
(* either kind and any replies (src/login.go:124-233): from one wait for   *)
(* the interval to the next there are RoundSteps steps at most.            *)
THEOREM RoundsAreShort ==
    Spec => [](RoundLeft \in 0..RoundSteps) /\ [][pc # "wait" => RoundLeft' < RoundLeft]_vars
<1>1. LoginInv => RoundLeft \in 0..RoundSteps
  <2> SUFFICES ASSUME LoginInv PROVE RoundLeft \in 0..RoundSteps
    OBVIOUS
  <2>1. Cardinality(redirects) \in Nat /\ Cardinality(redirects) <= MaxQRRedirects
    BY FS_CardinalityType DEF LoginInv, PaceInv
  <2>2. RedirectsLeft \in 0..MaxQRRedirects
    BY <2>1, LoginAssumption DEF RedirectsLeft
  <2>3. PlaceInRound \in 0..(RoundLength + 1) /\ RoundLength \in Nat
    BY LoginAssumption DEF LoginInv, TypeInv, PlaceInRound, RoundLength, Places
  <2>4. RoundLength * RedirectsLeft \in 0..(RoundLength * MaxQRRedirects)
    <3>1. \A a, b \in Nat : a * b \in Nat
      OBVIOUS
    <3>2. /\ RoundLength * RedirectsLeft \in Nat
          /\ RoundLength * (MaxQRRedirects - RedirectsLeft) \in Nat
          /\ RoundLength * MaxQRRedirects \in Nat
      BY <2>2, <2>3, <3>1, LoginAssumption
    <3>3. RoundLength * MaxQRRedirects =
            RoundLength * RedirectsLeft + RoundLength * (MaxQRRedirects - RedirectsLeft)
      BY <2>2, <2>3, LoginAssumption
    <3> QED
      BY ONLY <3>2, <3>3
  <2> DEFINE extra == IF ctxDone THEN 0 ELSE 1
  <2>5. extra \in {0, 1}
    OBVIOUS
  <2>6. RoundLeft = PlaceInRound + RoundLength * RedirectsLeft + extra
    BY DEF RoundLeft
  <2> HIDE DEF extra
  <2>7. \A a, b \in Nat : \A p \in 0..(a + 1) : \A r \in 0..b : \A e \in {0, 1} :
            p + r + e \in 0..(2 + a + b)
    OBVIOUS
  <2>8. RoundLength * MaxQRRedirects \in Nat
    BY <2>3, LoginAssumption
  <2> QED
    BY ONLY <2>3, <2>4, <2>5, <2>6, <2>7, <2>8 DEF RoundSteps
<1>2. LoginInv /\ LoginInv' /\ [Next]_vars => [pc # "wait" => RoundLeft' < RoundLeft]_vars
  BY StepNearsWait
<1> QED
  BY InductiveLogin, <1>1, <1>2, PTL DEF Spec

(* Once its context has ended a login is over in three steps at most: each *)
(* of them is the last look at the context or comes nearer to it, whatever *)
(* the server and the callbacks answer (src/login.go:129-233).             *)
THEOREM CanceledLoginEnds ==
    Spec => [](EndLeft \in 0..3) /\ [][ctxDone => EndLeft' < EndLeft]_vars
<1>1. LoginInv => EndLeft \in 0..3
  BY DEF LoginInv, TypeInv, EndLeft, Places
<1>2. LoginInv /\ [Next]_vars => [ctxDone => EndLeft' < EndLeft]_vars
  <2> SUFFICES ASSUME LoginInv, Next, vars' # vars, ctxDone PROVE EndLeft' < EndLeft
    OBVIOUS
  <2> USE DEF Goto, Return, Proceed
  <2>1. CASE LoopTop BY <2>1 DEF LoopTop, EndLeft
  <2>2. ASSUME NEW r \in BOOLEAN, PollFails(r) PROVE EndLeft' < EndLeft
    BY <2>2 DEF PollFails, EndLeft
  <2>3. ASSUME NEW r \in Replies, PollReplies(r) PROVE EndLeft' < EndLeft
    BY <2>3 DEF PollReplies, EndLeft
  <2>4. CASE StatusTold BY <2>4 DEF StatusTold, EndLeft
  <2>5. CASE FinalStatus BY <2>5 DEF FinalStatus, EndLeft
  <2>6. CASE KeepPolling BY <2>6 DEF KeepPolling, EndLeft
  <2>7. CASE AskForCode
    <3>1. pc = "switch" /\ pc' \in {"code", "returned"}
      BY <2>7 DEF AskForCode
    <3> QED
      BY <3>1 DEF EndLeft
  <2>8. CASE FollowRedirect
    <3>1. pc = "switch" /\ pc' \in {"top", "returned"}
      BY <2>8 DEF FollowRedirect
    <3> QED
      BY <3>1 DEF EndLeft
  <2>9. ASSUME NEW a \in {"code", "blank", "error"}, CodeGiven(a) PROVE EndLeft' < EndLeft
    BY <2>9 DEF CodeGiven, EndLeft
  <2>10. CASE IntervalPasses BY <2>10 DEF IntervalPasses, EndLeft
  <2>11. CASE WaitCanceled BY <2>11 DEF WaitCanceled, EndLeft
  <2>12. ~ContextEnds /\ ~\E t \in HTTPTargets : PollIsRedirected(t)
    BY DEF ContextEnds, PollIsRedirected
  <2>13. CASE Poll BY <2>13 DEF Poll, EndLeft
  <2> QED
    BY <2>1, <2>2, <2>3, <2>4, <2>5, <2>6, <2>7, <2>8, <2>9, <2>10, <2>11, <2>12,
       <2>13 DEF Next, ClientStep, Returned
<1> QED
  BY InductiveLogin, <1>1, <1>2, PTL DEF Spec
=============================================================================

----------------------------- MODULE Diagnostics -----------------------------
(***************************************************************************)
(* The timings doPost logs about one API request (src/diagnostics.go): the *)
(* hooks of net/http, which run in goroutines of the transport, late ones  *)
(* included, and the phases they accumulate.                               *)
(*                                                                         *)
(* A request is a sequence of exchanges, more than one if it is redirected *)
(* or sent again on another connection; connections are dialled in the     *)
(* background, by several attempts at a time.  Time is counted in ticks.   *)
(***************************************************************************)
EXTENDS Naturals

CONSTANTS
    Dials,          \* the phases of a dial: "dns", "tcp", "tls"
    MaxTicks,       \* bound: length of a request
    MaxExchanges,   \* bound: exchanges of a request
    MaxAttempts     \* bound: dial attempts of a phase in progress at once

ASSUME BoundsAssumption ==
    MaxTicks \in Nat /\ MaxExchanges \in Nat /\ MaxAttempts \in Nat

\* httpDiagnostic has a field of its own for every phase.
ASSUME DialsAssumption == "connection" \notin Dials /\ "responseWait" \notin Dials

Phases == Dials \cup {"connection", "responseWait"}
Exchanges == 1..MaxExchanges

VARIABLES
    now,                \* the clock
    phase,              \* per phase: a tracePhase, [started, pending, elapsed, seen]
    responseReceived,   \* the field of httpDiagnostic
    report,             \* per phase: what finish logged of it
    finished,           \* finish has run
    exchange,           \* transport: the number of the current exchange
    connecting,         \* transport: it waits for a connection
    dialling,           \* transport: per dial phase, the attempts in progress
    written,            \* transport: exchanges whose write has been reported
    awaiting,           \* transport: the current exchange was written and has
                        \* no answer yet
    answered,           \* transport: the current exchange was answered
    busy,               \* history: per phase, the ticks it was going on
    lateWrite           \* history: a write was reported for an older exchange

clientVars == <<phase, responseReceived>>
reportVars == <<report, finished>>
exchangeVars == <<exchange, connecting, written, awaiting, answered>>
historyVars == <<busy, lateWrite>>
vars == <<now, clientVars, reportVars, exchangeVars, dialling, historyVars>>
-----------------------------------------------------------------------------
(* tracePhase.                                                             *)

\* Variant of Started: every start restarts the clock.
Restarted(p) ==
    [started |-> now, pending |-> p.pending + 1, elapsed |-> p.elapsed, seen |-> TRUE]

Started(p) ==
    [started |-> IF p.pending = 0 THEN now ELSE p.started,
     pending |-> p.pending + 1, elapsed |-> p.elapsed, seen |-> TRUE]

Ended(p) ==
    IF p.pending = 0 THEN p
    ELSE [started |-> p.started, pending |-> p.pending - 1, seen |-> p.seen,
          elapsed |-> p.elapsed + IF p.pending = 1 THEN now - p.started ELSE 0]

Duration(p) == p.elapsed + IF p.pending > 0 THEN now - p.started ELSE 0
-----------------------------------------------------------------------------
Init ==
    /\ now = 0
    /\ phase = [p \in Phases |->
                  [started |-> 0, pending |-> 0, elapsed |-> 0, seen |-> FALSE]]
    /\ responseReceived = FALSE
    /\ report = [p \in Phases |-> 0] /\ finished = FALSE
    /\ exchange = 0 /\ connecting = FALSE
    /\ written = {} /\ awaiting = FALSE /\ answered = FALSE
    /\ dialling = [p \in Dials |-> 0]
    /\ busy = [p \in Phases |-> 0] /\ lateWrite = FALSE

GoingOn(p) ==
    \/ p \in Dials /\ dialling[p] > 0
    \/ p = "connection" /\ connecting
    \/ p = "responseWait" /\ awaiting

Tick ==
    /\ now < MaxTicks /\ ~finished
    /\ now' = now + 1
    /\ busy' = [p \in Phases |-> IF GoingOn(p) THEN busy[p] + 1 ELSE busy[p]]
    /\ UNCHANGED <<clientVars, reportVars, exchangeVars, dialling, lateWrite>>

(* The hooks.  The first exchange begins, or the next one after a redirect *)
(* or a failure.                                                           *)
GetConn ==
    /\ exchange < MaxExchanges /\ ~connecting /\ ~finished
    /\ exchange' = exchange + 1
    /\ connecting' = TRUE /\ awaiting' = FALSE /\ answered' = FALSE
    /\ phase' = [phase EXCEPT !["connection"] = Started(@),
                              !["responseWait"] = Ended(@)]
    /\ responseReceived' = FALSE
    /\ UNCHANGED <<now, reportVars, written, dialling, historyVars>>

GotConn ==
    /\ connecting
    /\ connecting' = FALSE
    /\ phase' = [phase EXCEPT !["connection"] = Ended(@)]
    /\ UNCHANGED <<now, responseReceived, reportVars, exchange, written,
                   awaiting, answered, dialling, historyVars>>

(* DNSStart, ConnectStart, TLSHandshakeStart.                              *)
StartPhase(p) ==
    /\ exchange > 0
    /\ dialling[p] < MaxAttempts
    /\ dialling' = [dialling EXCEPT ![p] = @ + 1]
    /\ phase' = [phase EXCEPT ![p] = Started(@)]
    /\ UNCHANGED <<now, responseReceived, reportVars, exchangeVars, historyVars>>

(* DNSDone, ConnectDone, TLSHandshakeDone.                                 *)
EndPhase(p) ==
    /\ dialling[p] > 0
    /\ dialling' = [dialling EXCEPT ![p] = @ - 1]
    /\ phase' = [phase EXCEPT ![p] = Ended(@)]
    /\ UNCHANGED <<now, responseReceived, reportVars, exchangeVars, historyVars>>

Writable(e) == e \notin written /\ (e < exchange \/ (e = exchange /\ ~connecting))

\* Variant of WroteRequest: no look at responseReceived.
WroteRequestAnyway(e, ok) ==
    /\ Writable(e)
    /\ written' = written \cup {e}
    /\ awaiting' = IF e = exchange THEN ok /\ ~answered ELSE awaiting
    /\ lateWrite' = (lateWrite \/ e < exchange)
    /\ phase' = IF ok THEN [phase EXCEPT !["responseWait"] = Started(@)] ELSE phase
    /\ UNCHANGED <<now, responseReceived, reportVars, exchange, connecting,
                   answered, dialling, busy>>

(* The write loop of an exchange reports its result, perhaps after the     *)
(* response has come.                                                      *)
WroteRequest(e, ok) ==
    /\ Writable(e)
    /\ written' = written \cup {e}
    /\ awaiting' = IF e = exchange THEN ok /\ ~answered ELSE awaiting
    /\ lateWrite' = (lateWrite \/ e < exchange)
    /\ phase' = IF ok /\ ~responseReceived
                THEN [phase EXCEPT !["responseWait"] = Started(@)] ELSE phase
    /\ UNCHANGED <<now, responseReceived, reportVars, exchange, connecting,
                   answered, dialling, busy>>

GotFirstResponseByte ==
    /\ exchange > 0 /\ ~connecting /\ ~answered
    /\ answered' = TRUE /\ awaiting' = FALSE
    /\ responseReceived' = TRUE
    /\ phase' = [phase EXCEPT !["responseWait"] = Ended(@)]
    /\ UNCHANGED <<now, reportVars, exchange, connecting, written, dialling,
                   historyVars>>

(* The call returns, with an answer or an error, and the phases are logged.*)
(* Hooks may run on.                                                       *)
Finish ==
    /\ ~finished
    /\ finished' = TRUE
    /\ report' = [p \in Phases |-> IF phase[p].seen THEN Duration(phase[p]) ELSE 0]
    /\ UNCHANGED <<now, clientVars, exchangeVars, dialling, historyVars>>

Next ==
    \/ Tick
    \/ GetConn
    \/ GotConn
    \/ \E p \in Dials : StartPhase(p) \/ EndPhase(p)
    \/ \E e \in Exchanges, ok \in BOOLEAN : WroteRequest(e, ok)
    \/ GotFirstResponseByte
    \/ Finish

Spec == Init /\ [][Next]_vars
-----------------------------------------------------------------------------
(* Properties.                                                             *)

(* The variables have their types.                                         *)
TypeOK ==
    /\ now \in 0..MaxTicks
    /\ phase \in [Phases -> [started : 0..MaxTicks, pending : Nat,
                             elapsed : Nat, seen : BOOLEAN]]
    /\ responseReceived \in BOOLEAN /\ finished \in BOOLEAN
    /\ report \in [Phases -> Nat] /\ busy \in [Phases -> Nat]
    /\ exchange \in 0..MaxExchanges /\ written \subseteq Exchanges
    /\ connecting \in BOOLEAN /\ awaiting \in BOOLEAN /\ answered \in BOOLEAN
    /\ dialling \in [Dials -> 0..MaxAttempts]
    /\ lateWrite \in BOOLEAN

(* What is logged of a dial, and of the wait for a connection, is the time *)
(* during which at least one attempt was going on: overlapping attempts    *)
(* count once (src/diagnostics.go:12-13), those still going on included.   *)
OverlapsCountOnce ==
    finished => \A p \in Dials \cup {"connection"} : report[p] = busy[p]

(* response_wait is the time from a request written to the first byte of   *)
(* its response, over all exchanges, whether the write is reported before  *)
(* or after that byte, or the exchange ends without one - unless the write *)
(* of an exchange is reported when the next has begun.                     *)
ResponseWaitIsExact ==
    finished /\ ~lateWrite => report["responseWait"] = busy["responseWait"]
=============================================================================

-------------------------- MODULE DiagnosticsProofs --------------------------
(***************************************************************************)
(* Proofs about Diagnostics, for any number of exchanges, of dial attempts *)
(* at a time and of ticks: what is logged of a phase is the time it took.  *)
(***************************************************************************)
EXTENDS Diagnostics, TLAPS

-----------------------------------------------------------------------------
(* Lemmas about tracePhase.                                                *)

\* A tracePhase whose clock, if it was ever started, was started by now.
IsPhase(p) ==
    /\ p \in [started : Nat, pending : Nat, elapsed : Nat, seen : BOOLEAN]
    /\ p.started <= now
    /\ ~p.seen => p.pending = 0 /\ p.elapsed = 0

(* A start is counted, and is no time of its own: neither the first of     *)
(* several overlapping ones, nor another.                                  *)
LEMMA StartedPhase ==
    ASSUME NEW p, IsPhase(p), now \in Nat
    PROVE  /\ IsPhase(Started(p))
           /\ Started(p).pending = p.pending + 1
           /\ Duration(Started(p)) = Duration(p)
BY DEF IsPhase, Started, Duration

(* An end is counted, unless nothing is going on, and loses no time: what  *)
(* the clock showed is in elapsed when the last attempt ends.              *)
LEMMA EndedPhase ==
    ASSUME NEW p, IsPhase(p), now \in Nat
    PROVE  /\ IsPhase(Ended(p))
           /\ Ended(p).pending = IF p.pending = 0 THEN 0 ELSE p.pending - 1
           /\ Duration(Ended(p)) = Duration(p)
BY DEF IsPhase, Ended, Duration
-----------------------------------------------------------------------------
(* The inductive invariant.                                                *)

\* The types, and started <= now: elapsed, a sum of differences, stays in Nat.
Typed ==
    /\ TypeOK
    /\ \A p \in Phases : IsPhase(phase[p])

(* pending counts what is going on in the transport.  responseReceived is  *)
(* what makes that true of the wait for a response.                        *)
PendingCounts ==
    /\ \A p \in Dials : phase[p].pending = dialling[p]
    /\ phase["connection"].pending = IF connecting THEN 1 ELSE 0
    /\ ~lateWrite => phase["responseWait"].pending = IF awaiting THEN 1 ELSE 0
    /\ responseReceived = answered
    /\ awaiting => exchange \in written /\ ~answered

\* The phases whose pending is known to count what is going on.
Exact(p) == p # "responseWait" \/ ~lateWrite

ClockIsRight == \A p \in Phases : Exact(p) => Duration(phase[p]) = busy[p]

ReportIsRight == \A p \in Phases : finished /\ Exact(p) => report[p] = busy[p]

Inv == Typed /\ PendingCounts /\ ClockIsRight /\ ReportIsRight

LEMMA InitInv == Init => Inv
<1> SUFFICES ASSUME Init PROVE Inv
  OBVIOUS
<1> USE BoundsAssumption
<1>1. TypeOK
  <2>1. phase \in [Phases -> [started : 0..MaxTicks, pending : Nat,
                              elapsed : Nat, seen : BOOLEAN]]
    BY DEF Init
  <2>2. /\ report \in [Phases -> Nat] /\ busy \in [Phases -> Nat]
        /\ dialling \in [Dials -> 0..MaxAttempts]
    BY DEF Init
  <2>3. now \in 0..MaxTicks /\ exchange \in 0..MaxExchanges /\ written \subseteq Exchanges
    BY DEF Init
  <2> QED
    BY <2>1, <2>2, <2>3 DEF Init, TypeOK
<1>2. \A p \in Phases : IsPhase(phase[p])
  <2> SUFFICES ASSUME NEW p \in Phases PROVE IsPhase(phase[p])
    OBVIOUS
  <2>1. phase[p] = [started |-> 0, pending |-> 0, elapsed |-> 0, seen |-> FALSE]
    BY DEF Init
  <2> QED
    BY <2>1 DEF Init, IsPhase
<1>3. PendingCounts
  BY DEF Init, PendingCounts, Phases
<1>4. ClockIsRight
  BY DEF Init, ClockIsRight, Duration
<1>5. ReportIsRight
  BY DEF Init, ReportIsRight
<1> QED
  BY <1>1, <1>2, <1>3, <1>4, <1>5 DEF Inv, Typed

\* A phase is going on exactly when its pending is not zero.
LEMMA GoingOnIsPending ==
    ASSUME Inv, NEW p \in Phases, Exact(p)
    PROVE  GoingOn(p) <=> phase[p].pending > 0
BY DialsAssumption DEF Inv, PendingCounts, GoingOn, Exact, Phases, Typed, TypeOK

(* A step that leaves the clock alone and only starts and ends phases.     *)
HooksOnly ==
    /\ now' = now /\ busy' = busy /\ report' = report /\ finished' = finished
    /\ phase' \in [Phases -> {phase'[p] : p \in Phases}]
    /\ \A p \in Phases : phase'[p] \in {phase[p], Started(phase[p]), Ended(phase[p])}
    /\ lateWrite => lateWrite'

LEMMA HooksKeepTime ==
    ASSUME Inv, HooksOnly
    PROVE  /\ \A p \in Phases : (IsPhase(phase[p]))'
           /\ phase' \in [Phases -> [started : 0..MaxTicks, pending : Nat,
                                     elapsed : Nat, seen : BOOLEAN]]
           /\ ClockIsRight'
           /\ ReportIsRight'
<1>0. now \in Nat /\ now \in 0..MaxTicks /\ now' = now
  BY BoundsAssumption DEF Inv, Typed, TypeOK, HooksOnly
<1>1. ASSUME NEW p \in Phases
      PROVE  IsPhase(phase'[p]) /\ Duration(phase'[p]) = Duration(phase[p])
  <2>1. IsPhase(phase[p])
    BY DEF Inv, Typed
  <2> QED
    BY <1>0, <2>1, StartedPhase, EndedPhase DEF HooksOnly
<1>2. \A p \in Phases : (IsPhase(phase[p]))'
  BY <1>0, <1>1 DEF IsPhase
<1>3. ASSUME NEW p \in Phases
      PROVE  phase'[p] \in [started : 0..MaxTicks, pending : Nat, elapsed : Nat, seen : BOOLEAN]
  <2>1. /\ phase'[p] \in [started : Nat, pending : Nat, elapsed : Nat, seen : BOOLEAN]
        /\ phase'[p].started <= now
    BY <1>1 DEF IsPhase
  <2>2. phase'[p].started \in 0..MaxTicks
    BY <1>0, <2>1, BoundsAssumption
  <2> QED
    BY <2>1, <2>2
<1>4. phase' \in [Phases -> [started : 0..MaxTicks, pending : Nat,
                             elapsed : Nat, seen : BOOLEAN]]
  BY <1>3 DEF HooksOnly
<1>5. ASSUME NEW p \in Phases PROVE Duration(phase[p])' = Duration(phase[p])
  BY <1>0, <1>1 DEF Duration
<1>6. ClockIsRight'
  BY <1>5 DEF Inv, ClockIsRight, Exact, HooksOnly
<1>7. ReportIsRight'
  BY DEF Inv, ReportIsRight, Exact, HooksOnly
<1> QED
  BY <1>2, <1>4, <1>6, <1>7

LEMMA NextKeepsInv == Inv /\ [Next]_vars => Inv'
<1> SUFFICES ASSUME Inv, [Next]_vars PROVE Inv'
  OBVIOUS
<1> USE BoundsAssumption, DialsAssumption
    DEF clientVars, reportVars, exchangeVars, historyVars
<1>0. TypeOK /\ \A p \in Phases : IsPhase(phase[p])
  BY DEF Inv, Typed
<1>1. ASSUME HooksOnly, TypeOK', PendingCounts' PROVE Inv'
  BY <1>1, HooksKeepTime DEF Inv, Typed
<1>2. CASE Tick
  <2>1. /\ now' = now + 1 /\ now' \in 0..MaxTicks /\ ~finished
        /\ UNCHANGED <<clientVars, reportVars, exchangeVars, dialling, lateWrite>>
        /\ busy' = [p \in Phases |-> IF GoingOn(p) THEN busy[p] + 1 ELSE busy[p]]
    BY <1>0, <1>2 DEF Tick, TypeOK
  <2>2. TypeOK'
    BY <1>0, <2>1 DEF TypeOK
  <2>3. ASSUME NEW p \in Phases PROVE (IsPhase(phase[p]))'
    BY <1>0, <2>1 DEF IsPhase, TypeOK
  <2>4. PendingCounts'
    BY <2>1 DEF Inv, PendingCounts
  <2>5. ASSUME NEW p \in Phases, Exact(p)' PROVE (Duration(phase[p]) = busy[p])'
    <3>1. Exact(p)
      BY <2>1, <2>5 DEF Exact
    <3>2. GoingOn(p) <=> phase[p].pending > 0
      BY <3>1, GoingOnIsPending
    <3>3. Duration(phase[p]) = busy[p]
      BY <3>1 DEF Inv, ClockIsRight
    <3> QED
      BY <1>0, <2>1, <3>2, <3>3 DEF Duration, IsPhase, TypeOK
  <2>6. ReportIsRight'
    BY <2>1 DEF ReportIsRight
  <2> QED
    BY <2>2, <2>3, <2>4, <2>5, <2>6 DEF Inv, Typed, ClockIsRight
<1>3. CASE GetConn
  <2>1. HooksOnly
    BY <1>0, <1>3 DEF GetConn, HooksOnly, TypeOK, Phases
  <2>2. /\ phase'["connection"] = Started(phase["connection"])
        /\ phase'["responseWait"] = Ended(phase["responseWait"])
        /\ \A p \in Dials : phase'[p] = phase[p]
    BY <1>0, <1>3 DEF GetConn, TypeOK, Phases
  <2>3. IsPhase(phase["connection"]) /\ IsPhase(phase["responseWait"])
    BY <1>0 DEF Phases
  <2>4. /\ phase'["connection"].pending = phase["connection"].pending + 1
        /\ phase["responseWait"].pending = 0 => phase'["responseWait"].pending = 0
        /\ phase["responseWait"].pending = 1 => phase'["responseWait"].pending = 0
    BY <1>0, <2>2, <2>3, StartedPhase, EndedPhase DEF TypeOK
  <2>5. /\ ~connecting /\ connecting' /\ ~awaiting' /\ responseReceived' = answered'
        /\ UNCHANGED <<dialling, lateWrite>>
    BY <1>3 DEF GetConn
  <2>6. /\ phase["connection"].pending = 0
        /\ ~lateWrite => phase["responseWait"].pending \in {0, 1}
    BY <2>5 DEF Inv, PendingCounts
  <2>7. PendingCounts'
    BY <2>2, <2>4, <2>5, <2>6 DEF Inv, PendingCounts
  <2>8. exchange' \in 0..MaxExchanges
    BY <1>0, <1>3 DEF GetConn, TypeOK
  <2>9. TypeOK'
    BY <1>0, <1>3, <2>1, <2>8, HooksKeepTime DEF GetConn, TypeOK
  <2> QED
    BY <1>1, <2>1, <2>7, <2>9
<1>4. CASE GotConn
  <2>1. HooksOnly
    BY <1>0, <1>4 DEF GotConn, HooksOnly, TypeOK, Phases
  <2>2. /\ phase'["connection"] = Ended(phase["connection"])
        /\ \A p \in Dials \cup {"responseWait"} : phase'[p] = phase[p]
    BY <1>0, <1>4 DEF GotConn, TypeOK, Phases
  <2>3. IsPhase(phase["connection"])
    BY <1>0 DEF Phases
  <2>4. phase["connection"].pending = 1 => phase'["connection"].pending = 0
    BY <1>0, <2>2, <2>3, EndedPhase DEF TypeOK
  <2>5. PendingCounts'
    BY <1>0, <1>4, <2>2, <2>4 DEF GotConn, Inv, PendingCounts, TypeOK
  <2>6. TypeOK'
    BY <1>0, <1>4, <2>1, HooksKeepTime DEF GotConn, TypeOK
  <2> QED
    BY <1>1, <2>1, <2>5, <2>6
<1>5. ASSUME NEW p \in Dials, StartPhase(p) PROVE Inv'
  <2>1. HooksOnly
    BY <1>0, <1>5 DEF StartPhase, HooksOnly, TypeOK, Phases
  <2>2. /\ phase'[p] = Started(phase[p])
        /\ \A q \in Phases \ {p} : phase'[q] = phase[q]
    BY <1>0, <1>5 DEF StartPhase, TypeOK, Phases
  <2>3. phase'[p].pending = phase[p].pending + 1
    BY <1>0, <2>2, StartedPhase DEF TypeOK, Phases
  <2>4. \A q \in Dials : dialling'[q] = IF q = p THEN dialling[p] + 1 ELSE dialling[q]
    BY <1>0, <1>5 DEF StartPhase, TypeOK
  <2>5. PendingCounts'
    BY <1>0, <1>5, <2>2, <2>3, <2>4 DEF StartPhase, Inv, PendingCounts, Phases
  <2>6. dialling' \in [Dials -> 0..MaxAttempts]
    BY <1>0, <1>5 DEF StartPhase, TypeOK
  <2>7. TypeOK'
    BY <1>0, <1>5, <2>1, <2>6, HooksKeepTime DEF StartPhase, TypeOK
  <2> QED
    BY <1>1, <2>1, <2>5, <2>7
<1>6. ASSUME NEW p \in Dials, EndPhase(p) PROVE Inv'
  <2>1. HooksOnly
    BY <1>0, <1>6 DEF EndPhase, HooksOnly, TypeOK, Phases
  <2>2. /\ phase'[p] = Ended(phase[p])
        /\ \A q \in Phases \ {p} : phase'[q] = phase[q]
    BY <1>0, <1>6 DEF EndPhase, TypeOK, Phases
  <2>3. phase'[p].pending = IF phase[p].pending = 0 THEN 0 ELSE phase[p].pending - 1
    BY <1>0, <2>2, EndedPhase DEF TypeOK, Phases
  <2>4. \A q \in Dials : dialling'[q] = IF q = p THEN dialling[p] - 1 ELSE dialling[q]
    BY <1>0, <1>6 DEF EndPhase, TypeOK
  <2>5. PendingCounts'
    BY <1>0, <1>6, <2>2, <2>3, <2>4 DEF EndPhase, Inv, PendingCounts, Phases, TypeOK
  <2>6. dialling' \in [Dials -> 0..MaxAttempts]
    BY <1>0, <1>6 DEF EndPhase, TypeOK
  <2>7. TypeOK'
    BY <1>0, <1>6, <2>1, <2>6, HooksKeepTime DEF EndPhase, TypeOK
  <2> QED
    BY <1>1, <2>1, <2>5, <2>7
<1>7. ASSUME NEW e \in Exchanges, NEW ok \in BOOLEAN, WroteRequest(e, ok) PROVE Inv'
  <2>1. HooksOnly
    BY <1>0, <1>7 DEF WroteRequest, HooksOnly, TypeOK, Phases
  <2>2. \A p \in Phases \ {"responseWait"} : phase'[p] = phase[p]
    BY <1>0, <1>7 DEF WroteRequest, TypeOK, Phases
  <2>3. ASSUME ~lateWrite'
        PROVE  phase'["responseWait"].pending = IF awaiting' THEN 1 ELSE 0
    <3>1. e = exchange /\ ~lateWrite /\ ~awaiting /\ responseReceived = answered
      BY <1>0, <1>7, <2>3 DEF WroteRequest, Writable, Exchanges, Inv, PendingCounts, TypeOK
    <3>2. phase["responseWait"].pending = 0
      BY <3>1 DEF Inv, PendingCounts
    <3>3. awaiting' = (ok /\ ~responseReceived)
      BY <1>7, <3>1 DEF WroteRequest
    <3>4. CASE awaiting'
      <4>1. phase'["responseWait"] = Started(phase["responseWait"])
        BY <1>0, <1>7, <3>3, <3>4 DEF WroteRequest, TypeOK, Phases
      <4> QED
        BY <1>0, <3>2, <3>4, <4>1, StartedPhase DEF Phases, TypeOK
    <3>5. CASE ~awaiting'
      BY <1>7, <3>2, <3>3, <3>5 DEF WroteRequest
    <3> QED
      BY <3>4, <3>5
  <2>4. awaiting' => exchange \in written' /\ ~answered
    BY <1>7 DEF WroteRequest, Inv, PendingCounts
  <2>5. PendingCounts'
    BY <1>7, <2>2, <2>3, <2>4 DEF WroteRequest, Inv, PendingCounts, Phases
  <2>6. TypeOK'
    BY <1>0, <1>7, <2>1, HooksKeepTime DEF WroteRequest, TypeOK
  <2> QED
    BY <1>1, <2>1, <2>5, <2>6
<1>8. CASE GotFirstResponseByte
  <2>1. HooksOnly
    BY <1>0, <1>8 DEF GotFirstResponseByte, HooksOnly, TypeOK, Phases
  <2>2. /\ phase'["responseWait"] = Ended(phase["responseWait"])
        /\ \A p \in Phases \ {"responseWait"} : phase'[p] = phase[p]
    BY <1>0, <1>8 DEF GotFirstResponseByte, TypeOK, Phases
  <2>3. phase["responseWait"].pending \in {0, 1} => phase'["responseWait"].pending = 0
    BY <1>0, <2>2, EndedPhase DEF TypeOK, Phases
  <2>4. PendingCounts'
    BY <1>8, <2>2, <2>3 DEF GotFirstResponseByte, Inv, PendingCounts, Phases
  <2>5. TypeOK'
    BY <1>0, <1>8, <2>1, HooksKeepTime DEF GotFirstResponseByte, TypeOK
  <2> QED
    BY <1>1, <2>1, <2>4, <2>5
<1>9. CASE Finish
  <2>1. UNCHANGED <<now, clientVars, exchangeVars, dialling, historyVars>>
    BY <1>9 DEF Finish
  <2>2. ASSUME NEW p \in Phases
        PROVE  report'[p] = Duration(phase[p]) /\ report'[p] \in Nat
    BY <1>0, <1>9 DEF Finish, IsPhase, Duration, TypeOK
  <2>3. TypeOK'
    BY <1>0, <1>9, <2>1, <2>2 DEF Finish, TypeOK
  <2>4. ReportIsRight'
    BY <2>1, <2>2 DEF ReportIsRight, Inv, ClockIsRight, Exact
  <2> QED
    BY <2>1, <2>3, <2>4 DEF Inv, Typed, IsPhase, PendingCounts, ClockIsRight, Exact, Duration
<1>10. CASE UNCHANGED vars
  BY <1>10 DEF vars, Inv, Typed, TypeOK, IsPhase, PendingCounts, ClockIsRight, ReportIsRight,
               Exact, Duration
<1> QED
  BY <1>2, <1>3, <1>4, <1>5, <1>6, <1>7, <1>8, <1>9, <1>10 DEF Next

LEMMA InvHolds == Spec => []Inv
BY InitInv, NextKeepsInv, PTL DEF Spec
-----------------------------------------------------------------------------
(* The variables keep their types: no duration is ever negative.           *)
THEOREM TypesKept == Spec => []TypeOK
<1>1. Inv => TypeOK
  BY DEF Inv, Typed
<1> QED
  BY <1>1, InvHolds, PTL

(* Overlapping dials, and the waits for a connection, are counted once, in *)
(* whatever order the transport reports their starts and ends, and however *)
(* many of them are still going on when the call returns.                  *)
THEOREM DialsCountOnce == Spec => []OverlapsCountOnce
<1>1. Inv => OverlapsCountOnce
  BY DialsAssumption DEF Inv, ReportIsRight, Exact, Phases, OverlapsCountOnce
<1> QED
  BY <1>1, InvHolds, PTL

(* The response wait is exact over any number of exchanges, as long as no  *)
(* write of an older exchange is reported late.                            *)
THEOREM ResponseWaitRight == Spec => []ResponseWaitIsExact
<1>1. Inv => ResponseWaitIsExact
  BY DEF Inv, ReportIsRight, Exact, Phases, ResponseWaitIsExact
<1> QED
  BY <1>1, InvHolds, PTL
=============================================================================

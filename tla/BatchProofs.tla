----------------------------- MODULE BatchProofs -----------------------------
(***************************************************************************)
(* Proofs about Batch, for any batches, any number of workers and handlers *)
(* that fail or end their goroutine: a conversation is processed in order, *)
(* a nil error misses nothing but what died with a goroutine, and the      *)
(* goroutines implement the abstract call of BatchContract, and every step *)
(* uses up some of the batch.                                              *)
(***************************************************************************)
EXTENDS Batch, FiniteSetTheorems, TLAPS

-----------------------------------------------------------------------------
(* The inductive invariant.                                                *)

AtItem == {"item", "call", "handler"}
Holding == {"message", "gone"} \cup AtItem
Places == {"idle"} \cup Holding \cup Left

(* Messages that may not be worked on side by side.                        *)
Related(i, j) == Serial \/ batch[i].user = batch[j].user

(* What a worker holds: the messages of one conversation, each of them and *)
(* of those it waits for either still to dispatch or done, the items of    *)
(* the one being dispatched included; and it is at the first of them.      *)
Hold(w) ==
    /\ wpc[w] = "idle" => group[w] = {}
    /\ wpc[w] \in Holding =>
          \A i \in group[w] :
             /\ \A j \in group[w] : Related(i, j)
             /\ \A x \in Work(batch) :
                   Related(x[1], i) => x[1] \in group[w] \/ x \in done
    /\ wpc[w] \in AtItem \cup {"gone"} =>
          /\ First(group[w], at[w][1]) /\ Eligible(batch[at[w][1]])
          /\ at[w][2] \in Nat \ {0}
          /\ \A x \in Work(batch) :
                x[1] = at[w][1] /\ x[2] < at[w][2] => x \in done
    /\ wpc[w] \in {"call", "handler", "gone"} => at[w] \in Work(batch)

HoldInv == \A w \in Workers : Hold(w)

(* No message is in two places; conversations are queued as a whole.       *)
ApartInv ==
    /\ \A i \in queued : GroupOf(batch, i) \subseteq queued
    /\ \A w \in Workers :
          wpc[w] \in Holding =>
              /\ group[w] \cap queued = {}
              /\ \A v \in Workers :
                    v # w /\ wpc[v] \in Holding => group[v] \cap group[w] = {}

(* Nothing that is still to be done has been tried.                        *)
Fresh(w) ==
    wpc[w] \in Holding =>
        \A x \in done \cup failed :
            x[1] \in group[w] =>
                wpc[w] # "message" /\ x[1] = at[w][1] /\ x[2] < at[w][2]

FreshInv ==
    /\ \A x \in done \cup failed : x[1] \notin queued
    /\ \A w \in Workers : Fresh(w)

(* Until the batch has a cause to end, all work is done or in some hands.  *)
CoverInv ==
    cause = NoError =>
        \A x \in Work(batch) :
            \/ x \in done \/ x[1] \in queued
            \/ \E w \in Workers : wpc[w] \in Holding /\ x[1] \in group[w]

(* A batch ends for a reason, and processBatch ends after its workers.     *)
EndInv ==
    /\ cause = CtxError => pctx
    /\ cause \in Work(batch) => cause \in failed
    /\ Serial => queued = {} /\ main # "enqueue"
    /\ main # "enqueue" /\ cause = NoError => queued = {}
    /\ IF main = "returned"
       THEN ret = cause /\ \A w \in Workers : wpc[w] \in Left
       ELSE ret = Running

(* A call begun on a dead context is the last.                             *)
LateInv ==
    \A w \in Workers :
        late[w] \in {0, 1} /\ (late[w] = 1 => ContextDone /\ wpc[w] # "call")

BatchInv ==
    TypeOK /\ HoldInv /\ ApartInv /\ FreshInv /\ CoverInv /\ EndInv /\ LateInv

LEMMA WorkIs ==
    \A m \in Batches :
        /\ \A i \in DOMAIN m : i \in Nat /\ m[i].items \in Nat
        /\ \A x \in Work(m) :
              /\ x = <<x[1], x[2]>> /\ x[1] \in Grouped(m)
              /\ x[1] \in Nat /\ x[2] \in Nat \ {0} /\ x[2] <= m[x[1]].items
        /\ \A i \in Grouped(m), k \in Nat \ {0} :
              k <= m[i].items => <<i, k>> \in Work(m)
BY BatchAssumption DEF Work, Grouped

LEMMA SameInputs ==
  ASSUME UNCHANGED inputs
  PROVE  /\ batch' = batch /\ Serial' = Serial /\ Workers' = Workers
         /\ Needs(batch)' = Needs(batch)
BY DEF inputs, Serial, Workers, Needs

(* What holds of a worker stays while others move.                         *)
LEMMA OthersHold ==
  ASSUME NEW v \in Workers, Hold(v), UNCHANGED inputs, done \subseteq done',
         wpc'[v] = wpc[v], group'[v] = group[v], at'[v] = at[v]
  PROVE  Hold(v)'
BY SameInputs DEF Hold, Related

LEMMA SameContext ==
  ASSUME UNCHANGED inputs, pctx => pctx', cause # NoError => cause' # NoError, ContextDone
  PROVE  ContextDone'
BY DEF inputs, Serial, ContextDone

LEMMA InitInv == Init => BatchInv
<1> SUFFICES ASSUME Init PROVE BatchInv
  OBVIOUS
<1> USE DEF Init
<1>1. TypeOK
  BY ConcurrencyAssumption DEF TypeOK, Left, Workers
<1>2. HoldInv
  <2>1. CASE Serial
    <3>1. \A w \in Workers : wpc[w] = "message" /\ group[w] = DOMAIN batch
      BY <2>1
    <3> QED
      BY <2>1, <3>1, WorkIs DEF HoldInv, Hold, Holding, AtItem, Related, Grouped
  <2>2. CASE ~Serial
    <3>1. \A w \in Workers : wpc[w] \in {"idle", "exited"} /\ group[w] = {}
      BY <2>2
    <3> QED
      BY <3>1 DEF HoldInv, Hold, Holding, AtItem
  <2> QED
    BY <2>1, <2>2
<1>3. ApartInv
  BY DEF ApartInv, GroupOf, Workers, Holding, AtItem, Serial
<1>4. FreshInv
  BY DEF FreshInv, Fresh
<1>5. CoverInv
  <2>1. CASE Serial
    <3>1. 1 \in Workers /\ wpc[1] \in Holding /\ group[1] = DOMAIN batch
      BY <2>1 DEF Serial, Workers, Holding
    <3> QED
      BY <3>1, WorkIs DEF CoverInv, Grouped
  <2>2. CASE ~Serial
    BY <2>2, WorkIs DEF CoverInv
  <2> QED
    BY <2>1, <2>2
<1>6. EndInv
  BY VerdictAssumption DEF EndInv
<1>7. LateInv
  BY DEF LateInv
<1> QED
  BY <1>1, <1>2, <1>3, <1>4, <1>5, <1>6, <1>7 DEF BatchInv

-----------------------------------------------------------------------------
(* Each step preserves it.  The work of a batch never changes.             *)

(* A step that moves no worker.                                            *)
LEMMA StillKeeps ==
  ASSUME BatchInv,
         UNCHANGED <<inputs, workerVars, done, failed, queued>>,
         pctx' \in {pctx, TRUE},
         cause' \in {cause, CtxError}, cause' # cause => cause = NoError /\ pctx,
         main' \in {main, "wait", "returned"}, main = "returned" => main' = main,
         Serial => main' # "enqueue",
         main' # "enqueue" /\ cause' = NoError => queued = {},
         IF main' = "returned"
         THEN ret' = cause' /\ \A w \in Workers : wpc[w] \in Left
         ELSE ret' = Running
  PROVE  BatchInv'
<1> USE SameInputs DEF BatchInv, workerVars
<1>1. TypeOK'
  BY DEF TypeOK, inputs
<1>2. HoldInv' /\ ApartInv' /\ FreshInv'
  BY DEF HoldInv, Hold, ApartInv, FreshInv, Fresh, Related
<1>3. CoverInv'
  BY VerdictAssumption DEF CoverInv
<1>4. EndInv'
  <2>1. cause' = CtxError => pctx'
    BY DEF EndInv, TypeOK
  <2>2. cause' \in Work(batch) => cause' \in failed
    BY VerdictAssumption DEF EndInv, TypeOK
  <2> QED
    BY <2>1, <2>2 DEF EndInv
<1>5. LateInv'
  BY SameContext, VerdictAssumption DEF LateInv, TypeOK
<1> QED
  BY <1>1, <1>2, <1>3, <1>4, <1>5

(* A worker lets go: it has nothing to do, or the batch has a cause.       *)
LEMMA LetGoKeeps ==
  ASSUME BatchInv, NEW w \in Workers, main # "returned", wpc[w] # "gone",
         NEW place \in {"idle", "exited"}, wpc' = [wpc EXCEPT ![w] = place],
         group[w] = {} \/ (place = "exited" /\ cause' # NoError),
         cause' \in {NoError, CtxError} \cup Work(batch),
         cause # NoError => cause' = cause,
         cause' = CtxError => pctx,
         cause' \in Work(batch) => cause' \in failed',
         \/ failed' = failed
         \/ wpc[w] = "handler" /\ failed' = failed \cup {at[w]},
         UNCHANGED <<inputs, pctx, mainVars, group, at, late, done>>
  PROVE  BatchInv'
<1> USE SameInputs DEF BatchInv, mainVars
<1>1. /\ wpc[w] = "handler" => at[w] \in Work(batch) /\ at[w][1] \in group[w]
      /\ failed' \subseteq Work(batch)
  BY DEF HoldInv, Hold, AtItem, Holding, TypeOK, First
<1>2. TypeOK'
  BY <1>1 DEF TypeOK, inputs, Left
<1>3. HoldInv'
  <2>1. ASSUME NEW v \in Workers, v # w PROVE Hold(v)'
    BY <2>1, OthersHold DEF HoldInv, TypeOK
  <2>2. Hold(w)'
    BY DEF HoldInv, Hold, Related, Holding, AtItem, Left, TypeOK
  <2> QED
    BY <2>1, <2>2 DEF HoldInv
<1>4. ApartInv'
  BY DEF ApartInv, Holding, AtItem, TypeOK
<1>5. FreshInv'
  <2>1. ASSUME NEW v \in Workers, v # w PROVE Fresh(v)'
    BY <1>1, <2>1 DEF FreshInv, Fresh, ApartInv, Holding, AtItem, TypeOK
  <2>2. Fresh(w)'
    BY <1>1 DEF FreshInv, Fresh, ApartInv, Holding, AtItem, TypeOK
  <2> QED
    BY <1>1, <2>1, <2>2 DEF FreshInv, ApartInv, Holding, AtItem
<1>6. CoverInv'
  BY DEF CoverInv, TypeOK
<1>7. EndInv'
  BY DEF EndInv, TypeOK, Left
<1>8. LateInv'
  BY SameContext DEF LateInv, TypeOK
<1> QED
  BY <1>2, <1>3, <1>4, <1>5, <1>6, <1>7, <1>8

(* A worker takes a conversation from the queue.                           *)
LEMMA HandOutKeeps ==
  ASSUME BatchInv, NEW w \in Workers, HandOut(w)
  PROVE  BatchInv'
<1> USE SameInputs DEF BatchInv
<1>1. PICK i \in queued :
        /\ group' = [group EXCEPT ![w] = GroupOf(batch, i)]
        /\ queued' = queued \ GroupOf(batch, i)
  BY DEF HandOut
<1>2. /\ main = "enqueue" /\ wpc[w] = "idle" /\ wpc' = [wpc EXCEPT ![w] = "message"]
      /\ UNCHANGED <<inputs, pctx, cause, main, ret, at, late, done, failed>>
  BY DEF HandOut
<1>3. /\ ~Serial /\ GroupOf(batch, i) \subseteq queued
      /\ GroupOf(batch, i) \subseteq DOMAIN batch
  BY <1>2 DEF EndInv, ApartInv, GroupOf, Grouped
<1>4. /\ \A j, k \in GroupOf(batch, i) : Related(j, k)
      /\ \A x \in Work(batch), j \in GroupOf(batch, i) :
            Related(x[1], j) => x[1] \in GroupOf(batch, i)
  BY <1>3, WorkIs DEF GroupOf, Related, TypeOK
<1>5. TypeOK'
  BY <1>1, <1>2, <1>3 DEF TypeOK, inputs
<1>6. HoldInv'
  <2>1. ASSUME NEW v \in Workers, v # w PROVE Hold(v)'
    BY <1>1, <1>2, <1>4, <2>1, OthersHold DEF HoldInv, TypeOK
  <2>2. Hold(w)'
    BY <1>1, <1>2, <1>4 DEF HoldInv, Hold, Related, Holding, AtItem, Left, TypeOK
  <2> QED
    BY <1>2, <2>1, <2>2 DEF HoldInv
<1>7. ApartInv'
  <2>1. \A j \in queued' : GroupOf(batch, j) \subseteq queued'
    <3> SUFFICES ASSUME NEW j \in queued', NEW k \in GroupOf(batch, j) PROVE k \in queued'
      BY <1>2, SameInputs DEF TypeOK
    <3>1. k \in queued
      BY <1>1 DEF ApartInv
    <3>2. k \notin GroupOf(batch, i)
      BY <1>1 DEF GroupOf, TypeOK
    <3> QED
      BY <1>1, <3>1, <3>2
  <2>2. ASSUME NEW v \in Workers, v # w, wpc'[v] \in Holding
        PROVE  group'[v] \cap queued' = {} /\ group'[v] \cap group'[w] = {}
    <3>1. group[v] \cap queued = {} /\ group'[v] = group[v]
      BY <1>1, <1>2, <2>2 DEF ApartInv, TypeOK
    <3> QED
      BY <1>1, <1>3, <3>1 DEF TypeOK
  <2>3. group'[w] \cap queued' = {}
    BY <1>1 DEF TypeOK
  <2>4. ASSUME NEW v \in Workers, NEW u \in Workers, u # v, u # w, v # w,
               wpc'[v] \in Holding, wpc'[u] \in Holding
        PROVE  group'[u] \cap group'[v] = {}
    BY <1>1, <1>2, <2>4 DEF ApartInv, TypeOK
  <2>5. ASSUME NEW v \in Workers, NEW u \in Workers, u # v,
               wpc'[v] \in Holding, wpc'[u] \in Holding
        PROVE  group'[u] \cap group'[v] = {}
    BY <2>2, <2>4, <2>5
  <2>6. \A v \in Workers : wpc'[v] \in Holding => group'[v] \cap queued' = {}
    BY <2>2, <2>3
  <2>7. batch' = batch /\ Workers' = Workers /\ GroupOf(batch, i)' = GroupOf(batch, i)
    BY <1>2, SameInputs
  <2> QED
    <3>1. \A j \in queued' : GroupOf(batch', j) \subseteq queued'
      BY <2>1, <2>7
    <3>2. \A v \in Workers' : wpc'[v] \in Holding =>
            /\ group'[v] \cap queued' = {}
            /\ \A u \in Workers' :
                  u # v /\ wpc'[u] \in Holding => group'[u] \cap group'[v] = {}
      BY <2>5, <2>6, <2>7, Zenon
    <3> QED
      BY <3>1, <3>2, Zenon DEF ApartInv
<1>8. FreshInv'
  <2>1. ASSUME NEW v \in Workers, v # w PROVE Fresh(v)'
    BY <1>1, <1>2, <1>3, <2>1 DEF FreshInv, Fresh, Holding, TypeOK
  <2>2. Fresh(w)'
    BY <1>1, <1>2, <1>3 DEF FreshInv, Fresh, Holding, AtItem, TypeOK
  <2> QED
    BY <1>1, <1>2, <1>3, <2>1, <2>2 DEF FreshInv
<1>9. CoverInv'
  <2>1. wpc'[w] \in Holding /\ group'[w] = GroupOf(batch, i)
    BY <1>1, <1>2 DEF Holding, TypeOK
  <2>2. \A v \in Workers : wpc[v] \in Holding => v # w
    BY <1>2 DEF Holding, AtItem
  <2> QED
    BY <1>1, <1>2, <2>1, <2>2 DEF CoverInv, TypeOK
<1>10. EndInv'
  BY <1>2, <1>3 DEF EndInv, TypeOK
<1>11. LateInv'
  BY <1>2, SameContext DEF LateInv, TypeOK
<1> QED
  BY <1>5, <1>6, <1>7, <1>8, <1>9, <1>10, <1>11

(* A worker turns to the first message of its group.                       *)
LEMMA TurnKeeps ==
  ASSUME BatchInv, NEW w \in Workers, wpc[w] = "message",
         NEW i \in group[w], First(group[w], i), Eligible(batch[i]),
         wpc' = [wpc EXCEPT ![w] = "item"], at' = [at EXCEPT ![w] = <<i, 1>>],
         UNCHANGED <<inputs, pctx, cause, mainVars, group, late, done, failed>>
  PROVE  BatchInv'
<1> USE SameInputs DEF BatchInv, mainVars
<1>1. TypeOK'
  <2>1. <<i, 1>> \in (DOMAIN batch) \X (Nat \ {0})
    BY DEF TypeOK
  <2>2. at' \in [Workers -> {Nowhere} \cup (DOMAIN batch) \X (Nat \ {0})]
    BY <2>1 DEF TypeOK
  <2> QED
    BY <2>2 DEF TypeOK, inputs
<1>2. HoldInv'
  <2>1. ASSUME NEW v \in Workers, v # w PROVE Hold(v)'
    BY WorkIs, <2>1, OthersHold DEF HoldInv, TypeOK
  <2>2. Hold(w)'
    BY WorkIs DEF HoldInv, Hold, Related, Holding, AtItem, Left, TypeOK
  <2> QED
    BY <2>1, <2>2 DEF HoldInv
<1>3. ApartInv'
  BY DEF ApartInv, Holding, AtItem, TypeOK
<1>4. FreshInv'
  <2>1. ASSUME NEW v \in Workers, v # w PROVE Fresh(v)'
    BY <2>1 DEF FreshInv, Fresh, Holding, TypeOK
  <2>2. Fresh(w)'
    BY DEF FreshInv, Fresh, Holding, AtItem, TypeOK
  <2> QED
    BY <2>1, <2>2 DEF FreshInv
<1>5. CoverInv'
  BY DEF CoverInv, Holding, AtItem, TypeOK
<1>6. EndInv'
  BY DEF EndInv, TypeOK, Left
<1>7. LateInv'
  BY SameContext DEF LateInv, TypeOK
<1> QED
  BY <1>1, <1>2, <1>3, <1>4, <1>5, <1>6, <1>7

(* It is through with a message that has nothing, or nothing more, to do.  *)
LEMMA DropKeeps ==
  ASSUME BatchInv, NEW w \in Workers, wpc[w] \in {"message", "item"},
         NEW i \in group[w], wpc[w] = "item" => i = at[w][1],
         \A x \in Work(batch) : x[1] = i => x \in done,
         wpc' = [wpc EXCEPT ![w] = "message"],
         group' = [group EXCEPT ![w] = @ \ {i}],
         at' \in {at, [at EXCEPT ![w] = Nowhere]},
         UNCHANGED <<inputs, pctx, cause, mainVars, late, done, failed>>
  PROVE  BatchInv'
<1> USE SameInputs DEF BatchInv, mainVars
<1>1. TypeOK'
  BY DEF TypeOK, inputs
<1>2. HoldInv'
  <2>1. ASSUME NEW v \in Workers, v # w PROVE Hold(v)'
    BY <2>1, OthersHold DEF HoldInv, TypeOK
  <2>2. Hold(w)'
    BY DEF HoldInv, Hold, Related, Holding, AtItem, Left, TypeOK
  <2> QED
    BY <2>1, <2>2 DEF HoldInv
<1>3. ApartInv'
  BY DEF ApartInv, Holding, AtItem, TypeOK
<1>4. FreshInv'
  <2>1. ASSUME NEW v \in Workers, v # w PROVE Fresh(v)'
    BY <2>1 DEF FreshInv, Fresh, Holding, TypeOK
  <2>2. Fresh(w)'
    BY DEF FreshInv, Fresh, Holding, AtItem, TypeOK
  <2> QED
    BY <2>1, <2>2 DEF FreshInv
<1>5. CoverInv'
  BY DEF CoverInv, Holding, AtItem, TypeOK
<1>6. EndInv'
  BY DEF EndInv, TypeOK, Left
<1>7. LateInv'
  BY SameContext DEF LateInv, TypeOK
<1> QED
  BY <1>1, <1>2, <1>3, <1>4, <1>5, <1>6, <1>7

(* It goes on with the invocation it is at: to its call, into the handler, *)
(* or away with it.                                                        *)
LEMMA GoOnKeeps ==
  ASSUME BatchInv, NEW w \in Workers,
         NEW place, wpc' = [wpc EXCEPT ![w] = place],
         \/ wpc[w] = "item" /\ place = "call" /\ late' = late /\ ~ContextDone
            /\ ~MessageFinished(w)
         \/ wpc[w] = "call" /\ place = "handler"
            /\ late' = [late EXCEPT ![w] = IF ContextDone THEN @ + 1 ELSE @]
         \/ wpc[w] = "handler" /\ place = "gone" /\ late' = late,
         UNCHANGED <<inputs, pctx, cause, mainVars, group, at, done, failed>>
  PROVE  BatchInv'
<1> USE SameInputs DEF BatchInv, mainVars
<1>1. TypeOK'
  <2>1. wpc' \in [Workers -> {"idle", "message", "item", "call", "handler"} \cup Left]
    BY DEF TypeOK, Left
  <2>2. late' \in [Workers -> Nat]
    BY DEF TypeOK
  <2> QED
    BY <2>1, <2>2 DEF TypeOK, inputs
<1>2. at[w] \in Work(batch)
  <2>1. CASE wpc[w] = "item"
    <3>1. /\ at[w] = <<at[w][1], at[w][2]>> /\ at[w][1] \in Grouped(batch)
          /\ at[w][2] \in Nat \ {0}
      BY <2>1, BatchAssumption DEF HoldInv, Hold, First, AtItem, Holding, TypeOK, Grouped, Nowhere
    <3>2. batch[at[w][1]].items \in Nat /\ at[w][2] <= batch[at[w][1]].items
      BY <2>1, <3>1, BatchAssumption DEF MessageFinished, TypeOK, Grouped
    <3>3. <<at[w][1], at[w][2]>> \in Work(batch)
      BY <3>1, <3>2, WorkIs DEF TypeOK
    <3> QED
      BY <3>1, <3>3
  <2> QED
    BY <2>1 DEF HoldInv, Hold
<1>3. HoldInv'
  <2>1. ASSUME NEW v \in Workers, v # w PROVE Hold(v)'
    BY <1>2, <2>1, OthersHold DEF HoldInv, TypeOK
  <2>2. Hold(w)'
    BY <1>2 DEF HoldInv, Hold, Related, Holding, AtItem, Left, TypeOK
  <2> QED
    BY <2>1, <2>2 DEF HoldInv
<1>4. ApartInv'
  BY DEF ApartInv, Holding, AtItem, TypeOK
<1>5. FreshInv'
  <2>1. ASSUME NEW v \in Workers, v # w PROVE Fresh(v)'
    BY <2>1 DEF FreshInv, Fresh, Holding, TypeOK
  <2>2. Fresh(w)'
    BY DEF FreshInv, Fresh, Holding, AtItem, TypeOK
  <2> QED
    BY <2>1, <2>2 DEF FreshInv
<1>6. CoverInv'
  BY DEF CoverInv, Holding, AtItem, TypeOK
<1>7. EndInv'
  BY DEF EndInv, TypeOK, Left
<1>8. LateInv'
  <2>1. ContextDone' = ContextDone
    BY SameInputs DEF ContextDone
  <2>2. ASSUME NEW v \in Workers, v # w
        PROVE  late'[v] \in {0, 1} /\ (late'[v] = 1 => ContextDone /\ wpc'[v] # "call")
    BY <2>2 DEF LateInv, TypeOK
  <2>3. late'[w] \in {0, 1} /\ (late'[w] = 1 => ContextDone /\ wpc'[w] # "call")
    BY DEF LateInv, TypeOK
  <2> QED
    BY <2>1, <2>2, <2>3 DEF LateInv
<1> QED
  BY <1>1, <1>3, <1>4, <1>5, <1>6, <1>7, <1>8

(* A handler returns nil.                                                  *)
LEMMA SuccessKeeps ==
  ASSUME BatchInv, NEW w \in Workers, wpc[w] = "handler",
         done' = done \cup {at[w]}, wpc' = [wpc EXCEPT ![w] = "item"],
         at' = [at EXCEPT ![w] = NextOf(@)],
         UNCHANGED <<inputs, pctx, cause, failed, mainVars, group, late>>
  PROVE  BatchInv'
<1> USE SameInputs DEF BatchInv, mainVars
<1>1. /\ at[w] \in Work(batch) /\ at[w][1] \in group[w] /\ at[w][1] \in DOMAIN batch
      /\ at[w] = <<at[w][1], at[w][2]>> /\ at[w][2] \in Nat \ {0}
  BY WorkIs DEF HoldInv, Hold, First, Holding, AtItem, TypeOK
<1>2. at'[w] = <<at[w][1], at[w][2] + 1>>
  BY DEF NextOf, TypeOK
<1>3. TypeOK'
  <2>1. <<at[w][1], at[w][2] + 1>> \in (DOMAIN batch) \X (Nat \ {0})
    BY <1>1
  <2>2. at' \in [Workers -> {Nowhere} \cup (DOMAIN batch) \X (Nat \ {0})]
    BY <1>2, <2>1 DEF TypeOK
  <2>3. done' \subseteq Work(batch)
    BY <1>1 DEF TypeOK
  <2> QED
    BY <2>2, <2>3 DEF TypeOK, inputs
<1>4. HoldInv'
  <2>1. ASSUME NEW v \in Workers, v # w PROVE Hold(v)'
    BY <1>1, <1>2, WorkIs, <2>1, OthersHold DEF HoldInv, TypeOK
  <2>2. Hold(w)'
    <3>1. ASSUME NEW x \in Work(batch), x[1] = at'[w][1], x[2] < at'[w][2]
          PROVE  x \in done'
      <4>1. x = <<x[1], x[2]>> /\ x[1] = at[w][1] /\ x[2] \in Nat /\ x[2] < at[w][2] + 1
        BY <1>2, <3>1, WorkIs DEF TypeOK
      <4>2. x[2] < at[w][2] \/ x = at[w]
        BY <1>1, <4>1
      <4> QED
        BY <4>1, <4>2 DEF HoldInv, Hold, AtItem
    <3> QED
      BY <1>1, <1>2, <3>1 DEF HoldInv, Hold, Related, Holding, AtItem, Left, TypeOK
  <2> QED
    BY <2>1, <2>2 DEF HoldInv
<1>5. ApartInv'
  BY DEF ApartInv, Holding, AtItem, TypeOK
<1>6. FreshInv'
  <2>1. ASSUME NEW v \in Workers, v # w PROVE Fresh(v)'
    BY <1>1, <2>1 DEF FreshInv, Fresh, ApartInv, Holding, AtItem, TypeOK
  <2>2. Fresh(w)'
    BY <1>1, <1>2, WorkIs DEF FreshInv, Fresh, ApartInv, Holding, AtItem, TypeOK
  <2> QED
    BY <1>1, <1>2, WorkIs, <2>1, <2>2 DEF FreshInv, ApartInv, Holding, AtItem
<1>7. CoverInv'
  BY DEF CoverInv, Holding, AtItem, TypeOK
<1>8. EndInv'
  BY DEF EndInv, TypeOK, Left
<1>9. LateInv'
  BY SameContext DEF LateInv, TypeOK
<1> QED
  BY <1>3, <1>4, <1>5, <1>6, <1>7, <1>8, <1>9

LEMMA WorkerKeeps ==
  ASSUME BatchInv, NEW w \in Workers, WorkerStep(w)
  PROVE  BatchInv'
<1> USE DEF BatchInv
<1>0. main = "returned" => wpc[w] \in Left
  BY DEF EndInv
<1>1. CASE WorkerDrains(w)
  BY <1>0, <1>1, LetGoKeeps DEF WorkerDrains, Left, HoldInv, Hold, EndInv, TypeOK
<1>2. CASE GroupFinished(w)
  BY <1>0, <1>2, LetGoKeeps DEF GroupFinished, Left, EndInv, TypeOK
<1>3. CASE BeginMessage(w)
  <2>1. PICK i \in group[w] :
          /\ First(group[w], i)
          /\ IF ContextDone
             THEN Stop(w, CtxError) /\ UNCHANGED <<group, at>>
             ELSE /\ UNCHANGED cause
                  /\ IF Eligible(batch[i])
                     THEN /\ wpc' = [wpc EXCEPT ![w] = "item"]
                          /\ at' = [at EXCEPT ![w] = <<i, 1>>]
                          /\ UNCHANGED group
                     ELSE /\ group' = [group EXCEPT ![w] = @ \ {i}]
                          /\ UNCHANGED <<wpc, at>>
    BY <1>3 DEF BeginMessage
  <2>2. wpc[w] = "message" /\ UNCHANGED <<inputs, pctx, mainVars, late, done, failed>>
    BY <1>3 DEF BeginMessage
  <2>3. CASE ContextDone
    <3>1. /\ cause' = FirstCause(CtxError) /\ wpc' = [wpc EXCEPT ![w] = "exited"]
          /\ UNCHANGED <<group, at>>
      BY <2>1, <2>3 DEF Stop
    <3>2. cause = NoError => pctx
      BY <2>3 DEF ContextDone
    <3> QED
      BY <1>0, <2>2, <3>1, <3>2, LetGoKeeps, VerdictAssumption
         DEF FirstCause, EndInv, TypeOK, Left
  <2>4. CASE ~ContextDone /\ Eligible(batch[i])
    BY <2>1, <2>2, <2>4, TurnKeeps
  <2>5. CASE ~ContextDone /\ ~Eligible(batch[i])
    <3>1. \A x \in Work(batch) : x[1] # i
      BY <2>5, WorkIs DEF Grouped, TypeOK
    <3>2. wpc' = [wpc EXCEPT ![w] = "message"]
      BY <2>1, <2>2, <2>5 DEF TypeOK
    <3> QED
      BY <2>1, <2>2, <2>5, <3>1, <3>2, DropKeeps
  <2> QED
    BY <2>3, <2>4, <2>5
<1>4. CASE NextItem(w)
  <2>1. /\ wpc[w] = "item" /\ at[w][1] \in group[w]
        /\ UNCHANGED <<inputs, pctx, mainVars, late, done, failed>>
    BY <1>4 DEF NextItem, HoldInv, Hold, First, AtItem
  <2>2. CASE MessageFinished(w)
    <3>1. \A x \in Work(batch) : x[1] = at[w][1] => x \in done
      <4> SUFFICES ASSUME NEW x \in Work(batch), x[1] = at[w][1] PROVE x \in done
        OBVIOUS
      <4>1. x[2] \in Nat /\ x[2] <= batch[x[1]].items /\ batch[x[1]].items \in Nat
        BY WorkIs DEF Grouped, TypeOK
      <4>2. at[w][2] \in Nat /\ x[2] < at[w][2]
        BY <2>1, <2>2, <4>1 DEF MessageFinished, HoldInv, Hold, AtItem
      <4> QED
        BY <2>1, <4>2 DEF HoldInv, Hold, AtItem
    <3> QED
      BY <1>4, <2>1, <2>2, <3>1, DropKeeps DEF NextItem, LeaveMessage
  <2>3. CASE ~MessageFinished(w) /\ ContextDone
    <3>1. /\ cause' = FirstCause(CtxError) /\ wpc' = [wpc EXCEPT ![w] = "exited"]
          /\ UNCHANGED <<group, at>>
      BY <1>4, <2>3 DEF NextItem, Stop
    <3>2. cause = NoError => pctx
      BY <2>3 DEF ContextDone
    <3> QED
      BY <1>0, <2>1, <3>1, <3>2, LetGoKeeps, VerdictAssumption
         DEF FirstCause, EndInv, TypeOK, Left
  <2>4. CASE ~MessageFinished(w) /\ ~ContextDone
    BY <1>4, <2>1, <2>4, GoOnKeeps DEF NextItem
  <2> QED
    BY <2>2, <2>3, <2>4
<1>5. CASE CallHandler(w)
  BY <1>5, GoOnKeeps DEF CallHandler
<1>6. ASSUME NEW outcome \in HandlerOutcomes, HandlerReturns(w, outcome) PROVE BatchInv'
  <2>1. wpc[w] = "handler" /\ at[w] \in Work(batch)
    BY <1>6 DEF HandlerReturns, HoldInv, Hold
  <2>2. CASE outcome = "ok"
    BY <1>6, <2>1, <2>2, SuccessKeeps DEF HandlerReturns
  <2>3. CASE outcome = "error"
    <3>1. /\ failed' = failed \cup {at[w]} /\ cause' = FirstCause(at[w])
          /\ wpc' = [wpc EXCEPT ![w] = "exited"]
          /\ UNCHANGED <<inputs, pctx, mainVars, group, at, late, done>>
      BY <1>6, <2>3 DEF HandlerReturns, Stop
    <3>2. NoError \notin Work(batch) /\ CtxError \notin Work(batch)
      BY VerdictAssumption DEF TypeOK
    <3> QED
      BY <1>0, <2>1, <3>1, <3>2, LetGoKeeps DEF FirstCause, EndInv, TypeOK, Left
  <2>4. CASE outcome = "goexit"
    BY <1>6, <2>1, <2>4, GoOnKeeps DEF HandlerReturns
  <2> QED
    BY <2>2, <2>3, <2>4, OutcomeAssumption
<1> QED
  BY <1>1, <1>2, <1>3, <1>4, <1>5, <1>6 DEF WorkerStep

LEMMA NextKeeps == BatchInv /\ [Next]_vars => BatchInv'
<1> SUFFICES ASSUME BatchInv, [Next]_vars PROVE BatchInv'
  OBVIOUS
<1> USE DEF BatchInv
<1>1. CASE UNCHANGED vars
  BY <1>1, StillKeeps DEF vars, workerVars, EndInv, TypeOK
<1>2. CASE CancelParent
  BY <1>2, StillKeeps DEF CancelParent, mainVars, EndInv, TypeOK
<1>3. CASE Propagate
  BY <1>3, StillKeeps, VerdictAssumption DEF Propagate, mainVars, EndInv, TypeOK
<1>4. CASE StopHandingOut \/ CloseJobs
  BY <1>4, StillKeeps DEF StopHandingOut, CloseJobs, EndInv, TypeOK
<1>5. CASE Return
  BY <1>5, StillKeeps DEF Return, EndInv, TypeOK
<1>6. ASSUME NEW w \in Workers, HandOut(w) PROVE BatchInv'
  BY <1>6, HandOutKeeps
<1>7. ASSUME NEW w \in Workers, WorkerStep(w) PROVE BatchInv'
  BY <1>7, WorkerKeeps
<1> QED
  BY <1>1, <1>2, <1>3, <1>4, <1>5, <1>6, <1>7 DEF Next, MainStep, Returned

(* The invariant holds in every state of a call of processBatch.           *)
THEOREM InductiveBatch == Spec => []BatchInv
BY InitInv, NextKeeps, PTL DEF Spec
-----------------------------------------------------------------------------
(* The theorems.                                                           *)

LEMMA InOrder == BatchInv => PerUserOrder
<1> SUFFICES ASSUME BatchInv, NEW w \in Workers, wpc[w] \in {"call", "handler"},
                    NEW y \in Needs(batch)[at[w]]
             PROVE  y \in done
  BY DEF PerUserOrder
<1>1. /\ at[w] \in Work(batch) /\ Hold(w) /\ First(group[w], at[w][1])
      /\ wpc[w] \in Holding
  BY DEF BatchInv, HoldInv, Hold, AtItem, Holding
<1>2. y \in Work(batch) /\ Before(y, at[w]) /\ Related(y[1], at[w][1])
  BY <1>1 DEF Needs, Related
<1>3. CASE y[1] = at[w][1]
  BY <1>1, <1>2, <1>3, WorkIs DEF Before, Hold, AtItem, BatchInv, TypeOK
<1>4. CASE y[1] < at[w][1]
  <2>1. y[1] \notin group[w]
    BY <1>1, <1>2, <1>4, WorkIs DEF First, BatchInv, TypeOK
  <2> QED
    BY <1>1, <1>2, <2>1 DEF Hold, First
<1> QED
  BY <1>2, <1>3, <1>4 DEF Before

(* A conversation is never processed out of order: a handler runs only     *)
(* when every earlier item of its user has returned nil, for any number of *)
(* workers (src/listener.go:153-168).                                      *)
THEOREM ConversationsInOrder == Spec => []PerUserOrder
BY InOrder, InductiveBatch, PTL

LEMMA MissesOnlyLost ==
  ASSUME BatchInv, cause = NoError, main # "enqueue", \A w \in Workers : wpc[w] \in Left,
         NEW x \in Work(batch) \ done
  PROVE  (Needs(batch)[x] \cup {x}) \cap Lost # {}
<1>1. PICK w \in Workers : wpc[w] = "gone" /\ x[1] \in group[w]
  BY DEF BatchInv, CoverInv, EndInv, Left, Holding, AtItem
<1>2. /\ at[w] \in Work(batch) /\ First(group[w], at[w][1])
      /\ Related(at[w][1], x[1])
      /\ ~(x[1] = at[w][1] /\ x[2] < at[w][2])
  BY <1>1 DEF BatchInv, HoldInv, Hold, Holding, First
<1>3. at[w] = x \/ Before(at[w], x)
  <2>1. /\ at[w] = <<at[w][1], at[w][2]>> /\ x = <<x[1], x[2]>>
        /\ at[w][1] \in Nat /\ x[1] \in Nat /\ at[w][2] \in Nat /\ x[2] \in Nat
    BY <1>2, WorkIs DEF BatchInv, TypeOK
  <2>2. at[w][1] <= x[1]
    BY <1>1, <1>2 DEF First
  <2> QED
    BY <1>2, <2>1, <2>2 DEF Before
<1>4. at[w] \in Needs(batch)[x] \cup {x}
  BY <1>2, <1>3 DEF Needs, Related
<1> QED
  BY <1>1, <1>4 DEF Lost

LEMMA NilReceipt == BatchInv => NilMissesOnlyLost
<1>1. BatchInv /\ ret = NoError => cause = NoError /\ main = "returned"
  BY VerdictAssumption DEF BatchInv, EndInv
<1> QED
  BY <1>1, MissesOnlyLost DEF NilMissesOnlyLost, BatchInv, EndInv

(* A nil error misses nothing but what a handler took with its goroutine   *)
(* and what the same user sent after it (src/listener.go:34, 116-128).     *)
THEOREM NilIsAReceipt == Spec => []NilMissesOnlyLost
BY NilReceipt, InductiveBatch, PTL

(* A cancelled batch begins at most one more call per worker.              *)
THEOREM CancelHeededByBatch == Spec => []OneCallAfterCancel
<1>1. BatchInv => OneCallAfterCancel
  BY DEF BatchInv, LateInv, OneCallAfterCancel
<1> QED
  BY <1>1, InductiveBatch, PTL
-----------------------------------------------------------------------------
(* The refinement.                                                         *)

Record == [work |-> Work(batch), needs |-> Needs(batch), done |-> done,
           failed |-> failed, lost |-> Lost]

LEMMA InitRefines == Init => Contract!Init
<1> SUFFICES ASSUME Init PROVE Contract!Init
  OBVIOUS
<1>1. Lost = {}
  BY DEF Init, Lost
<1> QED
  BY <1>1 DEF Init, Contract!Init, Contract!NewBatch

(* The goroutines that were lost are those that are gone.                  *)
LEMMA SameLost ==
  ASSUME UNCHANGED inputs, UNCHANGED at,
         \A w \in Workers : wpc'[w] = "gone" <=> wpc[w] = "gone"
  PROVE  Lost' = Lost
BY SameInputs DEF Lost

(* A step in which no handler ends leaves everything the contract knows.   *)
LEMMA Silent ==
  ASSUME UNCHANGED <<inputs, pctx, done, failed, ret>>, Lost' = Lost
  PROVE  UNCHANGED Contract!vars
BY SameInputs DEF Contract!vars

(* A handler that is running may return, or be lost.                       *)
LEMMA MayRun ==
  ASSUME BatchInv, NEW w \in Workers, wpc[w] = "handler"
  PROVE  /\ at[w] \in Work(batch) \ (done \cup failed)
         /\ Needs(batch)[at[w]] \subseteq done
         /\ at[w] \notin Lost
         /\ ret = Running
<1>1. /\ at[w] \in Work(batch) /\ at[w][1] \in group[w] /\ wpc[w] \in Holding
      /\ wpc[w] \notin Left
  BY DEF BatchInv, HoldInv, Hold, First, Holding, AtItem, Left
<1>2. at[w] \notin done \cup failed
  BY <1>1, WorkIs DEF BatchInv, FreshInv, Fresh, TypeOK
<1>3. at[w] \notin Lost
  <2> SUFFICES ASSUME NEW v \in Workers, wpc[v] = "gone", at[v] = at[w] PROVE FALSE
    BY DEF Lost
  <2>1. at[v][1] \in group[v] /\ wpc[v] \in Holding /\ v # w
    BY DEF BatchInv, HoldInv, Hold, First, Holding
  <2> QED
    BY <1>1, <2>1 DEF BatchInv, ApartInv
<1> QED
  BY <1>1, <1>2, <1>3, InOrder DEF PerUserOrder, BatchInv, EndInv

LEMMA HandlerRefines ==
  ASSUME BatchInv, NEW w \in Workers, NEW outcome \in HandlerOutcomes,
         HandlerReturns(w, outcome)
  PROVE  Contract!HandlerEnds(at[w])
<1>1. wpc[w] = "handler" /\ UNCHANGED <<inputs, pctx, mainVars, group, late>>
  BY DEF HandlerReturns
<1>2. UNCHANGED <<ret, pctx>> /\ batch' = batch /\ Needs(batch)' = Needs(batch)
  BY <1>1, SameInputs DEF mainVars
<1>3. CASE outcome = "ok"
  <2>1. done' = done \cup {at[w]} /\ failed' = failed
    BY <1>3 DEF HandlerReturns
  <2>2. \A v \in Workers : wpc[v] = "gone" => wpc'[v] = "gone" /\ at'[v] = at[v]
    BY <1>1, <1>3 DEF HandlerReturns, BatchInv, TypeOK
  <2>3. \A v \in Workers : wpc'[v] = "gone" => wpc[v] = "gone"
    BY <1>1, <1>3 DEF HandlerReturns, BatchInv, TypeOK
  <2>4. Lost' = Lost
    BY <1>1, <2>2, <2>3, SameInputs DEF Lost
  <2> QED
    BY <1>1, <1>2, <2>1, <2>4, MayRun
       DEF Contract!HandlerEnds, Contract!CanRun, Contract!Succeeded
<1>4. CASE outcome = "error"
  <2>1. done' = done /\ failed' = failed \cup {at[w]} /\ at' = at
    BY <1>4 DEF HandlerReturns
  <2>2. Lost' = Lost
    BY <1>1, <1>4, <2>1, SameLost DEF HandlerReturns, Stop, BatchInv, TypeOK
  <2> QED
    BY <1>1, <1>2, <2>1, <2>2, MayRun
       DEF Contract!HandlerEnds, Contract!CanRun, Contract!Failed
<1>5. CASE outcome = "goexit"
  <2>1. UNCHANGED <<done, failed, at>> /\ wpc' = [wpc EXCEPT ![w] = "gone"]
    BY <1>5 DEF HandlerReturns
  <2>2. Lost' = Lost \cup {at[w]}
    BY <1>1, <2>1, SameInputs DEF Lost, BatchInv, TypeOK
  <2>3. [Record EXCEPT !.lost = @ \cup {at[w]}]
           = [Record EXCEPT !.lost = Lost \cup {at[w]}]
    BY DEF Record
  <2>4. Record' = Contract!Abandoned(Record, at[w])
    BY <1>2, <2>1, <2>2, <2>3 DEF Record, Contract!Abandoned
  <2>5. Contract!CanRun(Record, at[w])
    BY <1>1, MayRun DEF Contract!CanRun, Record
  <2> QED
    BY <1>1, <1>2, <2>4, <2>5, MayRun DEF Contract!HandlerEnds, Record
<1> QED
  BY <1>3, <1>4, <1>5, OutcomeAssumption

LEMMA ReturnRefines ==
  ASSUME BatchInv, Return
  PROVE  Contract!ReturnNil \/ \E e \in Contract!ErrorsOf(Record, pctx) : Contract!ReturnError(e)
<1>1. /\ main = "wait" /\ \A w \in Workers : wpc[w] \in Left
      /\ ret' = cause /\ ret = Running
      /\ UNCHANGED <<inputs, pctx, workerVars, done, failed>>
  BY DEF Return, BatchInv, EndInv
<1>2. Lost' = Lost /\ batch' = batch /\ Needs(batch)' = Needs(batch)
  BY <1>1, SameLost, SameInputs DEF workerVars
<1>3. CASE cause = NoError
  <2>1. \A x \in Work(batch) \ done : (Needs(batch)[x] \cup {x}) \cap Lost # {}
    BY <1>1, <1>3, MissesOnlyLost
  <2> QED
    BY <1>1, <1>2, <1>3, <2>1 DEF Contract!ReturnNil, Contract!MayReturnNil, Contract!HeldUp
<1>4. CASE cause # NoError
  <2>1. cause \in failed \/ (cause = CtxError /\ pctx)
    BY <1>4 DEF BatchInv, EndInv, TypeOK
  <2> QED
    BY <1>1, <1>2, <2>1 DEF Contract!ReturnError, Contract!ErrorsOf, Record
<1> QED
  BY <1>3, <1>4

LEMMA NextRefines ==
  BatchInv /\ [Next]_vars => [Contract!Next]_(Contract!vars)
<1> SUFFICES ASSUME BatchInv, [Next]_vars PROVE [Contract!Next]_(Contract!vars)
  OBVIOUS
<1> USE DEF Contract!Next
<1>1. CASE UNCHANGED vars
  BY <1>1, SameLost, Silent DEF vars
<1>2. CASE CancelParent
  <2>1. Lost' = Lost /\ batch' = batch /\ Needs(batch)' = Needs(batch)
    BY <1>2, SameLost, SameInputs DEF CancelParent, workerVars
  <2> QED
    BY <1>2, <2>1 DEF CancelParent, mainVars, Contract!Cancel
<1>3. CASE Propagate
  BY <1>3, SameLost, Silent DEF Propagate, mainVars, workerVars
<1>4. CASE StopHandingOut \/ CloseJobs
  BY <1>4, SameLost, Silent DEF StopHandingOut, CloseJobs, workerVars
<1>5. CASE Return
  BY <1>5, ReturnRefines DEF Record
<1>6. ASSUME NEW w \in Workers, HandOut(w) PROVE UNCHANGED Contract!vars
  BY <1>6, SameLost, Silent DEF HandOut, BatchInv, TypeOK
<1>7. ASSUME NEW w \in Workers,
             WorkerDrains(w) \/ GroupFinished(w) \/ BeginMessage(w)
             \/ NextItem(w) \/ CallHandler(w)
      PROVE  UNCHANGED Contract!vars
  <2>1. /\ wpc[w] # "gone" /\ UNCHANGED <<inputs, pctx, mainVars, done, failed>>
        /\ wpc'[w] # "gone"
        /\ \A v \in Workers : v # w => wpc'[v] = wpc[v] /\ at'[v] = at[v]
    BY <1>7 DEF WorkerDrains, GroupFinished, BeginMessage, NextItem, CallHandler, Stop,
                LeaveMessage, BatchInv, TypeOK
  <2>2. Lost' = Lost
    BY <2>1, SameInputs DEF Lost
  <2> QED
    BY <2>1, <2>2, Silent DEF mainVars
<1>8. ASSUME NEW w \in Workers, NEW outcome \in HandlerOutcomes,
             HandlerReturns(w, outcome)
      PROVE  Contract!Next
  <2>1. at[w] \in Record.work
    BY <1>8, MayRun DEF HandlerReturns, Record
  <2> QED
    BY <1>8, <2>1, HandlerRefines DEF Record
<1> QED
  BY <1>1, <1>2, <1>3, <1>4, <1>5, <1>6, <1>7, <1>8 DEF Next, MainStep, Returned, WorkerStep

(* The goroutines behave as the abstract call: handlers return in an order *)
(* that keeps every conversation, none after the call has returned, and it *)
(* returns nil only with all done that was not lost, and an error only for *)
(* a reason it can name (src/listener.go:144-198).                         *)
THEOREM BatchKeepsContract == Spec => ImplementsContract
BY InitRefines, NextRefines, InductiveBatch, PTL
   DEF Spec, ImplementsContract, Contract!Spec
-----------------------------------------------------------------------------
(* How long a batch can take.                                              *)

(* The steps of the dispatch of all messages: the check before the message *)
(* and the end of it, and for each item the check, the call and the return *)
(* of the handler.                                                         *)
MessageSteps(i) ==
    {<<i, 0, "begin">>, <<i, 0, "leave">>}
        \cup {<<i, k, s>> : k \in 1..batch[i].items, s \in {"check", "call", "return"}}

StepsOf(S) == UNION {MessageSteps(i) : i \in S}

(* What a worker still has to do of the item it is at.                     *)
Pending(w) ==
    CASE wpc[w] = "item"    -> {"check", "call", "return"}
      [] wpc[w] = "call"    -> {"call", "return"}
      [] wpc[w] = "handler" -> {"return"}

(* A step of the message a worker is at is behind it.                      *)
Behind(w, t) ==
    /\ t[1] = at[w][1] /\ t[3] # "leave"
    /\ t[2] < at[w][2] \/ (t[2] = at[w][2] /\ t[3] \notin Pending(w))

(* The steps ahead of a worker.                                            *)
AheadOf(w) ==
    {t \in StepsOf(group[w]) :
        wpc[w] \notin Left /\ ~(wpc[w] \in AtItem /\ Behind(w, t))}

Ahead == StepsOf(queued) \cup UNION {AheadOf(w) : w \in Workers}

Active == {w \in Workers : wpc[w] \notin Left}

(* The queues a worker may yet find when it has finished a group.          *)
Finishes ==
    {f \in Active \X SUBSET queued : wpc[f[1]] = "idle" => f[2] # queued}

Signals ==
    {s \in {"cancel", "cause", "close", "return"} :
        CASE s = "cancel" -> ~pctx
          [] s = "cause"  -> cause = NoError
          [] s = "close"  -> main = "enqueue"
          [] s = "return" -> main # "returned"}

(* What is left of a call of processBatch.                                 *)
Remaining == <<Ahead, queued, Active, Finishes, Signals>>

(* Nothing is added to it.                                                 *)
Shrinks == /\ Ahead' \subseteq Ahead /\ queued' \subseteq queued
           /\ Active' \subseteq Active /\ Finishes' \subseteq Finishes
           /\ Signals' \subseteq Signals

(* A step belongs to one message, and a set of messages has all of theirs. *)
LEMMA StepsAre ==
    \A S, T :
        /\ \A t \in StepsOf(S) :
              t[1] \in S /\ t[2] \in Nat /\ (t[1] \in T => t \in StepsOf(T))
        /\ \A i \in S : <<i, 0, "begin">> \in StepsOf(S) /\ <<i, 0, "leave">> \in StepsOf(S)
        /\ \A i \in S, s \in {"check", "call", "return"} :
              \A k \in 1..batch[i].items : <<i, k, s>> \in StepsOf(S)
<1>1. \A i : \A t \in MessageSteps(i) : t[1] = i /\ t[2] \in Nat
  BY DEF MessageSteps
<1>2. \A i : <<i, 0, "begin">> \in MessageSteps(i) /\ <<i, 0, "leave">> \in MessageSteps(i)
  BY DEF MessageSteps
<1>3. \A i, k, s : k \in 1..batch[i].items /\ s \in {"check", "call", "return"}
          => <<i, k, s>> \in MessageSteps(i)
  BY DEF MessageSteps
<1> QED
  BY <1>1, <1>2, <1>3 DEF StepsOf

(* They depend on nothing but the batch.                                   *)
LEMMA SameSteps ==
  ASSUME batch' = batch
  PROVE  \A S : StepsOf(S)' = StepsOf(S)
BY DEF StepsOf, MessageSteps

(* One worker moves, and has no more steps ahead of it than before.        *)
LEMMA OneMoves ==
  ASSUME NEW w \in Workers, UNCHANGED <<inputs, queued>>, AheadOf(w)' \subseteq AheadOf(w),
         \A v \in Workers \ {w} :
            wpc'[v] = wpc[v] /\ group'[v] = group[v] /\ at'[v] = at[v]
  PROVE  /\ Ahead' \subseteq Ahead
         /\ BatchInv => \A t \in AheadOf(w) : t \notin AheadOf(w)' => Ahead' # Ahead
<1>1. batch' = batch /\ Workers' = Workers
  BY SameInputs
<1>2. StepsOf(queued)' = StepsOf(queued)
  BY <1>1, SameSteps
<1>3. ASSUME NEW v \in Workers \ {w} PROVE AheadOf(v)' = AheadOf(v)
  <2>1. StepsOf(group[v])' = StepsOf(group[v])
    BY <1>1, SameSteps
  <2>2. wpc'[v] = wpc[v] /\ \A t : Behind(v, t)' <=> Behind(v, t)
    BY DEF Behind, Pending
  <2> QED
    BY <2>1, <2>2 DEF AheadOf
<1>4. Ahead' = StepsOf(queued) \cup UNION {AheadOf(v)' : v \in Workers}
  BY <1>1, <1>2 DEF Ahead
<1>5. Ahead' \subseteq Ahead
  BY <1>3, <1>4 DEF Ahead
<1>6. ASSUME BatchInv, NEW t \in AheadOf(w), t \notin AheadOf(w)' PROVE Ahead' # Ahead
  <2>1. t[1] \in group[w] /\ wpc[w] \notin Left
    BY StepsAre DEF AheadOf
  <2>2. wpc[w] \in Holding
    BY <1>6, <2>1 DEF BatchInv, HoldInv, Hold, TypeOK, Holding, AtItem
  <2>3. t \notin StepsOf(queued)
    BY <1>6, <2>1, <2>2, StepsAre DEF BatchInv, ApartInv
  <2>4. ASSUME NEW v \in Workers \ {w}, t \in AheadOf(v) PROVE FALSE
    <3>1. t[1] \in group[v] /\ wpc[v] \notin Left
      BY <2>4, StepsAre DEF AheadOf
    <3>2. wpc[v] \in Holding
      BY <1>6, <3>1 DEF BatchInv, HoldInv, Hold, TypeOK, Holding, AtItem
    <3> QED
      BY <1>6, <2>1, <2>2, <3>1, <3>2 DEF BatchInv, ApartInv
  <2>5. t \notin Ahead'
    BY <1>3, <1>4, <1>6, <2>3, <2>4
  <2> QED
    BY <2>5 DEF Ahead
<1> QED
  BY <1>5, <1>6

(* The signals only ever go up.                                            *)
LEMMA SignalsShrink ==
  ASSUME pctx => pctx', cause # NoError => cause' # NoError,
         main' = main \/ (main = "enqueue" /\ main' = "wait") \/ main' = "returned"
  PROVE  Signals' \subseteq Signals
BY DEF Signals

(* A worker that leaves: it is not active any more.                        *)
LEMMA LeavingSpends ==
  ASSUME BatchInv, NEW w \in Workers, NEW s \in Left, wpc[w] \notin Left,
         wpc' = [wpc EXCEPT ![w] = s], UNCHANGED <<inputs, queued, pctx, main, group, at>>,
         cause # NoError => cause' # NoError
  PROVE  Shrinks /\ Remaining' # Remaining
<1>1. Workers' = Workers /\ wpc \in [Workers -> Places]
  BY SameInputs DEF BatchInv, TypeOK, Places, Holding, AtItem
<1>2. wpc'[w] = s /\ \A v \in Workers \ {w} : wpc'[v] = wpc[v]
  BY <1>1
<1>3. Active' \subseteq Active /\ w \in Active /\ w \notin Active'
  BY <1>1, <1>2 DEF Active
<1>4. Finishes' \subseteq Finishes
  <2>1. ASSUME NEW f \in Finishes' PROVE f \in Finishes
    <3>1. f \in Active' \X SUBSET queued /\ (wpc'[f[1]] = "idle" => f[2] # queued)
      BY DEF Finishes
    <3>2. f[1] \in Workers \ {w}
      BY <1>1, <1>3, <3>1 DEF Active
    <3> QED
      BY <1>2, <1>3, <3>1, <3>2 DEF Finishes
  <2> QED
    BY <2>1
<1>5. AheadOf(w)' = {}
  BY <1>2 DEF AheadOf
<1>6. Ahead' \subseteq Ahead
  BY <1>2, <1>5, OneMoves
<1>7. Signals' \subseteq Signals
  BY SignalsShrink
<1> QED
  BY <1>3, <1>4, <1>6, <1>7 DEF Shrinks, Remaining

(* A worker that goes on inside its group, with a step behind it.          *)
LEMMA GoingOnSpends ==
  ASSUME BatchInv, NEW w \in Workers, NEW s, s \notin Left \cup {"idle"},
         wpc[w] \notin Left \cup {"idle"}, wpc' = [wpc EXCEPT ![w] = s],
         UNCHANGED <<inputs, queued, pctx, main, cause>>,
         \A v \in Workers \ {w} : group'[v] = group[v] /\ at'[v] = at[v],
         AheadOf(w)' \subseteq AheadOf(w),
         NEW t \in AheadOf(w), t \notin AheadOf(w)'
  PROVE  Shrinks /\ Remaining' # Remaining
<1>1. Workers' = Workers /\ wpc \in [Workers -> Places]
  BY SameInputs DEF BatchInv, TypeOK, Places, Holding, AtItem
<1>2. wpc'[w] = s /\ \A v \in Workers \ {w} : wpc'[v] = wpc[v]
  BY <1>1
<1>3. Active' = Active
  BY <1>1, <1>2 DEF Active
<1>4. Finishes' = Finishes
  <2>1. \A v \in Workers : wpc'[v] = "idle" <=> wpc[v] = "idle"
    BY <1>2
  <2> QED
    BY <1>3, <2>1 DEF Finishes, Active
<1>5. Ahead' \subseteq Ahead /\ Ahead' # Ahead
  BY <1>2, OneMoves
<1>6. Signals' \subseteq Signals
  BY SignalsShrink
<1> QED
  BY <1>3, <1>4, <1>5, <1>6 DEF Shrinks, Remaining

(* Where a worker is in its group, and the item it is at.                  *)
LEMMA AtHeld ==
  ASSUME BatchInv, NEW w \in Workers, wpc[w] \in AtItem
  PROVE  /\ at[w] = <<at[w][1], at[w][2]>> /\ at[w][1] \in group[w]
         /\ at[w][2] \in Nat \ {0} /\ batch[at[w][1]].items \in Nat
         /\ wpc[w] # "item" => at[w][2] <= batch[at[w][1]].items
<1>1. Hold(w) /\ TypeOK
  BY DEF BatchInv, HoldInv
<1>2. at[w][1] \in group[w] /\ at[w][2] \in Nat \ {0} /\ at[w][1] \in DOMAIN batch
  BY <1>1 DEF Hold, First, TypeOK
<1>3. at[w] = <<at[w][1], at[w][2]>>
  BY <1>1 DEF TypeOK, Nowhere
<1>4. wpc[w] # "item" => at[w] \in Work(batch)
  BY <1>1 DEF Hold, AtItem
<1> QED
  BY <1>1, <1>2, <1>3, <1>4, WorkIs DEF TypeOK

(* Begun or skipped, a message is begun once; given up, a worker leaves.   *)
LEMMA BeginSpends ==
  ASSUME BatchInv, NEW w \in Workers, BeginMessage(w)
  PROVE  Shrinks /\ Remaining' # Remaining
<1> USE DEF mainVars, Stop
<1>0. wpc[w] = "message" /\ wpc[w] \notin Left \cup {"idle"} /\ UNCHANGED <<inputs, queued, pctx, main>>
  BY DEF BeginMessage, Left
<1>1. PICK i \in group[w] :
        \/ /\ cause' = FirstCause(CtxError) /\ wpc' = [wpc EXCEPT ![w] = "exited"]
           /\ UNCHANGED <<group, at>>
        \/ /\ cause' = cause /\ wpc' = [wpc EXCEPT ![w] = "item"]
           /\ at' = [at EXCEPT ![w] = <<i, 1>>] /\ UNCHANGED group
        \/ /\ cause' = cause /\ group' = [group EXCEPT ![w] = @ \ {i}]
           /\ UNCHANGED <<wpc, at>>
  BY DEF BeginMessage
<1> HIDE DEF Stop, mainVars
<1>t. /\ wpc \in [Workers -> Places] /\ at \in [Workers -> {Nowhere} \cup (DOMAIN batch) \X (Nat \ {0})]
      /\ group \in [Workers -> SUBSET DOMAIN batch]
  BY DEF BatchInv, TypeOK, Places, Holding, AtItem
<1>2. CASE cause' = FirstCause(CtxError) /\ wpc' = [wpc EXCEPT ![w] = "exited"]
           /\ UNCHANGED <<group, at>>
  <2>1. cause # NoError => cause' # NoError
    BY <1>2 DEF FirstCause
  <2>2. "exited" \in Left /\ wpc[w] \notin Left
    BY <1>0 DEF Left
  <2> QED
    BY <1>0, <1>2, <2>1, <2>2, LeavingSpends
<1>3. CASE /\ cause' = cause /\ wpc' = [wpc EXCEPT ![w] = "item"]
           /\ at' = [at EXCEPT ![w] = <<i, 1>>] /\ UNCHANGED group
  <2>1. wpc'[w] = "item" /\ at'[w] = <<i, 1>> /\ group'[w] = group[w]
        /\ \A v \in Workers \ {w} : group'[v] = group[v] /\ at'[v] = at[v]
    BY <1>t, <1>3
  <2>2. AheadOf(w) = StepsOf(group[w])
    BY <1>0 DEF AheadOf, AtItem
  <2>3. StepsOf(group[w])' = StepsOf(group[w])
    BY <1>0, <2>1, SameSteps DEF inputs
  <2>4. AheadOf(w)' \subseteq AheadOf(w)
    BY <2>2, <2>3 DEF AheadOf
  <2> DEFINE t == <<i, 0, "begin">>
  <2>5. t \in AheadOf(w)
    BY <2>2, StepsAre
  <2>6. t \notin AheadOf(w)'
    BY <2>1 DEF AheadOf, Behind, AtItem
  <2>7. "item" \notin Left \cup {"idle"}
    BY DEF Left
  <2> HIDE DEF t
  <2> QED
    BY <1>0, <1>3, <2>1, <2>4, <2>5, <2>6, <2>7, GoingOnSpends
<1>4. CASE /\ cause' = cause /\ group' = [group EXCEPT ![w] = @ \ {i}]
           /\ UNCHANGED <<wpc, at>>
  <2>1. group'[w] = group[w] \ {i}
        /\ \A v \in Workers \ {w} : group'[v] = group[v] /\ at'[v] = at[v]
    BY <1>t, <1>4
  <2>2. AheadOf(w) = StepsOf(group[w])
    BY <1>0 DEF AheadOf, AtItem
  <2>3. \A t \in AheadOf(w)' : t \in StepsOf(group[w] \ {i})
    BY <1>0, <2>1, SameSteps DEF AheadOf, inputs
  <2>4. AheadOf(w)' \subseteq AheadOf(w)
    BY <2>2, <2>3, StepsAre
  <2> DEFINE t == <<i, 0, "begin">>
  <2>5. t \in AheadOf(w)
    BY <2>2, StepsAre
  <2>6. t \notin AheadOf(w)'
    BY <2>3, StepsAre
  <2>7. wpc' = [wpc EXCEPT ![w] = wpc[w]]
    BY <1>t, <1>4
  <2> HIDE DEF t
  <2> QED
    BY <1>0, <1>4, <2>1, <2>4, <2>5, <2>6, <2>7, GoingOnSpends
<1> QED
  BY <1>1, <1>2, <1>3, <1>4

(* The head of the item loop: a message is finished once, an item checked  *)
(* once, or the worker leaves.                                             *)
LEMMA ItemSpends ==
  ASSUME BatchInv, NEW w \in Workers, NextItem(w)
  PROVE  Shrinks /\ Remaining' # Remaining
<1>0. wpc[w] = "item" /\ wpc[w] \notin Left \cup {"idle"} /\ UNCHANGED <<inputs, queued, pctx, main>>
  BY DEF NextItem, Left, mainVars
<1>t. /\ wpc \in [Workers -> Places] /\ at \in [Workers -> {Nowhere} \cup (DOMAIN batch) \X (Nat \ {0})]
      /\ group \in [Workers -> SUBSET DOMAIN batch]
  BY DEF BatchInv, TypeOK, Places, Holding, AtItem
<1>h. /\ at[w] = <<at[w][1], at[w][2]>> /\ at[w][1] \in group[w]
      /\ at[w][2] \in Nat \ {0} /\ batch[at[w][1]].items \in Nat
  BY <1>0, AtHeld DEF AtItem
<1>2. CASE MessageFinished(w)
  <2>0. /\ wpc' = [wpc EXCEPT ![w] = "message"] /\ cause' = cause
        /\ group' = [group EXCEPT ![w] = @ \ {at[w][1]}]
        /\ at' = [at EXCEPT ![w] = Nowhere]
    BY <1>2 DEF NextItem, LeaveMessage
  <2>1. wpc'[w] = "message" /\ group'[w] = group[w] \ {at[w][1]}
        /\ \A v \in Workers \ {w} : group'[v] = group[v] /\ at'[v] = at[v]
    BY <1>t, <2>0
  <2>3. \A t \in AheadOf(w)' : t \in StepsOf(group[w] \ {at[w][1]})
    BY <1>0, <2>1, SameSteps DEF AheadOf, inputs
  <2>4. AheadOf(w)' \subseteq AheadOf(w)
    <3>1. ASSUME NEW t \in AheadOf(w)' PROVE t \in AheadOf(w)
      <4>1. t[1] \in group[w] \ {at[w][1]} /\ t \in StepsOf(group[w])
        BY <2>3, StepsAre
      <4> QED
        BY <1>0, <4>1 DEF AheadOf, Behind, Left
    <3> QED
      BY <3>1
  <2> DEFINE t == <<at[w][1], 0, "leave">>
  <2>5. t \in AheadOf(w)
    BY <1>0, <1>h, StepsAre DEF AheadOf, Behind
  <2>6. t \notin AheadOf(w)'
    BY <2>3, StepsAre
  <2>7. "message" \notin Left \cup {"idle"}
    BY DEF Left
  <2> HIDE DEF t
  <2> QED
    BY <1>0, <2>0, <2>1, <2>4, <2>5, <2>6, <2>7, GoingOnSpends
<1>3. CASE ~MessageFinished(w) /\ ContextDone
  <2>1. /\ wpc' = [wpc EXCEPT ![w] = "exited"] /\ cause' = FirstCause(CtxError)
        /\ UNCHANGED <<group, at>>
    BY <1>3 DEF NextItem, Stop
  <2>2. cause # NoError => cause' # NoError
    BY <2>1 DEF FirstCause
  <2>3. "exited" \in Left
    BY DEF Left
  <2> QED
    BY <1>0, <2>1, <2>2, <2>3, LeavingSpends
<1>4. CASE ~MessageFinished(w) /\ ~ContextDone
  <2>0. wpc' = [wpc EXCEPT ![w] = "call"] /\ UNCHANGED <<cause, group, at>>
    BY <1>4 DEF NextItem
  <2>1. wpc'[w] = "call" /\ group'[w] = group[w] /\ at'[w] = at[w]
    BY <1>t, <2>0
  <2>3. StepsOf(group[w])' = StepsOf(group[w])
    BY <1>0, <2>1, SameSteps DEF inputs
  <2>4. AheadOf(w)' \subseteq AheadOf(w)
    BY <1>0, <2>1, <2>3 DEF AheadOf, Behind, Pending, AtItem, Left
  <2> DEFINE t == <<at[w][1], at[w][2], "check">>
  <2>a. at[w][2] \in 1..batch[at[w][1]].items
    BY <1>4, <1>h DEF MessageFinished
  <2>5. t \in AheadOf(w)
    <3>1. t \in StepsOf(group[w])
      BY <1>h, <2>a, StepsAre
    <3> QED
      BY <1>0, <1>h, <3>1 DEF AheadOf, Behind, Pending, Left
  <2>6. t \notin AheadOf(w)'
    BY <1>h, <2>1 DEF AheadOf, Behind, Pending, AtItem
  <2>7. "call" \notin Left \cup {"idle"}
    BY DEF Left
  <2> HIDE DEF t
  <2> QED
    BY <1>0, <2>0, <2>1, <2>4, <2>5, <2>6, <2>7, GoingOnSpends
<1> QED
  BY <1>2, <1>3, <1>4

(* A handler is called once and returns once for an item.                  *)
LEMMA HandlerSpends ==
  ASSUME BatchInv, NEW w \in Workers, NEW outcome, CallHandler(w) \/ HandlerReturns(w, outcome)
  PROVE  Shrinks /\ Remaining' # Remaining
<1>0. /\ wpc[w] \in {"call", "handler"} /\ wpc[w] \notin Left \cup {"idle"}
      /\ UNCHANGED <<inputs, queued, pctx, main, group>>
  BY DEF CallHandler, HandlerReturns, Left, mainVars
<1>t. /\ wpc \in [Workers -> Places] /\ at \in [Workers -> {Nowhere} \cup (DOMAIN batch) \X (Nat \ {0})]
  BY DEF BatchInv, TypeOK, Places, Holding, AtItem
<1>h. /\ at[w] = <<at[w][1], at[w][2]>> /\ at[w][1] \in group[w]
      /\ at[w][2] \in Nat \ {0} /\ batch[at[w][1]].items \in Nat
      /\ at[w][2] \in 1..batch[at[w][1]].items
  BY <1>0, AtHeld DEF AtItem
<1>s. StepsOf(group[w])' = StepsOf(group[w])
  BY <1>0, SameSteps DEF inputs
<1>i. \A s \in {"call", "return"} : <<at[w][1], at[w][2], s>> \in StepsOf(group[w])
  BY <1>h, StepsAre
<1>2. CASE CallHandler(w)
  <2>0. wpc[w] = "call" /\ wpc' = [wpc EXCEPT ![w] = "handler"] /\ UNCHANGED <<cause, at>>
    BY <1>2 DEF CallHandler
  <2>1. wpc'[w] = "handler" /\ at'[w] = at[w]
    BY <1>t, <2>0
  <2>4. AheadOf(w)' \subseteq AheadOf(w)
    BY <1>s, <2>0, <2>1 DEF AheadOf, Behind, Pending, AtItem, Left
  <2> DEFINE t == <<at[w][1], at[w][2], "call">>
  <2>5. t \in AheadOf(w)
    BY <1>0, <1>h, <1>i, <2>0 DEF AheadOf, Behind, Pending
  <2>6. t \notin AheadOf(w)'
    BY <1>h, <2>1 DEF AheadOf, Behind, Pending, AtItem
  <2>7. "handler" \notin Left \cup {"idle"}
    BY DEF Left
  <2> HIDE DEF t
  <2> QED
    BY <1>0, <2>0, <2>1, <2>4, <2>5, <2>6, <2>7, GoingOnSpends
<1>3. CASE HandlerReturns(w, outcome) /\ outcome = "ok"
  <2>0. /\ wpc[w] = "handler" /\ wpc' = [wpc EXCEPT ![w] = "item"] /\ cause' = cause
        /\ at' = [at EXCEPT ![w] = NextOf(@)]
    BY <1>3 DEF HandlerReturns
  <2>1. wpc'[w] = "item" /\ at'[w] = <<at[w][1], at[w][2] + 1>>
        /\ \A v \in Workers \ {w} : at'[v] = at[v]
    BY <1>t, <2>0 DEF NextOf
  <2>4. AheadOf(w)' \subseteq AheadOf(w)
    <3>1. ASSUME NEW t \in AheadOf(w)', t \notin AheadOf(w) PROVE FALSE
      <4>1. t \in StepsOf(group[w])
        BY <1>s, <3>1 DEF AheadOf
      <4>2. t[2] \in Nat
        BY <4>1, StepsAre
      <4>3. Behind(w, t)
        BY <1>0, <3>1, <4>1 DEF AheadOf
      <4>4. t[1] = at'[w][1] /\ t[3] # "leave" /\ t[2] < at[w][2] + 1
        BY <1>h, <2>1, <4>2, <4>3 DEF Behind
      <4>5. Behind(w, t)'
        BY <2>1, <4>4 DEF Behind
      <4> QED
        BY <2>1, <3>1, <4>5 DEF AheadOf, AtItem
    <3> QED
      BY <3>1
  <2> DEFINE t == <<at[w][1], at[w][2], "return">>
  <2>5. t \in AheadOf(w)
    BY <1>0, <1>h, <1>i, <2>0 DEF AheadOf, Behind, Pending
  <2>6. t \notin AheadOf(w)'
    BY <1>h, <2>1 DEF AheadOf, Behind, AtItem
  <2>7. "item" \notin Left \cup {"idle"}
    BY DEF Left
  <2> HIDE DEF t
  <2> QED
    BY <1>0, <2>0, <2>1, <2>4, <2>5, <2>6, <2>7, GoingOnSpends
<1>4. CASE HandlerReturns(w, outcome) /\ outcome # "ok"
  <2>1. PICK s \in Left : wpc' = [wpc EXCEPT ![w] = s] /\ at' = at
                          /\ (cause' = cause \/ cause' = FirstCause(at[w]))
    BY <1>4 DEF HandlerReturns, Stop, Left
  <2>2. cause # NoError => cause' # NoError
    BY <2>1 DEF FirstCause
  <2> QED
    BY <1>0, <2>1, <2>2, LeavingSpends
<1> QED
  BY <1>2, <1>3, <1>4

(* With one queue in sight a worker finishes one group.                    *)
LEMMA GroupEndSpends ==
  ASSUME BatchInv, NEW w \in Workers, WorkerDrains(w) \/ GroupFinished(w)
  PROVE  Shrinks /\ Remaining' # Remaining
<1>0. wpc[w] \notin Left /\ UNCHANGED <<inputs, queued, pctx, main, group, at, cause>>
  BY DEF WorkerDrains, GroupFinished, Left, mainVars
<1>1. CASE wpc' = [wpc EXCEPT ![w] = "exited"]
  <2>1. "exited" \in Left
    BY DEF Left
  <2> QED
    BY <1>0, <1>1, <2>1, LeavingSpends
<1>2. CASE wpc[w] = "message" /\ group[w] = {} /\ wpc' = [wpc EXCEPT ![w] = "idle"]
  <2>1. Workers' = Workers /\ wpc \in [Workers -> Places]
    BY <1>0, SameInputs DEF BatchInv, TypeOK, Places, Holding, AtItem
  <2>2. wpc'[w] = "idle" /\ \A v \in Workers \ {w} : wpc'[v] = wpc[v]
    BY <1>2, <2>1
  <2>3. Active' = Active /\ w \in Active
    BY <1>0, <2>1, <2>2 DEF Active, Left
  <2>4. Finishes' \subseteq Finishes
    BY <1>0, <1>2, <2>2, <2>3 DEF Finishes, Active
  <2>5. <<w, queued>> \in Finishes /\ <<w, queued>> \notin Finishes'
    BY <1>0, <1>2, <2>2, <2>3 DEF Finishes
  <2>6. AheadOf(w)' = {}
    <3>1. group'[w] = {}
      BY <1>0, <1>2
    <3> QED
      BY <3>1, StepsAre DEF AheadOf, StepsOf
  <2>7. Ahead' \subseteq Ahead
    BY <1>0, <2>2, <2>6, OneMoves
  <2>8. Signals' \subseteq Signals
    BY <1>0, SignalsShrink
  <2> QED
    BY <1>0, <2>3, <2>4, <2>5, <2>7, <2>8 DEF Shrinks, Remaining
<1> QED
  BY <1>1, <1>2 DEF WorkerDrains, GroupFinished

(* What is handed out is in the queue no more; its steps stay ahead.       *)
LEMMA HandOutSpends ==
  ASSUME BatchInv, NEW w \in Workers, HandOut(w)
  PROVE  Shrinks /\ Remaining' # Remaining
<1>0. wpc[w] = "idle" /\ wpc' = [wpc EXCEPT ![w] = "message"]
      /\ UNCHANGED <<inputs, pctx, main, cause, at>>
  BY DEF HandOut
<1>1. PICK i \in queued : /\ group' = [group EXCEPT ![w] = GroupOf(batch, i)]
                          /\ queued' = queued \ GroupOf(batch, i)
  BY DEF HandOut
<1>2. GroupOf(batch, i) \subseteq queued /\ i \in GroupOf(batch, i)
  BY <1>1 DEF BatchInv, ApartInv, TypeOK, GroupOf, Grouped
<1>3. queued' \subseteq queued /\ queued' # queued
  BY <1>1, <1>2
<1>4. Workers' = Workers /\ wpc \in [Workers -> Places] /\ group \in [Workers -> SUBSET DOMAIN batch]
  BY <1>0, SameInputs DEF BatchInv, TypeOK, Places, Holding, AtItem
<1>5. /\ wpc'[w] = "message" /\ group'[w] = GroupOf(batch, i)
      /\ \A v \in Workers \ {w} : wpc'[v] = wpc[v] /\ group'[v] = group[v]
  BY <1>0, <1>1, <1>4
<1>6. Active' = Active
  BY <1>0, <1>4, <1>5 DEF Active, Left
<1>7. Finishes' \subseteq Finishes
  BY <1>3, <1>6 DEF Finishes
<1>8. Ahead' \subseteq Ahead
  <2>1. ASSUME NEW t \in StepsOf(queued)' PROVE t \in Ahead
    <3>1. t \in StepsOf(queued')
      BY <1>0, SameSteps DEF inputs, StepsOf, MessageSteps
    <3> QED
      BY <1>3, <3>1, StepsAre DEF Ahead
  <2>2. ASSUME NEW t \in AheadOf(w)' PROVE t \in Ahead
    <3>1. t \in StepsOf(GroupOf(batch, i))
      BY <1>0, <1>5 DEF AheadOf, inputs, StepsOf, MessageSteps
    <3> QED
      BY <1>2, <3>1, StepsAre DEF Ahead
  <2>3. ASSUME NEW v \in Workers \ {w} PROVE AheadOf(v)' = AheadOf(v)
    <3>1. StepsOf(group[v])' = StepsOf(group[v])
      BY <1>0, <1>5, SameSteps DEF inputs, StepsOf, MessageSteps
    <3>2. wpc'[v] = wpc[v] /\ \A t : Behind(v, t)' <=> Behind(v, t)
      BY <1>0, <1>5 DEF Behind, Pending
    <3> QED
      BY <3>1, <3>2 DEF AheadOf
  <2>4. Ahead' = StepsOf(queued)' \cup UNION {AheadOf(v)' : v \in Workers}
    BY <1>4 DEF Ahead
  <2> QED
    BY <2>1, <2>2, <2>3, <2>4 DEF Ahead
<1>9. Signals' \subseteq Signals
  BY <1>0, SignalsShrink
<1> QED
  BY <1>3, <1>6, <1>7, <1>8, <1>9 DEF Shrinks, Remaining

(* The goroutine of Start and the contexts go through their states once.   *)
LEMMA MainSpends ==
  ASSUME BatchInv, CancelParent \/ Propagate \/ MainStep
  PROVE  Shrinks /\ Remaining' # Remaining
<1>0. UNCHANGED <<inputs, queued, wpc, group, at>>
  BY DEF CancelParent, Propagate, MainStep, StopHandingOut, CloseJobs, Return, mainVars, workerVars
<1>1. Ahead' = Ahead /\ Active' = Active /\ Finishes' = Finishes
  BY <1>0 DEF Ahead, AheadOf, Behind, Pending, StepsOf, MessageSteps, Active, Finishes,
              inputs, Workers
<1>2. \/ ~pctx /\ pctx' = TRUE /\ UNCHANGED <<cause, main>>
      \/ cause = NoError /\ cause' = CtxError /\ UNCHANGED <<pctx, main>>
      \/ main = "enqueue" /\ main' = "wait" /\ UNCHANGED <<pctx, cause>>
      \/ main = "wait" /\ main' = "returned" /\ UNCHANGED <<pctx, cause>>
  BY DEF CancelParent, Propagate, MainStep, StopHandingOut, CloseJobs, Return, mainVars
<1>3. CtxError # NoError
  BY VerdictAssumption
<1>4. Signals' \subseteq Signals
  BY <1>2, <1>3, SignalsShrink
<1>5. Signals' # Signals
  <2>1. CASE ~pctx /\ pctx' = TRUE
    <3>1. "cancel" \in Signals /\ "cancel" \notin Signals'
      BY <2>1 DEF Signals
    <3> QED
      BY <3>1
  <2>2. CASE cause = NoError /\ cause' = CtxError
    <3>1. "cause" \in Signals /\ "cause" \notin Signals'
      BY <1>3, <2>2 DEF Signals
    <3> QED
      BY <3>1
  <2>3. CASE main = "enqueue" /\ main' = "wait"
    <3>1. "close" \in Signals /\ "close" \notin Signals'
      BY <2>3 DEF Signals
    <3> QED
      BY <3>1
  <2>4. CASE main = "wait" /\ main' = "returned"
    <3>1. "return" \in Signals /\ "return" \notin Signals'
      BY <2>4 DEF Signals
    <3> QED
      BY <3>1
  <2> QED
    BY <1>2, <2>1, <2>2, <2>3, <2>4
<1> QED
  BY <1>0, <1>1, <1>4, <1>5 DEF Shrinks, Remaining

(* What is left of a batch is finite: a batch is a slice of messages.      *)
LEMMA StepsFinite ==
  ASSUME NEW D, IsFiniteSet(D), \A i \in D : batch[i].items \in Nat
  PROVE  IsFiniteSet(StepsOf(D))
<1>1. ASSUME NEW i \in D PROVE IsFiniteSet(MessageSteps(i))
  <2> DEFINE K == 1..batch[i].items
             C == {"check", "call", "return"}
             T == {<<i, k, s>> : k \in K, s \in C}
             B == {<<i, 0, "begin">>, <<i, 0, "leave">>}
             f == [p \in K \X C |-> <<i, p[1], p[2]>>]
  <2>1. IsFiniteSet(K)
    BY <1>1, FS_Interval
  <2>2. IsFiniteSet(C)
    <3>1. IsFiniteSet({"check"}) /\ IsFiniteSet({"call"}) /\ IsFiniteSet({"return"})
      BY FS_Singleton
    <3>2. IsFiniteSet({"check"} \cup {"call"} \cup {"return"})
      BY <3>1, FS_Union
    <3>3. C = {"check"} \cup {"call"} \cup {"return"}
      OBVIOUS
    <3> QED
      BY <3>2, <3>3
  <2>3. IsFiniteSet(B)
    <3>1. IsFiniteSet({<<i, 0, "begin">>}) /\ IsFiniteSet({<<i, 0, "leave">>})
      BY FS_Singleton
    <3>2. IsFiniteSet({<<i, 0, "begin">>} \cup {<<i, 0, "leave">>})
      BY <3>1, FS_Union
    <3>3. B = {<<i, 0, "begin">>} \cup {<<i, 0, "leave">>}
      OBVIOUS
    <3> QED
      BY <3>2, <3>3
  <2>4. f \in Surjection(K \X C, T)
    <3>1. f \in [K \X C -> T]
      OBVIOUS
    <3>2. ASSUME NEW k \in K, NEW s \in C PROVE f[<<k, s>>] = <<i, k, s>>
      OBVIOUS
    <3>3. ASSUME NEW t \in T PROVE \E p \in K \X C : f[p] = t
      <4>1. PICK k \in K, s \in C : t = <<i, k, s>>
        OBVIOUS
      <4>2. <<k, s>> \in K \X C
        OBVIOUS
      <4> HIDE DEF f, K, C, T
      <4> QED
        BY <3>2, <4>1, <4>2
    <3> HIDE DEF f, K, C, T
    <3> QED
      BY <3>1, <3>3 DEF Surjection
  <2>5. IsFiniteSet(K \X C)
    BY <2>1, <2>2, FS_Product
  <2> HIDE DEF K, C, f
  <2>6. IsFiniteSet(T)
    BY <2>4, <2>5, FS_Surjection
  <2> HIDE DEF T, B
  <2>7. IsFiniteSet(B \cup T)
    BY <2>3, <2>6, FS_Union
  <2> QED
    BY <2>7 DEF MessageSteps, B, T, K, C
<1> DEFINE M == {MessageSteps(i) : i \in D}
           g == [i \in D |-> MessageSteps(i)]
<1>2. g \in Surjection(D, M)
  BY DEF Surjection
<1>3. \A S \in M : IsFiniteSet(S)
  BY <1>1
<1> HIDE DEF g, M
<1>4. IsFiniteSet(M)
  BY <1>2, FS_Surjection
<1>5. IsFiniteSet(UNION M)
  BY <1>3, <1>4, FS_UNION
<1> QED
  BY <1>5 DEF StepsOf, M

(* So is the rest.                                                         *)
LEMMA RemainingFinite == BatchInv => \A n \in 1..5 : IsFiniteSet(Remaining[n])
<1> SUFFICES ASSUME BatchInv PROVE \A n \in 1..5 : IsFiniteSet(Remaining[n])
  OBVIOUS
<1>1. /\ IsFiniteSet(DOMAIN batch) /\ \A i \in DOMAIN batch : batch[i].items \in Nat
      /\ queued \subseteq DOMAIN batch
      /\ \A w \in Workers : group[w] \subseteq DOMAIN batch
  BY BatchAssumption DEF BatchInv, TypeOK, Grouped
<1>2. IsFiniteSet(Ahead)
  <2>1. IsFiniteSet(StepsOf(DOMAIN batch))
    BY <1>1, StepsFinite
  <2>2. \A S : S \subseteq DOMAIN batch => StepsOf(S) \subseteq StepsOf(DOMAIN batch)
    BY DEF StepsOf
  <2>3. Ahead \subseteq StepsOf(DOMAIN batch)
    BY <1>1, <2>2 DEF Ahead, AheadOf
  <2> QED
    BY <2>1, <2>3, FS_Subset
<1>3. IsFiniteSet(queued)
  BY <1>1, FS_Subset
<1>4. IsFiniteSet(Active)
  <2>1. HandlerConcurrency \in Int /\ 1 \in Int
    BY ConcurrencyAssumption DEF BatchInv, TypeOK
  <2>2. IsFiniteSet(Workers)
    BY <2>1, FS_Interval DEF Workers
  <2>3. Active \subseteq Workers
    BY DEF Active
  <2> QED
    BY <2>2, <2>3, FS_Subset
<1>5. IsFiniteSet(Finishes)
  <2>1. IsFiniteSet(Active \X SUBSET queued)
    BY <1>3, <1>4, FS_SUBSET, FS_Product
  <2>2. Finishes \subseteq Active \X SUBSET queued
    BY DEF Finishes
  <2> QED
    BY <2>1, <2>2, FS_Subset
<1>6. IsFiniteSet(Signals)
  <2> DEFINE S == {"cancel"} \cup {"cause"} \cup {"close"} \cup {"return"}
  <2>1. IsFiniteSet({"cancel"}) /\ IsFiniteSet({"cause"}) /\ IsFiniteSet({"close"})
        /\ IsFiniteSet({"return"})
    BY FS_Singleton
  <2>2. IsFiniteSet(S)
    BY <2>1, FS_Union
  <2>3. Signals \subseteq S
    BY DEF Signals
  <2> HIDE DEF S
  <2> QED
    BY <2>2, <2>3, FS_Subset
<1> QED
  BY <1>2, <1>3, <1>4, <1>5, <1>6 DEF Remaining

(* Every step of a batch uses up some of what is left of it, whatever the  *)
(* handlers do, however the workers interleave and whenever the context    *)
(* ends: no step is repeated, and nothing is ever put back into the queue  *)
(* (src/listener.go:144-270).                                              *)
THEOREM BatchRunsOut ==
    Spec => /\ [](\A n \in 1..5 : IsFiniteSet(Remaining[n]))
            /\ [][Shrinks /\ Remaining' # Remaining]_vars
<1>1. BatchInv /\ [Next]_vars => [Shrinks /\ Remaining' # Remaining]_vars
  <2> SUFFICES ASSUME BatchInv, Next, vars' # vars PROVE Shrinks /\ Remaining' # Remaining
    OBVIOUS
  <2>1. CASE \E w \in Workers : WorkerStep(w)
    BY <2>1, BeginSpends, ItemSpends, HandlerSpends, GroupEndSpends DEF WorkerStep
  <2> QED
    BY <2>1, HandOutSpends, MainSpends DEF Next, Returned
<1> QED
  BY InductiveBatch, RemainingFinite, <1>1, PTL DEF Spec
=============================================================================

-------------------------- MODULE FileStorageProofs --------------------------
(***************************************************************************)
(* Proofs about FileStorage, for any number of goroutines, paths, values   *)
(* and files, with failures and crashes anywhere: the store implements the *)
(* register of StateRegister, never leaves half a file under a state path, *)
(* and leaves a temporary file behind only where its removal failed or     *)
(* the process died.  None of this rests on the mutex: a file has one      *)
(* writer because every save makes a new one.                              *)
(***************************************************************************)
EXTENDS FileStorage, TLAPS

-----------------------------------------------------------------------------
(* The inductive invariant.                                                *)

(* The places of a call of each kind, from its first instruction on.       *)
Saving == {"write", "written", "rename", "cleanup"}
SavePlaces == {"create"} \cup Saving
ClearPlaces == {"remove", "removed"}
LoadPlaces == {"open", "read", "decode"}
Places == {"idle", "lock"} \cup SavePlaces \cup ClearPlaces \cup LoadPlaces

(* The parts of TypeOK the argument needs; the mutex has none.             *)
TypeInv ==
    /\ content \in [Files -> Values \cup {"empty", "partial"}]
    /\ temps \subseteq 1..created
    /\ stuck \subseteq temps
    /\ link \in [Paths -> 0..created]
    /\ created \in 0..MaxFiles
    /\ pc \in [Procs -> Places]
    /\ op \in [Procs -> Register!Ops \cup {NoOp}]
    /\ file \in [Procs -> 0..created]
    /\ done \in [Procs -> BOOLEAN]
    /\ got \in [Procs -> Values \cup {Missing, "empty", "partial"}]
    /\ outcome \in [Procs -> {"none", "ok", "error"}]
    /\ crashed \in BOOLEAN

(* A goroutine is where its call can be, and has changed or read the path  *)
(* only from the instruction on that does so.                              *)
CallInv ==
    \A p \in Procs :
        /\ pc[p] = "idle" <=> op[p] = NoOp
        /\ pc[p] \in SavePlaces => op[p].kind = "save"
        /\ pc[p] \in ClearPlaces => op[p].kind = "clear"
        /\ pc[p] \in LoadPlaces => op[p].kind = "load"
        /\ done[p] => pc[p] \in {"cleanup", "removed", "read", "decode"}
        /\ pc[p] \in {"removed", "read", "decode"} => done[p]

(* What is linked under a state path is complete, and is no temporary file.*)
LinkInv ==
    \A f \in Paths :
        link[f] # 0 => link[f] \notin temps /\ content[link[f]] \in Values

(* Two saves never share a file, and the file of a save is temporary until *)
(* it is renamed, with all of the value in it by then.                     *)
SaveInv ==
    /\ \A p, q \in Procs :
          pc[p] \in Saving /\ pc[q] \in Saving /\ p # q => file[p] # file[q]
    /\ \A p \in Procs :
          /\ pc[p] \in Saving => file[p] # 0
          /\ pc[p] \in {"write", "written", "rename"} => file[p] \in temps
          /\ pc[p] = "rename" => content[file[p]] = op[p].value

(* A load has found what its path held when it was opened, for no one      *)
(* writes to that file any more.                                           *)
LoadInv ==
    \A p \in Procs :
        pc[p] \in {"read", "decode"} =>
            /\ file[p] \notin temps
            /\ got[p] = IF file[p] = 0 THEN Missing ELSE content[file[p]]

(* Before any crash a temporary file is in the hands of a save, or its     *)
(* removal has failed, and then no save has it any more.                   *)
TempInv ==
    /\ ~crashed =>
          \A i \in temps \ stuck : \E p \in Procs : pc[p] \in Saving /\ file[p] = i
    /\ \A p \in Procs : pc[p] \in Saving => file[p] \notin stuck

StoreInv ==
    TypeInv /\ CallInv /\ LinkInv /\ SaveInv /\ LoadInv /\ TempInv

LEMMA OpsOf ==
    \A o \in Register!Ops :
        /\ o.kind \in {"save", "clear", "load"} /\ o.path \in Paths
        /\ o.kind = "save" => o.value \in Values
        /\ o.kind # "save" => o.value = Missing
        /\ o # NoOp
BY NoOpAssumption DEF Register!Ops

LEMMA InitInv == Init => StoreInv
<1> SUFFICES ASSUME Init PROVE StoreInv
  OBVIOUS
<1> USE DEF Init
<1>1. created \in 0..MaxFiles /\ temps \subseteq 1..created
  BY FilesAssumption
<1>2. content \in [Files -> Values \cup {"empty", "partial"}]
  OBVIOUS
<1>3. link \in [Paths -> 0..created] /\ file \in [Procs -> 0..created]
  OBVIOUS
<1>4. pc \in [Procs -> Places] /\ op \in [Procs -> Register!Ops \cup {NoOp}]
  BY DEF Places
<1>5. TypeInv
  BY <1>1, <1>2, <1>3, <1>4 DEF TypeInv
<1>6. CallInv
  BY OpsOf DEF CallInv, SavePlaces, ClearPlaces, LoadPlaces, Saving
<1>7. LinkInv /\ SaveInv /\ LoadInv /\ TempInv
  BY DEF LinkInv, SaveInv, LoadInv, TempInv, Saving
<1> QED
  BY <1>5, <1>6, <1>7 DEF StoreInv
-----------------------------------------------------------------------------
(* Each step preserves it.                                                 *)

(* A call that writes nothing returns.                                     *)
LEMMA ReturnKeeps ==
  ASSUME StoreInv, NEW p \in Procs, NEW o \in {"ok", "error"}, pc[p] \notin Saving,
         Return(p, o), UNCHANGED fileVars
  PROVE  StoreInv'
<1> USE DEF Places, SavePlaces, ClearPlaces, LoadPlaces, Saving
<1> USE DEF StoreInv, TypeInv, Return, Goto, fileVars
<1>1. TypeInv'
  BY OpsOf, FilesAssumption DEF Files
<1>2. CallInv'
  BY OpsOf DEF CallInv
<1>3. LinkInv' /\ SaveInv'
  BY DEF LinkInv, SaveInv
<1>4. LoadInv'
  BY DEF LoadInv
<1>5. TempInv'
  BY DEF TempInv
<1> QED
  BY <1>1, <1>2, <1>3, <1>4, <1>5

LEMMA FirstPlace ==
    \A o \in Register!Ops :
        /\ o.kind = "save" => Body(o) = "create"
        /\ o.kind = "clear" => Body(o) = "remove"
        /\ o.kind = "load" => Body(o) = "open"
BY OpsOf, Zenon DEF Body

(* A call arrives at its mutex or at its first instruction.                *)
LEMMA EnterKeeps ==
  ASSUME StoreInv, NEW p \in Procs, pc[p] \in {"idle", "lock"},
         NEW o \in Register!Ops, op' = [op EXCEPT ![p] = o],
         NEW place \in {"lock", Body(o)}, pc' = [pc EXCEPT ![p] = place],
         got' \in {got, [got EXCEPT ![p] = Missing]},
         outcome' \in {outcome, [outcome EXCEPT ![p] = "none"]},
         UNCHANGED <<fileVars, file, done, crashed>>
  PROVE  StoreInv'
<1> USE DEF Places, SavePlaces, ClearPlaces, LoadPlaces, Saving
<1> USE DEF StoreInv, TypeInv, fileVars
<1>1. /\ place \in {"lock", "create", "remove", "open"}
      /\ place = "create" => o.kind = "save"
      /\ place = "remove" => o.kind = "clear"
      /\ place = "open" => o.kind = "load"
  BY FirstPlace, OpsOf
<1>2. TypeInv'
  BY <1>1
<1>3. CallInv'
  BY <1>1, OpsOf DEF CallInv
<1>4. LinkInv'
  BY DEF LinkInv
<1>5. SaveInv'
  BY <1>1 DEF SaveInv
<1>6. LoadInv'
  BY <1>1 DEF LoadInv
<1>7. TempInv'
  BY <1>1 DEF TempInv
<1> QED
  BY <1>2, <1>3, <1>4, <1>5, <1>6, <1>7

(* A save makes itself a file.                                             *)
LEMMA CreateKeeps ==
  ASSUME StoreInv, NEW p \in Procs, Create(p)
  PROVE  StoreInv'
<1> USE DEF Places, SavePlaces, ClearPlaces, LoadPlaces, Saving
<1> USE DEF StoreInv, TypeInv
<1>1. CASE Return(p, "error") /\ UNCHANGED fileVars
  BY <1>1, ReturnKeeps DEF Create
<1>2. CASE ~(Return(p, "error") /\ UNCHANGED fileVars)
  <2>1. /\ pc[p] = "create" /\ created < MaxFiles /\ created' = created + 1
        /\ temps' = temps \cup {created + 1}
        /\ file' = [file EXCEPT ![p] = created + 1]
        /\ pc' = [pc EXCEPT ![p] = "write"]
        /\ UNCHANGED <<content, link, stuck, op, done, got, outcome, crashed>>
    BY <1>2 DEF Create, Goto
  <2>2. /\ created + 1 \notin temps
        /\ \A f \in Paths : link[f] # created + 1
        /\ \A q \in Procs : file[q] # created + 1
        /\ created \in Nat
    BY FilesAssumption
  <2>3. TypeInv'
    <3>1. created' \in 0..MaxFiles /\ temps' \subseteq 1..created'
      BY <2>1, FilesAssumption
    <3>2. link' \in [Paths -> 0..created'] /\ file' \in [Procs -> 0..created']
      BY <2>1, <2>2
    <3> QED
      BY <2>1, <3>1, <3>2
  <2>4. CallInv'
    BY <2>1 DEF CallInv
  <2>5. LinkInv'
    BY <2>1, <2>2 DEF LinkInv
  <2>6. SaveInv'
    BY <2>1, <2>2 DEF SaveInv
  <2>7. LoadInv'
    BY <2>1, <2>2 DEF LoadInv
  <2>8. TempInv'
    BY <2>1, <2>2 DEF TempInv
  <2> QED
    BY <2>3, <2>4, <2>5, <2>6, <2>7, <2>8
<1> QED
  BY <1>1, <1>2

(* A save writes to its own file, or fails to.                             *)
LEMMA FillKeeps ==
  ASSUME StoreInv, NEW p \in Procs, pc[p] \in {"write", "written"},
         NEW v \in Values \cup {"partial"},
         content' \in {content, [content EXCEPT ![file[p]] = v]},
         NEW place \in {"written", "rename", "cleanup"},
         pc[p] = "write" => place # "rename",
         pc' = [pc EXCEPT ![p] = place],
         place = "rename" => content'[file[p]] = op[p].value,
         UNCHANGED <<temps, link, created, stuck, callVars, crashed>>
  PROVE  StoreInv'
<1> USE DEF Places, SavePlaces, ClearPlaces, LoadPlaces, Saving
<1> USE DEF StoreInv, TypeInv, callVars
<1>1. file[p] \in temps /\ file[p] \in Files /\ op[p].kind = "save"
  BY FilesAssumption DEF SaveInv, CallInv, Files
<1>2. \A i \in Files : i # file[p] => content'[i] = content[i]
  OBVIOUS
<1>3. created \in Nat /\ 1..created \subseteq Files
  BY FilesAssumption DEF Files
<1>4. TypeInv'
  OBVIOUS
<1>5. CallInv'
  BY DEF CallInv
<1>6. LinkInv'
  BY <1>1, <1>2, <1>3 DEF LinkInv
<1>7. SaveInv'
  <2>1. \A q \in Procs : pc'[q] = "rename" => content'[file'[q]] = op'[q].value
    <3> SUFFICES ASSUME NEW q \in Procs, pc'[q] = "rename"
                 PROVE  content'[file'[q]] = op'[q].value
      OBVIOUS
    <3>1. CASE q = p
      BY <3>1
    <3>2. CASE q # p
      <4>1. pc[q] = "rename" /\ file[q] # file[p] /\ file[q] \in Files
        BY <3>2, <1>3 DEF SaveInv
      <4> QED
        BY <4>1, <1>2 DEF SaveInv
    <3> QED
      BY <3>1, <3>2
  <2> QED
    BY <1>1, <2>1 DEF SaveInv
<1>8. LoadInv'
  BY <1>1, <1>2, <1>3 DEF LoadInv
<1>9. TempInv'
  BY DEF TempInv
<1> QED
  BY <1>4, <1>5, <1>6, <1>7, <1>8, <1>9

(* The file of a save becomes the state file.                              *)
LEMMA RenameKeeps ==
  ASSUME StoreInv, NEW p \in Procs, Rename(p)
  PROVE  StoreInv'
<1> USE DEF Places, SavePlaces, ClearPlaces, LoadPlaces, Saving
<1> USE DEF StoreInv, TypeInv, Rename, Goto
<1>1. /\ file[p] \in temps /\ op[p] \in Register!Ops /\ op[p].kind = "save"
      /\ content[file[p]] = op[p].value
  BY DEF SaveInv, CallInv
<1>2. op[p].path \in Paths /\ op[p].value \in Values
  BY <1>1, OpsOf
<1>3. TypeInv'
  <2>1. stuck' \subseteq temps'
    BY DEF TempInv
  <2> QED
    BY <1>1, <1>2, <2>1
<1>4. CallInv'
  BY DEF CallInv
<1>5. LinkInv'
  BY <1>1, <1>2 DEF LinkInv
<1>6. SaveInv'
  BY DEF SaveInv
<1>7. LoadInv'
  BY DEF LoadInv
<1>8. TempInv'
  BY DEF TempInv
<1> QED
  BY <1>3, <1>4, <1>5, <1>6, <1>7, <1>8

(* Its temporary name, if it still has one, is removed, or is stuck.       *)
LEMMA CleanupKeeps ==
  ASSUME StoreInv, NEW p \in Procs, Cleanup(p)
  PROVE  StoreInv'
<1> USE DEF Places, SavePlaces, ClearPlaces, LoadPlaces, Saving
<1> USE DEF StoreInv, TypeInv, Cleanup, Return, Goto
<1>1. /\ outcome' \in [Procs -> {"none", "ok", "error"}]
      /\ file' \in [Procs -> 0..created]
  BY FilesAssumption
<1>a. \/ temps' = temps \ {file[p]} /\ stuck' = stuck
      \/ file[p] \in temps /\ temps' = temps /\ stuck' = stuck \cup {file[p]}
  OBVIOUS
<1>b. file[p] \notin stuck /\ stuck \subseteq temps
  BY DEF TempInv
<1>2. TypeInv'
  <2>1. stuck' \subseteq temps' /\ temps' \subseteq temps
    BY ONLY <1>a, <1>b
  <2> QED
    BY <1>1, <2>1
<1>3. CallInv'
  BY OpsOf DEF CallInv
<1>4. LinkInv'
  BY DEF LinkInv
<1>5. SaveInv'
  BY DEF SaveInv
<1>6. LoadInv'
  BY DEF LoadInv
<1>7. TempInv'
  <2>1. \A q \in Procs : q # p => pc'[q] = pc[q] /\ file'[q] = file[q]
    OBVIOUS
  <2>2. pc'[p] = "idle" /\ crashed' = crashed
    OBVIOUS
  <2>3. \A i \in temps' \ stuck' : i \in temps \ stuck /\ i # file[p]
    BY ONLY <1>a, <1>b
  <2>4. \A q \in Procs : pc'[q] \in Saving => file'[q] \notin stuck'
    BY <1>a, <2>1, <2>2 DEF TempInv, SaveInv
  <2>5. ~crashed' =>
          \A i \in temps' \ stuck' : \E q \in Procs : pc'[q] \in Saving /\ file'[q] = i
    <3>1. ~crashed => \A i \in temps \ stuck : \E q \in Procs : pc[q] \in Saving /\ file[q] = i
      BY DEF TempInv
    <3> QED
      BY ONLY <2>1, <2>2, <2>3, <3>1
  <2> QED
    BY <2>4, <2>5 DEF TempInv
<1> QED
  BY <1>2, <1>3, <1>4, <1>5, <1>6, <1>7

LEMMA RemoveKeeps ==
  ASSUME StoreInv, NEW p \in Procs, Remove(p)
  PROVE  StoreInv'
<1> USE DEF Places, SavePlaces, ClearPlaces, LoadPlaces, Saving
<1> USE DEF StoreInv, TypeInv
<1>1. CASE Return(p, "error") /\ UNCHANGED fileVars
  BY <1>1, ReturnKeeps DEF Remove
<1>2. CASE ~(Return(p, "error") /\ UNCHANGED fileVars)
  <2>1. /\ pc[p] = "remove"
        /\ link' = [link EXCEPT ![op[p].path] = 0]
        /\ done' = [done EXCEPT ![p] = TRUE]
        /\ pc' = [pc EXCEPT ![p] = "removed"]
        /\ UNCHANGED <<content, temps, created, stuck, op, file, got, outcome, crashed>>
    BY <1>2 DEF Remove, Goto
  <2>2. TypeInv'
    <3>1. 0 \in 0..created
      BY FilesAssumption
    <3>2. link' \in [Paths -> 0..created]
      BY <2>1, <3>1
    <3> QED
      BY <2>1, <3>2
  <2>3. CallInv'
    BY <2>1 DEF CallInv
  <2>4. LinkInv'
    BY <2>1 DEF LinkInv
  <2>5. SaveInv'
    BY <2>1 DEF SaveInv
  <2>6. LoadInv'
    BY <2>1 DEF LoadInv
  <2>7. TempInv'
    BY <2>1 DEF TempInv
  <2> QED
    BY <2>2, <2>3, <2>4, <2>5, <2>6, <2>7
<1> QED
  BY <1>1, <1>2

(* A load has opened, or found missing, what the path leads to.            *)
LEMMA OpenKeeps ==
  ASSUME StoreInv, NEW p \in Procs, Open(p)
  PROVE  StoreInv'
<1> USE DEF Places, SavePlaces, ClearPlaces, LoadPlaces, Saving
<1> USE DEF StoreInv, TypeInv
<1>1. CASE Return(p, "error") /\ UNCHANGED fileVars
  BY <1>1, ReturnKeeps DEF Open
<1>2. CASE ~(Return(p, "error") /\ UNCHANGED fileVars)
  <2> DEFINE i == link[op[p].path]
  <2>1. /\ pc[p] = "open"
        /\ file' = [file EXCEPT ![p] = i]
        /\ got' = [got EXCEPT ![p] = IF i = 0 THEN Missing ELSE content[i]]
        /\ done' = [done EXCEPT ![p] = TRUE]
        /\ pc' = [pc EXCEPT ![p] = "read"]
        /\ UNCHANGED <<content, temps, link, created, stuck, op, outcome, crashed>>
    BY <1>2, OpsOf DEF Open, Goto, fileVars, Held, CallInv
  <2>2. op[p].path \in Paths
    BY <2>1, OpsOf DEF CallInv
  <2>3. /\ i \in 0..created
        /\ i # 0 => i \notin temps /\ content[i] \in Values
        /\ 0 \notin temps
    BY <2>2 DEF LinkInv
  <2> HIDE DEF i
  <2>4. TypeInv'
    BY <2>1, <2>3
  <2>5. CallInv'
    BY <2>1 DEF CallInv
  <2>6. LinkInv'
    BY <2>1 DEF LinkInv
  <2>7. SaveInv'
    BY <2>1 DEF SaveInv
  <2>8. LoadInv'
    BY <2>1, <2>3 DEF LoadInv
  <2>9. TempInv'
    BY <2>1 DEF TempInv
  <2> QED
    BY <2>4, <2>5, <2>6, <2>7, <2>8, <2>9
<1> QED
  BY <1>1, <1>2

LEMMA ReadKeeps ==
  ASSUME StoreInv, NEW p \in Procs, Read(p)
  PROVE  StoreInv' /\ got' = got
<1> USE DEF Places, SavePlaces, ClearPlaces, LoadPlaces, Saving
<1> USE DEF StoreInv, TypeInv, Read, Goto, fileVars
<1>1. got' = got
  BY DEF LoadInv
<1>2. TypeInv'
  BY <1>1
<1>3. CallInv'
  BY DEF CallInv
<1>4. LinkInv' /\ SaveInv'
  BY DEF LinkInv, SaveInv
<1>5. LoadInv'
  BY <1>1 DEF LoadInv
<1>6. TempInv'
  BY DEF TempInv
<1> QED
  BY <1>1, <1>2, <1>3, <1>4, <1>5, <1>6

LEMMA CrashKeeps ==
  ASSUME StoreInv, Crash
  PROVE  StoreInv'
<1> USE DEF Places, SavePlaces, ClearPlaces, LoadPlaces, Saving
<1> USE DEF StoreInv, TypeInv, Crash, fileVars
<1>1. TypeInv'
  BY FilesAssumption
<1>2. CallInv'
  BY DEF CallInv
<1>3. LinkInv' /\ SaveInv'
  BY DEF LinkInv, SaveInv
<1>4. LoadInv' /\ TempInv'
  BY DEF LoadInv, TempInv
<1> QED
  BY <1>1, <1>2, <1>3, <1>4

LEMMA CallKeeps ==
  ASSUME StoreInv, NEW p \in Procs, NEW o \in Register!Ops, Call(p, o)
  PROVE  StoreInv'
<1>1. PICK place \in {"lock", Body(o)} : pc' = [pc EXCEPT ![p] = place]
  BY DEF Call, Goto
<1> QED
  BY <1>1, EnterKeeps DEF Call

LEMMA LockKeeps ==
  ASSUME StoreInv, NEW p \in Procs, Lock(p)
  PROVE  StoreInv'
<1>1. op[p] \in Register!Ops /\ op' = [op EXCEPT ![p] = op[p]]
  BY DEF Lock, callVars, StoreInv, TypeInv, CallInv
<1> QED
  BY <1>1, EnterKeeps DEF Lock, Goto, callVars

LEMMA WriteKeeps ==
  ASSUME StoreInv, NEW p \in Procs, Write(p)
  PROVE  StoreInv'
<1>1. PICK place \in {"written", "cleanup"} : pc' = [pc EXCEPT ![p] = place]
  BY DEF Write, Goto
<1> QED
  BY <1>1, FillKeeps DEF Write

LEMMA FinishKeeps ==
  ASSUME StoreInv, NEW p \in Procs, Finish(p)
  PROVE  StoreInv'
<1>1. /\ op[p].value \in Values
      /\ file[p] \in DOMAIN content
  BY OpsOf, FilesAssumption
     DEF Finish, StoreInv, TypeInv, CallInv, SaveInv, SavePlaces, Saving, Files
<1>2. CASE pc' = [pc EXCEPT ![p] = "rename"] /\ content' = [content EXCEPT ![file[p]] = op[p].value]
  BY <1>1, <1>2, FillKeeps DEF Finish
<1>3. CASE pc' = [pc EXCEPT ![p] = "cleanup"] /\ UNCHANGED content
  BY <1>1, <1>3, FillKeeps DEF Finish
<1> QED
  BY <1>2, <1>3 DEF Finish, Goto

LEMMA StepKeeps ==
  ASSUME StoreInv, NEW p \in Procs, Step(p)
  PROVE  StoreInv'
<1>1. CASE Removed(p) \/ Decode(p)
  BY <1>1, ReturnKeeps DEF Removed, Decode, Saving
<1> QED
  BY <1>1, LockKeeps, CreateKeeps, WriteKeeps, FinishKeeps, RenameKeeps,
     CleanupKeeps, RemoveKeeps, OpenKeeps, ReadKeeps DEF Step

-----------------------------------------------------------------------------
(* The theorems.                                                           *)

LEMMA NextKeeps == StoreInv /\ [Next]_vars => StoreInv'
<1> SUFFICES ASSUME StoreInv, [Next]_vars PROVE StoreInv'
  OBVIOUS
<1>1. CASE UNCHANGED vars
  BY <1>1 DEF vars, StoreInv, TypeInv, CallInv, LinkInv, SaveInv, LoadInv, TempInv
<1>2. ASSUME NEW p \in Procs, Step(p) PROVE StoreInv'
  BY <1>2, StepKeeps
<1>3. ASSUME NEW p \in Procs, NEW o \in Register!Ops, Call(p, o) PROVE StoreInv'
  BY <1>3, CallKeeps
<1>4. CASE Crash
  BY <1>4, CrashKeeps
<1> QED
  BY <1>1, <1>2, <1>3, <1>4 DEF Next

(* The invariant holds in every state the store reaches.                   *)
THEOREM InductiveStore == Spec => []StoreInv
BY InitInv, NextKeeps, PTL DEF Spec

(* No one ever finds half a file under a state path, whatever fails and    *)
(* whenever the process dies (src/storage.go:131).                         *)
THEOREM NeverTorn == Spec => []NoTornFile
<1>1. StoreInv => NoTornFile
  BY DEF StoreInv, LinkInv, NoTornFile
<1> QED
  BY <1>1, InductiveStore, PTL

(* Without a crash, a store that rests has no temporary file but those     *)
(* whose removal failed (src/storage.go:205).                              *)
THEOREM NothingLeftOver == Spec => []NoLeftovers
<1>1. StoreInv => NoLeftovers
  BY DEF StoreInv, TypeInv, TempInv, NoLeftovers, Saving
<1> QED
  BY <1>1, InductiveStore, PTL
-----------------------------------------------------------------------------
(* The refinement: what the register of a path holds is what its file does.*)

LEMMA InitRefines == Init => Register!Init
BY DEF Init, Held, Register!Init

(* Content and links that stay leave every register alone.                 *)
LEMMA SameHeld ==
  ASSUME UNCHANGED <<content, link>> PROVE Held' = Held
BY DEF Held

(* So does writing to a temporary file.                                    *)
LEMMA TempHeld ==
  ASSUME StoreInv, NEW i \in temps, NEW v,
         content' \in {content, [content EXCEPT ![i] = v]}, UNCHANGED link
  PROVE  Held' = Held
BY FilesAssumption DEF Held, StoreInv, TypeInv, LinkInv, Files

(* A call that has returned nil has taken effect, one that has returned an *)
(* error has not, or was a load.                                           *)
LEMMA ReturnRefines ==
  ASSUME NEW p \in Procs, NEW o, Return(p, o), UNCHANGED <<content, link>>,
         op[p] # NoOp, o = "ok" => done[p],
         o = "error" => ~done[p] \/ op[p].kind = "load"
  PROVE  Register!Return(p, o)
BY SameHeld DEF Return, Register!Return

LEMMA StepRefines ==
  ASSUME StoreInv, NEW p \in Procs, Step(p)
  PROVE  \/ Register!Apply(p)
         \/ \E o \in {"ok", "error"} : Register!Return(p, o)
         \/ UNCHANGED Register!vars
<1> DEFINE Returns == \E o \in {"ok", "error"} : Register!Return(p, o)
<1>0. /\ pc[p] # "idle" => op[p] # NoOp
      /\ pc[p] \in SavePlaces => op[p].kind = "save"
      /\ pc[p] \in ClearPlaces => op[p].kind = "clear"
      /\ pc[p] \in LoadPlaces => op[p].kind = "load"
      /\ done[p] => pc[p] \in {"cleanup", "removed", "read", "decode"}
      /\ pc[p] \in {"removed", "read", "decode"} => done[p]
  BY DEF StoreInv, CallInv
<1>1. /\ op[p] \in Register!Ops \cup {NoOp}
      /\ pc[p] \in SavePlaces \cup ClearPlaces \cup LoadPlaces =>
            /\ op[p].path \in Paths
            /\ op[p].kind = "clear" => op[p].value = Missing
      /\ done \in [Procs -> BOOLEAN]
  BY <1>0, OpsOf DEF StoreInv, TypeInv, SavePlaces, ClearPlaces, LoadPlaces, Saving
<1> USE <1>0 DEF SavePlaces, ClearPlaces, LoadPlaces, Saving
<1>2. CASE Lock(p)
  BY <1>2, SameHeld DEF Lock, fileVars, callVars, Register!vars
<1>3. CASE Create(p)
  <2>1. CASE Return(p, "error") /\ UNCHANGED fileVars
    BY <1>3, <2>1, ReturnRefines DEF Create, fileVars
  <2>2. CASE ~(Return(p, "error") /\ UNCHANGED fileVars)
    BY <1>3, <2>2, SameHeld DEF Create, Register!vars
  <2> QED
    BY <2>1, <2>2
<1>4. CASE Write(p) \/ Finish(p)
  <2>1. file[p] \in temps
    BY <1>4 DEF Write, Finish, StoreInv, SaveInv
  <2>2. UNCHANGED <<op, done, got, outcome, link>>
    BY <1>4 DEF Write, Finish, callVars
  <2>3. \E v : content' \in {content, [content EXCEPT ![file[p]] = v]}
    BY <1>4 DEF Write, Finish
  <2> QED
    BY <2>1, <2>2, <2>3, TempHeld DEF Register!vars
<1>5. CASE Rename(p)
  <2>1. CASE UNCHANGED <<link, temps, done>>
    BY <1>5, <2>1, SameHeld DEF Rename, Register!vars
  <2>2. CASE ~UNCHANGED <<link, temps, done>>
    <3>1. /\ pc[p] = "rename" /\ link' = [link EXCEPT ![op[p].path] = file[p]]
          /\ done' = [done EXCEPT ![p] = TRUE]
          /\ UNCHANGED <<content, op, got, outcome>>
      BY <1>5, <2>2 DEF Rename
    <3>2. file[p] # 0 /\ content[file[p]] = op[p].value /\ link \in [Paths -> 0..created]
      BY <3>1 DEF StoreInv, SaveInv, TypeInv
    <3>3. Held' = [Held EXCEPT ![op[p].path] = op[p].value]
      BY <3>1, <3>2 DEF Held
    <3> QED
      BY <1>1, <3>1, <3>3 DEF Register!Apply
  <2> QED
    BY <2>1, <2>2
<1>6. CASE Cleanup(p)
  <2>1. PICK o \in {"ok", "error"} : Return(p, o) /\ (o = "ok" <=> done[p])
    BY <1>6 DEF Cleanup
  <2> QED
    BY <1>6, <2>1, ReturnRefines DEF Cleanup
<1>7. CASE Remove(p)
  <2>1. CASE Return(p, "error") /\ UNCHANGED fileVars
    BY <1>7, <2>1, ReturnRefines DEF Remove, fileVars
  <2>2. CASE ~(Return(p, "error") /\ UNCHANGED fileVars)
    <3>1. /\ pc[p] = "remove" /\ link' = [link EXCEPT ![op[p].path] = 0]
          /\ done' = [done EXCEPT ![p] = TRUE]
          /\ UNCHANGED <<content, op, got, outcome>>
      BY <1>7, <2>2 DEF Remove
    <3>2. link \in [Paths -> 0..created]
      BY DEF StoreInv, TypeInv
    <3>3. Held' = [Held EXCEPT ![op[p].path] = op[p].value]
      BY <1>1, <3>1, <3>2 DEF Held
    <3> QED
      BY <1>1, <3>1, <3>3 DEF Register!Apply
  <2> QED
    BY <2>1, <2>2
<1>8. CASE Removed(p)
  BY <1>8, ReturnRefines DEF Removed, fileVars
<1>9. CASE Open(p)
  <2>1. CASE Return(p, "error") /\ UNCHANGED fileVars
    BY <1>9, <2>1, ReturnRefines DEF Open, fileVars
  <2>2. CASE ~(Return(p, "error") /\ UNCHANGED fileVars)
    BY <1>1, <1>9, <2>2, SameHeld DEF Open, fileVars, Register!Apply
  <2> QED
    BY <2>1, <2>2
<1>10. CASE Read(p)
  BY <1>10, ReadKeeps, SameHeld DEF Read, fileVars, Register!vars
<1>11. CASE Decode(p)
  BY <1>11, ReturnRefines DEF Decode, fileVars
<1> QED
  BY <1>2, <1>3, <1>4, <1>5, <1>6, <1>7, <1>8, <1>9, <1>10, <1>11 DEF Step

LEMMA NextRefines ==
  StoreInv /\ [Next]_vars => [Register!Next]_(Register!vars)
<1> SUFFICES ASSUME StoreInv, [Next]_vars PROVE [Register!Next]_(Register!vars)
  OBVIOUS
<1>1. CASE UNCHANGED vars
  BY <1>1, SameHeld DEF vars, Register!vars
<1>2. ASSUME NEW p \in Procs, Step(p) PROVE [Register!Next]_(Register!vars)
  BY <1>2, StepRefines DEF Register!Next
<1>3. ASSUME NEW p \in Procs, NEW o \in Register!Ops, Call(p, o)
      PROVE  Register!Call(p, o)
  <2>1. op[p] = NoOp
    BY <1>3 DEF Call, StoreInv, CallInv
  <2> QED
    BY <1>3, <2>1, SameHeld DEF Call, fileVars, Register!Call
<1>4. CASE Crash
  BY <1>4, SameHeld DEF Crash, fileVars, Register!Crash, Register!Next
<1> QED
  BY <1>1, <1>2, <1>3, <1>4 DEF Next, Register!Next

(* The store behaves as a register per path: a load returns what the last  *)
(* successful save or clear before some instant of the call left there,    *)
(* and a failed save or clear has had no effect (src/storage.go:14-21,     *)
(* 111-228).                                                               *)
THEOREM StoreIsRegister == Spec => ImplementsRegister
BY InitRefines, NextRefines, InductiveStore, PTL
   DEF Spec, ImplementsRegister, Register!Spec
=============================================================================

----------------------------- MODULE FileStorage -----------------------------
(***************************************************************************)
(* src/storage.go: FileBufStorage (111-157), SaveCredentials and           *)
(* LoadCredentials (162-191), and writePrivateFile (193-228) under both,   *)
(* down to the files in one state directory.                               *)
(*                                                                         *)
(* The cursor operations hold FileBufStorage.mu from their first line to   *)
(* their return; the two credentials functions take no lock at all.  Every *)
(* system call may fail, the removal of a temporary file among them; so    *)
(* may every check of the context, which is why a cancelled context needs  *)
(* no variable of its own here.                                            *)
(*                                                                         *)
(* A file is a number, 0 for none: os.CreateTemp makes a new one under a   *)
(* name of its own, and os.Rename moves that name.  That a random name is  *)
(* never picked again is an assumption of the model.                       *)
(***************************************************************************)
EXTENDS Naturals, FiniteSets

CONSTANTS Procs,      \* the goroutines that use the store
          Paths,      \* the state files
          LockedPaths,\* those FileBufStorage guards with its mutex
          Values,     \* cursors, or credentials
          Missing,    \* what loading a file that does not exist returns
          NoOp,       \* a goroutine outside any call
          Free,       \* the mutex is not held
          MaxFiles    \* bound: temporary files ever created

ASSUME PathsAssumption == LockedPaths \subseteq Paths
ASSUME FilesAssumption == MaxFiles \in Nat

VARIABLES
    content,    \* per file: "empty", "partial" or a complete value
    temps,      \* the files that are linked under their temporary name
    link,       \* per path: the file linked there, or 0
    created,    \* files created so far
    stuck,      \* history: the files whose removal has failed
    mutex,      \* FileBufStorage.mu: its holder, or Free
    pc,         \* per goroutine: where it is
    op,         \* per goroutine: the call it is in
    file,       \* per goroutine: the file it has open
    done,       \* per goroutine: its call has changed, or read, the path
    got,        \* per goroutine: what its load read
    outcome,    \* per goroutine: how its last call ended
    crashed     \* history: the process has died at least once

vars == <<content, temps, link, created, stuck, mutex, pc, op, file, done, got,
          outcome, crashed>>
fileVars == <<content, temps, link, created, stuck>>
callVars == <<op, file, done, got, outcome>>

Files == 1..MaxFiles

(* What is found under each path.                                          *)
Held == [f \in Paths |-> IF link[f] = 0 THEN Missing ELSE content[link[f]]]

(* The register this file store is.                                        *)
Register == INSTANCE StateRegister WITH value <- Held, applied <- done

\* nil is no call.
ASSUME NoOpAssumption == NoOp \notin Register!Ops
-----------------------------------------------------------------------------
Init ==
    /\ content = [i \in Files |-> "empty"]
    /\ temps = {}
    /\ link = [f \in Paths |-> 0]
    /\ created = 0
    /\ stuck = {}
    /\ mutex = Free
    /\ pc = [p \in Procs |-> "idle"]
    /\ op = [p \in Procs |-> NoOp]
    /\ file = [p \in Procs |-> 0]
    /\ done = [p \in Procs |-> FALSE]
    /\ got = [p \in Procs |-> Missing]
    /\ outcome = [p \in Procs |-> "none"]
    /\ crashed = FALSE

Locked(p) == op[p].path \in LockedPaths

Goto(p, place) == pc' = [pc EXCEPT ![p] = place]

(* The first instruction of each kind of call.                             *)
Body(o) ==
    CASE o.kind = "save" -> "create"
      [] o.kind = "clear" -> "remove"
      [] o.kind = "load" -> "open"

(* SaveBuf, ClearBuf, LoadBuf, SaveCredentials or LoadCredentials is       *)
(* called.  There is no function that removes credentials.                 *)
Call(p, o) ==
    /\ pc[p] = "idle"
    /\ o.kind = "clear" => o.path \in LockedPaths
    /\ op' = [op EXCEPT ![p] = o]
    /\ Goto(p, IF o.path \in LockedPaths THEN "lock" ELSE Body(o))
    /\ outcome' = [outcome EXCEPT ![p] = "none"]
    /\ got' = [got EXCEPT ![p] = Missing]
    /\ UNCHANGED <<fileVars, mutex, file, done, crashed>>

Lock(p) ==
    /\ pc[p] = "lock"
    /\ mutex = Free
    /\ mutex' = p
    /\ Goto(p, Body(op[p]))
    /\ UNCHANGED <<fileVars, callVars, crashed>>

\* Variant of Return: no deferred Unlock.
ReturnHoldingLock(p, o) ==
    /\ UNCHANGED mutex
    /\ Goto(p, "idle")
    /\ op' = [op EXCEPT ![p] = NoOp]
    /\ file' = [file EXCEPT ![p] = 0]
    /\ done' = [done EXCEPT ![p] = FALSE]
    /\ outcome' = [outcome EXCEPT ![p] = o]
    /\ UNCHANGED <<got, crashed>>

(* The call returns, with or without an error, and gives the mutex back.   *)
Return(p, o) ==
    /\ mutex' = IF Locked(p) THEN Free ELSE mutex
    /\ Goto(p, "idle")
    /\ op' = [op EXCEPT ![p] = NoOp]
    /\ file' = [file EXCEPT ![p] = 0]
    /\ done' = [done EXCEPT ![p] = FALSE]
    /\ outcome' = [outcome EXCEPT ![p] = o]
    /\ UNCHANGED <<got, crashed>>
-----------------------------------------------------------------------------
(* writePrivateFile.                                                       *)

(* The context is checked, the directory made, and a temporary file        *)
(* created in it; any of that may fail, and then nothing is left behind.   *)
Create(p) ==
    /\ pc[p] = "create"
    /\ \/ /\ created < MaxFiles
          /\ created' = created + 1
          /\ temps' = temps \cup {created'}
          /\ file' = [file EXCEPT ![p] = created']
          /\ Goto(p, "write")
          /\ UNCHANGED <<content, link, stuck, mutex, op, done, got, outcome,
                         crashed>>
       \/ Return(p, "error") /\ UNCHANGED fileVars

(* Chmod and the first bytes; both errors lead to the deferred Remove.     *)
Write(p) ==
    /\ pc[p] = "write"
    /\ \/ content' = [content EXCEPT ![file[p]] = "partial"] /\ Goto(p, "written")
       \/ Goto(p, "cleanup") /\ UNCHANGED content
    /\ UNCHANGED <<temps, link, created, stuck, mutex, callVars, crashed>>

\* Variant of Finish: the error of Write or Sync is dropped.
IgnoreWriteError(p) ==
    /\ pc[p] = "written"
    /\ \/ content' = [content EXCEPT ![file[p]] = op[p].value] /\ Goto(p, "rename")
       \/ Goto(p, "rename") /\ UNCHANGED content
    /\ UNCHANGED <<temps, link, created, stuck, mutex, callVars, crashed>>

(* The last bytes, Sync, Close and the second look at the context.         *)
Finish(p) ==
    /\ pc[p] = "written"
    /\ \/ content' = [content EXCEPT ![file[p]] = op[p].value] /\ Goto(p, "rename")
       \/ Goto(p, "cleanup") /\ UNCHANGED content
    /\ UNCHANGED <<temps, link, created, stuck, mutex, callVars, crashed>>

(* os.Rename onto the path, atomic on the filesystems the comment names.   *)
Rename(p) ==
    /\ pc[p] = "rename"
    /\ \/ /\ link' = [link EXCEPT ![op[p].path] = file[p]]
          /\ temps' = temps \ {file[p]}
          /\ done' = [done EXCEPT ![p] = TRUE]
       \/ UNCHANGED <<link, temps, done>>
    /\ Goto(p, "cleanup")
    /\ UNCHANGED <<content, created, stuck, mutex, op, file, got, outcome, crashed>>

\* Variant of Cleanup: no deferred Remove.
ReturnWithoutRemove(p) ==
    /\ pc[p] = "cleanup"
    /\ UNCHANGED fileVars
    /\ Return(p, IF done[p] THEN "ok" ELSE "error")

(* The deferred os.Remove of the temporary name: after a rename there is   *)
(* no such name, and otherwise it may fail.  Its error is ignored either   *)
(* way: writePrivateFile returns what it would have returned.              *)
Cleanup(p) ==
    /\ pc[p] = "cleanup"
    /\ \/ temps' = temps \ {file[p]} /\ UNCHANGED stuck
       \/ /\ file[p] \in temps
          /\ stuck' = stuck \cup {file[p]}
          /\ UNCHANGED temps
    /\ UNCHANGED <<content, link, created>>
    /\ Return(p, IF done[p] THEN "ok" ELSE "error")
-----------------------------------------------------------------------------
(* ClearBuf and the loads.                                                 *)

(* os.Remove; a path that does not exist is no error.                      *)
Remove(p) ==
    /\ pc[p] = "remove"
    /\ \/ /\ link' = [link EXCEPT ![op[p].path] = 0]
          /\ done' = [done EXCEPT ![p] = TRUE]
          /\ Goto(p, "removed")
          /\ UNCHANGED <<content, temps, created, stuck, mutex, op, file, got,
                         outcome, crashed>>
       \/ Return(p, "error") /\ UNCHANGED fileVars

Removed(p) == pc[p] = "removed" /\ Return(p, "ok") /\ UNCHANGED fileVars

(* os.ReadFile opens the path: the file it will read is fixed here, which  *)
(* is the instant the load takes effect.  got records what the path holds  *)
(* then; Read replaces it by what is really found, and ImplementsRegister  *)
(* asks that the two be the same.                                          *)
Open(p) ==
    /\ pc[p] = "open"
    /\ \/ /\ file' = [file EXCEPT ![p] = link[op[p].path]]
          /\ got' = [got EXCEPT ![p] = Held[op[p].path]]
          /\ done' = [done EXCEPT ![p] = TRUE]
          /\ Goto(p, "read")
          /\ UNCHANGED <<fileVars, mutex, op, outcome, crashed>>
       \/ Return(p, "error") /\ UNCHANGED fileVars

(* ... and reads it.  What it finds is what it is decoded from.            *)
Read(p) ==
    /\ pc[p] = "read"
    /\ got' = [got EXCEPT ![p] = IF file[p] = 0 THEN Missing ELSE content[file[p]]]
    /\ Goto(p, "decode")
    /\ UNCHANGED <<fileVars, mutex, op, file, done, outcome, crashed>>

(* Reading or decoding fails, or the value is returned.                    *)
Decode(p) ==
    /\ pc[p] = "decode"
    /\ \E o \in {"ok", "error"} :
        /\ got[p] \in {"empty", "partial"} => o = "error"
        /\ Return(p, o)
    /\ UNCHANGED fileVars
-----------------------------------------------------------------------------
(* The process dies: the files stay as they are, the rest is gone.         *)
Crash ==
    /\ \E p \in Procs : pc[p] # "idle"
    /\ mutex' = Free
    /\ pc' = [p \in Procs |-> "idle"]
    /\ op' = [p \in Procs |-> NoOp]
    /\ file' = [p \in Procs |-> 0]
    /\ done' = [p \in Procs |-> FALSE]
    /\ got' = [p \in Procs |-> Missing]
    /\ outcome' = [p \in Procs |-> "none"]
    /\ crashed' = TRUE
    /\ UNCHANGED fileVars

Step(p) ==
    \/ Lock(p)
    \/ Create(p) \/ Write(p) \/ Finish(p) \/ Rename(p) \/ Cleanup(p)
    \/ Remove(p) \/ Removed(p)
    \/ Open(p) \/ Read(p) \/ Decode(p)

Next ==
    \/ \E p \in Procs : Step(p) \/ \E o \in Register!Ops : Call(p, o)
    \/ Crash

Spec == Init /\ [][Next]_vars

(* Go's mutex is not starved: a waiter gets it if it is freed for ever     *)
(* again; everything else is a system call that comes back.                *)
Fairness == \A p \in Procs : WF_vars(Step(p)) /\ SF_vars(Lock(p))
FairSpec == Spec /\ Fairness
-----------------------------------------------------------------------------
(* Properties.                                                             *)

(* The variables have their types.                                         *)
TypeOK ==
    /\ content \in [Files -> Values \cup {"empty", "partial"}]
    /\ temps \subseteq Files
    /\ link \in [Paths -> 0..MaxFiles]
    /\ created \in 0..MaxFiles
    /\ stuck \subseteq Files
    /\ mutex \in Procs \cup {Free}
    /\ mutex # Free => pc[mutex] \notin {"idle", "lock"}
    /\ pc \in [Procs -> {"idle", "lock", "create", "write", "written", "rename",
                         "cleanup", "remove", "removed", "open", "read", "decode"}]
    /\ op \in [Procs -> Register!Ops \cup {NoOp}]
    /\ file \in [Procs -> 0..MaxFiles]
    /\ done \in [Procs -> BOOLEAN]
    /\ got \in [Procs -> Values \cup {Missing, "empty", "partial"}]
    /\ outcome \in [Procs -> {"none", "ok", "error"}]
    /\ crashed \in BOOLEAN

(* No one ever finds half a file under a state path, not even after a      *)
(* crash in the middle of a save: "SaveBuf writes a complete new cursor    *)
(* file before replacing the old one" (src/storage.go:131).                *)
NoTornFile == \A f \in Paths : link[f] # 0 => content[link[f]] \in Values

(* A save cleans up after itself on every path, success or failure: with   *)
(* no call in progress and no crash so far, the only temporary files left  *)
(* are those whose removal failed, of which no one hears (storage.go:205   *)
(* drops the error).  Nobody ever comes back for those.                    *)
NoLeftovers ==
    (\A p \in Procs : pc[p] = "idle") /\ ~crashed => temps = stuck

(* The store behaves as a register per path in which a failed save or      *)
(* clear has no effect at all.                                             *)
ImplementsRegister == Register!Spec

(* Every call ends: no error path keeps the mutex.                         *)
CallsEnd == \A p \in Procs : pc[p] # "idle" ~> pc[p] = "idle"
=============================================================================

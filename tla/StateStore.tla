----------------------------- MODULE StateStore -----------------------------
(***************************************************************************)
(* The file behind the team's state (packages/core/src/state-store.ts).    *)
(* A caller loads the state, and later asks to replace the revision it     *)
(* loaded (transact; create is the same with no state loaded).  The call   *)
(* takes the lock file or throws, reads the state again, and publishes the *)
(* next revision by temporary file, rename and directory sync.             *)
(*                                                                         *)
(* A process may die at every step, the machine may lose power (what was   *)
(* renamed but not synced is then gone), and every file operation may      *)
(* fail.  Of a state only its revision and its writer are kept.            *)
(*                                                                         *)
(* The directory of the task is taken to be there and durable.  The code   *)
(* makes it when it is missing and syncs the directory itself, never its   *)
(* parents: power lost before the system has written these back would take *)
(* the directory, and with it what the first writes were acknowledged for. *)
(***************************************************************************)
EXTENDS Integers

CONSTANTS Procs,        \* processes with a store over the same directory
          MaxRevision   \* bound: no call starts from a later revision

Nobody == "nobody"

ASSUME NobodyIsNoProcess == Nobody \notin Procs
ASSUME RevisionsAreBounded == MaxRevision \in Nat

VARIABLES file,     \* current.json, as every process reads it
          durable,  \* current.json, as it is after a loss of power
          lock,     \* who created current.lock, if it exists
          pc,       \* per process, where its call stands
          seen,     \* per process, the revision its caller holds
          acked     \* history: the last revision a caller was told of

vars == <<file, durable, lock, pc, seen, acked>>

Absent    == -1                    \* load() returned null: create, not transact
NoState   == [rev |-> Absent, by |-> Nobody]
States    == {NoState} \cup [rev : Nat, by : Procs]
Steps     == {"idle", "locked", "writing", "renaming", "syncing", "done", "failed"}
InLock(p) == pc[p] # "idle"

Init ==
  /\ file = NoState /\ durable = NoState /\ lock = Nobody /\ acked = Absent
  /\ pc = [p \in Procs |-> "idle"] /\ seen = [p \in Procs |-> Absent]

Goto(p, step) == pc' = [pc EXCEPT ![p] = step]

\* load(): the caller will act on this revision, whatever happens meanwhile.
Load(p) ==
  /\ ~InLock(p)
  /\ seen' = [seen EXCEPT ![p] = file.rev]
  /\ UNCHANGED <<file, durable, lock, pc, acked>>

\* withLock opens current.lock with O_EXCL; if it exists the call throws
\* (no step: nothing changed), there is no waiting and no retry.
Acquire(p) ==
  /\ lock = Nobody /\ ~InLock(p) /\ seen[p] < MaxRevision
  /\ lock' = p /\ Goto(p, "locked")
  /\ UNCHANGED <<file, durable, seen, acked>>

\* A bug: the state is not loaded again inside the lock.
CheckNothing(p) ==
  /\ pc[p] = "locked" /\ Goto(p, "writing")
  /\ UNCHANGED <<file, durable, lock, seen, acked>>

\* Inside the lock the state is loaded again; another revision is refused.
CheckRevision(p) ==
  /\ pc[p] = "locked"
  /\ Goto(p, IF file.rev = seen[p] THEN "writing" ELSE "failed")
  /\ UNCHANGED <<file, durable, lock, seen, acked>>

\* The temporary file is written, synced and closed.
WriteTemporary(p) ==
  /\ pc[p] = "writing" /\ Goto(p, "renaming")
  /\ UNCHANGED <<file, durable, lock, seen, acked>>

Rename(p) ==
  /\ pc[p] = "renaming" /\ Goto(p, "syncing")
  /\ file' = [rev |-> seen[p] + 1, by |-> p]
  /\ UNCHANGED <<durable, lock, seen, acked>>

\* A bug: the directory is not synced.
SyncSkipped(p) ==
  /\ pc[p] = "syncing" /\ Goto(p, "done")
  /\ UNCHANGED <<file, durable, lock, seen, acked>>

SyncDirectory(p) ==
  /\ pc[p] = "syncing" /\ Goto(p, "done")
  /\ durable' = file
  /\ UNCHANGED <<file, lock, seen, acked>>

\* Any file operation of the call throws.  After the rename the caller is
\* told of a failure although the state has changed.
Fail(p) ==
  /\ pc[p] \in {"locked", "writing", "renaming", "syncing"}
  /\ Goto(p, "failed")
  /\ UNCHANGED <<file, durable, lock, seen, acked>>

\* removeOwnedLock deletes the lock only if it is the file this call created;
\* the new revision is returned, or the failure is thrown.
Unlock(p) ==
  /\ pc[p] \in {"done", "failed"} /\ Goto(p, "idle")
  /\ lock' = IF lock = p THEN Nobody ELSE lock
  /\ IF pc[p] = "done"
       THEN acked' = file.rev /\ seen' = [seen EXCEPT ![p] = file.rev]
       ELSE UNCHANGED <<acked, seen>>
  /\ UNCHANGED <<file, durable>>

\* The lock cannot be deleted: the call throws, even after a commit.
UnlockFails(p) ==
  /\ pc[p] \in {"done", "failed"} /\ Goto(p, "idle")
  /\ UNCHANGED <<file, durable, lock, seen, acked>>

----------------------------------------------------------------------------
(* The environment *)

\* The process dies in the middle of a call; a new one knows no revision.
Crash(p) ==
  /\ InLock(p) /\ Goto(p, "idle")
  /\ seen' = [seen EXCEPT ![p] = Absent]
  /\ UNCHANGED <<file, durable, lock, acked>>

\* The lock file's directory entry was never synced: it may or may not survive.
PowerLoss ==
  /\ file' = durable /\ lock' \in {lock, Nobody}
  /\ pc' = [p \in Procs |-> "idle"] /\ seen' = [p \in Procs |-> Absent]
  /\ UNCHANGED <<durable, acked>>

\* The system may write the directory back at any time.
WriteBack == durable' = file /\ UNCHANGED <<file, lock, pc, seen, acked>>

Call(p) == \/ Load(p) \/ Acquire(p) \/ CheckRevision(p) \/ WriteTemporary(p)
           \/ Rename(p) \/ SyncDirectory(p) \/ Unlock(p)
           \/ Fail(p) \/ UnlockFails(p)

Next == (\E p \in Procs : Call(p) \/ Crash(p)) \/ PowerLoss \/ WriteBack

Spec == Init /\ [][Next]_vars

----------------------------------------------------------------------------
(* Properties *)

TypeOK ==
  /\ file \in States /\ durable \in States
  /\ lock \in Procs \cup {Nobody}
  /\ pc \in [Procs -> Steps]
  /\ seen \in [Procs -> Nat \cup {Absent}]
  /\ acked \in Nat \cup {Absent}

\* A revision that a caller was told of is on disk and survives a loss of
\* power, although other calls, failed calls and crashes came in between
\* (writeState syncs the file before and the directory after the rename).
AckedIsDurable == acked <= durable.rev /\ durable.rev <= file.rev

\* The files and the lock implement the fenced register: no write replaces a
\* revision its caller has not read, a success is reported once, for the
\* caller's own write, and only when that write is on disk (transact).
Register == INSTANCE FencedRegister WITH Writers <- Procs, reg <- file, saved <- durable
ImplementsRegister == Register!RSpec
=============================================================================

--------------------------- MODULE ManagedTools ---------------------------
(* The tools an agent has on the files of the workspace                    *)
(* (bundle/src/managed-agent-tools.ts for development agents,              *)
(* specification-agent-tools.ts for those that write the specification)    *)
(* and the patch session under them (development/src/patch-tracker.ts,     *)
(* file-snapshot.ts, concurrent-change-guard.ts): a write is a transaction *)
(* on one file, while the user edits, replaces, deletes or creates it.     *)
(*                                                                         *)
(* One path, which tasks own one after the other.  A file is an inode and  *)
(* what is in it; contents are numbers, each written once: 0 is what a     *)
(* file that is just truncated or created holds.  A snapshot is [ino,      *)
(* text], ino 0 when there is no file.                                     *)
EXTENDS Naturals, Sequences, SequencesExt

CONSTANTS Agents, NoAgent,
          MaxCalls,    \* the tool budget of a task
          MaxEdits,    \* bound: what the user (or a command) does to the file
          MaxInodes, MaxTasks  \* bounds

VARIABLES file,       \* the inode at the path, 0 when there is none
          bytes,      \* what is in each inode
          inodes,     \* inodes made
          texts,      \* contents written
          edits,      \* edits of the user
          permitted,  \* the phase is the agent's and the approval is current
          lease,      \* the agent whose task owns the path
          tasks,      \* tasks begun
          at,         \* where each agent is in its transaction
          calls,      \* tool calls of each agent
          accepted,   \* the snapshot the session of each agent expects
          before, after, handle, text,  \* of the transaction of each agent
          patches,    \* patches of each session, oldest first
          tested,     \* the snapshot the test evidence is of
          touched     \* history variable: since the task of the agent began, somebody
                      \* else changed the file or the rollback of an edit has failed
vars == <<file, bytes, inodes, texts, edits, permitted, lease, tasks, at, calls, accepted, before,
          after, handle, text, patches, tested, touched>>

Snapshot(ino, t) == [ino |-> ino, text |-> t]
Missing == Snapshot(0, 0)
None == Snapshot(0, 1000)   \* no session, no evidence
Current == IF file = 0 THEN Missing ELSE Snapshot(file, bytes[file])
IsMissing(snapshot) == snapshot.ino = 0

Init == /\ file \in {0, 1}
        /\ bytes = [i \in 1..MaxInodes |-> 1]
        /\ inodes = 1 /\ texts = 1 /\ edits = 0
        /\ permitted = TRUE
        /\ lease = NoAgent /\ tasks = 0
        /\ at = [a \in Agents |-> "off"]
        /\ calls = [a \in Agents |-> 0]
        /\ accepted = [a \in Agents |-> None]
        /\ before = [a \in Agents |-> Missing]
        /\ after = [a \in Agents |-> Missing]
        /\ handle = [a \in Agents |-> 0]
        /\ text = [a \in Agents |-> 0]
        /\ patches = [a \in Agents |-> <<>>]
        /\ tested = [a \in Agents |-> None]
        /\ touched = [a \in Agents |-> FALSE]

Go(a, place) == at' = [at EXCEPT ![a] = place]
Set(f, a, value) == [f EXCEPT ![a] = value]
SameDisk == UNCHANGED <<file, bytes, inodes>>
SameHost == UNCHANGED <<texts, edits, permitted, lease, tasks>>
SameSession == UNCHANGED <<calls, accepted, patches, tested, touched>>
SameEdit == UNCHANGED <<before, after, handle, text>>

(***************************************************************************)
(* The agent and its calls, one at a time.                                 *)
(***************************************************************************)

(* The setup: the phase fits and the task owns the path.  Agents are       *)
(* alike: the first is any.                                                *)
Enter(a) ==
  /\ tasks = 0 => a = CHOOSE first \in Agents : TRUE
  /\ at[a] = "off" /\ lease = NoAgent /\ permitted /\ tasks < MaxTasks
  /\ lease' = a /\ tasks' = tasks + 1
  /\ Go(a, "idle")
  /\ SameDisk /\ SameSession /\ SameEdit /\ UNCHANGED <<texts, edits, permitted>>

(* The agent is disposed of after the last call, or with its changes. *)
Quit(a) ==
  /\ at[a] \in {"idle", "undone"} /\ Go(a, "off")
  /\ calls' = Set(calls, a, 0)
  /\ accepted' = Set(accepted, a, None) /\ tested' = Set(tested, a, None)
  /\ before' = Set(before, a, Missing) /\ after' = Set(after, a, Missing)
  /\ handle' = Set(handle, a, 0) /\ text' = Set(text, a, 0)
  /\ patches' = Set(patches, a, <<>>) /\ touched' = Set(touched, a, FALSE)
  /\ SameDisk /\ SameHost

(* A bug: the release does not wait for the calls that run. *)
DrainedOrNot(a) == a \in Agents

(* The lease is released after that.  The tools that write the             *)
(* specification wait for their queue themselves; for those of development *)
(* agents it is the harness that ends no tool call after its agent is idle,*)
(* for which dispose waits (harness-agent-runtime.ts).                     *)
Drained(a) == at[a] = "off"
Release(a) == /\ lease = a /\ Drained(a)
              /\ lease' = NoAgent
              /\ SameDisk /\ SameSession /\ SameEdit
              /\ UNCHANGED <<texts, edits, permitted, tasks, at>>

(* enqueue and check: a refused call counts, too. *)
Call(a) == /\ at[a] = "idle" /\ calls[a] < MaxCalls
           /\ calls' = Set(calls, a, calls[a] + 1)
Allowed(a) == permitted /\ lease = a

(* read, scan, typecheck, the delegation of work; and what is refused. *)
Inspect(a) == /\ Call(a)
              /\ SameDisk /\ SameHost /\ SameEdit
              /\ UNCHANGED <<at, accepted, patches, tested, touched>>

(* The test tool: the evidence is of the file as it is. *)
RunTests(a) == /\ Call(a) /\ permitted
               /\ tested' = Set(tested, a, Current)
               /\ SameDisk /\ SameHost /\ SameEdit /\ UNCHANGED <<at, accepted, patches, touched>>

(***************************************************************************)
(* The write tool.                                                         *)
(***************************************************************************)

(* The path is the task's, the approval is current: a session begins with  *)
(* a snapshot.                                                             *)
BeginWrite(a) ==
  /\ Call(a) /\ Allowed(a)
  /\ accepted' = Set(accepted, a, IF accepted[a] = None THEN Current ELSE accepted[a])
  /\ texts' = texts + 1 /\ text' = Set(text, a, texts + 1)
  /\ Go(a, "owned")
  /\ SameDisk /\ UNCHANGED <<edits, permitted, lease, tasks, before, after, handle, patches, tested, touched>>

(* assertUnchanged, and the evidence of what was there is prepared. *)
Compare(a) ==
  /\ at[a] = "owned"
  /\ \/ /\ Current = accepted[a]
        /\ before' = Set(before, a, Current) /\ Go(a, "prepared")
     \/ Go(a, "idle") /\ UNCHANGED before
  /\ SameDisk /\ SameHost /\ SameSession /\ UNCHANGED <<after, handle, text>>

(* executeApprovedWrite, executeApprovedCreate: the grant is verified, the *)
(* file is opened, or created where there is none.                         *)
OpenFile(a) ==
  /\ at[a] = "prepared"
  /\ \/ /\ Allowed(a) /\ IsMissing(before[a]) /\ file = 0 /\ inodes < MaxInodes
        /\ inodes' = inodes + 1 /\ file' = inodes'
        /\ bytes' = Set(bytes, inodes', 0)
        /\ handle' = Set(handle, a, inodes') /\ Go(a, "opened")
     \/ /\ Allowed(a) /\ ~IsMissing(before[a]) /\ file # 0
        /\ handle' = Set(handle, a, file) /\ Go(a, "opened") /\ SameDisk
     \/ /\ ~Allowed(a) \/ IsMissing(before[a]) # (file = 0)
        /\ Go(a, "failing") /\ SameDisk /\ UNCHANGED handle
  /\ SameHost /\ SameSession /\ UNCHANGED <<before, after, text>>

(* unlinkCreatedInode: a file that was created goes when it is still it    *)
(* and can be removed.                                                     *)
CleanUp(a) == file' \in {file} \cup (IF IsMissing(before[a]) /\ file = handle[a] THEN {0} ELSE {})

(* The last checks: the file is the one of the snapshot, and everything    *)
(* that allowed the call still does.                                       *)
Authorize(a) ==
  /\ at[a] = "opened"
  /\ \/ /\ Allowed(a)
        /\ IsMissing(before[a]) \/ (Current = before[a] /\ handle[a] = before[a].ino)
        /\ Go(a, "writing") /\ UNCHANGED file
     \/ CleanUp(a) /\ Go(a, "failing")
  /\ SameHost /\ SameSession /\ SameEdit /\ UNCHANGED <<bytes, inodes>>

Truncate(a) ==
  /\ at[a] = "writing"
  /\ bytes' = Set(bytes, handle[a], 0) /\ Go(a, "truncated")
  /\ SameHost /\ SameSession /\ SameEdit /\ UNCHANGED <<file, inodes>>

Fill(a) ==
  /\ at[a] = "truncated"
  /\ \/ bytes' = Set(bytes, handle[a], text[a]) /\ Go(a, "written") /\ UNCHANGED file
     \/ CleanUp(a) /\ Go(a, "failing") /\ UNCHANGED bytes
  /\ SameHost /\ SameSession /\ SameEdit /\ UNCHANGED inodes

(* What is there is what was to be written, in the same file. *)
Verify(a) ==
  /\ at[a] = "written"
  /\ IF /\ file # 0 /\ Current.text = text[a]
        /\ IsMissing(before[a]) \/ file = before[a].ino
     THEN after' = Set(after, a, Current) /\ Go(a, "verified")
     ELSE Go(a, "failing") /\ UNCHANGED after
  /\ SameDisk /\ SameHost /\ SameSession /\ UNCHANGED <<before, handle, text>>

(* A bug: the edit is accepted before its evidence is written. *)
AcceptEarly(a, kept) == accepted' = Set(accepted, a, after[a])

(* The evidence of the edit is finalized, the edit is accepted and the     *)
(* test evidence of the task is stale; or the evidence cannot be written.  *)
Accept(a, kept) == accepted' = IF kept THEN Set(accepted, a, after[a]) ELSE accepted

Invalidated(a) == Set(tested, a, None)
Finalize(a) ==
  /\ at[a] = "verified"
  /\ \E kept \in BOOLEAN :
       /\ Accept(a, kept)
       /\ patches' = IF kept THEN Set(patches, a, Append(patches[a], [before |-> before[a], after |-> after[a]]))
                     ELSE patches
       /\ tested' = IF kept THEN Invalidated(a) ELSE tested
       /\ Go(a, IF kept THEN "idle" ELSE "failing")
  /\ SameDisk /\ SameHost /\ SameEdit /\ UNCHANGED <<calls, touched>>

(* A bug: whatever file is there is overwritten. *)
SamePath(x, y) == ~IsMissing(x) /\ ~IsMissing(y)

SameFile(x, y) == x.ino = y.ino

(* rollbackFailedAgentWrite: what is there is looked at, if it can be ...  *)
Restorable(a) ==
  /\ Current # before[a] /\ ~(IsMissing(before[a]) /\ file = 0)
  /\ IsMissing(before[a]) \/ SameFile(before[a], Current)
RollBack(a) ==
  /\ at[a] = "failing"
  /\ \/ ~Restorable(a) /\ Go(a, "idle") /\ UNCHANGED <<after, touched>>
     \/ /\ Restorable(a) /\ Go(a, "restoring")
        /\ after' = Set(after, a, Current) /\ UNCHANGED touched
     \/ Go(a, "idle") /\ UNCHANGED after /\ touched' = Set(touched, a, TRUE)
  /\ SameDisk /\ SameHost /\ UNCHANGED <<calls, accepted, patches, tested, before, handle, text>>

(* ... and, when it is still that file, removed or overwritten with what   *)
(* was there before (removeOwnedFile, writeOwnedFile).  An I/O error stops *)
(* that before or after the file is truncated.                             *)
PutBack(old, seen) ==
  /\ file' = IF SameFile(Current, seen) /\ IsMissing(old) THEN 0 ELSE file
  /\ bytes' = IF SameFile(Current, seen) /\ ~IsMissing(old) THEN Set(bytes, seen.ino, old.text) ELSE bytes
  /\ UNCHANGED inodes
FallsShort(old, seen) ==
  /\ \/ UNCHANGED bytes
     \/ SameFile(Current, seen) /\ ~IsMissing(old) /\ bytes' = Set(bytes, seen.ino, 0)
  /\ UNCHANGED <<file, inodes>>
Restore(a) ==
  /\ at[a] = "restoring" /\ Go(a, "idle")
  /\ \/ PutBack(before[a], after[a]) /\ UNCHANGED touched
     \/ FallsShort(before[a], after[a]) /\ touched' = Set(touched, a, TRUE)
  /\ SameHost /\ SameEdit /\ UNCHANGED <<calls, accepted, patches, tested>>

(* rollbackOwnChanges: the patches of the session, the last first, each    *)
(* while the file is as the patch left it.                                 *)
BeginUndo(a) == /\ at[a] = "idle" /\ patches[a] # <<>> /\ Go(a, "undoing")
                /\ SameDisk /\ SameHost /\ SameSession /\ SameEdit
Undo(a) ==
  /\ at[a] = "undoing"
  /\ patches' = Set(patches, a, Front(patches[a]))
  /\ LET patch == Last(patches[a]) IN
     /\ before' = Set(before, a, patch.before) /\ after' = Set(after, a, patch.after)
     /\ Go(a, IF Current = patch.after THEN "undo"
              ELSE IF Len(patches[a]) > 1 THEN "undoing" ELSE "undone")
  /\ SameDisk /\ SameHost /\ UNCHANGED <<calls, accepted, tested, touched, handle, text>>
UndoWrite(a) ==
  /\ at[a] = "undo"
  /\ PutBack(before[a], after[a]) \/ FallsShort(before[a], after[a])
  /\ Go(a, IF patches[a] = <<>> THEN "undone" ELSE "undoing")
  /\ SameHost /\ SameSession /\ SameEdit

(***************************************************************************)
(* The user, who does not ask; and the approval.                           *)
(***************************************************************************)
Touch == /\ edits < MaxEdits /\ edits' = edits + 1
         /\ touched' = [a \in Agents |-> at[a] # "off"]
         /\ UNCHANGED <<permitted, lease, tasks, at, accepted, patches, tested>> /\ SameEdit
EditInPlace == /\ file # 0 /\ Touch
               /\ texts' = texts + 1 /\ bytes' = Set(bytes, file, texts + 1)
               /\ UNCHANGED <<file, inodes>>
Replace == /\ inodes < MaxInodes /\ Touch
           /\ inodes' = inodes + 1 /\ file' = inodes + 1
           /\ texts' = texts + 1 /\ bytes' = Set(bytes, inodes + 1, texts + 1)
Delete == /\ file # 0 /\ Touch /\ file' = 0 /\ UNCHANGED <<bytes, inodes, texts>>

(* A command of the agent, approved with a token, may do what a user does. *)
RunCommand(a) == Call(a) /\ permitted /\ EditInPlace

(* The phase changes, an approval is invalidated or given again. *)
Permit == /\ permitted' = ~permitted
          /\ SameDisk /\ SameSession /\ SameEdit /\ UNCHANGED <<texts, edits, lease, tasks, at>>

Next ==
  \/ \E a \in Agents : \/ Enter(a) \/ Quit(a) \/ Release(a) \/ Inspect(a) \/ RunTests(a) \/ BeginWrite(a)
                       \/ Compare(a) \/ OpenFile(a) \/ Authorize(a) \/ Truncate(a) \/ Fill(a)
                       \/ Verify(a) \/ Finalize(a) \/ RollBack(a) \/ Restore(a) \/ BeginUndo(a)
                       \/ Undo(a) \/ UndoWrite(a) \/ RunCommand(a)
  \/ (EditInPlace \/ Replace \/ Delete) /\ UNCHANGED calls
  \/ Permit

Spec == Init /\ [][Next]_vars

(***************************************************************************)
(* Properties.                                                             *)
(***************************************************************************)

(* The bytes of an agent go into the file it took a snapshot of, or the    *)
(* one it created: never into one the user has put in its place            *)
(* (captureAgentEditWithWriter and both rollbacks).                        *)
WritesWhatWasSeen ==
  edits' = edits =>
    \A i \in 1..MaxInodes : bytes'[i] # bytes[i] =>
      \E a \in Agents : at[a] # "off" /\ IF IsMissing(before[a]) THEN i = handle'[a] ELSE i = before[a].ino
WritesGoToTheFileSeen == [][WritesWhatWasSeen]_vars

(* While nobody else touches the file and no rollback fails, it is what    *)
(* the session of the task that owns it accepted last: a failed edit is    *)
(* undone, and no other task writes (patch-tracker.ts, the drain of the    *)
(* queue before the release).                                              *)
OwnedFileIsAccepted ==
  \A a \in Agents : /\ at[a] = "idle" /\ lease = a /\ accepted[a] # None /\ ~touched[a]
                    => Current = accepted[a]

(* Test evidence that is not stale is of the file as it is, unless         *)
(* somebody else touched it (managed-test-evidence.ts).                    *)
EvidenceIsCurrent ==
  \A a \in Agents : /\ at[a] = "idle" /\ lease = a /\ tested[a] # None /\ ~touched[a]
                    => Current = tested[a]

(* The rollback of a failed edit takes back what the agent wrote and       *)
(* nothing else.  Not so: a write that is refused because the user has     *)
(* edited the file is rolled back over the edit.                           *)
TakesBackOwnEdit ==
  \A a \in Agents : at[a] = "restoring" /\ at'[a] = "idle" /\ <<file, bytes>>' # <<file, bytes>>
    => after[a].text \in {0, text[a]}
RollbackTakesBackOwnEdit == [][TakesBackOwnEdit]_vars
===========================================================================

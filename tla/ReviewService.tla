--------------------------- MODULE ReviewService ---------------------------
(***************************************************************************)
(* What the browser and the chat see of the team (packages/web/src/        *)
(* control-route.ts, control-service.ts, coordinator-command-handlers.ts,  *)
(* packages/bundle/src/approval-artifact-preview.ts): per session the      *)
(* state's revision and the approval it waits for, reads of both, and the  *)
(* commands that the revision fences.  How the team itself works on is     *)
(* Workflow; here it only moves on.                                        *)
(***************************************************************************)
EXTENDS Naturals

CONSTANTS Sessions,      \* chats, each with its task
          Hashes,        \* contents of the documents
          NoHash,
          MaxRevision,   \* bound on the revisions of a task
          MaxRequests    \* bound on the approvals asked for

VARIABLES served,  \* per session: the revision, the approval it waits for
                   \* (id 0: none) with the content it is about, and whether
                   \* the documents still have that content
          asked,   \* the approvals asked for so far, in all sessions
          decided  \* the approvals granted: [id, hash, revision, by]

service == <<served, asked, decided>>

\* Nothing is asked at the revision.
At(revision) == [revision |-> revision, id |-> 0, hash |-> NoHash, intact |-> TRUE]

ServiceInit ==
  /\ served = [s \in Sessions |-> At(0)]
  /\ asked = 0 /\ decided = {}

\* getState: what a client is shown.
State(s) == [revision |-> served[s].revision, id |-> served[s].id, hash |-> served[s].hash]

\* The documents are ready: the user is asked.
Ask(s) ==
  /\ served[s].id = 0 /\ asked < MaxRequests
  /\ asked' = asked + 1
  /\ \E hash \in Hashes :
       served' = [served EXCEPT ![s].id = asked + 1, ![s].hash = hash]
  /\ UNCHANGED decided

\* The state gets its next revision: no approval of an older one is shown.
MoveOn(s) ==
  /\ served[s].revision < MaxRevision
  /\ served' = [served EXCEPT ![s] = At(@.revision + 1)]
  /\ UNCHANGED <<asked, decided>>

\* An approval that cannot settle, or is refused, is gone; it may be asked
\* for again at the same revision.
Withdraw(s) ==
  /\ served[s].id # 0
  /\ served' = [served EXCEPT ![s] = At(@.revision)]
  /\ UNCHANGED <<asked, decided>>

\* Someone edits the documents that are asked about, or undoes it.
Edit(s) ==
  /\ served[s].id # 0
  /\ served' = [served EXCEPT ![s].intact = ~@]
  /\ UNCHANGED <<asked, decided>>

Working(s) == Ask(s) \/ MoveOn(s) \/ Withdraw(s) \/ Edit(s)

\* dispatch and run: the command was given for the revision of now.
Fenced(s, a) == a.revision = served[s].revision

Concerns(s, a) == served[s].id # 0 /\ a.hash = served[s].hash

\* The content is only given out as the one that is asked about: the file is
\* hashed, and the snapshots before and after must be the same.
Previewable(s, a) == Fenced(s, a) /\ Concerns(s, a) /\ served[s].intact

Decidable(s, a) == Fenced(s, a) /\ Concerns(s, a) /\ a.id = served[s].id

\* Granting it makes the next revision, unless the documents were changed.
Approve(s, a, by) ==
  /\ Decidable(s, a)
  /\ IF served[s].intact
     THEN /\ served[s].revision < MaxRevision
          /\ served' = [served EXCEPT ![s] = At(@.revision + 1)]
          /\ decided' = decided \cup {[id |-> a.id, hash |-> a.hash, revision |-> a.revision, by |-> by]}
          /\ UNCHANGED asked
     ELSE Withdraw(s)

Refuse(s, a) == Decidable(s, a) /\ Withdraw(s)

\* submitClarification: the documents are written anew.
Clarify(s, a) == Fenced(s, a) /\ MoveOn(s)
=============================================================================

-------------------------- MODULE TeamCoordinator --------------------------
(***************************************************************************)
(* The coordinator's dispatches (packages/core/src/team-coordinator.ts).   *)
(* A dispatch checks, leases the task's paths, submits the task to the     *)
(* scheduler, verifies the result, stores it as a handoff, records a run   *)
(* in the team's state and gives the leases back.  Every await lets the    *)
(* other dispatches, the experts' own worker dispatches and the other      *)
(* users of the state in, and the process may die at any of them.          *)
(*                                                                         *)
(* A call is one dispatch; several calls may name the same task.  What the *)
(* parts underneath do is taken from their own modules: the lease files    *)
(* are readable only while every delegated lease has its parent            *)
(* (OwnershipManager), a submitted task is answered once (TaskScheduler),  *)
(* a write of the state is refused if its revision is old (StateStore).    *)
(***************************************************************************)
EXTENDS Integers, Sequences, FiniteSets

CONSTANTS Experts,      \* dispatchExpert calls
          Workers,      \* dispatchWorker calls
          TaskOf,       \* call -> the id of the task it dispatches
          Caller,       \* worker call -> the expert call whose agent makes it
          Clashes,      \* the sets {t, u} of tasks whose paths conflict
          MaxOthers,    \* bound: writes of the state by others
          Faults,       \* TRUE: hooks, handoffs and state writes may throw
          Crashes       \* TRUE: the process may die

Calls == Experts \cup Workers
Tasks == {TaskOf[c] : c \in Calls}
NoCall == "no call"

ASSUME CallsAreKnown ==
  /\ Experts \cap Workers = {} /\ NoCall \notin Calls
  /\ Caller \in [Workers -> Experts]
\* acquire skips the leases of the task itself.
ASSUME ClashesAreOfTwo == \A t \in Tasks : {t} \notin Clashes
ASSUME OthersAreBounded == MaxOthers \in Nat

VARIABLES pc,        \* per call, the await it stands at
          tasks,     \* ids of registered tasks
          windows,   \* activeDelegations: task -> the call holding its token
          owned,     \* activeLeases: task -> the call holding its leases
          leases,    \* the calls with lease files on disk
          from,      \* per call, the call its leases are delegated from
          handoffs,  \* per task, the durable handoff
          runs,      \* run records of the state
          revision,  \* its revision
          open,      \* its phase allows dispatch (BUILD or VERIFY)
          tail,      \* stateWriteTail: the calls whose write is to come
          loaded,    \* per call, the revision its write was prepared from
          others     \* how often others have written the state

memory == <<tasks, windows, owned>>
disk   == <<leases, from>>
state  == <<runs, revision, open, others>>
queue  == <<tail, loaded>>
vars   == <<pc, memory, disk, handoffs, state, queue>>

NotLoaded == -1
Finished == {"refused", "ended", "lost"}
Awaits   == {"idle", "checking", "authorizing", "announcing", "running",
             "verifying", "recording", "reporting", "failing"} \cup Finished

Init ==
  /\ pc = [c \in Calls |-> "idle"]
  /\ tasks = {} /\ windows = [t \in Tasks |-> NoCall]
  /\ owned = [t \in Tasks |-> NoCall]
  /\ leases = {} /\ from = [c \in Calls |-> NoCall]
  /\ handoffs = [t \in Tasks |-> "none"]
  /\ runs = {} /\ revision = 0 /\ open = TRUE /\ others = 0
  /\ tail = <<>> /\ loaded = [c \in Calls |-> NotLoaded]

Goto(c, await) == pc' = [pc EXCEPT ![c] = await]

----------------------------------------------------------------------------
(* Leases *)

\* recover() accepts the lease directory; if not, acquire and release throw.
Readable == \A c \in leases : from[c] # NoCall => from[c] \in leases

\* A bug: other leases are not looked at.
UnclaimedOutside(c, parent) == Readable /\ (parent # NoCall => parent \in leases)

\* acquire finds no conflicting lease but those of the delegating task.
Unclaimed(c, parent) ==
  /\ Readable
  /\ parent # NoCall => parent \in leases
  /\ \A d \in leases : \/ {TaskOf[c], TaskOf[d]} \notin Clashes
                       \/ parent # NoCall /\ TaskOf[d] = TaskOf[parent]

TakeLeases(c, parent) ==
  leases' = leases \cup {c} /\ from' = [from EXCEPT ![c] = parent]

ReleaseLeases(c) ==
  leases' = (IF Readable THEN leases \ {c} ELSE leases) /\ UNCHANGED from

----------------------------------------------------------------------------
(* How a dispatch ends *)

\* The catch and finally blocks: a failed task is forgotten; an expert's
\* delegation window and the record of its leases go, whoever set them.
Leave(c, failed) ==
  /\ Goto(c, "ended")
  /\ tasks' = IF failed THEN tasks \ {TaskOf[c]} ELSE tasks
  /\ IF c \in Experts
       THEN /\ windows' = [windows EXCEPT ![TaskOf[c]] = NoCall]
            /\ owned' = [owned EXCEPT ![TaskOf[c]] = NoCall]
       ELSE UNCHANGED <<windows, owned>>
  /\ ReleaseLeases(c)

\* A submitted task threw: an expert's failure is queued to be recorded.
Throw(c, rest) ==
  IF c \in Experts
    THEN /\ Goto(c, "failing") /\ tail' = Append(rest, c)
         /\ UNCHANGED <<memory, disk>>
    ELSE Leave(c, TRUE) /\ tail' = rest

\* A call that throws before it has taken leases leaves nothing behind.
Refuse(c) == Goto(c, "refused") /\ UNCHANGED <<memory, disk>>

----------------------------------------------------------------------------
(* dispatchExpert *)

Fresh(t) == t \notin tasks /\ handoffs[t] = "none"

Check(c) ==
  /\ c \in Experts /\ pc[c] = "idle"
  /\ Goto(c, IF open /\ Fresh(TaskOf[c]) THEN "authorizing" ELSE "refused")
  /\ UNCHANGED <<memory, disk, handoffs, state, queue>>

\* The policy engine denies a path, or a worker's guard denies the worker.
Deny(c) ==
  /\ pc[c] = "authorizing" /\ Refuse(c)
  /\ UNCHANGED <<handoffs, state, queue>>

Claim(c) ==
  /\ c \in Experts /\ pc[c] = "authorizing"
  /\ IF Unclaimed(c, NoCall)
       THEN /\ Goto(c, "announcing") /\ TakeLeases(c, NoCall)
            /\ tasks' = tasks \cup {TaskOf[c]}
            /\ windows' = [windows EXCEPT ![TaskOf[c]] = c]
            /\ owned' = [owned EXCEPT ![TaskOf[c]] = c]
       ELSE Refuse(c)
  /\ UNCHANGED <<handoffs, state, queue>>

\* onProgress throws: the task was never submitted, no failure is recorded.
AnnounceFails(c) ==
  /\ Faults /\ pc[c] = "announcing" /\ Leave(c, TRUE)
  /\ UNCHANGED <<handoffs, state, queue>>

\* The scheduler refuses an id that is queued or running.
Scheduled(t) == \E d \in Calls : TaskOf[d] = t /\ pc[d] = "running"

Submit(c) ==
  /\ pc[c] = "announcing"
  /\ IF TaskOf[c] \in tasks /\ ~Scheduled(TaskOf[c])
       THEN Goto(c, "running") /\ UNCHANGED <<memory, disk, tail>>
       ELSE Throw(c, tail)
  /\ UNCHANGED <<handoffs, state, loaded>>

----------------------------------------------------------------------------
(* dispatchWorker *)

\* An expert's agent uses its delegation while the window is not revoked.
Delegate(c) ==
  /\ c \in Workers /\ pc[c] = "idle"
  /\ pc[Caller[c]] \in {"running", "verifying", "recording", "reporting", "failing"}
  /\ Goto(c, IF open THEN "checking" ELSE "refused")
  /\ UNCHANGED <<memory, disk, handoffs, state, queue>>

\* The capability must still be the active one of a registered parent.
Admit(c) ==
  /\ pc[c] = "checking"
  /\ LET parent == TaskOf[Caller[c]] IN
       Goto(c, IF windows[parent] = Caller[c] /\ parent \in tasks
                 THEN "authorizing" ELSE "refused")
  /\ UNCHANGED <<memory, disk, handoffs, state, queue>>

\* The parent may have ended meanwhile: then nothing is delegated from it.
ClaimWorker(c) ==
  /\ c \in Workers /\ pc[c] = "authorizing"
  /\ LET parent == owned[TaskOf[Caller[c]]] IN
       IF Fresh(TaskOf[c]) /\ Unclaimed(c, parent)
         THEN /\ Goto(c, "running") /\ TakeLeases(c, parent)
              /\ tasks' = tasks \cup {TaskOf[c]}
              /\ UNCHANGED <<windows, owned>>
         ELSE Refuse(c)
  /\ UNCHANGED <<handoffs, state, queue>>

----------------------------------------------------------------------------
(* acceptChildResult *)

Registered(c) ==
  /\ TaskOf[c] \in tasks
  /\ c \in Workers => TaskOf[Caller[c]] \in tasks

\* The scheduler answers with a result for a task that is still registered.
Result(c) ==
  /\ pc[c] = "running"
  /\ IF Registered(c) THEN Goto(c, "verifying") /\ UNCHANGED <<memory, disk, tail>>
                      ELSE Throw(c, tail)
  /\ UNCHANGED <<handoffs, state, loaded>>

\* The scheduler rejects, or an artifact is stale, or the result does not verify.
ResultFails(c) ==
  /\ pc[c] \in {"running", "verifying"} /\ Throw(c, tail)
  /\ UNCHANGED <<handoffs, state, loaded>>

\* The handoff is written, acknowledged with the verifier's decision, and the
\* record of the run is queued, without an await.
Handoff(c) ==
  /\ pc[c] = "verifying"
  /\ IF handoffs[TaskOf[c]] = "none"
       THEN \E decision \in {"accepted", "rework"} :
              /\ handoffs' = [handoffs EXCEPT ![TaskOf[c]] = decision]
              /\ Goto(c, "recording") /\ tail' = Append(tail, c)
              /\ UNCHANGED <<memory, disk>>
       ELSE Throw(c, tail) /\ UNCHANGED handoffs
  /\ UNCHANGED <<state, loaded>>

\* The acknowledgement throws: the handoff stays pending.
HandoffPending(c) ==
  /\ Faults /\ pc[c] = "verifying" /\ handoffs[TaskOf[c]] = "none"
  /\ handoffs' = [handoffs EXCEPT ![TaskOf[c]] = "pending"]
  /\ Throw(c, tail) /\ UNCHANGED <<state, loaded>>

----------------------------------------------------------------------------
(* recordRun and recordDispatchFailure, one at a time *)

Writing(c) == tail # <<>> /\ Head(tail) = c

HasRun(t) == \E r \in runs : r.task = t

\* A bug: a verified handoff counts as an accepted one.
PassedIfHandedOver(c) == IF pc[c] = "recording" THEN "passed" ELSE "failed"

Status(c) == IF pc[c] = "recording" /\ handoffs[TaskOf[c]] = "accepted"
               THEN "passed" ELSE "failed"

Recorded(c) == IF pc[c] = "recording"
                 THEN Goto(c, "reporting") /\ UNCHANGED <<memory, disk>>
                 ELSE Leave(c, TRUE)

RecordLoad(c) ==
  /\ Writing(c) /\ loaded[c] = NotLoaded
  /\ IF HasRun(TaskOf[c])
       THEN Recorded(c) /\ tail' = Tail(tail) /\ UNCHANGED loaded
       ELSE /\ loaded' = [loaded EXCEPT ![c] = revision]
            /\ UNCHANGED <<pc, memory, disk, tail>>
  /\ UNCHANGED <<handoffs, state>>

RecordCommit(c) ==
  /\ Writing(c) /\ loaded[c] = revision
  /\ runs' = runs \cup {[task |-> TaskOf[c], status |-> Status(c)]}
  /\ revision' = revision + 1
  /\ tail' = Tail(tail) /\ loaded' = [loaded EXCEPT ![c] = NotLoaded]
  /\ Recorded(c) /\ UNCHANGED <<handoffs, open, others>>

\* The store commits and then throws (StateStore: a sync or a cleanup fails).
RecordUncertain(c) ==
  /\ Faults /\ Writing(c) /\ loaded[c] = revision
  /\ runs' = runs \cup {[task |-> TaskOf[c], status |-> Status(c)]}
  /\ revision' = revision + 1 /\ loaded' = [loaded EXCEPT ![c] = NotLoaded]
  /\ IF pc[c] = "recording" THEN Throw(c, Tail(tail))
                            ELSE Leave(c, TRUE) /\ tail' = Tail(tail)
  /\ UNCHANGED <<handoffs, open, others>>

\* Somebody else has written the state, or the store throws.  A result's
\* failure to be recorded is a failure of the dispatch; the failure of a
\* failure to be recorded is swallowed.
RecordConflict(c) ==
  /\ Writing(c) /\ loaded[c] # NotLoaded /\ (loaded[c] # revision \/ Faults)
  /\ loaded' = [loaded EXCEPT ![c] = NotLoaded]
  /\ IF pc[c] = "recording" THEN Throw(c, Tail(tail))
                            ELSE Leave(c, TRUE) /\ tail' = Tail(tail)
  /\ UNCHANGED <<handoffs, state>>

Report(c) ==
  /\ pc[c] = "reporting" /\ Leave(c, FALSE)
  /\ UNCHANGED <<handoffs, state, queue>>

\* onProgress or the last load throws, although everything is recorded.
ReportFails(c) ==
  /\ Faults /\ pc[c] = "reporting" /\ Throw(c, tail)
  /\ UNCHANGED <<handoffs, state, loaded>>

----------------------------------------------------------------------------
(* The surroundings *)

\* Another user of the state (approvals, workflow, a second coordinator).
OtherWrite ==
  /\ others < MaxOthers /\ others' = others + 1
  /\ revision' = revision + 1 /\ open' \in BOOLEAN
  /\ UNCHANGED <<pc, memory, disk, handoffs, runs, queue>>

\* The process dies and a new coordinator starts with empty tables.
Crash ==
  /\ Crashes /\ \E c \in Calls : pc[c] \notin Finished \cup {"idle"}
  /\ pc' = [c \in Calls |-> IF pc[c] \in Finished \cup {"idle"} THEN pc[c] ELSE "lost"]
  /\ tasks' = {} /\ windows' = [t \in Tasks |-> NoCall]
  /\ owned' = [t \in Tasks |-> NoCall]
  /\ tail' = <<>> /\ loaded' = [c \in Calls |-> NotLoaded]
  /\ UNCHANGED <<disk, handoffs, state>>

Proceed(c) ==
  \/ Deny(c) \/ Claim(c) \/ AnnounceFails(c) \/ Submit(c) \/ Admit(c)
  \/ ClaimWorker(c) \/ Result(c) \/ ResultFails(c) \/ Handoff(c)
  \/ HandoffPending(c) \/ RecordLoad(c) \/ RecordCommit(c)
  \/ RecordUncertain(c) \/ RecordConflict(c) \/ Report(c) \/ ReportFails(c)

Next == \/ \E c \in Calls : Check(c) \/ Delegate(c) \/ Proceed(c)
        \/ OtherWrite \/ Crash

Spec == Init /\ [][Next]_vars

----------------------------------------------------------------------------
(* Properties *)

TypeOK ==
  /\ pc \in [Calls -> Awaits]
  /\ tasks \subseteq Tasks
  /\ windows \in [Tasks -> Experts \cup {NoCall}]
  /\ owned \in [Tasks -> Experts \cup {NoCall}]
  /\ leases \subseteq Calls /\ from \in [Calls -> Calls \cup {NoCall}]
  /\ handoffs \in [Tasks -> {"none", "pending", "accepted", "rework"}]
  /\ runs \subseteq [task : Tasks, status : {"passed", "failed"}]
  /\ revision \in Nat /\ others \in 0..MaxOthers /\ open \in BOOLEAN
  /\ tail \in Seq(Calls) /\ loaded \in [Calls -> Nat \cup {NotLoaded}]

\* The write tail holds exactly the calls that have a run to record, each
\* once, and only its head has read the state (enqueueStateWrite): a failed
\* write neither blocks nor skips the next, so no dispatch waits for ever.
WritesInTurn ==
  /\ {tail[i] : i \in 1..Len(tail)} = {c \in Calls : pc[c] \in {"recording", "failing"}}
  /\ \A i, j \in 1..Len(tail) : tail[i] = tail[j] => i = j
  /\ \A c \in Calls : loaded[c] # NotLoaded => Writing(c)

\* However a dispatch fails after it has recorded its run, and whoever else
\* writes the state, a task has one run record (recordRun and
\* recordDispatchFailure look for it again under the revision they write).
OneRunPerTask == \A r, q \in runs : r.task = q.task => r = q

\* A run recorded as passed has a handoff its parent accepted ("every
\* accepted result has a parent-verified durable handoff"), also after the
\* process died at any await.
PassedRunHasHandoff ==
  \A r \in runs : r.status = "passed" => handoffs[r.task] = "accepted"

\* A handoff that was decided is never decided again, not even when two
\* dispatches of one task both come to a result (acceptChildResult).
HandoffOnce ==
  [][\A t \in Tasks : handoffs[t] # "none" => handoffs'[t] = handoffs[t]]_vars

\* An agent that runs has its leases on disk, whatever a duplicate dispatch
\* of its task and the cleanup of that duplicate do.
RunnersHoldLeases == \A c \in Calls : pc[c] = "running" => c \in leases

DelegatedFrom(c, task) == from[c] # NoCall /\ TaskOf[from[c]] = task

\* Two agents run over conflicting paths only if one got its paths from a
\* dispatch of the other's task (acquireTaskLeases; dispatches interleave at
\* every await, the same task may be dispatched twice).
RunnersDoNotClash ==
  \A c, d \in Calls :
    /\ pc[c] = "running" /\ pc[d] = "running"
    /\ {TaskOf[c], TaskOf[d]} \in Clashes
    => DelegatedFrom(c, TaskOf[d]) \/ DelegatedFrom(d, TaskOf[c])

=============================================================================

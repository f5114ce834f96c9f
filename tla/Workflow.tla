------------------------------ MODULE Workflow ------------------------------
(* The approval workflow of one task.  Five kinds of activity share the      *)
(* revision-fenced state and the documents on disk:                          *)
(*   flight  one per gate: asks the user, records the approval, then starts  *)
(*           the next generation                                             *)
(*   op      the one specification operation at a time: agents write         *)
(*           documents and the phase advances                                *)
(*   cmd     the one user command at a time: clarification, requirement      *)
(*           change, retry                                                   *)
(*   life    final verification and delivery                                 *)
(*   up      start, disposal and crash of the host                           *)
(* Anybody may edit a document at any moment.  Every commit is fenced by the *)
(* revision read before; a load and the commit on the loaded revision are    *)
(* one step, for the fence makes the state at the commit the loaded one.     *)
(* Every activity may fail at every step (I/O, validation, an agent): the    *)
(* ...Fails actions; a commit may also be durable and yet fail, because its  *)
(* event cannot be published.                                                *)
(* The host is one whose configuration names a development section: only     *)
(* such a host verifies a saved verdict again when it starts.                *)
(* Source: packages/core/src/{approval-service,specification-coordinator,    *)
(* production-composition,delivery-lifecycle,requirement-change}.ts,         *)
(* packages/bundle/src/production-workflow-commands.ts                       *)
EXTENDS ApprovalPort

VARIABLES
    st,         \* the durable state of the task
    files,      \* the documents on disk
    flight,     \* gate -> the approval being obtained
    op,         \* the specification operation in progress
    cmd,        \* the user command in progress
    seen,       \* the revision a decision was checked against
    life,       \* where final verification is
    up          \* the host: down, reconciled or up

mem  == <<flight, op, cmd, seen, life>>
vars == <<entry, closed, st, files, flight, op, cmd, seen, life, up>>

Kinds == {"start", "refine", "refineDesign", "design", "tasks"}
Early == {"load", "verify", "ask"}

States == [phase : Phases, rev : Revisions, error : BOOLEAN,
           approvals : [Gates -> Snapshots \cup {Missing}],
           change : {"none", "preparing", "review"},
           verdict : {"none", "blocked", "ready"}]

Flights == [step : Early \cup {"none", "wait", "record", "settle", "next", "op", "publish"},
            rev : Revisions, before : Snapshots \cup {Missing}]

Ops == [kind : Kinds \cup {"none"}, step : {"idle", "clear", "open", "verify", "write", "fail"},
        by : Gates \cup {"user"}]

Commands == [step : {"idle", "settling", "work", "op", "publish", "observe", "stop",
                     "reopen", "prepare", "generate", "ready"},
             phase : Phases, rev : Revisions, gate : Gates]

TypeOK ==
    /\ PortTypeOK
    /\ st \in States
    /\ files \in [Docs -> Contents]
    /\ flight \in [Gates -> Flights]
    /\ op \in Ops
    /\ cmd \in Commands
    /\ seen \in Revisions \cup {MaxRevision + 1}
    /\ life \in {"none", "begin", "verify", "finish"}
    /\ up \in {"down", "reconciled", "up"}

NoFlight == [step |-> "none", rev |-> 0, before |-> Missing]
NoOp  == [kind |-> "none", step |-> "idle", by |-> "user"]
NoCmd == [step |-> "idle", phase |-> "DISCOVER", rev |-> 0, gate |-> "requirements"]
Unseen == MaxRevision + 1

Init ==
    /\ PortInit
    /\ st = [phase |-> "DISCOVER", rev |-> 0, error |-> FALSE,
             approvals |-> [g \in Gates |-> Missing], change |-> "none", verdict |-> "none"]
    /\ files \in [Docs -> Contents]
    /\ flight = [g \in Gates |-> NoFlight]
    /\ op = NoOp /\ cmd = NoCmd /\ seen = Unseen /\ life = "none" /\ up = "up"

-----------------------------------------------------------------------------
(* What the activities share.                                                *)

(* transact: s replaces the state if nobody has moved it since revision r.   *)
Commit(r, s) == st.rev = r /\ r < MaxRevision /\ st' = [s EXCEPT !.rev = r + 1]

(* The latest approval of gate g covers exactly the documents as they are.   *)
Approved(g) == st.approvals[g] = Scoped(g, files)

(* requestWorkflowApproval: one flight per gate, none once closed.           *)
Requested(f, g) == IF f[g].step = "none" /\ ~Pending(g) /\ ~closed
                   THEN [f EXCEPT ![g] = [NoFlight EXCEPT !.step = "load"]] ELSE f

At(g, step) == up = "up" /\ flight[g].step = step
Goes(g, step) == flight' = [flight EXCEPT ![g].step = step]
Lands(g) == flight' = [flight EXCEPT ![g] = NoFlight]

-----------------------------------------------------------------------------
(* The flight of a gate: ApprovalService.requestApproval inside              *)
(* workflow.approve.                                                         *)

LoadForApproval(g) ==
    /\ At(g, "load") /\ st.phase = Awaiting(g)
    /\ flight' = [flight EXCEPT ![g].rev = st.rev,
                                ![g].step = IF g = "design" THEN "verify" ELSE "ask"]
    /\ UNCHANGED <<portVars, st, files, op, cmd, seen, life, up>>

VerifyRequirements(g) ==
    /\ At(g, "verify") /\ Approved("requirements")
    /\ Goes(g, "ask")
    /\ UNCHANGED <<portVars, st, files, op, cmd, seen, life, up>>

AskApproval(g) ==
    /\ At(g, "ask")
    /\ Asked(g, flight[g].rev, Scoped(g, files))
    /\ flight' = [flight EXCEPT ![g].step = "wait", ![g].before = Scoped(g, files)]
    /\ UNCHANGED <<st, files, op, cmd, seen, life, up>>

Rejected(g) ==
    /\ At(g, "wait") /\ entry[g].status = "decided" /\ entry[g].effect = "reject"
    /\ Settled(g) /\ Lands(g)
    /\ UNCHANGED <<st, files, op, cmd, seen, life, up>>

CheckUnchanged(g) ==
    /\ At(g, "wait") /\ entry[g].status = "decided" /\ entry[g].effect = "approve"
    /\ Scoped(g, files) = flight[g].before
    /\ Goes(g, "record")
    /\ UNCHANGED <<portVars, st, files, op, cmd, seen, life, up>>

\* A bug: the latest revision instead of the one the request was made at.
RecordLatest(g) ==
    /\ At(g, "record") /\ st.phase = Awaiting(g)
    /\ Commit(st.rev, [st EXCEPT !.phase = After(g), !.approvals[g] = flight[g].before])
    /\ Goes(g, "settle")
    /\ UNCHANGED <<portVars, files, op, cmd, seen, life, up>>

(* Until "settle" is over the event of the commit is being published: if     *)
(* that fails (FlightFails), the approval is durable and the flight is not.  *)
RecordApproval(g) ==
    /\ At(g, "record") /\ st.phase = Awaiting(g)
    /\ Commit(flight[g].rev, [st EXCEPT !.phase = After(g), !.approvals[g] = flight[g].before])
    /\ Goes(g, "settle")
    /\ UNCHANGED <<portVars, files, op, cmd, seen, life, up>>

SettleApproval(g) ==
    /\ At(g, "settle")
    /\ Settled(g) /\ Goes(g, "next")
    /\ UNCHANGED <<st, files, op, cmd, seen, life, up>>

(* The generation that follows an approval, unless one is running already.   *)
GenerateNext(g) ==
    /\ At(g, "next") /\ ~closed /\ op = NoOp
    /\ op' = [kind |-> IF g = "requirements" THEN "design" ELSE "tasks", step |-> "clear", by |-> g]
    /\ Goes(g, "op")
    /\ UNCHANGED <<portVars, st, files, cmd, seen, life, up>>

(* afterGeneration: the design is put to the user; after the task plan       *)
(* development resumes.                                                      *)
PublishNext(g) ==
    /\ At(g, "publish") /\ ~closed
    /\ LET landed == [flight EXCEPT ![g] = NoFlight]
       IN flight' = IF g = "requirements" THEN Requested(landed, "design") ELSE landed
    /\ UNCHANGED <<portVars, st, files, op, cmd, seen, life, up>>

FlightFails(g) ==
    /\ up = "up" /\ flight[g].step \notin {"none", "op"}
    /\ flight[g].step = "wait" => entry[g].status # "pending" /\ entry[g].effect # "reject"
    /\ Settled(g) /\ Lands(g)
    /\ UNCHANGED <<st, files, op, cmd, seen, life, up>>

FlightStep(g) ==
    \/ LoadForApproval(g) \/ VerifyRequirements(g) \/ AskApproval(g) \/ Rejected(g)
    \/ CheckUnchanged(g) \/ RecordApproval(g) \/ SettleApproval(g)
    \/ GenerateNext(g) \/ PublishNext(g) \/ FlightFails(g)

-----------------------------------------------------------------------------
(* The specification operation: SpecificationCoordinator.exclusive.          *)

OpAt(step) == up = "up" /\ op.step = step

(* The phase an operation works in, the one it reopens it from, and the one  *)
(* it ends in.                                                               *)
WorkPhase(k) == CASE k \in {"start", "refine"} -> "SPECIFY"
                  [] k \in {"design", "refineDesign"} -> "DESIGN"
                  [] OTHER -> "PLAN"
OpensFrom(k) == CASE k = "start" -> "DISCOVER"
                  [] k = "refine" -> "AWAIT_REQUIREMENTS_APPROVAL"
                  [] k = "refineDesign" -> "AWAIT_DESIGN_APPROVAL"
                  [] OTHER -> WorkPhase(k)
EndsIn(k) == CASE WorkPhase(k) = "SPECIFY" -> "AWAIT_REQUIREMENTS_APPROVAL"
               [] WorkPhase(k) = "DESIGN" -> "AWAIT_DESIGN_APPROVAL"
               [] OTHER -> "BUILD"

(* An error left by an earlier operation is cleared first.                   *)
ClearError ==
    /\ OpAt("clear")
    /\ \/ ~st.error /\ UNCHANGED st
       \/ st.error /\ Commit(st.rev, [st EXCEPT !.error = FALSE])
    /\ op' = [op EXCEPT !.step = "open"]
    /\ UNCHANGED <<portVars, files, flight, cmd, seen, life, up>>

(* start also goes on in SPECIFY, where an earlier attempt stopped.          *)
OpenPhase ==
    /\ OpAt("open")
    /\ \/ /\ st.phase = OpensFrom(op.kind) /\ OpensFrom(op.kind) # WorkPhase(op.kind)
          /\ Commit(st.rev, [st EXCEPT !.phase = WorkPhase(op.kind)])
       \/ /\ st.phase = WorkPhase(op.kind) /\ op.kind \in {"start", "design", "tasks"}
          /\ UNCHANGED st
    /\ op' = [op EXCEPT !.step = IF WorkPhase(op.kind) = "SPECIFY" THEN "write" ELSE "verify"]
    /\ UNCHANGED <<portVars, files, flight, cmd, seen, life, up>>

VerifyInputs ==
    /\ OpAt("verify")
    /\ Approved(IF op.kind = "tasks" THEN "design" ELSE "requirements")
    /\ op' = [op EXCEPT !.step = "write"]
    /\ UNCHANGED <<portVars, st, files, flight, cmd, seen, life, up>>

(* An agent writes one of the documents it owns.                             *)
AgentWrites ==
    /\ OpAt("write")
    /\ \E d \in Docs, c \in Contents :
          /\ DocPhase[d] = WorkPhase(op.kind)
          /\ files' = [files EXCEPT ![d] = c]
    /\ UNCHANGED <<portVars, st, flight, op, cmd, seen, life, up>>

(* How the caller of an operation goes on.                                   *)
Returned(ok) ==
    IF op.by \in Gates
    THEN flight' = [flight EXCEPT ![op.by] = IF ok THEN [@ EXCEPT !.step = "publish"] ELSE NoFlight]
         /\ UNCHANGED cmd
    ELSE cmd' = (IF ~ok THEN NoCmd
                 ELSE IF cmd.step = "generate" THEN [cmd EXCEPT !.step = "ready"]
                 ELSE IF cmd.phase = "PLAN" THEN NoCmd
                 ELSE [cmd EXCEPT !.step = "publish"])
         /\ UNCHANGED flight

ClosePhase ==
    /\ OpAt("write") /\ st.phase = WorkPhase(op.kind)
    /\ op.kind = "tasks" => Approved("design")
    /\ Commit(st.rev, [st EXCEPT !.phase = EndsIn(op.kind)])
    /\ \/ op' = NoOp /\ Returned(TRUE)
       \/ op' = [op EXCEPT !.step = "fail"] /\ UNCHANGED <<flight, cmd>>
    /\ UNCHANGED <<portVars, files, seen, life, up>>

OpFails ==
    /\ up = "up" /\ op.step \in {"clear", "open", "verify", "write"}
    /\ op' = [op EXCEPT !.step = "fail"]
    /\ UNCHANGED <<portVars, st, files, flight, cmd, seen, life, up>>

(* The failure is recorded if it can be, and the caller told.                *)
RecordError ==
    /\ OpAt("fail")
    /\ Commit(st.rev, [st EXCEPT !.error = TRUE]) \/ UNCHANGED st
    /\ op' = NoOp /\ Returned(FALSE)
    /\ UNCHANGED <<portVars, files, seen, life, up>>

OpStep == ClearError \/ OpenPhase \/ VerifyInputs \/ ClosePhase \/ OpFails \/ RecordError

-----------------------------------------------------------------------------
(* The user's commands.                                                      *)

CmdAt(step) == up = "up" /\ cmd.step = step
Steps(step) == cmd' = [cmd EXCEPT !.step = step]
Begins(kind) == op = NoOp /\ op' = [kind |-> kind, step |-> "clear", by |-> "user"]

(* submitClarification: a pending request is rejected first.                 *)
Clarify ==
    /\ CmdAt("idle") /\ ~closed
    /\ \/ /\ \A g \in Gates : ~Pending(g)
          /\ cmd' = [NoCmd EXCEPT !.step = "work", !.phase = st.phase, !.rev = st.rev]
          /\ UNCHANGED portVars
       \/ \E g \in Gates :
             /\ Decided(g, "reject", entry[g].rev)
             /\ cmd' = [step |-> "settling", phase |-> st.phase, rev |-> st.rev, gate |-> g]
    /\ UNCHANGED <<st, files, flight, op, seen, life, up>>

RejectionSettled ==
    /\ CmdAt("settling") /\ entry[cmd.gate].status # "decided"
    /\ Steps("work")
    /\ UNCHANGED <<portVars, st, files, flight, op, seen, life, up>>

(* By the phase read when the command came in.                               *)
Work ==
    /\ CmdAt("work")
    /\ \/ cmd.phase \in {"BUILD", "VERIFY"} /\ Steps("stop") /\ UNCHANGED op
       \/ /\ cmd.phase \in {"DISCOVER", "SPECIFY"}
          /\ ~(cmd.phase = "SPECIFY" /\ st.change = "preparing")
          /\ Begins("start") /\ Steps("op")
       \/ cmd.phase = "AWAIT_REQUIREMENTS_APPROVAL" /\ Begins("refine") /\ Steps("op")
       \/ cmd.phase = "AWAIT_DESIGN_APPROVAL" /\ Begins("refineDesign") /\ Steps("op")
    /\ UNCHANGED <<portVars, st, files, flight, seen, life, up>>

PublishApproval ==
    /\ CmdAt("publish") /\ ~closed
    /\ LET g == IF cmd.phase \in {"DESIGN", "AWAIT_DESIGN_APPROVAL"} THEN "design"
                                                                     ELSE "requirements"
       IN /\ flight' = Requested(flight, g)
          /\ cmd' = [cmd EXCEPT !.step = "observe", !.gate = g]
    /\ UNCHANGED <<portVars, st, files, op, seen, life, up>>

(* The command ends when the request is seen pending, or its flight is over. *)
Observe ==
    /\ CmdAt("observe") /\ flight[cmd.gate].step \notin Early
    /\ cmd' = NoCmd
    /\ UNCHANGED <<portVars, st, files, flight, op, seen, life, up>>

(* RequirementChangeService.request: development is stopped, then both gates *)
(* reopen, unless the state has moved since the command came in.             *)
StopDevelopment ==
    /\ CmdAt("stop") /\ life = "none"
    /\ Steps("reopen")
    /\ UNCHANGED <<portVars, st, files, flight, op, seen, life, up>>

ReopenRequirements ==
    /\ CmdAt("reopen")
    /\ Commit(cmd.rev, [st EXCEPT !.phase = "SPECIFY", !.error = FALSE,
                                  !.approvals = [g \in Gates |-> Missing],
                                  !.change = "preparing", !.verdict = "none"])
    /\ Steps("prepare") \/ cmd' = NoCmd
    /\ UNCHANGED <<portVars, files, flight, op, seen, life, up>>

PrepareChange ==
    /\ CmdAt("prepare") /\ st.change = "preparing" /\ life = "none"
    /\ \/ st.phase = "SPECIFY" /\ Begins("start") /\ Steps("generate")
       \/ st.phase = "AWAIT_REQUIREMENTS_APPROVAL" /\ Steps("ready") /\ UNCHANGED op
    /\ UNCHANGED <<portVars, st, files, flight, seen, life, up>>

ChangeReady ==
    /\ CmdAt("ready") /\ st.phase = "AWAIT_REQUIREMENTS_APPROVAL"
    /\ Commit(st.rev, [st EXCEPT !.change = "review"])
    /\ cmd' = [cmd EXCEPT !.step = "publish", !.phase = st.phase] \/ cmd' = NoCmd
    /\ UNCHANGED <<portVars, files, flight, op, seen, life, up>>

(* retryFailedStep: a saved requirement change, or an interrupted generation *)
RetryChange ==
    /\ CmdAt("idle") /\ ~closed
    /\ cmd' = [NoCmd EXCEPT !.step = "prepare"]
    /\ UNCHANGED <<portVars, st, files, flight, op, seen, life, up>>

RetryGeneration ==
    /\ CmdAt("idle") /\ ~closed
    /\ st.phase \in {"DESIGN", "PLAN"}
    /\ life = "none" /\ \A g \in Gates : ~Pending(g)
    /\ Begins(IF st.phase = "DESIGN" THEN "design" ELSE "tasks")
    /\ cmd' = [NoCmd EXCEPT !.step = "op", !.phase = st.phase]
    /\ UNCHANGED <<portVars, st, files, flight, seen, life, up>>

RetryApproval(g) ==
    /\ up = "up" /\ ~closed /\ flight[g].step = "none"
    /\ flight' = Requested(flight, g)
    /\ UNCHANGED <<portVars, st, files, op, cmd, seen, life, up>>

CmdFails ==
    /\ up = "up" /\ cmd.step \in {"work", "publish", "stop", "reopen", "prepare", "ready"}
    /\ cmd' = NoCmd
    /\ UNCHANGED <<portVars, st, files, flight, op, seen, life, up>>

CmdStep ==
    \/ RejectionSettled \/ Work \/ PublishApproval \/ Observe \/ StopDevelopment
    \/ ReopenRequirements \/ PrepareChange \/ ChangeReady \/ CmdFails

(* decideApproval: the revision is checked first, the decision is taken on   *)
(* the checked revision after an await.                                      *)
CheckDecision ==
    /\ up = "up" /\ ~closed /\ \E g \in Gates : Pending(g) /\ entry[g].rev = st.rev
    /\ seen' = st.rev
    /\ UNCHANGED <<portVars, st, files, flight, op, cmd, life, up>>

DecideApproval ==
    /\ up = "up" /\ seen # Unseen
    /\ seen' = Unseen
    /\ \/ \E g \in Gates, effect \in {"approve", "reject"} : Decided(g, effect, seen)
       \/ UNCHANGED portVars
    /\ UNCHANGED <<st, files, flight, op, cmd, life, up>>

-----------------------------------------------------------------------------
(* Final verification: DeliveryLifecycle as the development run uses it.     *)

ApprovedForDevelopment == \A g \in Gates : Approved(g)

StartVerification ==
    /\ up = "up" /\ ~closed /\ life = "none" /\ ApprovedForDevelopment
    /\ life' = "begin"
    /\ UNCHANGED <<portVars, st, files, flight, op, cmd, seen, up>>

BeginVerification ==
    /\ up = "up" /\ life = "begin" /\ st.phase \in {"BUILD", "VERIFY"}
    /\ Commit(st.rev, [st EXCEPT !.phase = "VERIFY", !.verdict = "none"])
    /\ life' = "verify"
    /\ UNCHANGED <<portVars, files, flight, op, cmd, seen, up>>

VerifyResult ==
    /\ up = "up" /\ life = "verify" /\ ApprovedForDevelopment
    /\ life' = "finish"
    /\ UNCHANGED <<portVars, st, files, flight, op, cmd, seen, up>>

FinishVerification ==
    /\ up = "up" /\ life = "finish" /\ st.phase = "VERIFY"
    /\ \E verdict \in {"ready", "blocked"} :
          Commit(st.rev, [st EXCEPT !.verdict = verdict,
                                    !.phase = IF verdict = "ready" THEN "DELIVER" ELSE "VERIFY"])
    /\ life' = "none"
    /\ UNCHANGED <<portVars, files, flight, op, cmd, seen, up>>

VerificationFails ==
    /\ up = "up" /\ life # "none"
    /\ life' = "none"
    /\ UNCHANGED <<portVars, st, files, flight, op, cmd, seen, up>>

LifeStep == BeginVerification \/ VerifyResult \/ FinishVerification \/ VerificationFails

-----------------------------------------------------------------------------
(* The host.                                                                 *)

(* A user or a tool changes a document.                                      *)
EditDocument(d) ==
    /\ \E c \in Contents : files' = [files EXCEPT ![d] = c]
    /\ UNCHANGED <<portVars, st, flight, op, cmd, seen, life, up>>

MemoryLost ==
    /\ entry' = [g \in Gates |-> Free] /\ closed' = FALSE
    /\ flight' = [g \in Gates |-> NoFlight]
    /\ op' = NoOp /\ cmd' = NoCmd /\ seen' = Unseen /\ life' = "none"
    /\ up' = "down"

Crash == up # "down" /\ MemoryLost /\ UNCHANGED <<st, files>>

(* reconcilePersistedApprovals: the first stale gate rewinds the task.       *)
Stale(g) == st.approvals[g] # Missing /\ ~Approved(g)

Reconcile ==
    /\ up = "down"
    /\ \/ Stale("requirements") /\ Commit(st.rev, Invalidated(st, "SPECIFY"))
       \/ ~Stale("requirements") /\ Stale("design") /\ Commit(st.rev, Invalidated(st, "DESIGN"))
       \/ (\A g \in Gates : ~Stale(g)) /\ UNCHANGED st
    /\ up' = "reconciled"
    /\ UNCHANGED <<portVars, files, mem>>

\* A bug: the saved verdict is kept as it is.
ServeTrusting ==
    /\ up = "reconciled"
    /\ up' = "up"
    /\ UNCHANGED <<portVars, st, files, mem>>

(* A saved verdict is kept only if it still verifies; then the host serves,  *)
(* and asks again for the approval the task waits for.                       *)
Serve ==
    /\ up = "reconciled"
    /\ \/ st.verdict = "none" /\ UNCHANGED st
       \/ st.verdict # "none" /\ ApprovedForDevelopment /\ UNCHANGED st
       \/ /\ st.verdict # "none"
          /\ Commit(st.rev, [st EXCEPT !.verdict = "none",
                      !.phase = IF @ = "DELIVER" THEN "VERIFY" ELSE @])
    /\ flight' = [g \in Gates |-> IF st.phase = Awaiting(g) THEN [NoFlight EXCEPT !.step = "load"]
                                                           ELSE NoFlight]
    /\ up' = "up"
    /\ UNCHANGED <<portVars, files, op, cmd, seen, life>>

Dispose ==
    /\ up = "up" /\ ~closed
    /\ PortClosed
    /\ UNCHANGED <<st, files, flight, op, cmd, seen, life, up>>

(* The host is gone once every flight has landed.                            *)
Disposed ==
    /\ up = "up" /\ closed /\ \A g \in Gates : flight[g].step = "none"
    /\ MemoryLost /\ UNCHANGED <<st, files>>

Next ==
    \/ \E g \in Gates : FlightStep(g) \/ RetryApproval(g)
    \/ OpStep \/ AgentWrites
    \/ Clarify \/ RetryChange \/ RetryGeneration \/ CmdStep
    \/ CheckDecision \/ DecideApproval
    \/ StartVerification \/ LifeStep
    \/ \E d \in Docs : EditDocument(d)
    \/ Crash \/ Reconcile \/ Serve \/ Dispose \/ Disposed

Spec == Init /\ [][Next]_vars

(* Continuations run and agents answer within their budget.  The user need   *)
(* not decide, nobody need edit, and nothing need be started.                *)
Fairness == /\ \A g \in Gates : WF_vars(FlightStep(g))
            /\ WF_vars(OpStep) /\ WF_vars(CmdStep) /\ WF_vars(Disposed)

FairSpec == Spec /\ Fairness

-----------------------------------------------------------------------------
(* Properties.                                                               *)

(* No phase is reached without the approvals that guard it, and nothing is   *)
(* delivered but on a ready verdict, whatever flights, operations, edits,    *)
(* requirement changes and restarts interleave.  (The gates are the point of *)
(* ApprovalService; approval-service.ts, artifact-invalidation.ts,           *)
(* requirement-change.ts and delivery-lifecycle.ts each move the phase.)     *)
GatesInOrder ==
    /\ Rank(st.phase) > Rank(Awaiting("requirements")) => st.approvals["requirements"] # Missing
    /\ Rank(st.phase) > Rank(Awaiting("design")) => st.approvals["design"] # Missing
    /\ st.phase = "DELIVER" => st.verdict = "ready"

(* An approval is recorded only while the user's own approve decision is     *)
(* unsettled, for exactly the documents the request named, and with nothing  *)
(* in the task's state moved since it was made.   (requestApproval's         *)
(* snapshots before and after, the decision and the fence are four separate  *)
(* moments: approval-service.ts:139-173.)                                    *)
ApprovalIsReviewed ==
    [][\A g \in Gates :
          st'.approvals[g] \notin {st.approvals[g], Missing} =>
              /\ entry[g].status = "decided" /\ entry[g].effect = "approve"
              /\ entry[g].hashes = st'.approvals[g]
              /\ entry[g].rev = st.rev]_vars

(* A decision to approve is answered, and the flight goes on to the next     *)
(* generation, only after the approval became durable, as the revision that  *)
(* follows the one it was asked at.  (The comment on decideAndWait in        *)
(* production-workflow-commands.ts:77.)                                      *)
AnsweredIsDurable ==
    [][\A g \in Gates :
          (entry[g].effect = "approve" /\ entry'[g] = Free /\ flight'[g].step # "none") =>
              /\ st.rev > entry[g].rev
              /\ st.rev = entry[g].rev + 1 => st.approvals[g] = entry[g].hashes]_vars

(* While the host serves, a saved verdict belongs to a task in verification  *)
(* or delivered: one that a requirement change, a reconciliation at start or *)
(* a new verification has overtaken is gone.  (requirement-change.ts:31,     *)
(* delivery-lifecycle.ts:30-39, workflow-host.ts:108-118.)                   *)
VerdictIsCurrent ==
    up = "up" /\ st.verdict # "none" => st.phase \in {"VERIFY", "DELIVER"}

(* Disposal ends: closing the port releases every flight, whatever it waits  *)
(* for.  (production-composition.ts:238-251 awaits the drain of the port and *)
(* of the flights.)                                                          *)
DisposalEnds == closed ~> ~closed

=============================================================================

---------------------------- MODULE Development ----------------------------
(* Development of an approved plan by one host: the controller of its runs *)
(* (development/src/development-run-controller.ts), the coordinator that   *)
(* goes through the slices (development-coordinator.ts), the executor of a *)
(* slice with its repairs (slice-executor.ts, retry-policy.ts), the        *)
(* checkpoint (file-development-checkpoint-store.ts), the last check       *)
(* (bundle/src/final-development-verification.ts, workflow-host.ts), and   *)
(* the change of requirements that starts over                             *)
(* (core/src/requirement-change.ts).                                       *)
(*                                                                         *)
(* Agents, editors and users act at any moment.  Of a file it matters      *)
(* whether it is there, and whether it is as it was when it was last       *)
(* captured; of a slice's handoffs, whether a developer's was accepted and *)
(* what the last one is.  Content that changes and changes back is not     *)
(* told apart.  The run lock is an advisory lock: a death frees it.        *)
EXTENDS Naturals, FiniteSets

CONSTANTS Slices,    \* 1..n, in the order of the plan
          Needs,     \* Needs[s]: the slices that s depends on
          TasksOf,   \* TasksOf[s]: the tasks of s, numbers
          MaxRetries, \* of RetryPolicy: 0, 1 or 2
          Callers,   \* those who may stop a run: "pause", "change", "dispose",
                     \* one at a time
          MaxAsked,  \* bound: calls of them
          MaxRuns,   \* bound: resumptions
          MaxPlans,  \* bound: plans ever approved
          MaxEvents  \* bound: edits and removals of files and documents, and
                     \* ends of the process

None == 0
Runs == 1..MaxRuns
Tasks == UNION {TasksOf[s] : s \in Slices}

VARIABLES phase,    \* of the task
          plan,     \* the plan in the documents
          approved, \* the plan whose design approval is recorded
          dirty,    \* a document is not as it was approved
          there,    \* tasks whose files are there
          saved,    \* checkpoint.json
          delivered, \* the record of the last check in the task's state
          up,       \* the host runs
          status,   \* of the controller: running, pausing, passed, or stopped,
                    \* which stands for idle, paused, failed and blocked
          ctl,      \* its flags: active, ready, pause, closed
          coord,    \* the coordinator: its active run, pauseRequested
          lock,     \* the runs that share the run lock
          run,      \* the runs
          stop,     \* the caller of pauseAndWait or dispose, and where it is
          asked,    \* calls so far
          change,   \* the requirement change under way
          events
durable == <<phase, plan, approved, dirty, there, saved, delivered>>
host == <<up, status, ctl, coord, lock>>
vars == <<durable, host, run, stop, asked, change, events>>

NoRun == [at |-> "none"]
Over == [at |-> "over"]
NoCheckpoint == [plan |-> None]
NoRecord == [plan |-> None]
NoEvidence == [developer |-> FALSE, last |-> <<"none", FALSE>>]
Quiet == [active |-> None, ready |-> None, pause |-> FALSE, closed |-> FALSE]
IdleCoordinator == [run |-> None, pause |-> FALSE]

Init == /\ phase = "BUILD" /\ plan = 1 /\ approved = 1 /\ dirty = FALSE /\ there = {}
        /\ saved = NoCheckpoint /\ delivered = NoRecord
        /\ up = TRUE /\ status = "stopped" /\ ctl = Quiet /\ coord = IdleCoordinator /\ lock = {}
        /\ run = [r \in Runs |-> NoRun]
        /\ stop = << >> /\ asked = 0
        /\ change = "none" /\ events = 0

(* verifyDevelopmentApproval *)
Fresh == approved = plan /\ ~dirty

(* SliceExecutor's dispatches, and whether a run is within the coordinator.*)
Dispatched == {"develop", "fix", "test", "retest"}
Dispatching(r) == run[r].at \in Dispatched
Coordinated == {"gate", "next", "record"} \cup Dispatched
Executing(r) == run[r].at \in Coordinated
Verifying == {"begin", "check tests", "compare", "finish"}
Live(r) == run[r].at \notin {"none", "before", "over"}

Go(r, place) == run' = [run EXCEPT ![r].at = place]
(* A write by anyone: no capture is of the files as they are any more.     *)
Rewritten(f) == [r \in Runs |-> IF "same" \in DOMAIN f[r] THEN [f[r] EXCEPT !.same = FALSE] ELSE f[r]]
Outdated(record) == IF record = NoRecord THEN record ELSE [record EXCEPT !.same = FALSE]
Ends(r, result) == status' = result /\ run' = [run EXCEPT ![r] = [at |-> "release", ready |-> "yes"]]
(* The coordinator's and the controller's finally and catch.               *)
Freed(r) == IF coord.run = r THEN IdleCoordinator ELSE coord
Fail(r) == /\ status' = "stopped" /\ coord' = Freed(r)
           /\ run' = [run EXCEPT ![r] = [at |-> "release",
                        ready |-> IF run[r].ready = "no" THEN "rejected" ELSE run[r].ready]]

(***************************************************************************)
(* The controller.                                                         *)
(***************************************************************************)

(* resume, up to beforeResume, which is awaited before active is set.      *)
Resume(r) == /\ up /\ ~ctl.closed /\ ctl.active = None /\ run[r] = NoRun
             /\ \A q \in Runs : q < r => run[q] # NoRun
             /\ run' = [run EXCEPT ![r] = [at |-> "before", ready |-> "no"]]
             /\ UNCHANGED <<durable, host, stop, asked, change, events>>
Begin(r) == /\ run[r].at = "before"
            /\ \/ /\ ctl' = [ctl EXCEPT !.active = r, !.ready = r, !.pause = FALSE]
                  /\ status' = "running" /\ Go(r, "load")
               \/ run' = [run EXCEPT ![r] = Over] /\ UNCHANGED <<ctl, status>>
            /\ UNCHANGED <<durable, up, coord, lock, stop, asked, change, events>>

(* The runs of one host share the lock (SharedLongTaskRunLease).  Then     *)
(* recoverAbandonedOwnership throws while an agent works, and loadPlan     *)
(* without a current approval.                                             *)
Load(r) == /\ run[r].at = "load"
           /\ \/ Fail(r) /\ UNCHANGED lock
              \/ /\ lock' = lock \cup {r}
                 /\ IF Fresh /\ \A q \in Runs : ~Dispatching(q)
                    THEN /\ run' = [run EXCEPT ![r] = [at |-> "start", ready |-> "no", plan |-> plan]]
                         /\ UNCHANGED <<status, coord>>
                    ELSE Fail(r)
           /\ UNCHANGED <<durable, up, ctl, stop, asked, change, events>>

(* verifyCheckpointResult: an accepted developer, or the files are there;  *)
(* the last handoff is an accepted tester's.                               *)
\* A bug: files that are there do not stand for a developer.
VerifiedByHandoff(s, evidence) == evidence.developer /\ evidence.last = <<"tester", TRUE>>
Verified(s, evidence) == /\ evidence.developer \/ TasksOf[s] \subseteq there
                         /\ evidence.last = <<"tester", TRUE>>

(* resumeFrom *)
Completed(checkpoint) == IF checkpoint = NoCheckpoint THEN {} ELSE DOMAIN checkpoint.slices
Resumable(checkpoint, current) ==
  \/ checkpoint = NoCheckpoint
  \/ /\ checkpoint.plan = current
     /\ \A s \in Completed(checkpoint) : /\ Needs[s] \subseteq Completed(checkpoint)
                                         /\ Verified(s, checkpoint.slices[s])

(* runExclusive *)
Free == coord.run = None

(* checkpoints.load, which may throw, and the coordinator's execute or     *)
(* resume, up to its first await; a pause asked for meanwhile is passed on *)
(* -- to the run the coordinator has, when it refuses this one.            *)
Start(r) ==
  /\ run[r].at = "start"
  /\ \/ /\ Free /\ Resumable(saved, run[r].plan)
        /\ coord' = [run |-> r, pause |-> ctl.pause \/ ctl.closed]
        /\ run' = [run EXCEPT ![r] = [at |-> "gate", ready |-> "yes", plan |-> run[r].plan,
                      results |-> IF saved = NoCheckpoint THEN << >> ELSE saved.slices]]
        /\ UNCHANGED status
     \/ /\ ~(Free /\ Resumable(saved, run[r].plan)) /\ Ends(r, "stopped")
        /\ coord' = IF Free THEN coord ELSE [coord EXCEPT !.pause = @ \/ ctl.pause \/ ctl.closed]
     \/ Fail(r)
  /\ UNCHANGED <<durable, up, ctl, lock, stop, asked, change, events>>

(* The end of the run: closing the lock is awaited with active still set.  *)
Release(r) == /\ run[r].at = "release"
              /\ lock' = lock \ {r}
              /\ ctl' = IF ctl.active = r THEN [ctl EXCEPT !.active = None] ELSE ctl
              /\ run' = [run EXCEPT ![r].at = "over"]
              /\ UNCHANGED <<durable, up, status, coord, stop, asked, change, events>>

(***************************************************************************)
(* The coordinator.                                                        *)
(***************************************************************************)

(* A result that passed goes to the last check unless a pause was asked    *)
(* for.                                                                    *)
Settle(r, result) ==
  /\ coord' = IdleCoordinator
  /\ IF result = "passed" /\ ~ctl.pause /\ ~ctl.closed
     THEN status' = "running" /\ Go(r, "begin")
     ELSE status' = ("stopped") /\ Go(r, "release")

(* persistCheckpoint: temporary file and rename; it may throw.             *)
Saved(r, results) == saved' = [plan |-> run[r].plan, slices |-> results]
(* executeFrom, up to the slices.                                          *)
Gate(r) == /\ run[r].at = "gate"
           /\ \/ Fresh /\ Saved(r, run[r].results) /\ Go(r, "next") /\ UNCHANGED <<status, coord>>
              \/ Fail(r) /\ UNCHANGED saved
           /\ UNCHANGED <<phase, plan, approved, dirty, there, delivered, up, ctl, lock, stop, asked, change, events>>

(* developerBatches: the tasks whose files are not there.                  *)
Todo(s, files) == TasksOf[s] \ files
(* One round of SliceExecutor.execute's loop.                              *)
Round(r, s, attempt, developer) ==
  run' = [run EXCEPT ![r] = [at |-> IF Todo(s, there') = {} THEN "test" ELSE "develop",
            ready |-> "yes", plan |-> run[r].plan, results |-> run[r].results,
            slice |-> s, todo |-> Todo(s, there'), attempt |-> attempt, developer |-> developer]]

(* The next slice: pause, approval, pause again, dependencies.             *)
Remaining(r) == Slices \ DOMAIN run[r].results
First(S) == CHOOSE x \in S : \A y \in S : x <= y
NextSlice(r) ==
  /\ run[r].at = "next"
  /\ UNCHANGED <<durable, up, ctl, lock, stop, asked, change, events>>
  /\ IF Remaining(r) = {} THEN Settle(r, "passed")
     ELSE IF coord.pause THEN Settle(r, "stopped")
     ELSE LET s == First(Remaining(r))
          IN IF Fresh /\ Needs[s] \subseteq DOMAIN run[r].results
             THEN Round(r, s, 0, FALSE) /\ UNCHANGED <<status, coord>>
             ELSE Fail(r)

(***************************************************************************)
(* The executor of a slice.                                                *)
(***************************************************************************)

(* What a dispatch ends with: a handoff, accepted or not, or an exception; *)
(* what went wrong, by what is done about it (failure-classifier.ts,       *)
(* RetryPolicy.decide).                                                    *)
Wrongs == {"code", "transient", "other"}
Refusals == [end : {"refused", "thrown"}, wrong : Wrongs]
Decide(wrong, attempt) == IF attempt >= MaxRetries THEN "stop"
                          ELSE CASE wrong = "code" -> "repair"
                                 [] wrong = "transient" -> "retry"
                                 [] OTHER -> "stop"
Done(r, result, evidence) ==
  run' = [run EXCEPT ![r] = [at |-> "record", ready |-> "yes", plan |-> run[r].plan,
            results |-> run[r].results, slice |-> run[r].slice, result |-> result, evidence |-> evidence]]

Stopped(r) == Done(r, "stopped", NoEvidence)
Passed(r, last) == Done(r, "passed", [developer |-> run[r].developer, last |-> last])

(* A developer's or tester's dispatch that did not go well.  A repair      *)
(* remembers what it is of.                                                *)
Handle(r, role, bad) ==
  LET decision == Decide(bad.wrong, run[r].attempt)
  IN CASE decision = "retry" -> Round(r, run[r].slice, run[r].attempt + 1, run[r].developer)
       [] decision = "repair" -> run' = [run EXCEPT ![r] = [at |-> "fix", ready |-> "yes", plan |-> run[r].plan,
                                           results |-> run[r].results, slice |-> run[r].slice,
                                           attempt |-> run[r].attempt + 1, developer |-> run[r].developer,
                                           of |-> <<role, bad.end>>]]
       [] OTHER -> Stopped(r)

(* What an agent leaves: nothing, or the files of a task.                  *)
Writes(S) == \E t \in S \cup {None} :
               /\ there' = IF t = None THEN there ELSE there \cup {t}
               /\ delivered' = IF t = None THEN delivered ELSE Outdated(delivered)

Develop(r) ==
  /\ run[r].at = "develop"
  /\ Writes({First(run[r].todo)})
  /\ \/ LET rest == run[r].todo \ {First(run[r].todo)}
        IN run' = [run EXCEPT ![r].at = IF rest = {} THEN "test" ELSE "develop", ![r].todo = rest,
                              ![r].developer = TRUE]
     \/ \E bad \in Refusals : Handle(r, "developer", bad)
  /\ UNCHANGED <<phase, plan, approved, dirty, saved, host, stop, asked, change, events>>

(* The tester's scope has the tests only. *)
Test(r) ==
  /\ run[r].at = "test"
  /\ UNCHANGED <<durable, host, stop, asked, change, events>>
  /\ \/ Passed(r, <<"tester", TRUE>>)
     \/ \E bad \in Refusals : Handle(r, "tester", bad)

(* A fixer after an exception may fail to be accepted and the loop goes on *)
(* all the same, and its exception ends the slice; after a handoff it has  *)
(* to be accepted, and its exception ends the run.                         *)
Fix(r) ==
  /\ run[r].at = "fix"
  /\ Writes(TasksOf[run[r].slice])
  /\ LET goesOn == IF run[r].of = <<"tester", "refused">>
                   THEN run' = [run EXCEPT ![r].at = "retest"]
                   ELSE Round(r, run[r].slice, run[r].attempt, run[r].developer)
     IN \/ goesOn /\ UNCHANGED <<status, coord>>
        \/ \E end \in {"refused", "thrown"} :
             IF run[r].of[2] = end
             THEN Stopped(r) /\ UNCHANGED <<status, coord>>
             ELSE IF end = "refused" THEN goesOn /\ UNCHANGED <<status, coord>>
             ELSE Fail(r)
  /\ UNCHANGED <<phase, plan, approved, dirty, saved, up, ctl, lock, stop, asked, change, events>>

Retest(r) ==
  /\ run[r].at = "retest"
  /\ UNCHANGED <<durable, up, ctl, lock, stop, asked, change, events>>
  /\ \/ Passed(r, <<"tester", TRUE>>) /\ UNCHANGED <<status, coord>>
     \/ \E bad \in Refusals :
          IF bad.end = "thrown" THEN Fail(r)
          ELSE /\ IF Decide(bad.wrong, run[r].attempt) = "retry"
                  THEN Round(r, run[r].slice, run[r].attempt + 1, run[r].developer)
                  ELSE Stopped(r)
               /\ UNCHANGED <<status, coord>>

(* The slice's result is saved (the store keeps those that passed), then   *)
(* judged.                                                                 *)
Extended(r) == [s \in DOMAIN run[r].results \cup {run[r].slice} |->
                  IF s = run[r].slice THEN run[r].evidence ELSE run[r].results[s]]
Record(r) ==
  /\ run[r].at = "record"
  /\ LET passed == run[r].result = "passed"
         results == IF passed THEN Extended(r) ELSE run[r].results
     IN \/ /\ Saved(r, results)
           /\ IF passed
              THEN /\ run' = [run EXCEPT ![r] = [at |-> "next", ready |-> "yes", plan |-> run[r].plan, results |-> results]]
                   /\ UNCHANGED <<status, coord>>
              ELSE Settle(r, run[r].result)
        \/ Fail(r) /\ UNCHANGED saved
  /\ UNCHANGED <<phase, plan, approved, dirty, there, delivered, up, ctl, lock, stop, asked, change, events>>

(***************************************************************************)
(* The last check.                                                         *)
(***************************************************************************)

(* DeliveryLifecycle.begin, and verifyFinalDevelopment up to the capture   *)
(* of every file.                                                          *)
BeginFinal(r) ==
  /\ run[r].at = "begin"
  /\ IF Fresh /\ phase \in {"BUILD", "VERIFY"}
     THEN /\ phase' = "VERIFY" /\ delivered' = NoRecord
          /\ IF Tasks \subseteq there
             THEN /\ run' = [run EXCEPT ![r] = [at |-> "check tests", ready |-> "yes", plan |-> run[r].plan, same |-> TRUE]]
                  /\ UNCHANGED status
             ELSE Ends(r, "stopped")
          /\ UNCHANGED coord
     ELSE Fail(r) /\ UNCHANGED <<phase, delivered>>
  /\ UNCHANGED <<plan, approved, dirty, there, saved, up, ctl, lock, stop, asked, change, events>>
(* runManagedNodeTests *)
CheckTests(r) ==
  /\ run[r].at = "check tests"
  /\ \E verdict \in {"passed", "failed"} :
       run' = [run EXCEPT ![r] = [at |-> "compare", ready |-> "yes", plan |-> run[r].plan, same |-> run[r].same,
                                  verdict |-> verdict, tested |-> run[r].same]]
  /\ UNCHANGED <<durable, host, stop, asked, change, events>>
(* compareFileSnapshot of every file *)
Unchanged(r) == run[r].same
(* The report says ready when the tests passed, every requirement has its  *)
(* evidence and nothing is unresolved.                                     *)
Compare(r) ==
  /\ run[r].at = "compare"
  /\ LET verdict == IF Fresh /\ Unchanged(r) THEN run[r].verdict ELSE "failed"
     IN \E ready \in IF verdict = "passed" THEN BOOLEAN ELSE {FALSE} :
          run' = [run EXCEPT ![r] = [at |-> "finish", ready |-> "yes", plan |-> run[r].plan, same |-> run[r].same,
                                     tested |-> run[r].tested, delivery |-> ready]]
  /\ UNCHANGED <<durable, host, stop, asked, change, events>>
(* verifyDeliveryRecord, where the files are those of the report, and      *)
(* DeliveryLifecycle.finish.                                               *)
Finish(r) ==
  /\ run[r].at = "finish"
  /\ IF Fresh /\ Unchanged(r) /\ phase = "VERIFY"
     THEN /\ delivered' = [plan |-> run[r].plan, ready |-> run[r].delivery, tested |-> run[r].tested, same |-> TRUE]
          /\ phase' = IF run[r].delivery THEN "DELIVER" ELSE "VERIFY"
          /\ Ends(r, IF run[r].delivery THEN "passed" ELSE "stopped")
          /\ UNCHANGED coord
     ELSE Fail(r) /\ UNCHANGED <<phase, delivered>>
  /\ UNCHANGED <<plan, approved, dirty, there, saved, up, ctl, lock, stop, asked, change, events>>

(***************************************************************************)
(* Pausing and disposal.                                                   *)
(***************************************************************************)

(* pauseAndWait (the user's pause too) and dispose.                        *)
Call(c) ==
  /\ up /\ ~ctl.closed
  /\ stop = << >> /\ asked < MaxAsked /\ asked' = asked + 1
  /\ c = "change" => change = "none" /\ phase \in {"BUILD", "VERIFY"}
  /\ IF ctl.active = None
     THEN stop' = [d \in {c} |-> [at |-> "returned"]] /\ UNCHANGED status
     ELSE stop' = [d \in {c} |-> [at |-> "ready", of |-> ctl.ready]] /\ status' = "pausing"
  /\ ctl' = [ctl EXCEPT !.pause = (ctl.pause \/ ctl.active # None), !.closed = (c = "dispose")]
  /\ UNCHANGED <<durable, up, coord, lock, run, change, events>>

(* The latest run at the time of the call is ready, or is not to be; then  *)
(* the coordinator is paused, and the run that is active now awaited.      *)
Ready(c) ==
  /\ stop[c].at = "ready" /\ run[stop[c].of].ready # "no"
  /\ LET rejected == run[stop[c].of].ready = "rejected" /\ c # "dispose"
         pauses == ctl.active # None /\ (status = "pausing" \/ c = "dispose") /\ coord.run # None
     IN /\ coord' = IF pauses /\ ~rejected THEN [coord EXCEPT !.pause = TRUE] ELSE coord
        /\ stop' = IF rejected THEN << >>
                   ELSE [stop EXCEPT ![c] = IF ctl.active = None THEN [at |-> "returned"]
                                            ELSE [at |-> "waiting", of |-> ctl.active]]
  /\ UNCHANGED <<durable, up, status, ctl, lock, run, asked, change, events>>
Settled(c) == /\ stop[c].at = "waiting" /\ run[stop[c].of].at = "over"
              /\ stop' = [stop EXCEPT ![c] = [at |-> "returned"]]
              /\ UNCHANGED <<durable, host, run, asked, change, events>>
Paused == /\ "pause" \in DOMAIN stop /\ stop["pause"].at = "returned" /\ stop' = << >>
          /\ UNCHANGED <<durable, host, run, asked, change, events>>

(***************************************************************************)
(* A change of requirements.                                               *)
(***************************************************************************)

(* request, after stopDevelopment: nobody works (assertIdle), the state is *)
(* still that of the request; both approvals are dropped.                  *)
Reopen ==
  /\ "change" \in DOMAIN stop /\ stop["change"].at = "returned" /\ stop' = << >>
  /\ \/ /\ \A r \in Runs : ~Dispatching(r)
        /\ phase \in {"BUILD", "VERIFY"}
        /\ phase' = "SPECIFY" /\ approved' = None /\ delivered' = NoRecord /\ change' = "preparing"
     \/ UNCHANGED <<phase, approved, delivered, change>>
  /\ UNCHANGED <<plan, dirty, there, saved, host, run, asked, events>>

(* prepare: archiveForChange takes the run lock itself, without sharing. *)
Unlocked == lock = {}
Archive == /\ up /\ change = "preparing" /\ Unlocked
           /\ \A r \in Runs : ~Dispatching(r)
           /\ saved' = NoCheckpoint /\ change' = "generating"
           /\ UNCHANGED <<phase, plan, approved, dirty, there, delivered, host, run, stop, asked, events>>
(* New documents, and the user's approval of the plan and of the design.   *)
(* Nothing of this module can tell the steps between apart (Workflow has   *)
(* them): until the last one there is no approved design.                  *)
Approve == /\ up /\ change = "generating" /\ plan < MaxPlans
           /\ plan' = plan + 1 /\ approved' = plan + 1 /\ dirty' = FALSE
           /\ phase' = "BUILD" /\ change' = "none"
           /\ UNCHANGED <<there, saved, delivered, host, run, stop, asked, events>>

(***************************************************************************)
(* The world.                                                              *)
(***************************************************************************)

Happens == events < MaxEvents /\ events' = events + 1
EditFile == /\ Happens
            /\ \E t \in there \cup {None} : there' = there \ {t}
            /\ run' = Rewritten(run) /\ delivered' = Outdated(delivered)
            /\ UNCHANGED <<phase, plan, approved, dirty, saved, host, stop, asked, change>>
EditDocument == /\ Happens /\ dirty' = ~dirty
                /\ UNCHANGED <<phase, plan, approved, there, saved, delivered, host, run, stop, asked, change>>

(* The process ends, by itself when disposal has returned.                 *)
Down == /\ up /\ up' = FALSE
        /\ \/ "dispose" \in DOMAIN stop /\ stop["dispose"].at = "returned" /\ UNCHANGED events
           \/ Happens
        /\ run' = [r \in Runs |-> IF run[r] = NoRun THEN NoRun ELSE Over]
        /\ stop' = << >>
        /\ lock' = {} /\ coord' = IdleCoordinator /\ ctl' = Quiet /\ status' = "stopped"
        /\ UNCHANGED <<durable, asked, change>>
(* developmentRunFactory: a record that cannot be verified is given up.    *)
Boot == /\ ~up /\ up' = TRUE
        /\ IF delivered = NoRecord THEN status' = "stopped" /\ UNCHANGED <<delivered, phase>>
           ELSE IF Fresh /\ delivered.plan = plan /\ delivered.same
           THEN status' = (IF delivered.ready THEN "passed" ELSE "stopped") /\ UNCHANGED <<delivered, phase>>
           ELSE /\ status' = "stopped" /\ delivered' = NoRecord
                /\ phase' = IF phase = "DELIVER" THEN "VERIFY" ELSE phase
        /\ UNCHANGED <<plan, approved, dirty, there, saved, ctl, coord, lock, run, stop, asked, change, events>>

Controller(r) == Resume(r) \/ Begin(r) \/ Load(r) \/ Start(r) \/ Release(r)
Coordinator(r) == Gate(r) \/ NextSlice(r) \/ Record(r)
Executor(r) == Develop(r) \/ Test(r) \/ Fix(r) \/ Retest(r)
FinalCheck(r) == BeginFinal(r) \/ CheckTests(r) \/ Compare(r) \/ Finish(r)
Next == \/ \E r \in Runs : Controller(r) \/ Coordinator(r) \/ Executor(r) \/ FinalCheck(r)
        \/ \E c \in Callers : Call(c)
        \/ \E c \in DOMAIN stop : Ready(c) \/ Settled(c)
        \/ Paused \/ Reopen \/ Archive \/ Approve
        \/ EditFile \/ EditDocument \/ Down \/ Boot
Spec == Init /\ [][Next]_vars

(* Two runs never go through the plan at once, not even two resumptions    *)
(* that passed the controller's check together: development-coordinator.ts *)
(* runExclusive.                                                           *)
OneExecutor == \A q, r \in Runs : Executing(q) /\ Executing(r) => q = r

(* A checkpoint of the approved plan whose files are there can be resumed, *)
(* whatever repairs and skipped tasks led to it: what slice-executor.ts    *)
(* lets pass, development-coordinator.ts verifyCheckpointResult takes.     *)
CheckpointResumes == saved # NoCheckpoint /\ saved.plan = plan /\ Tasks \subseteq there
                     => Resumable(saved, plan)

(* While a run works on a plan no other plan is approved, even when the    *)
(* change did not wait for it: requirement-change.ts prepare,              *)
(* archiveForChange against the run lock.                                  *)
WorkIsOnApprovedPlan == \A r \in Runs : (Executing(r) \/ run[r].at \in Verifying) /\ Fresh => run[r].plan = plan

(* A delivery that is ready was tested with the files it names, and no     *)
(* document of its plan has been replaced:                                 *)
(* final-development-verification.ts, delivery-recovery.ts.                *)
DeliveredIsTested == delivered # NoRecord /\ delivered.ready => delivered.tested /\ delivered.plan = plan

============================================================================

----------------------------- MODULE Delegation -----------------------------
(***************************************************************************)
(* What an expert may hand to its workers, and what may be accepted of     *)
(* either (packages/agent-team/src/delegation-guard.ts,                    *)
(* capability-intersection.ts, role-policy.ts, result-verifier.ts,         *)
(* handoff-store.ts; packages/core/src/team-coordinator.ts): roles bound   *)
(* capabilities, an expert's task bounds its workers', a result is         *)
(* verified against its task, its documents and its children's handoffs.   *)
(*                                                                         *)
(* A task is checked, then authorized by the policy path by path, then     *)
(* started; meanwhile the phase and the documents change, and others       *)
(* start.  How dispatches fail, crash and are recorded is TeamCoordinator, *)
(* leases are OwnershipManager, the other budgets BudgetLedger.            *)
(***************************************************************************)
EXTENDS Naturals, FiniteSets

CONSTANTS Experts, Workers,  \* the names tasks may have
          Roles, Requests, Scopes,  \* roles, capabilities and write paths asked for
          Versions,          \* contents of the approved documents
          MaxChildren,       \* children in an expert's budget
          MaxProposals,      \* bound on the tasks under authorization
          MaxChanges         \* bound on the changes of phase and documents

VARIABLES phase,     \* "BUILD", "VERIFY", or "earlier" without an approved design
          version,   \* what the documents are
          proposed,  \* tasks under authorization
          asked,     \* expert -> what was dispatched under its name, or NoTask
          tasks,     \* name -> the task registered under it, or NoTask
          used,      \* expert -> the children charged to it
          handoffs,  \* name -> its durable handoff, or NoHandoff
          changes

vars == <<phase, version, proposed, asked, tasks, used, handoffs, changes>>

Names == Experts \cup Workers
Paths == {"code", "test"}
Statuses == {"completed", "failed"}

\* Of the capabilities: "write", "business", and of those that no child is
\* ever granted "run" and "delegate".  Reading is granted to whoever asks.
Forbidden == {"run", "delegate"}

NoTask == [name |-> "none"]
NoHandoff == [status |-> "none"]

Init ==
  /\ phase = "BUILD" /\ version \in Versions
  /\ proposed = {} /\ asked = [e \in Experts |-> NoTask]
  /\ tasks = [n \in Names |-> NoTask]
  /\ used = [e \in Experts |-> 0] /\ handoffs = [n \in Names |-> NoHandoff]
  /\ changes = 0

Smaller(m, n) == IF m < n THEN m ELSE n

----------------------------------------------------------------------------
(* What a role may do *)

Approved == phase # "earlier"
Writable == phase \in {"BUILD", "VERIFY"}

\* maxCapabilities
MaxCapabilities(role) ==
  CASE role = "developer" /\ Approved /\ Writable -> {"write", "business", "run", "delegate"}
    [] role = "tester" /\ Approved /\ Writable -> {"write", "run", "delegate"}
    [] role = "architect" -> {"delegate"}
    [] OTHER -> {}

\* writePathPatterns: a tester's workers write tests, others what their
\* expert does.
Patterns(role, scope) == IF role = "tester" THEN {"test"} ELSE scope

\* intersectCapabilities
Intersected(parent, requested) ==
  (parent.caps \cap requested \cap MaxCapabilities(parent.role)) \ Forbidden

\* intersectPaths: every requested path is within the expert's.
Within(parent, write) == write \subseteq parent.write \cap Patterns(parent.role, parent.write)

----------------------------------------------------------------------------
(* Starting *)

Running(n) == tasks[n] # NoTask /\ tasks[n].at = "running"

\* The leases of others; a worker's are delegated from its expert's.
Occupied(names) == UNION {tasks[n].write : n \in {m \in Names \ names : Running(m)}}

\* dispatchExpert: what the role allows in this phase, on the documents of
\* now.  The code makes a fresh name of every dispatch (a random UUID after
\* the plan and the slice, slice-task-id.ts); here a name stands for all the
\* attempts at one task, and is taken again only when the last has failed and
\* left no handoff.
Dispatch(e) ==
  /\ Writable /\ tasks[e] = NoTask /\ handoffs[e] = NoHandoff
  /\ Cardinality(proposed) < MaxProposals
  /\ \E role \in Roles, requested \in Requests, write \in Scopes :
       LET caps == requested \cap MaxCapabilities(role)
           task == [name |-> e, parent |-> NoTask, role |-> role, caps |-> caps,
                    write |-> write, version |-> version, at |-> "running"]
       IN /\ write # {} => "write" \in caps
          /\ asked[e] \in {NoTask, task} /\ asked' = [asked EXCEPT ![e] = task]
          /\ proposed' = proposed \cup {task}
  /\ UNCHANGED <<phase, version, tasks, used, handoffs, changes>>

\* dispatchWorker up to the policy: authorizeChild, on the state of now.
Delegate(e, w) ==
  /\ Writable /\ Running(e) /\ "delegate" \in tasks[e].caps
  /\ Cardinality(proposed) < MaxProposals
  /\ used[e] < Smaller(3, Smaller(MaxChildren, MaxChildren - used[e]))
  /\ \E requested \in Requests, write \in Scopes :
       LET caps == Intersected(tasks[e], requested)
       IN /\ Within(tasks[e], write) /\ write \cap Occupied({e}) = {}
          /\ write # {} => "write" \in caps
          /\ proposed' = proposed \cup {[name |-> w, parent |-> tasks[e], role |-> "worker",
                                         caps |-> caps, write |-> write,
                                         version |-> tasks[e].version, at |-> "running"]}
  /\ UNCHANGED <<phase, version, asked, tasks, used, handoffs, changes>>

Drop(task) ==
  /\ proposed' = proposed \ {task}
  /\ UNCHANGED <<phase, version, asked, tasks, used, handoffs, changes>>

\* Every path was allowed: the name must be free, the paths too.  A worker's
\* documents are looked at again, and the scheduler must find its expert
\* running and a child left in its budget.
StartTask(task) ==
  LET e == task.parent.name
      n == task.name
  IN /\ tasks[n] = NoTask /\ handoffs[n] = NoHandoff
     /\ task.write \cap Occupied({e}) = {}
     /\ IF n \in Workers
        THEN /\ task.version = version /\ Running(e) /\ used[e] < MaxChildren
             /\ used' = [used EXCEPT ![e] = @ + 1]
        ELSE UNCHANGED used
     /\ tasks' = [tasks EXCEPT ![n] = task]
     /\ proposed' = proposed \ {task}
     /\ UNCHANGED <<phase, version, asked, handoffs, changes>>

----------------------------------------------------------------------------
(* Accepting *)

\* A bug: any child's handoff that was accepted will do.
AcknowledgedByAny(n, children) ==
  \A c \in children : handoffs[c].status = "completed" /\ handoffs[c].ack = "accepted"

\* verifyChildAcknowledgements
Acknowledged(n, children) ==
  \A c \in children :
    /\ handoffs[c] # NoHandoff
    /\ handoffs[c].parent = n /\ handoffs[c].status = "completed"
    /\ handoffs[c].ack = "accepted"

\* The worker's expert is still registered as the task it was then.
ParentKnown(parent) ==
  LET e == tasks[parent.name] IN e # NoTask /\ [e EXCEPT !.at = "running"] = parent

Fresh(n) == tasks[n].version = version

\* verifyChangedPaths, verifyBudget; workers are given no children.
Declares(n, changed) == changed \subseteq tasks[n].write
Budgeted(n, children) == Cardinality(children) <= (IF n \in Workers THEN 0 ELSE MaxChildren)

\* verify: what passed is accepted, anything else sent back.
Verdict(status) == IF status = "completed" THEN "accepted" ELSE "needs-rework"

\* write: a handoff is written once, for the task's parent; acknowledge may
\* throw after that.
Unwritten(n) == handoffs[n] = NoHandoff
Handoff(n, status, changed, children, stored) ==
  [status |-> status, parent |-> tasks[n].parent.name, changed |-> changed,
   children |-> children, version |-> version,
   ack |-> IF stored THEN Verdict(status) ELSE "pending"]

\* acceptChildResult: the result of a task, with what the agent says it
\* changed and whose work it took over, becomes its handoff, which its
\* parent accepts or sends back.
Accept(n) ==
  /\ Running(n) /\ Fresh(n) /\ Unwritten(n)
  /\ n \in Workers => ParentKnown(tasks[n].parent)
  /\ \E status \in Statuses, changed \in Scopes, children \in SUBSET Workers, stored \in BOOLEAN :
       /\ Declares(n, changed) /\ Budgeted(n, children) /\ Acknowledged(n, children)
       /\ handoffs' = [handoffs EXCEPT ![n] = Handoff(n, status, changed, children, stored)]
       /\ tasks' = IF stored THEN [tasks EXCEPT ![n].at = "ended"] ELSE [tasks EXCEPT ![n] = NoTask]
  /\ UNCHANGED <<phase, version, proposed, asked, used, changes>>

\* The agent fails, or its result is refused: the task is forgotten, its
\* name may be used again.
Fail(n) ==
  /\ Running(n) /\ tasks' = [tasks EXCEPT ![n] = NoTask]
  /\ UNCHANGED <<phase, version, proposed, asked, used, handoffs, changes>>

----------------------------------------------------------------------------
(* The surroundings *)

\* The workflow goes on or back; the documents are edited, or an edit is
\* undone.
Change ==
  /\ changes < MaxChanges /\ changes' = changes + 1
  /\ \/ phase' \in {"BUILD", "VERIFY", "earlier"} \ {phase} /\ UNCHANGED version
     \/ version' \in Versions \ {version} /\ UNCHANGED phase
  /\ UNCHANGED <<proposed, asked, tasks, used, handoffs>>

Next ==
  \/ Change
  \/ \E e \in Experts : Dispatch(e) \/ \E w \in Workers : Delegate(e, w)
  \/ \E task \in proposed : Drop(task) \/ StartTask(task)
  \/ \E n \in Names : Accept(n) \/ Fail(n)

Spec == Init /\ [][Next]_vars

----------------------------------------------------------------------------
(* Properties *)

Accepted(n) == handoffs[n] # NoHandoff /\ handoffs[n].ack = "accepted"

\* What is accepted of an expert is of one piece: the workers whose results
\* it took over were its own, it had accepted them, they worked on the very
\* documents that it worked on, with no more rights than it had, and changed
\* only what was its own (authorizeChild, verify, acknowledge).
AcceptedTreeIsWhole ==
  \A e \in Experts : Accepted(e) =>
    \A w \in handoffs[e].children :
      /\ Accepted(w) /\ handoffs[w].parent = e
      /\ handoffs[w].version = handoffs[e].version
      /\ handoffs[w].changed \subseteq tasks[e].write
      /\ tasks[w].caps \subseteq tasks[e].caps \ Forbidden
      /\ tasks[e].role = "tester" => handoffs[w].changed \subseteq {"test"}
=============================================================================

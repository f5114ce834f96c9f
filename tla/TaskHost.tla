------------------------------ MODULE TaskHost ------------------------------
(* The tasks of the conversations of one workspace                         *)
(* (bundle/src/conversation-task-host.ts): a new task is started or        *)
(* queued, a session shelves or takes over a task, and its calls go to the *)
(* task's own production host.                                             *)
(*                                                                         *)
(* Every await is a step's end, as far as another step can tell; what runs *)
(* between two awaits is one step.  The registry is written before the     *)
(* memory is replaced: a death in between is one after both.  The host of  *)
(* a task is what production.ts builds (see Development and                *)
(* ControlSurface): here it is there or not, works or does not, and has    *)
(* callers inside.  The legacy host of the workspace has no task.          *)
EXTENDS Naturals, Sequences, FiniteSets, SequencesExt

CONSTANTS Sessions,   \* of conversations
          MaxTasks,   \* bound: tasks ever created
          MaxBoots,   \* bound: hosts of tasks built in one process
          MaxEvents   \* bound: decisions confirmed and ends of the process

None == 0
Tasks == 1..MaxTasks

VARIABLES records,  \* the registry: tasks in order
          phase,    \* of each task's saved state; "VERIFY" is a delivery given up
          hosts,    \* of each task: none, starting, live, closing, closed
          working,  \* tasks with agents at work, or with a development run
          bridge,   \* the session asked for the task's approval
          ticket,   \* a session's decision that waits for its confirmation
          op,       \* who has set creating, and where it is
          call,     \* a session's dispatch
          made, resolved, boots, crashes
saved == <<records, phase>>
host == <<hosts, working, bridge>>
bounds == <<made, resolved, boots, crashes>>
vars == <<saved, host, ticket, op, call, bounds>>

NoHost == [at |-> "none"]
NoBridge == [session |-> None]
NoTicket == [task |-> None]
Idle == [at |-> "idle"]

Init == /\ records = << >> /\ phase = [t \in Tasks |-> "DISCOVER"]
        /\ hosts = [t \in Tasks |-> NoHost] /\ working = {}
        /\ bridge = [t \in Tasks |-> NoBridge] /\ ticket = [s \in Sessions |-> NoTicket]
        /\ op = Idle /\ call = [s \in Sessions |-> Idle]
        /\ made = 0 /\ resolved = 0 /\ boots = 0 /\ crashes = 0

Items == ToSet(records)
Item(t) == CHOOSE i \in Items : i.id = t
Holds(i) == i.shelved = 0 /\ ~i.queued
(* currentTask: the last of the session's; activeTask: not delivered.      *)
Current(s) == LET own == {k \in DOMAIN records : records[k].session = s /\ Holds(records[k])}
              IN IF own = {} THEN None ELSE records[Max(own)].id
Active(s) == LET t == Current(s) IN IF t = None \/ phase[t] = "DELIVER" THEN None ELSE t

(* The tasks of the workspace that are not finished.                       *)
\* A bug: those of the session itself.
BlockersOfSession(s) == {i.id : i \in {j \in Items : Holds(j) /\ phase[j.id] # "DELIVER" /\ j.session = s}}
Blockers(s) == {i.id : i \in {j \in Items : Holds(j) /\ phase[j.id] # "DELIVER"}}

(* A write of a task's state: its revision is not that of a decision.      *)
Stale(t) == /\ ticket' = [s \in Sessions |-> IF ticket[s].task = t THEN [ticket[s] EXCEPT !.same = FALSE] ELSE ticket[s]]
            /\ op' = IF "choice" \in DOMAIN op /\ op.choice.task = t THEN [op EXCEPT !.choice.same = FALSE] ELSE op

(***************************************************************************)
(* The hosts of the tasks.                                                 *)
(***************************************************************************)

(* hostFor: a flight everybody waits for; its approval goes to the session *)
(* the task has now.                                                       *)
HostFor(t, s) == IF hosts[t] = NoHost
                 THEN /\ boots < MaxBoots /\ boots' = boots + 1
                      /\ hosts' = [hosts EXCEPT ![t] = [at |-> "starting", session |-> s]]
                 ELSE UNCHANGED <<hosts, boots>>
(* A delivery that cannot be verified is given up (developmentRunFactory), *)
(* an approval that is waited for is asked again (bridgeConversationApproval). *)
HostStarts(t) ==
  /\ hosts[t].at = "starting"
  /\ hosts' = [hosts EXCEPT ![t].at = "live"]
  /\ \/ phase' = phase /\ UNCHANGED <<ticket, op>>
     \/ phase[t] = "DELIVER" /\ phase' = [phase EXCEPT ![t] = "VERIFY"] /\ Stale(t)
  /\ bridge' = IF phase[t] = "AWAIT" /\ bridge[t] = NoBridge
               THEN [bridge EXCEPT ![t] = [session |-> hosts[t].session, open |-> TRUE]] ELSE bridge
  /\ UNCHANGED <<records, working, call, bounds>>
HostFails(t) ==
  /\ hosts[t].at = "starting"
  /\ hosts' = [hosts EXCEPT ![t] = NoHost]
  /\ call' = [s \in Sessions |-> IF call[s].at = "host" /\ call[s].task = t THEN Idle ELSE call[s]]
  /\ op' = IF op.at \in {"create host", "resolve host", "drain host"} /\ op.task = t THEN Idle ELSE op
  /\ UNCHANGED <<saved, working, bridge, ticket, bounds>>

(* getState, by the panel.                                                 *)
View(s) == /\ Current(s) # None /\ hosts[Current(s)] = NoHost
           /\ HostFor(Current(s), s)
           /\ UNCHANGED <<saved, working, bridge, ticket, op, call, made, resolved, crashes>>

(* What is done inside a host for a session, or by the work of its agents. *)
(* A finished development is delivered, or stopped short.                  *)
Progress(t) == /\ Stale(t)
               /\ \/ phase[t] \in {"DISCOVER", "AWAIT"} /\ phase' = [phase EXCEPT ![t] = "AWAIT"] /\ UNCHANGED working
                  \/ phase[t] = "AWAIT" /\ phase' = [phase EXCEPT ![t] = "BUILD"] /\ working' \in {working, working \cup {t}}
                  \/ phase[t] \in {"BUILD", "VERIFY"} /\ phase' = phase /\ working' \in {working \ {t}, working \cup {t}}
Finish(t) == /\ t \in working /\ hosts[t].at \in {"live", "closing"}
             /\ working' = working \ {t}
             /\ phase' \in {phase, [phase EXCEPT ![t] = "DELIVER"]} /\ Stale(t)
             /\ UNCHANGED <<records, hosts, bridge, call, bounds>>
(* presentApproval: the answer goes to the host that asked, if it is open. *)
Answer(t) == /\ bridge[t] # NoBridge
             /\ bridge' = [bridge EXCEPT ![t] = NoBridge]
             /\ \/ bridge[t].open /\ phase[t] = "AWAIT" /\ Progress(t)
                \/ UNCHANGED <<phase, working, ticket, op>>
             /\ UNCHANGED <<records, hosts, call, bounds>>

(***************************************************************************)
(* dispatch.                                                               *)
(***************************************************************************)

Inside(t) == {s \in Sessions : call[s].at = "inside" /\ call[s].task = t}
Quits(s) == call' = [call EXCEPT ![s] = Idle]
(* activeTask is awaited, then creating looked at and the host asked for;  *)
(* bound: one call at a time.                                              *)
Dispatch(s) == /\ \A q \in Sessions : call[q] = Idle
               /\ Active(s) # None
               /\ call' = [call EXCEPT ![s] = [at |-> "read", task |-> Active(s)]]
               /\ UNCHANGED <<saved, host, ticket, op, bounds>>
Address(s) == /\ call[s].at = "read"
              /\ IF op = Idle
                 THEN /\ HostFor(call[s].task, s)
                      /\ call' = [call EXCEPT ![s] = [at |-> "host", task |-> call[s].task, open |-> hosts[call[s].task].at \in {"none", "starting", "live"}]]
                 ELSE Quits(s) /\ UNCHANGED <<hosts, boots>>
              /\ UNCHANGED <<saved, working, bridge, ticket, op, made, resolved, crashes>>
(* creating again, and activeTask, whose answer is awaited.                *)
Recheck(s) == /\ call[s].at = "host" /\ hosts[call[s].task].at # "starting"
              /\ IF op = Idle /\ Current(s) = call[s].task
                 THEN call' = [call EXCEPT ![s].at = "recheck"] ELSE Quits(s)
              /\ UNCHANGED <<saved, host, ticket, op, bounds>>
Enter(s) == /\ call[s].at = "recheck"
            /\ IF phase[call[s].task] # "DELIVER" /\ call[s].open
               THEN call' = [call EXCEPT ![s].at = "inside"] ELSE Quits(s)
            /\ UNCHANGED <<saved, host, ticket, op, bounds>>
Act(s) == /\ call[s].at = "inside" /\ Progress(call[s].task) /\ Quits(s)
          /\ UNCHANGED <<records, hosts, bridge, bounds>>
Leave(s) == /\ call[s].at = "inside" /\ Quits(s)
            /\ UNCHANGED <<saved, host, ticket, op, bounds>>

(***************************************************************************)
(* createTask.                                                             *)
(***************************************************************************)

Gives == op' = Idle
\* Sessions are alike: the first to create one is any.
CreateTask(s) == /\ made = 0 => s = CHOOSE first \in Sessions : TRUE
                 /\ op = Idle /\ made < MaxTasks /\ made' = made + 1
                 /\ op' = [at |-> "survey", session |-> s, task |-> made + 1]
                 /\ UNCHANGED <<saved, host, ticket, call, resolved, boots, crashes>>
(* The states of the tasks are read; the same request is not queued twice. *)
Survey == /\ op.at = "survey"
          /\ IF Active(op.session) # None \/ Blockers(op.session) # {}
             THEN /\ op' \in {[op EXCEPT !.at = "queue"]}
                             \cup {Idle : i \in {j \in Items : j.queued /\ j.session = op.session}}
                  /\ UNCHANGED <<hosts, boots>>
             ELSE HostFor(op.task, op.session) /\ op' = [op EXCEPT !.at = "create host"]
          /\ UNCHANGED <<saved, working, bridge, ticket, call, made, resolved, crashes>>
New(queued) == [id |-> op.task, session |-> op.session, shelved |-> 0, queued |-> queued]
Queue == /\ op.at = "queue" /\ Gives
         /\ records' \in {records, Append(records, New(TRUE))}
         /\ UNCHANGED <<phase, host, ticket, call, bounds>>
Register == /\ op.at = "create host" /\ hosts[op.task].at = "live"
            /\ \/ records' = Append(records, New(FALSE)) /\ op' = [op EXCEPT !.at = "submit"]
                  /\ working' = working \cup {op.task}
               \/ Gives /\ UNCHANGED <<records, working>>
            /\ UNCHANGED <<phase, hosts, bridge, ticket, call, bounds>>
(* submit-clarification, which lasts as long as the requirements' agents.  *)
Submit == /\ op.at \in {"submit", "drain submit"}
          /\ working' = working \ {op.task}
          /\ \/ phase' = [phase EXCEPT ![op.task] = "AWAIT"]
                /\ ticket' = [s \in Sessions |-> IF ticket[s].task = op.task THEN [ticket[s] EXCEPT !.same = FALSE] ELSE ticket[s]]
                /\ op' = IF op.at = "submit" THEN Idle ELSE [op EXCEPT !.at = "drain write"]
             \/ Gives /\ UNCHANGED <<phase, ticket>>
          /\ UNCHANGED <<records, hosts, bridge, call, bounds>>

(***************************************************************************)
(* resolveTask: a decision previewed and confirmed, by the panel or in the *)
(* conversation.                                                           *)
(***************************************************************************)

(* taskChoices, with what the user decides on.                             *)
Preview(s) == /\ ticket[s] = NoTicket /\ resolved + crashes < MaxEvents
              /\ \E i \in Items, mode \in {"shelve", "adopt"} :
                   /\ ~i.queued /\ phase[i.id] # "DELIVER"
                   /\ ticket' = [ticket EXCEPT ![s] = [task |-> i.id, mode |-> mode, session |-> i.session,
                                   shelved |-> i.shelved, same |-> TRUE]]
              /\ UNCHANGED <<saved, host, op, call, bounds>>
(* The item is still the one that was shown. *)
SameItem(choice) == Item(choice.task).session = choice.session /\ Item(choice.task).shelved = choice.shelved
(* The conversation does not ask which task is current (panel).            *)
Confirm(s) ==
  /\ ticket[s] # NoTicket /\ ticket' = [ticket EXCEPT ![s] = NoTicket]
  /\ resolved + crashes < MaxEvents
  /\ \/ UNCHANGED op \* expired, or refused
     \/ /\ op = Idle /\ \A t \in Tasks : Inside(t) = {}
        /\ SameItem(ticket[s])
        /\ op' = [at |-> "resolve", session |-> s, task |-> ticket[s].task, choice |-> ticket[s]]
  /\ resolved' = resolved + 1
  /\ UNCHANGED <<saved, host, call, made, boots, crashes>>
Resolve == /\ op.at = "resolve"
           /\ HostFor(op.task, Item(op.task).session) /\ op' = [op EXCEPT !.at = "resolve host"]
           /\ UNCHANGED <<saved, working, bridge, ticket, call, made, resolved, crashes>>
(* The saved revision is the decision's, and nobody works on the task.     *)
CheckIdle == /\ op.at = "resolve host" /\ hosts[op.task].at # "starting"
             /\ IF op.choice.same /\ hosts[op.task].at = "live" /\ op.task \notin working
                THEN op' = [op EXCEPT !.at = "own"] ELSE Gives
             /\ UNCHANGED <<saved, host, ticket, call, bounds>>
(* A session has one task; then the task's host is disposed of.            *)
Close == /\ op.at = "own"
         /\ IF op.choice.mode = "shelve" \/ Active(op.session) \in {None, op.task}
            THEN /\ op' = [op EXCEPT !.at = "dispose"]
                 /\ hosts' = [hosts EXCEPT ![op.task].at = "closing"]
                 /\ call' = [s \in Sessions |-> IF "open" \in DOMAIN call[s] /\ call[s].task = op.task
                                                THEN [call[s] EXCEPT !.open = FALSE] ELSE call[s]]
                 /\ bridge' = [bridge EXCEPT ![op.task] = IF @ = NoBridge THEN @ ELSE [@ EXCEPT !.open = FALSE]]
            ELSE Gives /\ UNCHANGED <<hosts, call, bridge>>
         /\ UNCHANGED <<saved, working, ticket, bounds>>
(* production.ts dispose: the handlers that were entered are waited for    *)
(* (control-service.ts closeAndDrain), development is paused.              *)
\* A bug: they are not.
DrainedOrNot(t) == TRUE
Drained(t) == Inside(t) = {}
Dispose == /\ op.at = "dispose" /\ Drained(op.task)
           /\ \/ /\ hosts' = [hosts EXCEPT ![op.task] = NoHost] /\ op' = [op EXCEPT !.at = "write"]
                 /\ working' = working \ {op.task}
              \/ /\ hosts' = [hosts EXCEPT ![op.task].at = "closed"] /\ Gives
                 /\ UNCHANGED working
           /\ UNCHANGED <<saved, bridge, ticket, call, bounds>>
\* The item leaves its place for the end of the registry.
Moved(i) == Append(RemoveAt(records, CHOOSE k \in DOMAIN records : records[k].id = i.id), i)
WriteMove == /\ op.at = "write"
             /\ LET i == Item(op.task)
                IN IF op.choice.mode = "shelve"
                   THEN records' = Moved([i EXCEPT !.shelved = resolved]) /\ op' = [op EXCEPT !.at = "drain"]
                   ELSE records' = Moved([i EXCEPT !.shelved = 0, !.session = op.session]) /\ Gives
             /\ UNCHANGED <<phase, host, ticket, call, bounds>>
WriteFails == /\ op.at \in {"write", "drain write"} /\ Gives
              /\ UNCHANGED <<saved, host, ticket, call, bounds>>

(* drainQueuedTasks: the session's oldest, when nothing is unfinished.     *)
Oldest(s) == {i.id : i \in {j \in Items : j.session = s /\ j.queued /\ \A k \in Items : k.session = s /\ k.queued => j.id <= k.id}}
Drain == /\ op.at = "drain"
         /\ IF Active(op.session) = None /\ Blockers(op.session) = {} /\ Oldest(op.session) # {}
            THEN \E t \in Oldest(op.session) :
                   /\ HostFor(t, op.session)
                   /\ op' = [at |-> "drain host", session |-> op.session, task |-> t]
            ELSE Gives /\ UNCHANGED <<hosts, boots>>
         /\ UNCHANGED <<saved, working, bridge, ticket, call, made, resolved, crashes>>
DrainHost == /\ op.at = "drain host" /\ hosts[op.task].at # "starting"
             /\ IF phase[op.task] # "DISCOVER" THEN op' = [op EXCEPT !.at = "drain write"] /\ UNCHANGED working
                ELSE IF hosts[op.task].at = "live"
                THEN op' = [op EXCEPT !.at = "drain submit"] /\ working' = working \cup {op.task}
                ELSE Gives /\ UNCHANGED working
             /\ UNCHANGED <<saved, hosts, bridge, ticket, call, bounds>>
Unqueue == /\ op.at = "drain write" /\ Gives
           /\ records' = [k \in DOMAIN records |-> IF records[k].id = op.task THEN [records[k] EXCEPT !.queued = FALSE] ELSE records[k]]
           /\ UNCHANGED <<phase, host, ticket, call, bounds>>

(* The process ends and another takes the lock: the files remain.          *)
Restart == /\ resolved + crashes < MaxEvents /\ crashes' = crashes + 1
           /\ hosts' = [t \in Tasks |-> NoHost] /\ working' = {} /\ bridge' = [t \in Tasks |-> NoBridge]
           /\ ticket' = [s \in Sessions |-> NoTicket] /\ op' = Idle /\ call' = [s \in Sessions |-> Idle]
           /\ boots' = 0 /\ UNCHANGED <<saved, made, resolved>>

Next == \/ \E t \in Tasks : HostStarts(t) \/ HostFails(t) \/ Finish(t) \/ Answer(t)
        \/ \E s \in Sessions : \/ View(s) \/ CreateTask(s) \/ Preview(s) \/ Confirm(s)
                               \/ Dispatch(s) \/ Address(s) \/ Recheck(s) \/ Enter(s) \/ Act(s) \/ Leave(s)
        \/ Survey \/ Queue \/ Register \/ Submit
        \/ Resolve \/ CheckIdle \/ Close \/ Dispose \/ WriteMove \/ WriteFails
        \/ Drain \/ DrainHost \/ Unqueue
        \/ Restart
Spec == Init /\ [][Next]_vars

(* Who is inside a task's host is who the task belongs to: it is not given *)
(* away while a call that passed the checks before it is on its way;       *)
(* conversation-task-host.ts dispatch against resolveTask.                 *)
OwnerActs == \A s \in Sessions : call[s].at = "inside"
               => Item(call[s].task).session = s /\ Holds(Item(call[s].task))

(* A task that starts, new or from the queue, finds no other that was      *)
(* never delivered, whatever happened since the states were read:          *)
(* createTask, drainQueuedTasks.                                           *)
Started(before) == {i.id : i \in {j \in ToSet(records') : Holds(j)}} \ {i.id : i \in {j \in before : ~j.queued}}
NoneUnfinished == \A t \in Started(Items), i \in Items :
                    Holds(i) /\ i.id # t => phase[i.id] \in {"DELIVER", "VERIFY"}

(* A task is moved from where the user saw it: resolveTask against a       *)
(* decision that another one made stale.                                   *)
MovesWhatWasShown == op.at \in {"resolve", "resolve host", "own", "dispose", "write"}
                     => LET i == Item(op.task) IN <<i.session, i.shelved>> = <<op.choice.session, op.choice.shelved>>

============================================================================

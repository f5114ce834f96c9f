# A verification project for the DSH Backend Agent Team

This directory holds TLA+ models of the Backend Agent Team (`packages/` and
`src/` of the repository), TLC configurations that check them on small
instances, and proofs of the most important results that TLAPS checks for every
value of the constants. Paths below are relative to the root of the repository;
`core/`, `agent-team/` and so on stand for `packages/core/src/`,
`packages/agent-team/src/` and so on.

Contents: [the system](#the-system), [components](#components),
[interaction](#how-the-components-interact), [hard behaviours](#what-is-hard-here),
[modules](#modules-and-their-code), [runs](#runs), [fairness](#fairness),
[proofs](#proofs), [findings](#findings), [known limits](#known-limits),
[not modelled](#what-is-not-modelled), [plan](#plan).

## The system

A user chats with a host application. The bundle turns the conversation into
*one task per workspace*: a requirements document, a design, a task plan,
development, verification, delivery. Two of the steps between them are gates
that only the user opens, and each approval covers the documents as they were
when the user saw them. Agents (experts, and the workers that experts delegate
to) do the work under budgets, caps and exclusive leases on paths. The durable
state of a task is one JSON file, replaced under a lock and fenced by a revision
number; what changes is announced in an append-only log from which the progress
view is built. The host may be stopped or die at any moment and must continue
from the files.

Everything runs in JavaScript, so code between two `await`s is atomic within a
process. Several processes may nevertheless use one workspace: the state file,
the event log, the lease directory and the budget file are all shared, each
under a lock of its own.

## Components

| component | state it keeps | operations | what makes it correct |
|---|---|---|---|
| ownership leases (`agent-team/ownership-manager.ts`, `path-overlap.ts`) | one file per lease, a mutex | construct, acquire, release, releaseRecovered, snapshot, verifyWrite | no two tasks write one path but by delegation; a release removes its own file |
| budget ledger (`agent-team/budget-ledger.ts`, `durable-budget-ledger.ts`) | per parent: ceiling, consumption, reservations, blocked; the handles of each process | register, reserve, consume, release, record, markExhausted, reload and save | the ceiling is kept over processes, restarts and lost saves; one settler per reservation; consumption never shrinks |
| task scheduler (`agent-team/task-scheduler.ts`, `task-queue.ts`) | queues by lane and priority, active map, counters | submit, cancel, start/drain, run, timers, dispose | caps, disjoint writers, no leaked slot, no idle slot, every call answered |
| state store (`core/state-store.ts`) | `current.json`, lock file | load, create, transact | a fenced register: no lost update, an answered write is durable |
| team coordinator (`core/team-coordinator.ts`, `agent-team/handoff-store.ts`) | registered tasks, delegation windows, leases, handoffs, run records, a tail of state writes | dispatchExpert, dispatchWorker, acceptChildResult, recordRun, recordDispatchFailure | one run per task, a passed run has an accepted handoff, running agents hold leases |
| delegation and handoffs (`agent-team/delegation-guard.ts`, `role-policy.ts`, `capability-intersection.ts`, `result-verifier.ts`) | tasks under authorization, children charged, handoffs | validate a task, verify a result, put a handoff | a child never gets more than its parent has; what is accepted of an expert is of one piece with its children and the documents |
| event feed (`core/evented-state-store.ts`, `persisted-event-port.ts`, `file-persisted-event-store.ts`, `production-orchestration-port.ts`) | the log, its lock, the port's next number and its promise tails | emit, append, notify, record an agent's start and end | numbered without gap, complete for those who were told, never blocked |
| workflow and approvals (`core/state-machine.ts`, `approval-service.ts`, `artifact-invalidation.ts`, `control-mediated-approval-port.ts`, `requirement-change.ts`, `delivery-lifecycle.ts`) | phase, approvals, requirement change, verdict; outstanding requests | request, decide, settle, invalidate, reopen, verify, deliver | no gate is skipped; an approval is what was decided about what was seen |
| specification workflow (`core/specification-coordinator.ts`, `application-workflow-adapter.ts`, `specification-recovery.ts`) | one operation at a time, the documents | start, refine, refineDesign, generate design, generate tasks | phases move only as the operation's inputs were approved |
| production composition (`core/production-composition.ts`, `bundle/production-workflow-commands.ts`) | flights of approvals, commands in progress | reconcile, serve, commands, dispose | a restart continues from the files, disposal ends |
| long task sessions (`agent-team/context-manager.ts`, `long-task-execution-session.ts`) | the transcript and its compactions, the checkpoint, the run lease, the budget window | open, step, compact, side effect, close | no compaction is lost or splits a call from its result; a done side effect is not done again |
| agent runtime adapter (`harness-adapter/`) | live agents, deadlines, the child process of the app server | spawn, result, cancel; one inference with its requests, timers, disposal | a stream ends, tells what the child said, and leaves no child behind |
| managed tools (`bundle/managed-agent-tools.ts`, `development/patch-tracker.ts`, `file-snapshot.ts`) | patches, accepted snapshots, opened handles, test evidence | read, write, command, test, accept, roll back | bytes go to the file that was looked at; what was accepted is what is there |
| development runs (`development/development-coordinator.ts`, `development-run-controller.ts`, `slice-executor.ts`) | controller flags, checkpoint, slice attempts, run lock | run, pause, resume, retry, change requirements, verify | one run at a time, on the approved plan; what is delivered was tested |
| policy engine (`policy-engine/`) | approval tokens, install sessions | evaluate, issue, consume, run, close | a token is used once, for what it was issued for; a session ends clean |
| task host (`bundle/conversation-task-host.ts`, `workflow-host.ts`) | a registry of tasks, their hosts, the tasks' conversations | create, queue, adopt, shelve, reopen, dispatch | a task starts alone; a call of a session goes to its own task |
| migration review (`bundle/database-migration-review.ts`, `native-database-migration.ts`, `migration-review-store.ts`) | the pending request, its record on disk | prepare, ask, restore, decide, apply | what is applied is what was reviewed |
| database (`database/`) | the cluster, the GUI's process and design database, the GUI plugin | start, stop, open and close the GUI, install | one GUI process of our own; it keeps its design database; the plugin survives a failed install |
| process supervision and downloads (`platform-macos/`) | process records, partial files, the Node tree with its receipt | start, stop, escalate, download, provision | nothing of others is signalled, only verified files are used |
| web review (`web/control-service.ts`, `control-client.ts`, `client-overlay.ts`, `review-session.ts`, `bundle/conversation-workflow-tool.ts`, `web/control-surface.ts`) | the panel's clients and preview, the chat's review, the view | poll, inspect, decide, ask in chat, replay the log | what is approved is what was on screen |
| specification tooling (`spec-workflow/`) | the installed tools, the plan of an initialisation | install, prepare, initialise | `init --force` overwrites what was approved |
| bundle wiring (`bundle/production.ts` and adapters) | little | composition | |
| development planning, analysis and verification, agent construction, contracts | none of their own | parsing, read-only scans, schemas | |
| customers (`src/customers`) | customers with versions, a change log | create, update, search, walk the pages | no lost update, a complete change log |
| personnel (`src/personnel`) | persons, assignments, an audit log | the person's life cycle, assignments | legal transitions, a failed request changes nothing |

## How the components interact

    user -- command, decision --> production composition -- flights --> approval port
                                        |                                  |
                                        v                                  v
                  specification coordinator, requirement change, delivery lifecycle
                                        |  transact(revision)
    team coordinator -- recordRun ---->  evented state store --> state store (file)
      |        |        \                     |  emitChanges
      |        |         handoff store        v
      |        leases (files)            event port --> event log (file) --> control surface
      v
    task scheduler --> durable budget ledger (file)
      |
      v
    agent runtime (external) -- an expert's tool calls --> team coordinator (worker dispatch)
      |
      v
    long task session --> checkpoint (file)          managed tools --> the workspace's files

    chat tool, panel -- reads, commands --> control service --> production composition
    task host -- one production composition per task (its development run, its database,
                 its migration review, its installers under the policy engine's sessions)

Calls are promises; results come back as continuations. Shared state is in
files. The two callbacks are the subscribers of the event port and the agents'
own tool calls. Customers and personnel are services of their own.

## What is hard here

* Interleavings at every `await`: an approval is asked, decided and recorded in
  different steps, while operations, commands, edits and other dispatches run.
* Files shared by processes: four different locks (marker file, advisory lock,
  lock file with and without retry), each with its own behaviour at a death.
* Partial failure: state committed but not announced, handoff accepted but not
  recorded, slot to be freed but ledger busy.
* Timers against late answers: spawn and wall-clock timeouts, requests of the app
  server, cancellation, escalation.
* Restart: reservations, leases, locks, approvals, checkpoints, process records,
  half-made trees and pending migrations found on disk.
* Others at the same files: users who edit while agents write, databases and
  trees that change between the look and the use.
* Answers of an old question: a read of the panel that arrives after the chat was
  changed, a reply of the app server to a stream that has given up.
* Liveness: a call of `submit`, an emission and the disposal of the host have to
  end although users and agents need not answer.

`PROJECT.json` lists the hazards one by one, at the line where they bite, with
the properties that would catch them.

## Modules and their code

There is one module per component, or two where one composes the other. Modules
named `...Proofs` extend their component's module. The `MC...` modules only give
constants their values and put components that share no state into one run: there
a behavior is of one part, and a variable that is not in play keeps one value.
Operators introduced by "A bug:" are not part of any specification: each is a
plausible mistake, and the properties are tried against them (`PROJECT.json`,
"mutants").

**`OwnershipManager`, `MCOwnership`, `OwnershipProofs`.** `disk` is the
set of readable lease files, `torn` the nonces of files created but not yet
written, `mutex` the directory's mutex, `pending` the lease between its creation
and its write, `held` what callers can still release. `acquire` is three steps
(checks under the mutex, exclusive creation, write), because a process may die
between them and the constructor reads without the mutex (`Construct`).
`recover`, which every operation runs first, is the guard `Recoverable`. Paths
are sequences of segments, so that overlap is by segment as in
`path-overlap.ts`. With `AdvisoryLock` the kernel frees the mutex of a dead
process (Darwin); without it the marker file stays (`Stale`).

**`BudgetLedger`, `DurableBudgetLedger`, `EdgeProofs`** (checked in `MCEdges`).
`BudgetLedger` has the pure operations on one parent's record. `file` is the
ledger file, `ids` the identity (in the file) of each reservation, `handles` what
a process may settle, `latched` the processes whose last save failed and which
refuse to go on. An operation reloads the file under its lock, works and saves:
one step, or a step whose save is lost. `Restart` loses the handles.

**`TaskScheduler`, `MCScheduler`** (proofs in `OwnershipProofs`)**.** The scheduler's
state is one record (`sched`), because a handler ends with `drain()`, which starts a
sequence of tasks: `Drains` is `StartOne` over and over (`Turns`). A start may be refused,
since another process has the ledger or the parent has nothing left; that task is
answered, and the drain goes on. `agent` is what the runtime has for a task. `Finish` is
the `finally` of `run`: it settles, frees and drains, or throws while the ledger is
locked, which leaves the slot taken (`leaked`). Timers are actions that may happen at any
moment the code has them set.

**`FencedRegister`, `StateStore`, `MCStateStore`, `StateStoreProofs`.**
`FencedRegister` is what callers rely on. `StateStore` has the lock file, the
temporary file, the rename and the directory sync as steps; `file` is what
processes read, `durable` what a power failure leaves. The refinement maps `reg`
to `file` and `saved` to `durable`.

**`AppServer`** (in `MCStateStore`). One inference: `at` is the request the
stream awaits, `pending` the client's table of requests, `turn` the promise of
the turn, `lifecycle` and `killing` how far the client's disposal is, `wire` what
the child has written and nobody read. The child may answer, be silent, write
garbage or die.

**`TeamCoordinator`, `Delegation`, `MCCoordinator`, `CoordinatorProofs`.** One
call is one dispatch; its `pc` is the `await` it stands at. `tasks`, `windows` and
`owned` are the maps in memory, `leases` and `from` the lease files and their
parents, `tail` the promise chain of state writes. Verification of a result is one
accept-or-reject outcome there, and `Delegation` has what it is: what a role may
ask, what a child may get of its expert (capabilities, paths, children), the checks
of `verifyAgentResult` and the handoffs, while the phase and the documents change
between a task's check and its start. `proposed` are the tasks the policy is being
asked about, `used` the children charged to an expert.

**`EventFeed`, `ControlSurface`, `MCFeed`, `FeedProofs`.** `queue[h]` holds the
two promise tails of a process: `turn`, the transactions that wait to announce,
and `tail`, everybody who waits for the port; `at[h]` is the file operation the
port is in. `tear` is how the log file ends: whole, with a line that has no end
yet, or with a broken line, after which nobody can read the log. `ControlSurface`
adds the view: subscribed first, then read, then replayed together with the
buffer.

**`ApprovalPort`, `Workflow`, `MCWorkflow`, `WorkflowProofs`.** `ApprovalPort` has
the order of phases, the gates, what each gate's snapshot covers and what a changed
document invalidates, and the outstanding request of each gate. `Workflow`
composes: `flight[g]` is the asynchronous approval of a gate (load, verify the
requirements, ask, wait, record, settle, generate the next documents, publish),
`op` the coordinator's exclusive operation, `cmd` the user's command, `life` the
final verification, `up` the life of the host.
Abstractions: a document is its content; approval identifiers are left out since
a gate has at most one flight; a load directly followed by a commit fenced at
the loaded revision is one step, because the fence makes them equal; a commit
may be durable and still fail, since publishing its event may fail
(`FlightFails` in step `settle`, the second disjuncts of `ClosePhase`,
`ReopenRequirements` and `ChangeReady`).

**`LongTask`** (in `MCTeam` and `TeamProofs`). A session is a process and a task; `disk[t]` is the
checkpoint of a task, `mem[s]` the context manager of a session, `lease` and
`refs` the run lease, which the sessions of one process share, `op[s]` the side
effect under way, `spent[s]` the budget window. A transcript is a sequence of
messages with a role and the call they make or answer; compaction cuts where no
call is parted from its results. What is sent to the model is a set of positions of
the transcript (`Projected`); results that are not recent are sent without their
content, which only counts for the size.

**`ManagedTools`** (in `MCTeam` and `TeamProofs`). One path: `file` is the inode at it, `bytes` what
is in each inode, so that a file that is replaced differs from one that is
rewritten. `at[a]` is where the agent's transaction is between snapshot, open,
check of the handle, truncate, write, sync and the look after it; `accepted[a]` is
the snapshot the session expects, `patches[a]` what it would take back. The user
(or a command) edits, replaces, deletes and creates in between.

**`Development`** (in `MCTeam` and `TeamProofs`). `status` and `ctl` are the controller's,
`coord` the coordinator's, `run[r]` one pass through the slices (develop, test, fix,
retest, checkpoint, final verification), `stop` the call of `pauseAndWait`, `dispose` or
`applyRequirementChange` at work, `asked` how many there were, `change` the requirement
change that archives the checkpoint and starts over, `saved` the checkpoint on disk.

**`TaskHost`** (in `MCRuntime`). `records` is the registry on disk, `hosts` the
production hosts in memory, `op` the operation that holds `creating`, `call` a
session's dispatch between finding its host and being inside it, `ticket` a
decision shown to the user and not yet confirmed, `bridge` the session a task's
approval is asked in.

**`Installation`, `KitProject`, `NodeRuntime`, `DbGateInstall`** (in `MCRuntime` and
`MCEdges`). What several processes install into one workspace. `Installation` has
the policy's rules over the words of an action, tokens (issued, expired, spent) and
sessions, a download through a partial file and a link, and the installation of uv
and of a Python environment with its receipt. `KitProject` is `specify init
--force`: a plan holds the trees it has seen, four looks compare them again (when it
is prepared, at the session, in its callback, at the command), each tree after tree.
`NodeRuntime` publishes a tree by a rename and then its receipt; `DbGateInstall`
swaps the plugin by two renames with a backup.

**`Database`** (in `MCRuntime`). `os[pid]` is the process of a pid, which others
may get after an exit; `reserve` and `record` are the supervisor's files, `gui` the
launcher's child, `session` and `designs` the port's design databases, `cluster` and
`live` PostgreSQL. `op` is the queue's head with its next step.

**`Migration`** (in `MCRuntime`). Schemas are numbers, SQL is the pair it leads
from and to. `job` prepares (generate, try on a clone) or restores after a restart,
`req[n]` is a request from asking to its application, `file` the record on disk.
The source, the design and the ORM source change under it.

**`ReviewService`, `Panel`, `Conversation`** (in `MCEdges`). `ReviewService` is what
the control service shows and what it refuses: per task the revision, the approval
it waits for and whether the documents are still those. `Panel` is the browser's
component over it: one client per chat entered, one read and one command under way,
whose answers arrive after the chat was changed. `Conversation` is the chat's tool:
several calls, each reads, may ask the user, reads again and dispatches.

**`Customers`, `Personnel`** (in `MCServices`). `Customers` cuts a request where the
handler awaits: `flights[c]` is a client's request with what it has read. `Personnel`
handles each request in one transaction over persons, assignments and the log; what
is hard there are sequences of requests with dates before and after today.

## Runs

Every run explores all states of its instance. Deadlock is checked in
`workflow_gates`; the other systems may really stop (all calls answered, all
processes dead, the lock left behind), so it is off there.

| run | instance | what it shows |
|---|---|---|
| `ownership_leases` | two processes, three tasks, paths `src` and `src/a`, up to three nonces, marker-file mutex, delegation, deaths at every file operation | `WriterExclusion` |
| `scheduler_family` | two experts with overlapping scopes, a writing and a reading worker, caps 2 and 2 | `WritersApart`; `SlotsAreKept` (caps, a settled task holds nothing, no idle slot, an agent is in a slot, children are counted once); `DisposedStartsNothing`; `EveryCallAnswered` |
| `state_fenced` | three processes, revisions to 3, power failures; one inference with at most two unread frames | `AckedIsDurable`, `ImplementsRegister` (the file refines the fenced register); `OutcomeIsTold`, `StreamsEnd` |
| `coordinator_dispatch` | two dispatches of one task, one of another, one worker that clashes with it, one write by others, faults and deaths; two experts of two roles with a worker and one change of phase or documents | `PassedRunHasHandoff`, `RunnersDoNotClash`; `AcceptedTreeIsWhole` |
| `feed_announced` | two processes, transactions with two and one changes, one agent, one view | `NothingIsSkipped`, `EmissionsEnd` |
| `workflow_gates` | a requirements and a design document with two contents, three commits from a new task or one saved in `SPECIFY`, `DESIGN` or `BUILD` | `VerdictIsCurrent`, `ApprovalIsReviewed`, `DisposalEnds` |
| `team_work` | two processes with two long tasks; two agents and a user at one path; a plan of two slices with two runs, two plans, one call that stops work (pause, change or disposal) and one edit or death | `CompactionsAreWhole`, `CompletedRunsOnce`; `OwnedFileIsAccepted`, `WritesGoToTheFileSeen`; `WorkKeepsItsPlan` |
| `runtime_host` | two installing processes with two tokens; two pids and three design databases; two migration requests over two schemas; two tasks of two conversations; one death each, two for tasks | `RunIsApproved`, `SessionsEndClean`, `EvidenceIsWhole`; `OneOwnGui`; `AppliedIsApproved`; `CallerOwnsTask`, `TaskStartsAlone` |
| `edges_shared` | two ledgers on one file, three children, two dimensions; two chats with two approvals in panel and chat; two processes that provision Node, one that installs the plugin, two that initialise Spec Kit | `CeilingKept`, `OneSettler`; `ApprovedWasSeen`, `ChatApprovalIsReviewed`; `RuntimesAreKept`; `InitMeetsPlan` |
| `services_requests` | two clients, two customers, five requests; two persons, four requests, three days | `PhoneIsOfOne`, `UpdatesAreTold`, `WalkMeetsUntouched`; `LogChains`, `StaffRequestsAreSound` |
| `user_edit` | two agents and a user at one path | violation of `RollbackTakesBackOwnEdit`: see findings |
| `panel_unseen` | two chats with two approvals in the panel | violation of `NoUnseenApproval`: see findings |

### Bounds, and why they are enough

* *Processes*: locks and caches are between a process and "the others"; two
  processes give every pair. The register has three, so that an answer, a stale
  writer and a dead owner can meet.
* *Leases*: a parent, its delegate and a third task are the smallest family in
  which the containment rule, the delegation exemption and plain conflict
  differ. `Nonces` bounds how many files may exist at the same time or be held.
* *Budgets*: amounts are such that one or two of three children fit, so refusal
  and blocking happen; `MaxConsumed` bounds consumption with a state constraint
  (consumption only grows, so nothing before the bound is lost).
* *Scheduler*: every cap can be reached by the four tasks, and the first expert's
  workers can be refused, timed out and cancelled. A task is submitted once.
* *State store*: `MaxRevision` bounds the calls that start, three revisions let a
  stale caller be two revisions behind.
* *Coordinator*: `MaxOthers` bounds the writes by others; one is enough to lose
  the race for each record, and the dispatches are each other's "others" too.
* *Feed*: a call with two changes is needed for a hole, two calls for the tails,
  two processes for stale numbers; every client acts once.
* *Workflow*: `MaxRevision` bounds commits. A task needs eight commits to be
  delivered, so the run also starts from saved tasks, with the approvals and
  revisions they had (counted from the saved one): every phase is reached with
  three. Documents have two contents: the one that was approved and another.
* *Delegation*: a child of every kind fits twice, three names are the smallest tree
  in which an expert has a worker and another expert does not.
* *Long tasks*: a transcript of three messages, one of them recent, reaches a
  compaction that may part a call from its result (the budget is of two calls); sessions
  are opened three times, so that a task is resumed after a death by the same and by the
  other process.
* *Tools*: two edits by others let the file be changed and changed again inside one
  transaction; two inodes let it be replaced by another file while it is open.
* *Development*: two dependent slices, two runs and two plans let a run be overtaken
  by a requirement change; one call of one of the three kinds that stop work is in a
  behavior, and one event (edit, removal, death). The theorem holds for any number of
  calls, one after another.
* *Installation, runtimes, Spec Kit*: what matters is one process against another
  (or against a dead one's files); one artifact stands for the plan's, one token
  may be left unused, one tree is edited at a time, two renames fail in an install (the plugin
  is kept through the first).
* *Database, migration, task host*: three designs for two pids let a pid be used
  again; two requests and one death let a restored request meet a newer one; two
  tasks and two hosts built for them let one be adopted, shelved and reopened.
* *Panel, chat*: two approvals and one further revision let an answer be of the
  other approval, of another chat, or of an older revision.
* *Customers, personnel*: five interleaved requests let two updates, a walk of two
  pages and a creation meet; `If-Match` names version 1 or 2, before and after either
  exists, so that an update may also be conditional on a version that is still to come;
  four personnel requests over three days let an
  assignment be planned, started and ended.

## Fairness

Liveness is stated only where the code's scheduling justifies it.

* `EveryCallAnswered` (scheduler): a timer that is set fires, and an agent that
  is being cancelled becomes idle. Nothing else need happen: agents need not
  answer, nobody cancels. (`task-scheduler.ts` sets a wall-clock timer for each
  run; the runtime cancels at its deadline.) The conditions are written as `[]<>`
  formulas with the actions' own guards. The property excepts leaked slots.
* `EmissionsEnd` (feed): a promise of the port that can settle does, per process
  (`Advance`, `Deliver`). File operations may fail each time, and no lock need
  ever be freed.
* `DisposalEnds` (workflow): continuations run (`FlightStep`, `OpStep`,
  `CmdStep`), and a specification operation ends, since its agents have a wall
  budget. The user need not decide, nobody need edit or stop editing.
* `StreamsEnd` (app server): the stream's own continuations run and its timers fire
  (`AppServer!Fair`). The child need not say anything, and need not die before it is
  killed.

## Proofs

TLAPS checks the eight `...Proofs` modules to the last leaf; nothing is assumed but the
named assumptions of the modules they extend, which every run evaluates. They say how
constants are typed (`NoncesAreOrdered`, `BudgetsAreAmounts`, `BoundsAreNumbers` and the
like) and paths (`SegmentsAreStrings`), that the scheduler has finitely many tasks, its
caps are numbers and what it is given has a priority it queues (`FamilyIsFinite`,
`LimitsAreNumbers`, `PrioritiesOfSubmit`), that a date is a number of days and
a version that an update names one from 1 on (`DatesAreNumbers`, `VersionsAssumption`), that
what stands for nothing is none of the values
(`NothingIsNoValue`, `NoHashIsNoHash`, `NoTreeIsNoTree`, `NobodyIsNobody`), and that no
task clashes with itself (`ClashesAreOfTwo`). The results hold for any number of
processes, tasks, documents, chats and calls, and for any bound.

| module | theorems | inductive invariant, and why it is needed |
|---|---|---|
| `OwnershipProofs` | `TypeCorrect`, `WriterExclusionHolds`, `NonceIsIdentityHolds` | the checks of `acquire` and the appearance of its file are different steps: only the mutex holder has a lease pending (`HolderWrites`), and that lease still has the right the checks gave it (`PendingClear`) and a nonce of its own (`PendingFresh`) |
| | `WritersApartHolds`, `SlotsAreKeptHolds`, `DisposedStartsNothingHolds` | a task waits in one queue, once, or is in a slot that is counted, or is over (`QueueOK`, `CapsOK`); an expert that runs has an account, which holds a budget for each of its workers in a slot and has counted those that are over (`LedgerOK`); after a handler nothing queued could start (`SchedulerInv`) |
| | `GrantsReadableHolds` | what a lease says of its parent is so of every lease with that nonce (`Grants`), since no nonce is drawn again while somebody was delegated from it; then the path rule of `recover` follows, because a scope of a scope is a scope |
| `StateStoreProofs` | `TypeCorrect`, `AckedIsDurableHolds`, `Refinement` | a call is followed through the lock: alone inside (`LockHeld`), what it checked is still there (`CheckHolds`), what it renamed is still there and newer than any answer (`Renamed`), and on disk before it answers (`Synced`) |
| | `OutcomeIsToldHolds` | what is given was on the wire and settled the turn before (`PassedOn`); of a client that is disposed of nothing is pending, and its child is gone before its disposal is over (`Disposal`) |
| | `PhoneIsOfOneHolds`, `UpdatesAreToldHolds`, `WalkMeetsUntouchedHolds` | a stored row is the last of its history (`RowsOK`), and what a request has read is a past row of its customer (`Past`), so an update that passes its version check has read the row it replaces, unless it names a version ahead of that row; the place of a row nobody touches never moves towards the front, since whatever is written comes first (`WalkOK`) |
| | `LogChainsHolds` | the entries of a person lead to what is stored, and entries are of persons that were created (`StaffTablesOK`), so that a creation begins a story of its own |
| | `StaffRequestsAreSoundHolds` | everybody has an assignment and a number of their own, and what an assignment names exists (`RefsOK`); therefore no deletion succeeds, and nothing takes a number away |
| `CoordinatorProofs` | `TypeCorrect`, `OneRunPerTaskHolds`, `PassedRunHasHandoffHolds`, `HandoffOnceHolds` | a write appends to what it loaded several steps before: a write whose revision is still current was prepared when its task had no run (`WritesAreFresh`) |
| | `RunnersDoNotClashHolds` | from the claim to the clean-up a dispatch has its lease on disk, and before it has none (`HoldersHold`), although a duplicate of its task cleans up too; leases that clash are delegated (`LeasesApart`) |
| | `AcceptedTreeIsWholeHolds` | a name is used again only for the task first asked for under it, a worker's task is within what was asked of its expert, and what was accepted stays registered and tells its task (`TreeInv`) |
| | `WritesInTurnHolds` | inductive itself, beside the invariant above |
| `FeedProofs` | `FeedTypeCorrect`, `LogIsNumberedHolds`, `ToldIsLoggedHolds`, `NothingIsSkippedHolds` | `Numbering`: the lock's owner is alone between check and sync, a port is at most one ahead of the log and exactly one when it writes; `Telling`: queues hold clients of their own process, and a port that has written has its client's event in the log |
| | `ViewIsCompleteHolds` | what a view holds, replayed or not, is complete from the moment the log was read (`Complete`); an event that is written and not delivered is held already or follows all that is (`Ahead`), so the replay drops no event as old |
| `WorkflowProofs` | `TypeCorrect`, `GatesInOrderHolds`, `VerdictIsCurrentHolds`, `ApprovalIsReviewedHolds`, `AnsweredIsDurableHolds` | `Memory`: a request in the port is its flight's, with that flight's revision and documents; a running operation has a caller that waits for it; a host that is down holds nothing. `Verdicts`: between reconciliation and service a verdict may outlive its phase, but then the design approval is gone |
| `EdgeProofs` | `BudgetTypeCorrect`, `OneSettlerHolds`, `ConsumptionMonotoneHolds` | identities are not reused while a handle with them is about (`OwnIds`), and a handle is of a known parent (`HandlesOfKnown`) |
| | `CeilingKeptHolds` | every record, in memory and on disk, has finitely many reservations with budgets that are amounts (`SoundRecord`), so that the sum of the holds, the number of their units, grows by just the hold of the child that is added |
| | `NodeRuntimesAreKept` | a process that works has noticed every content of the root since it began (`RootIsNoticed`), and who has published saw the root hold the archive (`PublishedWasWhole`) |
| | `PluginIsKept` | where the plugin that was found is at each place of the swap (`PluginIsSomewhere`), and that a copy is whole before it is swapped (`CopyIsWhole`) |
| | `InitialisationMeetsPlan` | of the looks of one session: the trees it has passed are the plan's or have changed since (`CheckedIsPlanned`) |
| | `PanelApprovedWasSeen` | unless a chat was changed while a command ran (finding 2), the screen is of the client entered, what counts as viewed was on it, and a read under way is for it |
| | `ChatApprovedIsReviewed` | what each call has read, asked and been answered, by the place it is at (`CallsOK`), over a service whose requests keep their content (`OneContent`) |
| | `EdgesAreSound`, `ApprovedWasSeenHolds`, `ChatApprovalIsReviewedHolds`, `RuntimesAreKeptHolds`, `InitMeetsPlanHolds` | the conjunction of these: a step of the whole is a step of the part in play |
| `RuntimeProofs` | `InstallationIsSound`, `RunIsApprovedHolds`, `SessionsEndCleanHolds`, `EvidenceIsWholeHolds` | a token was issued only for what the policy asks about, and what it forbids it does not ask about (`ForbiddenIsNotAsked`, over the rules in their order); the partial file is that of the live process that writes it (`WriterOwnsPartial`); an executable that is there is whole (`ExecutablesAreGood`) |
| | `DatabaseIsSound`, `OneOwnGuiHolds` | without a reservation nothing of ours lives, with a record only what it names, between spawn and record only the child in hand (`ReservedInv`); the launcher's GUI works on the session's database (`SessionInv`) |
| | `MigrationIsSound`, `AppliedIsApprovedHolds` | a restoration runs alone and is of the record on disk (`JobInv`); a request keeps the SQL that was shown, and has a copy when it says so (`RequestInv`) |
| | `TasksAreSound`, `CallerOwnsTaskHolds`, `TaskStartsAloneHolds` | a call past its checks is of the owner as long as its host is open, and the host has let all calls out before the registry changes (`CallInv`); a decision in progress is of a task that is as it was shown, and a task in creation has found the others delivered (`OpInv`) |
| | `RuntimeIsSound` | the conjunction, part by part |
| `TeamProofs` | `CompactionsAreWholeHolds`, `CompletedRunsOnceHolds`, `LeaseIsCountedHolds` | one open session per task, since the lease is of one process and counts its sessions (`OpenOne`), so that what a session knows of compactions and finished side effects is what is on disk (`LoadedInv`); in a transcript each result follows its call, and a compaction ends where no pair is cut (`Sound`) |
| | `OwnedFileIsAcceptedHolds`, `WritesGoToTheFileSeenHolds` | an agent at work has the path's lease (`AgentOK`); what it knows of an untouched file at each place of the transaction and of its undoing (`Quietly`), and that the handle it writes through is of the file it has seen or created (`Seen`) |
| | `WorkKeepsItsPlanHolds` | a run at work holds the lock and has the current plan, and one that goes through the slices is the coordinator's (`RunOK`); a slice that counts as done was tested last, after those it needs (`Judged`); while requirements change nothing is approved, and when the plan is written anew nobody works on the old one (`SharedOK`) |
| | `TeamIsSound` | the conjunction, part by part |

`Refinement` is proved as usual: initial states map to initial states, and each
step of the detailed store is a step of the register or leaves it as it is.

A handler of the scheduler is taken apart as the code is: a task moves, its slot is
taken or freed, and `drain` starts what can start. `Turns` is a recursive function and
the provers have no induction over data, so of `drain` it is proved by a least number:
were there a first turn after which the invariant did not hold, it held before it, and a
turn keeps it (`TurnKeeps`). What is queued decreases with each turn until nothing can
start, so the turns are enough (`DrainKeeps`): no slot stays idle.

The recursive functions of `Personnel` are reasoned about in the same way. `Applied`, the
assignments that fall due one after the other, keeps what each application keeps, up to
a first that would not. `Walk`, the managers above somebody, was made before the current
assignment was closed and the new one begun: none of those it met is the person that
gets the assignment, and the rows of all others are unchanged, so that it meets the same
managers afterwards (`WalkAvoids`, `WalkSame`).

Theorems about a part (`NodeRuntimesAreKept`, `InstallationIsSound` and so on) are of
the part's own specification; those about the whole (`InitMeetsPlanHolds`,
`AppliedIsApprovedHolds`, `WorkKeepsItsPlanHolds` and so on) state the properties that
the runs `edges_shared`, `runtime_host` and `team_work` check.

The inductive invariants of `TeamProofs` were checked by TLC on the constants of
`team_work` before they were proved.

Only model-checked: the four liveness properties (liveness and `ENABLED` are out of the
prover's reach). Every other property of a passing run is a theorem.

## Findings

Two runs are expected to fail; each shows that the code does not do what a
document or comment says. `PROJECT.json` quotes the lines.

1. **A refused write takes the user's edit back** (`user_edit`). An agent's write is
   refused because the user has edited or created the file meanwhile;
   `rollbackFailedAgentWrite` then restores or removes whatever is at the path, and
   the edit is lost (`development/patch-tracker.ts:156`). The plan of that part says
   that a rollback is applied only while the file is as the agent left it.
2. **An approval that nobody has seen can be given** (`panel_unseen`). When the chat
   is changed while a command runs, the old chat's closure puts its model on the new
   chat's screen (`web/client-overlay.ts:239`), the effect that follows marks the new
   chat's approval as viewed, and the preview on screen is the old one.

## Known limits

Behaviour of the code that was seen while it was modelled and that no property
states: mostly because nothing in the repository promises otherwise, sometimes because
it is outside what the instances reach. Where a comment says otherwise, it is named.

*Leases.* Releasing a parent's lease before its delegate's makes `recover()` throw in
every later operation and constructor (`ownership-manager.ts:132`): the directory is
blocked. `acquire` forgives every lease of the delegating task while `recover`
forgives only the containing one (`ownership-manager.ts:51`, `:138`): with a read
and a write lease of the parent a grant cannot be read back. Nor can it when one lease
names a directory and a path below it, the directory is delegated, and the child's nonce
sorts first: `recover` asks for a path of the child within the lower one (`:161`).
`GrantsReadable` excludes just these. A lease file torn by
a death makes the directory unreadable until somebody removes it. Without the
advisory lock the marker of a dead process stays.

*Budgets and scheduler.* `consume` refuses usage above the reservation before it
charges anything, and the reservation is then released: the usage is never charged
(`budget-ledger.ts:59`). `reserve` does not look at `blocked` (`:41`): a parent stopped
for overrunning may still get a smaller child. A worker that waited may start after
its parent has ended (`task-scheduler.ts:124`). If `ledger.release` throws because
another process has the ledger, the slot stays taken (`:246`). Reservations of a dead
process stay.

*State.* The lock of a dead process is never removed: all later transactions
throw (`state-store.ts:123`). The directory of a task's state is made and synced itself
but its parents are not (`:204`, `:288`): a loss of power soon after it was made may take
it, and what was acknowledged in it, with it. `StateStore` takes the directory as durable.

*Coordinator and delegation.* If recording an accepted result loses the revision race,
the dispatch is recorded as failed beside its accepted handoff
(`team-coordinator.ts:218`); a failure record that loses it is swallowed (`:238`). The
duplicate check of an id and its registration are several awaits apart (`:85`): two
dispatches of a task may both get to a result, of which one is refused, and the second
could claim the children of the first. The guard compares the children used with the
children that *remain* (`delegation-guard.ts:99`), so that a budget of three children
allows two. A worker may start after the phase has left `BUILD`. Testers may be given
write paths outside the tests.

*Feed.* A port whose number was overtaken by another process refuses every later
event until it is restarted (`persisted-event-port.ts:42`). Events of committed
changes that could not be appended are not retried: the reconciliation that the
comment at `evented-state-store.ts:16` speaks of does not exist. After a lost event a
view replays the last logged phase over the durable one (`view-model.ts:85`). The lock
of a dead process blocks the feed; a broken line makes the log unreadable for good.

*Workflow.* A saved verdict is verified again at the start of a host that is
configured for development (`bundle/workflow-host.ts:102`), and every host of the model
is; another one keeps the verdict as it is.
(a) A request made on a closed port rejects a promise that nobody awaits
(`approval-service.ts:146`).
(b) The requirements are verified before the snapshot of the design approval is
taken (`approval-service.ts:136`, `:139`): an edit between the two leaves the
requirements approval stale until the next start reconciles it.
(c) A request cannot be decided any more once the revision has moved; it stays
pending until it is rejected by a clarification or the port closes.
(d) A death between the advance to `AWAIT_REQUIREMENTS_APPROVAL` and the commit
that marks a requirement change as reviewable leaves a restored approval that may
be granted while the change stays "preparing".
(e) An approval that is durable but whose event cannot be published is reported
as a failure, and the next generation does not start by itself.
(f) `decide` compares only the first artifact hash, and approval identifiers
start again from 1 after a restart (`control-mediated-approval-port.ts`).

*Long tasks.* A session whose last save fails never gives its run lease back, and
turns a finished agent's result into a failure. The counters of a budget window start
again when a session is opened. `runTool`, `consumeCompaction` and `openNextWindow`
are not called by the production binding. The file store overwrites a checkpoint
whatever its version.

*Tools.* A rollback that fails leaves the path as it is, or empties the file
(`patch-tracker.ts:164`), which the caller is told of; `OwnedFileIsAccepted` excludes it.
Only the tools for specifications wait for the queue of their calls before they release
the path (`bundle/specification-agent-tools.ts:84`); the others rely on the harness, which
waits for a disposed agent to be idle, and the model has that wait for all. Between the
last look at a file and its truncation an edit is lost, which `policy-engine.ts:24` calls
the accepted boundary. A command of an agent that rewrites an owned file makes later
writes of that session refused. `rollbackOwnChanges` has no caller in the host.

*Development.* A resumption that waits for its hook while a requirement change is
made runs once on the new phase (`development-run-controller.ts:44`). `pause` while the
controller waits for its release leaves it "pausing". A resume after `DELIVER` shows
"failed". Files that are half written count as done at a restart. Edits that are undone
while tests run are not seen.

*Task host.* A session may take over an unfinished task while another task is active
(`conversation-task-host.ts:266` checks its own tasks only), which the comment at `:202`
rules out. Creating a task holds the queue for the whole generation of its requirements.
Queued tasks are started only by a shelving of the same session. If the disposal of a
task's host fails, the task cannot be used until a restart; if the host is disposed
while a task is created, its host is left. A dispatch checks who owns the task before
it waits (`:268`).

*Installers.* If the sync of a fully written Node receipt fails, the tree is removed
although another process may have been given it. A tree published without its receipt,
a partial file (a download whose clean-up fails leaves one, too) or half an installation
blocks later attempts until someone removes it. A migration of a Node receipt that dies, or
fails to write or to remove its temporary file, leaves that file in the tree
(`policy-owned-artifact-adapter.ts:99`), and the runtime is refused from then on, since its
tree is no longer that of the archive. What a death leaves of the Spec Kit's tree and its
receipt is modelled, and no property is about it.
`DbGateInstaller` has no caller in production and nothing serialises two of it; after a
death between its two renames the backup is not put back. A tree that is edited between
the last look and `specify init` is overwritten, which `install-session.ts:201` accepts.

*Database.* A process counts as gone whenever `ps` fails, also when `ps` itself cannot be
run (`process-supervisor.ts:194`): its record and reservation are then removed and a
second GUI may start beside it. `OneOwnGui` is about a host on which `ps` runs. A death of
the host between spawn and record leaves a reservation that nobody can stop, and the GUI
does not start again. A record whose pid is used again cannot be stopped. If the port's
stop of a GUI fails after its launcher was lost, the design database of a live GUI is
dropped later (`database-execution-port.ts:160`). A dead postmaster makes `stop` fail
until the host is restarted, a live one blocks the start. If the session's record cannot
be written, its database is left; if it cannot be removed, later discards fail.

*Migration.* A death between commit and the removal of the record makes the restored
request fail and stops the host once. A death between the ORM source and the SQL leaves
the ORM source changed. A `psql` that is killed may have committed. The rollback of the
ORM source overwrites edits made meanwhile; the source schema may change between the
last look and the SQL. The end of a request clears the record on disk
and, an `await` later, lets go of whatever request the review holds
(`database-migration-review.ts:134`, `:138`): a newer one, prepared when the revision of
the older one had passed while it was being applied, can then still be decided but is not
on disk. `PendingIsDurable` is therefore about the request that the review holds, and not
about the moment between the two.

*Panel, chat, app server.* When a refresh after a command brings a newer revision of
the same content, its preview is on screen for one rendering only and the approval
counts as viewed. Approvals of migrations are not read again after the host's dialog.
Disposing the app server's adapter does not reject `complete`; a stream that waits for
its turn ends at its timer.

*Customers.* An update may name in `If-Match` a version ahead of the row it has read:
`parseIfMatch` takes any number from 1 (`customers/api/update-customer.ts:23`), and
`updateCustomer` compares it with the row only at the write
(`customers/application/update-customer.ts:140`). When another client commits just that
version between the read and the write, the update succeeds; its log entries tell the old
values of the older row, and its answer is the new version with the older row's other
fields, although the operation is to return the latest values
(`specs/task-9dca7f07-d6da-4096-b41a-ecf4cbc51883/contracts/openapi.yaml:143`). `UpdatesAreTold`
excludes such updates where it speaks of what was read, and not where it speaks of what is
stored. A walk repeats or misses rows that are touched meanwhile, although
`memory-customer-repository.ts:294` means to avoid that. A phone of punctuation only
passes its pattern and is refused by the table as an internal error. A detail may show
an older version with newer changes.

*Personnel.* `applyDueAssignments` is called by tests only. The table lets an
assignment with an end overlap an open one (`store.ts:278`), only the use case refuses
it. Cycles of report lines can arise at a later date. A back-dated deactivation closes
closed rows again, inactive persons keep what is planned for them. An empty operator
rolls the whole transaction back. A person can in effect not be deleted, since creation
writes an assignment that is never removed (`EveryoneStays` in `StateStoreProofs`).

## What is not modelled

* *Development planning, analysis and verification, contracts*: parsing, read-only
  scans of a workspace, running of commands, schemas. No protocol state; their
  verdicts are parameters or nondeterministic outcomes.
* *Agent construction*: pure construction and decoding; `agent-factory.ts`,
  `preset-loader.ts` and `shared-resource.ts` have no caller in production.
  `context-builder.ts` selects what an agent is told.
* *Bundle wiring, profiles, migrations of old state files, adapters of the host
  application*: composition.
* *Recovery of a run directory, hashing of trees* in the specification workflow.
* *Invalidation of a changed artifact while the host serves*
  (`ApprovalService.invalidateChangedArtifacts`) has no caller in production;
  `Workflow` has the reconciliation at start, which does the same.
* *SQL analysis, comparison of schemas, snapshots of data*: what they find is an
  outcome in `Migration`. `MigrationVerifier`, `GuiToMigration` and
  `DatabaseRecovery` are exported and not used.
* *Layout of the panel, the subscription hub, the pages of resources, the display of
  the GUI's login*: nothing is decided by them.
* *The code with which the system talks to its environment* is modelled by what the
  code relies on (a `PROJECT.json` entry marked external): users, editors, agents,
  the kernel's processes and locks, the app server's child.

## Plan

1. **Core** (done): leases, budgets, scheduler, state store with its abstract
   register, coordinator, event feed with the view, workflow with approvals.
2. **Breadth** (done): long tasks, tools, development, task host, installers,
   database, migration, panel and chat, delegation, app server, the two services.
3. **Depth** (done): the proofs listed above.

## Running the checks

    tlc -workers 2 -config MCWorkflow_gates.cfg MCWorkflow
    tlapm WorkflowProofs.tla

Every configuration is named after its module; the longest run takes
about four minutes, the longest proof (`StateStoreProofs`) about twelve.

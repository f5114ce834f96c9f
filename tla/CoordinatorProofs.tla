------------------------- MODULE CoordinatorProofs -------------------------
(***************************************************************************)
(* For any dispatches, any number of other writers and any failures: a     *)
(* task has one run record, a run that passed has its accepted handoff,    *)
(* and a handoff is decided once.  OneRunPerTask is not inductive: a write *)
(* appends to what it loaded several steps before.  It needs that a write  *)
(* prepared from the present revision was prepared when the task had no    *)
(* run (WritesAreFresh), since whoever adds a run moves the revision on.   *)
(* Then: agents that run hold their leases, so no two clash that are not   *)
(* one family (LeaseInv), and the tail of state writes is in order.  Last, *)
(* what is accepted of an expert and its workers is of one piece.          *)
(***************************************************************************)
EXTENDS MCCoordinator, SequenceTheorems, TLAPS

WritesAreFresh ==
  \A c \in Calls : /\ loaded[c] <= revision
                   /\ loaded[c] = revision => ~HasRun(TaskOf[c])

IInv == TypeOK /\ WritesAreFresh /\ OneRunPerTask /\ PassedRunHasHandoff

\* What the coordinator keeps in memory and the lease files.
LocalOK ==
  /\ pc \in [Calls -> Awaits]
  /\ tasks \subseteq Tasks
  /\ windows \in [Tasks -> Experts \cup {NoCall}]
  /\ owned \in [Tasks -> Experts \cup {NoCall}]
  /\ leases \subseteq Calls /\ from \in [Calls -> Calls \cup {NoCall}]

\* What dispatches share with each other and with the disk.
SharedOK ==
  /\ handoffs \in [Tasks -> {"none", "pending", "accepted", "rework"}]
  /\ runs \subseteq [task : Tasks, status : {"passed", "failed"}]
  /\ revision \in Nat /\ others \in 0..MaxOthers /\ open \in BOOLEAN
  /\ loaded \in [Calls -> Nat \cup {NotLoaded}]

\* The type invariant splits into what is local, what is shared and the chain.
LEMMA TypeParts == TypeOK <=> LocalOK /\ SharedOK /\ tail \in Seq(Calls)
BY DEF TypeOK, LocalOK, SharedOK

\* The task of a dispatch is a task.
LEMMA TaskIsTask == ASSUME NEW c \in Calls PROVE TaskOf[c] \in Tasks
BY DEF Tasks

\* The ways a dispatch can leave keep the types of what it leaves.
LEMMA LeaveTypes ==
  ASSUME LocalOK, NEW c \in Calls, NEW failed \in BOOLEAN, Leave(c, failed)
  PROVE  LocalOK'
<1>1. TaskOf[c] \in Tasks  BY TaskIsTask
<1>2. pc' \in [Calls -> Awaits]
  BY DEF Leave, Goto, LocalOK, Awaits, Finished
<1>3. tasks' \subseteq Tasks  BY DEF Leave, LocalOK
<1>4. /\ windows' \in [Tasks -> Experts \cup {NoCall}]
      /\ owned' \in [Tasks -> Experts \cup {NoCall}]
  BY DEF Leave, LocalOK
<1>5. leases' \subseteq Calls /\ from' \in [Calls -> Calls \cup {NoCall}]
  BY DEF Leave, ReleaseLeases, LocalOK
<1>. QED BY <1>2, <1>3, <1>4, <1>5 DEF LocalOK

\* A dispatch that throws keeps the types of what it leaves.
LEMMA ThrowTypes ==
  ASSUME LocalOK, NEW c \in Calls, NEW rest \in Seq(Calls), Throw(c, rest)
  PROVE  LocalOK' /\ tail' \in Seq(Calls)
<1>1. CASE c \in Experts
  <2>1. LocalOK'  BY <1>1 DEF Throw, Goto, LocalOK, Awaits, memory, disk
  <2>2. tail' = Append(rest, c)  BY <1>1 DEF Throw
  <2>. QED BY <2>1, <2>2
<1>2. CASE c \notin Experts
  <2>1. Leave(c, TRUE) /\ tail' = rest  BY <1>2 DEF Throw
  <2>. QED BY <2>1, LeaveTypes
<1>. QED BY <1>1, <1>2

\* A dispatch whose run was recorded keeps the types of what it leaves.
LEMMA RecordedTypes ==
  ASSUME LocalOK, NEW c \in Calls, Recorded(c)
  PROVE  LocalOK'
<1>1. CASE pc[c] = "recording"
  BY <1>1 DEF Recorded, Goto, LocalOK, Awaits, memory, disk
<1>2. CASE pc[c] # "recording"
  BY <1>2, LeaveTypes DEF Recorded
<1>. QED BY <1>1, <1>2

\* A dispatch that goes on keeps the local types.
LEMMA GotoTypes ==
  ASSUME LocalOK, NEW c \in Calls, NEW await \in Awaits, Goto(c, await),
         UNCHANGED <<memory, disk>>
  PROVE  LocalOK'
BY DEF Goto, LocalOK, memory, disk

\* A step that writes neither the state nor a handoff keeps the rest.
LEMMA Untouched ==
  ASSUME IInv, LocalOK', tail' \in Seq(Calls), UNCHANGED <<handoffs, state, loaded>>
  PROVE  IInv'
BY TypeParts
DEF IInv, SharedOK, LocalOK, TypeOK, WritesAreFresh, HasRun, OneRunPerTask,
    PassedRunHasHandoff, state

\* A handoff changes only from "none"; a run that passed has one already.
LEMMA HandedOver ==
  ASSUME IInv, LocalOK', tail' \in Seq(Calls), UNCHANGED <<state, loaded>>,
         NEW c \in Calls, handoffs[TaskOf[c]] = "none",
         NEW decision \in {"pending", "accepted", "rework"},
         handoffs' = [handoffs EXCEPT ![TaskOf[c]] = decision]
  PROVE  IInv'
<1>1. handoffs' \in [Tasks -> {"none", "pending", "accepted", "rework"}]
  BY TaskIsTask DEF IInv, TypeOK
<1>2. TypeOK'  BY <1>1, TypeParts DEF IInv, LocalOK, SharedOK, TypeOK, state
<1>3. PassedRunHasHandoff'
  BY <1>1 DEF IInv, TypeOK, PassedRunHasHandoff, state
<1>. QED BY <1>2, <1>3
  DEF IInv, WritesAreFresh, HasRun, OneRunPerTask, state

\* A write under the revision it was prepared from adds the task's only run.
LEMMA RunAdded ==
  ASSUME IInv, LocalOK', tail' \in Seq(Calls), NEW c \in Calls,
         loaded[c] = revision, UNCHANGED <<handoffs, open, others>>,
         runs' = runs \cup {[task |-> TaskOf[c], status |-> Status(c)]},
         revision' = revision + 1,
         loaded' = [loaded EXCEPT ![c] = NotLoaded]
  PROVE  IInv'
<1>. DEFINE run == [task |-> TaskOf[c], status |-> Status(c)]
<1>1. run \in [task : Tasks, status : {"passed", "failed"}]
  BY TaskIsTask DEF Status
<1>2. loaded' \in [Calls -> Nat \cup {NotLoaded}]  BY DEF IInv, TypeOK
<1>3. TypeOK'  BY <1>1, <1>2, TypeParts DEF IInv, TypeOK, LocalOK, SharedOK
<1>4. \A d \in Calls : loaded'[d] < revision'
  BY DEF IInv, TypeOK, WritesAreFresh, NotLoaded
<1>5. WritesAreFresh'  BY <1>3, <1>4 DEF WritesAreFresh, TypeOK, NotLoaded
<1>6. \A r \in runs : r.task # run.task
  BY DEF IInv, WritesAreFresh, HasRun
<1>7. OneRunPerTask'  BY <1>6 DEF IInv, OneRunPerTask
<1>8. run.status = "passed" => handoffs[run.task] = "accepted"
  BY DEF Status
<1>9. PassedRunHasHandoff'  BY <1>8 DEF IInv, PassedRunHasHandoff
<1>. QED BY <1>3, <1>5, <1>7, <1>9 DEF IInv

\* A write that is given up only forgets the revision it was prepared from.
LEMMA WriteDropped ==
  ASSUME IInv, LocalOK', tail' \in Seq(Calls), NEW c \in Calls,
         UNCHANGED <<handoffs, state>>,
         loaded' = [loaded EXCEPT ![c] = NotLoaded]
  PROVE  IInv'
<1>1. loaded' \in [Calls -> Nat \cup {NotLoaded}]  BY DEF IInv, TypeOK
<1>2. TypeOK'  BY <1>1, TypeParts DEF IInv, TypeOK, LocalOK, SharedOK, state
<1>3. WritesAreFresh'
  BY DEF IInv, TypeOK, WritesAreFresh, HasRun, NotLoaded, state
<1>. QED BY <1>2, <1>3 DEF IInv, OneRunPerTask, PassedRunHasHandoff, state

\* The invariant holds at the start.
LEMMA Initially == Init => IInv
<1>. SUFFICES ASSUME Init PROVE IInv  OBVIOUS
<1>1. TypeOK
  BY OthersAreBounded DEF Init, TypeOK, Awaits, Finished, NotLoaded
<1>2. WritesAreFresh /\ OneRunPerTask /\ PassedRunHasHandoff
  BY DEF Init, WritesAreFresh, HasRun, OneRunPerTask, PassedRunHasHandoff, NotLoaded
<1>. QED BY <1>1, <1>2 DEF IInv

\* Claims: the registered task, its window and its leases are of their types.
LEMMA ClaimTypes ==
  ASSUME LocalOK, NEW c \in Calls, Claim(c)
  PROVE  LocalOK'
<1>1. TaskOf[c] \in Tasks /\ c \in Experts  BY TaskIsTask DEF Claim
<1>2. CASE Unclaimed(c, NoCall)
  BY <1>1, <1>2 DEF Claim, TakeLeases, Goto, LocalOK, Awaits
<1>3. CASE ~Unclaimed(c, NoCall)
  BY <1>3, GotoTypes DEF Claim, Refuse, Awaits, Finished
<1>. QED BY <1>2, <1>3

\* A worker that leases its paths keeps the local types.
LEMMA ClaimWorkerTypes ==
  ASSUME LocalOK, NEW c \in Calls, ClaimWorker(c)
  PROVE  LocalOK'
<1>. DEFINE parent == owned[TaskOf[Caller[c]]]
<1>1. TaskOf[c] \in Tasks /\ parent \in Calls \cup {NoCall}
  <2>1. Caller[c] \in Calls  BY CallsAreKnown DEF ClaimWorker, Calls
  <2>. QED BY <2>1, TaskIsTask DEF LocalOK, Calls
<1>2. CASE Fresh(TaskOf[c]) /\ Unclaimed(c, parent)
  BY <1>1, <1>2 DEF ClaimWorker, TakeLeases, Goto, LocalOK, Awaits
<1>3. CASE ~(Fresh(TaskOf[c]) /\ Unclaimed(c, parent))
  BY <1>3, GotoTypes DEF ClaimWorker, Refuse, Awaits, Finished
<1>. QED BY <1>2, <1>3

\* Every step keeps the invariant.
LEMMA Inductive == IInv /\ [Next]_vars => IInv'
<1>. SUFFICES ASSUME IInv, [Next]_vars PROVE IInv'  OBVIOUS
<1>t. /\ LocalOK /\ tail \in Seq(Calls)
      /\ \A c \in Calls : Writing(c) => Tail(tail) \in Seq(Calls)
  BY TypeParts DEF IInv, Writing
<1>1. ASSUME NEW c \in Calls, Check(c) \/ Delegate(c) \/ Admit(c) PROVE IInv'
  <2>1. LocalOK'
    BY <1>1, <1>t DEF Check, Delegate, Admit, Goto, LocalOK, Awaits, Finished,
                      memory, disk
  <2>. QED BY <1>1, <2>1, <1>t, Untouched DEF Check, Delegate, Admit, queue
<1>2. ASSUME NEW c \in Calls, Deny(c) PROVE IInv'
  <2>1. LocalOK'
    BY <1>2, <1>t, GotoTypes DEF Deny, Refuse, Awaits, Finished
  <2>. QED BY <1>2, <2>1, <1>t, Untouched DEF Deny, queue
<1>3. ASSUME NEW c \in Calls, Claim(c) PROVE IInv'
  BY <1>3, <1>t, ClaimTypes, Untouched DEF Claim, queue
<1>4. ASSUME NEW c \in Calls, ClaimWorker(c) PROVE IInv'
  BY <1>4, <1>t, ClaimWorkerTypes, Untouched DEF ClaimWorker, queue
<1>5. ASSUME NEW c \in Calls, AnnounceFails(c) PROVE IInv'
  BY <1>5, <1>t, LeaveTypes, Untouched DEF AnnounceFails, queue
<1>6. ASSUME NEW c \in Calls, Submit(c) PROVE IInv'
  <2>1. LocalOK' /\ tail' \in Seq(Calls)
    BY <1>6, <1>t, GotoTypes, ThrowTypes DEF Submit, Awaits
  <2>. QED BY <1>6, <2>1, Untouched DEF Submit
<1>7. ASSUME NEW c \in Calls, Result(c) PROVE IInv'
  <2>1. LocalOK' /\ tail' \in Seq(Calls)
    BY <1>7, <1>t, GotoTypes, ThrowTypes DEF Result, Awaits
  <2>. QED BY <1>7, <2>1, Untouched DEF Result
<1>8. ASSUME NEW c \in Calls, ResultFails(c) PROVE IInv'
  BY <1>8, <1>t, ThrowTypes, Untouched DEF ResultFails
<1>9. ASSUME NEW c \in Calls, Handoff(c) PROVE IInv'
  <2>1. CASE handoffs[TaskOf[c]] = "none"
    <3>1. PICK decision \in {"accepted", "rework"} :
            /\ handoffs' = [handoffs EXCEPT ![TaskOf[c]] = decision]
            /\ Goto(c, "recording") /\ tail' = Append(tail, c)
            /\ UNCHANGED <<memory, disk>>
      BY <1>9, <2>1 DEF Handoff
    <3>2. LocalOK'  BY <3>1, <1>t, GotoTypes DEF Awaits
    <3>3. tail' \in Seq(Calls)  BY <3>1, <1>t
    <3>. QED BY <1>9, <2>1, <3>1, <3>2, <3>3, HandedOver DEF Handoff
  <2>2. CASE handoffs[TaskOf[c]] # "none"
    BY <1>9, <2>2, <1>t, ThrowTypes, Untouched DEF Handoff
  <2>. QED BY <2>1, <2>2
<1>10. ASSUME NEW c \in Calls, HandoffPending(c) PROVE IInv'
  <2>1. LocalOK' /\ tail' \in Seq(Calls)
    BY <1>10, <1>t, ThrowTypes DEF HandoffPending
  <2>. QED BY <1>10, <2>1, HandedOver DEF HandoffPending
<1>11. ASSUME NEW c \in Calls, RecordLoad(c) PROVE IInv'
  <2>1. CASE HasRun(TaskOf[c])
    BY <1>11, <2>1, <1>t, RecordedTypes, Untouched DEF RecordLoad
  <2>2. CASE ~HasRun(TaskOf[c])
    <3>1. /\ loaded' = [loaded EXCEPT ![c] = revision]
          /\ UNCHANGED <<pc, memory, disk, tail, handoffs, state>>
      BY <1>11, <2>2 DEF RecordLoad
    <3>2. TypeOK'  BY <3>1 DEF IInv, TypeOK, memory, disk, state
    <3>3. WritesAreFresh'
      BY <3>1, <2>2 DEF IInv, TypeOK, WritesAreFresh, HasRun, state
    <3>. QED BY <3>1, <3>2, <3>3 DEF IInv, OneRunPerTask, PassedRunHasHandoff, state
  <2>. QED BY <2>1, <2>2
<1>12. ASSUME NEW c \in Calls, RecordCommit(c) PROVE IInv'
  <2>1. LocalOK' /\ tail' \in Seq(Calls)
    BY <1>12, <1>t, RecordedTypes DEF RecordCommit
  <2>. QED BY <1>12, <2>1, RunAdded DEF RecordCommit
<1>13. ASSUME NEW c \in Calls, RecordUncertain(c) PROVE IInv'
  <2>1. LocalOK' /\ tail' \in Seq(Calls)
    BY <1>13, <1>t, ThrowTypes, LeaveTypes DEF RecordUncertain
  <2>. QED BY <1>13, <2>1, RunAdded DEF RecordUncertain
<1>14. ASSUME NEW c \in Calls, RecordConflict(c) PROVE IInv'
  <2>1. LocalOK' /\ tail' \in Seq(Calls)
    BY <1>14, <1>t, ThrowTypes, LeaveTypes DEF RecordConflict
  <2>. QED BY <1>14, <2>1, WriteDropped DEF RecordConflict
<1>15. ASSUME NEW c \in Calls, Report(c) PROVE IInv'
  BY <1>15, <1>t, LeaveTypes, Untouched DEF Report, queue
<1>16. ASSUME NEW c \in Calls, ReportFails(c) PROVE IInv'
  BY <1>16, <1>t, ThrowTypes, Untouched DEF ReportFails
<1>17. ASSUME OtherWrite PROVE IInv'
  <2>n. others' \in 0..MaxOthers /\ revision' \in Nat
    BY <1>17, OthersAreBounded DEF OtherWrite, IInv, TypeOK
  <2>u. UNCHANGED <<pc, tasks, windows, owned, leases, from, handoffs, runs, tail, loaded>>
    BY <1>17 DEF OtherWrite, memory, disk, queue
  <2>o. open' \in BOOLEAN  BY <1>17 DEF OtherWrite
  <2>1. TypeOK'
    BY <2>n, <2>u, <2>o DEF IInv, TypeOK
  <2>2. WritesAreFresh'
    BY <1>17 DEF OtherWrite, IInv, TypeOK, WritesAreFresh, HasRun, NotLoaded, queue
  <2>. QED BY <1>17, <2>1, <2>2
    DEF OtherWrite, IInv, OneRunPerTask, PassedRunHasHandoff
<1>18. ASSUME Crash PROVE IInv'
  <2>1. TypeOK'
    BY <1>18, OthersAreBounded
    DEF Crash, IInv, TypeOK, Awaits, Finished, NotLoaded, disk, state
  <2>2. WritesAreFresh'
    BY <1>18 DEF Crash, IInv, TypeOK, WritesAreFresh, NotLoaded, state
  <2>. QED BY <1>18, <2>1, <2>2
    DEF Crash, IInv, OneRunPerTask, PassedRunHasHandoff, state
<1>19. ASSUME UNCHANGED vars PROVE IInv'
  BY <1>19 DEF vars, memory, disk, state, queue, IInv, TypeOK, WritesAreFresh,
               HasRun, OneRunPerTask, PassedRunHasHandoff
<1>. QED
  BY <1>1, <1>2, <1>3, <1>4, <1>5, <1>6, <1>7, <1>8, <1>9, <1>10, <1>11, <1>12,
     <1>13, <1>14, <1>15, <1>16, <1>17, <1>18, <1>19
  DEF Next, Proceed

\* The invariant holds in every state of the coordinator.
THEOREM Invariance == Spec => []IInv
BY Initially, Inductive, PTL DEF Spec

\* The coordinator's tables keep their types.
THEOREM TypeCorrect == Spec => []TypeOK
<1>1. IInv => TypeOK  BY DEF IInv
<1>. QED BY Invariance, <1>1, PTL

\* A task never has two run records, whoever else writes the state.
THEOREM OneRunPerTaskHolds == Spec => []OneRunPerTask
<1>1. IInv => OneRunPerTask  BY DEF IInv
<1>. QED BY Invariance, <1>1, PTL

\* A run recorded as passed has a durable handoff that was accepted.
THEOREM PassedRunHasHandoffHolds == Spec => []PassedRunHasHandoff
<1>1. IInv => PassedRunHasHandoff  BY DEF IInv
<1>. QED BY Invariance, <1>1, PTL

\* A decided handoff is never decided again.
THEOREM HandoffOnceHolds == Spec => HandoffOnce
<1>1. TypeOK /\ [Next]_vars =>
        [\A t \in Tasks : handoffs[t] # "none" => handoffs'[t] = handoffs[t]]_vars
  <2>. SUFFICES ASSUME TypeOK, Next, NEW t \in Tasks, handoffs[t] # "none"
                PROVE  handoffs'[t] = handoffs[t]
    OBVIOUS
  <2>1. ASSUME NEW c \in Calls, Handoff(c) \/ HandoffPending(c)
        PROVE  handoffs'[t] = handoffs[t]
    BY <2>1 DEF Handoff, HandoffPending, TypeOK
  <2>2. ASSUME NEW c \in Calls,
               \/ Check(c) \/ Delegate(c) \/ Deny(c) \/ Claim(c)
               \/ AnnounceFails(c) \/ Submit(c) \/ Admit(c) \/ ClaimWorker(c)
               \/ Result(c) \/ ResultFails(c) \/ RecordLoad(c)
               \/ RecordCommit(c) \/ RecordUncertain(c) \/ RecordConflict(c)
               \/ Report(c) \/ ReportFails(c)
        PROVE  UNCHANGED handoffs
    BY <2>2 DEF Check, Delegate, Deny, Claim, AnnounceFails, Submit, Admit,
                ClaimWorker, Result, ResultFails, RecordLoad, RecordCommit,
                RecordUncertain, RecordConflict, Report, ReportFails
  <2>3. OtherWrite \/ Crash => UNCHANGED handoffs  BY DEF OtherWrite, Crash
  <2>. QED BY <2>1, <2>2, <2>3 DEF Next, Proceed
<1>. QED BY TypeCorrect, <1>1, PTL DEF Spec, HandoffOnce

---------------------------------------------------------------------------
(* Leases *)

\* A dispatch has its leases from their grant until it leaves, none before;
\* leases conflict only where one was delegated.
Early   == {"idle", "checking", "authorizing"}
Holding == {"announcing", "running", "verifying", "recording", "reporting", "failing"}
HoldersHold ==
  \A c \in Calls : /\ pc[c] \in Holding => c \in leases
                   /\ pc[c] \in Early => c \notin leases
LeasesApart ==
  \A c, d \in leases : {TaskOf[c], TaskOf[d]} \in Clashes =>
    DelegatedFrom(c, TaskOf[d]) \/ DelegatedFrom(d, TaskOf[c])
LeaseInv == HoldersHold /\ LeasesApart

\* A dispatch that goes on keeps what it has.
LEMMA LeasesStay ==
  ASSUME LocalOK, LeaseInv, NEW c \in Calls, NEW await \in Awaits, Goto(c, await), UNCHANGED disk,
         await \in Holding => pc[c] \in Holding,
         await \in Early => pc[c] \in Early
  PROVE  LeaseInv'
<1>1. HoldersHold'
  BY DEF LocalOK, LeaseInv, HoldersHold, Goto, disk
<1>2. LeasesApart'
  BY DEF LeaseInv, LeasesApart, DelegatedFrom, disk
<1>. QED BY <1>1, <1>2 DEF LeaseInv

\* A dispatch that leaves takes nobody else's leases.
LEMMA LeasesLeft ==
  ASSUME LocalOK, LeaseInv, NEW c \in Calls, NEW failed \in BOOLEAN, Leave(c, failed)
  PROVE  LeaseInv'
<1>1. /\ pc' = [pc EXCEPT ![c] = "ended"] /\ from' = from
      /\ leases' \subseteq leases /\ leases \ {c} \subseteq leases'
  BY DEF Leave, Goto, ReleaseLeases
<1>2. HoldersHold'
  BY <1>1 DEF LocalOK, LeaseInv, HoldersHold, Holding, Early
<1>3. LeasesApart'
  BY <1>1 DEF LeaseInv, LeasesApart, DelegatedFrom
<1>. QED BY <1>2, <1>3 DEF LeaseInv

\* Neither does one that throws.
LEMMA LeasesThrown ==
  ASSUME LocalOK, LeaseInv, NEW c \in Calls, NEW rest, Throw(c, rest), pc[c] \in Holding
  PROVE  LeaseInv'
<1>1. CASE c \in Experts
  BY <1>1, LeasesStay DEF Throw, Awaits, Holding, Early
<1>2. CASE c \notin Experts
  BY <1>2, LeasesLeft DEF Throw
<1>. QED BY <1>1, <1>2

\* What is granted conflicts with the leases of the delegating task only.
LEMMA LeasesTaken ==
  ASSUME LocalOK, LeaseInv, NEW c \in Calls, NEW parent \in Calls \cup {NoCall},
         pc[c] \in Early, NEW await \in Holding, Goto(c, await),
         Unclaimed(c, parent), TakeLeases(c, parent)
  PROVE  LeaseInv'
<1>1. /\ leases' = leases \cup {c} /\ from' = [from EXCEPT ![c] = parent] /\ c \notin leases
      /\ pc' = [pc EXCEPT ![c] = await]
  BY DEF TakeLeases, Goto, LeaseInv, HoldersHold
<1>2. HoldersHold'
  BY <1>1 DEF LocalOK, LeaseInv, HoldersHold, Holding, Early
<1>3. \A d \in leases : {TaskOf[c], TaskOf[d]} \in Clashes => DelegatedFrom(c, TaskOf[d])'
  BY <1>1 DEF Unclaimed, DelegatedFrom, LocalOK
<1>4. \A d, e \in leases : DelegatedFrom(d, TaskOf[e])' = DelegatedFrom(d, TaskOf[e])
  BY <1>1 DEF DelegatedFrom, LocalOK
<1>5. {TaskOf[c], TaskOf[c]} \notin Clashes
  BY TaskIsTask, ClashesAreOfTwo
<1>6. LeasesApart'
  <2>. SUFFICES ASSUME NEW d \in leases', NEW e \in leases', {TaskOf[d], TaskOf[e]} \in Clashes
                PROVE  DelegatedFrom(d, TaskOf[e])' \/ DelegatedFrom(e, TaskOf[d])'
    BY DEF LeasesApart
  <2>1. CASE d \in leases /\ e \in leases
    BY <1>4, <2>1 DEF LeaseInv, LeasesApart
  <2>2. CASE d = c /\ e \in leases
    BY <1>3, <2>2
  <2>3. CASE d \in leases /\ e = c
    <3>1. {TaskOf[c], TaskOf[d]} = {TaskOf[d], TaskOf[e]}
      BY <2>3
    <3>. QED BY <1>3, <2>3, <3>1
  <2>4. CASE d = c /\ e = c
    BY <1>5, <2>4
  <2>. QED BY <1>1, <2>1, <2>2, <2>3, <2>4
<1>. QED BY <1>2, <1>6 DEF LeaseInv

\* Every step keeps the leases.
LEMMA LeaseStep == IInv /\ LeaseInv /\ [Next]_vars => LeaseInv'
<1>. SUFFICES ASSUME IInv, LeaseInv, [Next]_vars PROVE LeaseInv'  OBVIOUS
<1>t. LocalOK  BY TypeParts DEF IInv
<1>1. ASSUME NEW c \in Calls, Check(c) \/ Delegate(c) \/ Admit(c) \/ Deny(c) PROVE LeaseInv'
  <2>1. PICK await \in {"refused", "checking", "authorizing"} : Goto(c, await)
    BY <1>1 DEF Check, Delegate, Admit, Deny, Refuse
  <2>2. UNCHANGED disk /\ pc[c] \in Early
    BY <1>1 DEF Check, Delegate, Admit, Deny, Refuse, Early
  <2>. QED BY <1>t, <2>1, <2>2, LeasesStay DEF Awaits, Finished, Holding, Early
<1>2. ASSUME NEW c \in Calls, Claim(c) PROVE LeaseInv'
  <2>1. CASE Unclaimed(c, NoCall)
    BY <1>t, <1>2, <2>1, LeasesTaken DEF Claim, Holding, Early
  <2>2. CASE ~Unclaimed(c, NoCall)
    BY <1>t, <1>2, <2>2, LeasesStay DEF Claim, Refuse, Awaits, Finished, Holding, Early
  <2>. QED BY <2>1, <2>2
<1>3. ASSUME NEW c \in Calls, ClaimWorker(c) PROVE LeaseInv'
  <2>1. PICK parent \in Calls \cup {NoCall} : parent = owned[TaskOf[Caller[c]]]
    <3>1. Caller[c] \in Calls  BY <1>3, CallsAreKnown DEF ClaimWorker, Calls
    <3>. QED BY <1>t, <3>1, TaskIsTask DEF LocalOK, Calls
  <2>2. CASE Fresh(TaskOf[c]) /\ Unclaimed(c, parent)
    BY <1>t, <1>3, <2>1, <2>2, LeasesTaken DEF ClaimWorker, Holding, Early
  <2>3. CASE ~(Fresh(TaskOf[c]) /\ Unclaimed(c, parent))
    BY <1>t, <1>3, <2>1, <2>3, LeasesStay DEF ClaimWorker, Refuse, Awaits, Finished, Holding, Early
  <2>. QED BY <2>2, <2>3
<1>4. ASSUME NEW c \in Calls, AnnounceFails(c) \/ Report(c) PROVE LeaseInv'
  BY <1>t, <1>4, LeasesLeft DEF AnnounceFails, Report
<1>5. ASSUME NEW c \in Calls, Submit(c) \/ Result(c) PROVE LeaseInv'
  <2>1. CASE Throw(c, tail)
    BY <1>t, <1>5, <2>1, LeasesThrown DEF Submit, Result, Holding
  <2>2. CASE UNCHANGED disk /\ \E await \in {"running", "verifying"} : Goto(c, await)
    <3>1. PICK await \in {"running", "verifying"} : Goto(c, await)  BY <2>2
    <3>2. pc[c] \in Holding  BY <1>5 DEF Submit, Result, Holding
    <3>. QED BY <1>t, <2>2, <3>1, <3>2, LeasesStay DEF Awaits, Holding, Early
  <2>. QED BY <1>5, <2>1, <2>2 DEF Submit, Result
<1>6. ASSUME NEW c \in Calls, ResultFails(c) \/ ReportFails(c) \/ HandoffPending(c) PROVE LeaseInv'
  BY <1>t, <1>6, LeasesThrown DEF ResultFails, ReportFails, HandoffPending, Holding
<1>7. ASSUME NEW c \in Calls, Handoff(c) PROVE LeaseInv'
  <2>1. CASE Throw(c, tail)
    BY <1>t, <1>7, <2>1, LeasesThrown DEF Handoff, Holding
  <2>2. CASE Goto(c, "recording") /\ UNCHANGED disk
    BY <1>t, <1>7, <2>2, LeasesStay DEF Handoff, Awaits, Holding, Early
  <2>. QED BY <1>7, <2>1, <2>2 DEF Handoff
<1>8. ASSUME NEW c \in Calls, Recorded(c) PROVE LeaseInv'
  <2>1. CASE pc[c] = "recording"
    BY <1>t, <1>8, <2>1, LeasesStay DEF Recorded, Awaits, Holding, Early
  <2>2. CASE pc[c] # "recording"
    BY <1>t, <1>8, <2>2, LeasesLeft DEF Recorded
  <2>. QED BY <2>1, <2>2
<1>9. ASSUME NEW c \in Calls, RecordLoad(c) \/ RecordCommit(c) PROVE LeaseInv'
  <2>1. CASE UNCHANGED <<pc, disk>>
    BY <2>1 DEF LeaseInv, HoldersHold, LeasesApart, DelegatedFrom, disk
  <2>. QED BY <1>8, <1>9, <2>1 DEF RecordLoad, RecordCommit
<1>10. ASSUME NEW c \in Calls, RecordUncertain(c) \/ RecordConflict(c) PROVE LeaseInv'
  <2>1. CASE pc[c] = "recording" /\ Throw(c, Tail(tail))
    BY <1>t, <2>1, LeasesThrown DEF Holding
  <2>2. CASE Leave(c, TRUE)
    BY <1>t, <2>2, LeasesLeft
  <2>. QED BY <1>10, <2>1, <2>2 DEF RecordUncertain, RecordConflict
<1>11. CASE OtherWrite \/ UNCHANGED vars
  <2>1. UNCHANGED <<pc, disk>>  BY <1>11 DEF OtherWrite, vars
  <2>. QED BY <2>1 DEF LeaseInv, HoldersHold, LeasesApart, DelegatedFrom, disk
<1>12. CASE Crash
  <2>1. /\ \A c \in Calls : (pc'[c] = pc[c] /\ pc[c] \notin Holding) \/ pc'[c] = "lost"
        /\ UNCHANGED disk
    BY <1>t, <1>12 DEF Crash, LocalOK, Finished, Holding
  <2>. QED BY <2>1 DEF LeaseInv, HoldersHold, LeasesApart, DelegatedFrom, disk, Holding, Early
<1>. QED
  BY <1>1, <1>2, <1>3, <1>4, <1>5, <1>6, <1>7, <1>9, <1>10, <1>11, <1>12 DEF Next, Proceed

\* An agent that runs has its leases on disk, whatever a duplicate of its
\* dispatch and that one's cleanup do; so two agents over conflicting paths are
\* one of them delegated by the other's task: acquireTaskLeases.
THEOREM RunnersDoNotClashHolds == Spec => [](RunnersHoldLeases /\ RunnersDoNotClash)
<1>1. Init => LeaseInv
  BY DEF Init, LeaseInv, HoldersHold, LeasesApart, Holding
<1>2. LeaseInv => RunnersHoldLeases /\ RunnersDoNotClash
  <2>1. LeaseInv => RunnersHoldLeases
    BY DEF LeaseInv, HoldersHold, Holding, RunnersHoldLeases
  <2>2. LeaseInv /\ RunnersHoldLeases => RunnersDoNotClash
    BY DEF LeaseInv, LeasesApart, RunnersHoldLeases, RunnersDoNotClash
  <2>. QED BY <2>1, <2>2
<1>. QED BY Invariance, <1>1, <1>2, LeaseStep, PTL DEF Spec

---------------------------------------------------------------------------
(* The write tail *)

Queued == {"recording", "failing"}

\* A dispatch that is not queued, before and after, leaves the tail as it is.
LEMMA TailStays ==
  ASSUME LocalOK, WritesInTurn, NEW c \in Calls, NEW await, await \notin Queued,
         pc' = [pc EXCEPT ![c] = await], pc[c] \notin Queued, UNCHANGED queue
  PROVE  WritesInTurn'
<1>1. {d \in Calls : pc'[d] \in Queued} = {d \in Calls : pc[d] \in Queued}
  BY DEF LocalOK
<1>. QED BY <1>1 DEF WritesInTurn, Writing, queue, Queued

\* A call behind others that it is not among.
LEMMA Behind ==
  ASSUME NEW rest \in Seq(Calls), NEW c \in Calls, NEW longer, longer = Append(rest, c),
         \A i \in 1..Len(rest) : rest[i] # c,
         \A i, j \in 1..Len(rest) : rest[i] = rest[j] => i = j
  PROVE  /\ {longer[i] : i \in 1..Len(longer)} = {rest[i] : i \in 1..Len(rest)} \cup {c}
         /\ \A i, j \in 1..Len(longer) : longer[i] = longer[j] => i = j
<1>1. /\ Len(longer) = Len(rest) + 1 /\ longer[Len(rest) + 1] = c
      /\ \A i \in 1..Len(rest) : longer[i] = rest[i]
      /\ Len(rest) \in Nat
  BY AppendProperties
<1>2. 1..Len(longer) = 1..Len(rest) \cup {Len(rest) + 1}
  BY <1>1
<1>3. {longer[i] : i \in 1..Len(longer)} = {rest[i] : i \in 1..Len(rest)} \cup {c}
  BY <1>1, <1>2
<1>4. \A i, j \in 1..Len(longer) : longer[i] = longer[j] => i = j
  BY <1>1, <1>2
<1>. QED BY <1>3, <1>4

\* A dispatch queues up behind the others.
LEMMA TailGrows ==
  ASSUME LocalOK, tail \in Seq(Calls), WritesInTurn, NEW c \in Calls, NEW await \in Queued,
         pc' = [pc EXCEPT ![c] = await], pc[c] \notin Queued,
         tail' = Append(tail, c), UNCHANGED loaded
  PROVE  WritesInTurn'
<1>1. PICK longer : longer = Append(tail, c)
  OBVIOUS
<1>2. \A i \in 1..Len(tail) : tail[i] # c
  BY DEF WritesInTurn, Queued
<1>3. /\ {longer[i] : i \in 1..Len(longer)} = {tail[i] : i \in 1..Len(tail)} \cup {c}
      /\ \A i, j \in 1..Len(longer) : longer[i] = longer[j] => i = j
  BY <1>1, <1>2, Behind DEF WritesInTurn
<1>4. {d \in Calls : pc'[d] \in Queued} = {d \in Calls : pc[d] \in Queued} \cup {c}
  BY DEF LocalOK
<1>5. \A d \in Calls : Writing(d) => Writing(d)'
  <2>1. tail # <<>> => Head(tail') = Head(tail) /\ tail' # <<>>
    BY AppendProperties
  <2>. QED BY <2>1 DEF Writing
<1>. QED BY <1>1, <1>3, <1>4, <1>5 DEF WritesInTurn, Queued

\* The others in the tail, once the first has had its turn.
LEMMA TailOfOthers ==
  ASSUME tail \in Seq(Calls), WritesInTurn, NEW c \in Calls, Writing(c),
         NEW rest \in Seq(Calls), rest = Tail(tail)
  PROVE  /\ {rest[i] : i \in 1..Len(rest)} = {d \in Calls : pc[d] \in Queued} \ {c}
         /\ \A i, j \in 1..Len(rest) : rest[i] = rest[j] => i = j
<1>1. /\ tail # <<>> /\ tail[1] = c /\ Len(tail) \in Nat \ {0} /\ rest \in Seq(Calls)
      /\ Len(rest) = Len(tail) - 1
      /\ \A i \in 1..Len(rest) : rest[i] = tail[i + 1]
  BY HeadTailProperties DEF Writing
<1>2. \A i \in 1..Len(rest) : i + 1 \in 1..Len(tail) /\ i + 1 # 1
  BY <1>1
<1>3. \A i \in 1..Len(tail) : i # 1 => i - 1 \in 1..Len(rest) /\ (i - 1) + 1 = i
  BY <1>1
<1>4. \A i \in 1..Len(rest) : rest[i] # c
  BY <1>1, <1>2 DEF WritesInTurn
<1>5. {rest[i] : i \in 1..Len(rest)} = {tail[i] : i \in 1..Len(tail)} \ {c}
  <2>1. ASSUME NEW i \in 1..Len(rest) PROVE rest[i] \in {tail[j] : j \in 1..Len(tail)} \ {c}
    BY <1>1, <1>2, <1>4
  <2>2. ASSUME NEW j \in 1..Len(tail), tail[j] # c
        PROVE  \E i \in 1..Len(rest) : rest[i] = tail[j]
    <3>1. j - 1 \in 1..Len(rest) /\ (j - 1) + 1 = j
      BY <1>1, <1>3, <2>2
    <3>. QED BY <1>1, <3>1
  <2>. QED BY <2>1, <2>2
<1>6. \A i, j \in 1..Len(rest) : rest[i] = rest[j] => i = j
  <2>. SUFFICES ASSUME NEW i \in 1..Len(rest), NEW j \in 1..Len(rest), rest[i] = rest[j]
                PROVE  i = j
    OBVIOUS
  <2>1. i + 1 = j + 1
    BY <1>1, <1>2 DEF WritesInTurn
  <2>. QED BY <2>1
<1>. QED BY <1>1, <1>5, <1>6 DEF WritesInTurn, Queued

\* The first in the tail has had its turn, and is queued no more ...
LEMMA TailMoves ==
  ASSUME LocalOK, tail \in Seq(Calls), loaded \in [Calls -> Nat \cup {NotLoaded}],
         WritesInTurn, NEW c \in Calls, Writing(c),
         NEW await, await \notin Queued, pc' = [pc EXCEPT ![c] = await],
         tail' = Tail(tail), loaded' = [loaded EXCEPT ![c] = NotLoaded]
  PROVE  WritesInTurn'
<1>1. PICK rest \in Seq(Calls) : rest = Tail(tail)
  BY HeadTailProperties DEF Writing
<1>2. {d \in Calls : pc'[d] \in Queued} = {d \in Calls : pc[d] \in Queued} \ {c}
  BY DEF LocalOK
<1>3. \A d \in Calls : loaded'[d] = NotLoaded
  BY DEF WritesInTurn, Writing
<1>4. /\ {rest[i] : i \in 1..Len(rest)} = {d \in Calls : pc[d] \in Queued} \ {c}
      /\ \A i, j \in 1..Len(rest) : rest[i] = rest[j] => i = j
  BY <1>1, TailOfOthers
<1>. QED BY <1>1, <1>2, <1>3, <1>4 DEF WritesInTurn, Queued

\* ... or queues up again, to record its failure.
LEMMA TailTurns ==
  ASSUME LocalOK, tail \in Seq(Calls), loaded \in [Calls -> Nat \cup {NotLoaded}],
         WritesInTurn, NEW c \in Calls, Writing(c), pc[c] \in Queued,
         NEW await \in Queued, pc' = [pc EXCEPT ![c] = await],
         tail' = Append(Tail(tail), c), loaded' = [loaded EXCEPT ![c] = NotLoaded]
  PROVE  WritesInTurn'
<1>1. PICK rest \in Seq(Calls) : rest = Tail(tail)
  BY HeadTailProperties DEF Writing
<1>2. /\ {rest[i] : i \in 1..Len(rest)} = {d \in Calls : pc[d] \in Queued} \ {c}
      /\ \A i, j \in 1..Len(rest) : rest[i] = rest[j] => i = j
  BY <1>1, TailOfOthers
<1>3. PICK longer : longer = Append(rest, c)
  OBVIOUS
<1>4. /\ {longer[i] : i \in 1..Len(longer)} = {rest[i] : i \in 1..Len(rest)} \cup {c}
      /\ \A i, j \in 1..Len(longer) : longer[i] = longer[j] => i = j
  <2>1. \A i \in 1..Len(rest) : rest[i] # c
    BY <1>2
  <2>. QED BY <1>2, <1>3, <2>1, Behind
<1>5. {d \in Calls : pc'[d] \in Queued} = {d \in Calls : pc[d] \in Queued}
  BY DEF LocalOK
<1>6. {longer[i] : i \in 1..Len(longer)} = {d \in Calls : pc'[d] \in Queued}
  BY <1>2, <1>4, <1>5
<1>7. \A d \in Calls : loaded'[d] = NotLoaded
  BY DEF WritesInTurn, Writing
<1>8. tail' = longer
  BY <1>1, <1>3
<1>9. {tail'[i] : i \in 1..Len(tail')} = {d \in Calls : pc'[d] \in {"recording", "failing"}}
  BY <1>6, <1>8 DEF Queued
<1>10. \A i, j \in 1..Len(tail') : tail'[i] = tail'[j] => i = j
  BY <1>4, <1>8
<1>. QED BY <1>7, <1>9, <1>10 DEF WritesInTurn

\* A dispatch that throws and is not queued queues up if it is an expert's.
LEMMA TailThrown ==
  ASSUME LocalOK, tail \in Seq(Calls), WritesInTurn, NEW c \in Calls, pc[c] \notin Queued,
         Throw(c, tail), UNCHANGED loaded
  PROVE  WritesInTurn'
<1>1. CASE c \in Experts
  BY <1>1, TailGrows DEF Throw, Goto, Queued
<1>2. CASE c \notin Experts
  BY <1>2, TailStays DEF Throw, Leave, Goto, Queued, queue
<1>. QED BY <1>1, <1>2

\* Every step keeps the order of the writes.
LEMMA TailStep == IInv /\ WritesInTurn /\ [Next]_vars => WritesInTurn'
<1>. SUFFICES ASSUME IInv, WritesInTurn, [Next]_vars PROVE WritesInTurn'  OBVIOUS
<1>t. LocalOK /\ tail \in Seq(Calls) /\ loaded \in [Calls -> Nat \cup {NotLoaded}]
  BY TypeParts DEF IInv, SharedOK
<1>w. \A c \in Calls : Writing(c) => pc[c] \in Queued
  <2>. SUFFICES ASSUME NEW c \in Calls, Writing(c) PROVE pc[c] \in Queued
    OBVIOUS
  <2>1. 1 \in 1..Len(tail) /\ tail[1] = c
    BY <1>t, HeadTailProperties DEF Writing
  <2>. QED BY <2>1 DEF WritesInTurn, Queued
<1>1. ASSUME NEW c \in Calls, Check(c) \/ Delegate(c) \/ Admit(c) \/ Deny(c) \/ Claim(c) \/ ClaimWorker(c)
      PROVE WritesInTurn'
  <2>1. \E await \in {"refused", "checking", "authorizing", "announcing", "running"} : Goto(c, await)
    BY <1>1 DEF Check, Delegate, Admit, Deny, Claim, ClaimWorker, Refuse
  <2>2. pc[c] \in {"idle", "checking", "authorizing"} /\ UNCHANGED queue
    BY <1>1 DEF Check, Delegate, Admit, Deny, Claim, ClaimWorker
  <2>. QED BY <1>t, <2>1, <2>2, TailStays DEF Goto, Queued
<1>2. ASSUME NEW c \in Calls, AnnounceFails(c) \/ Report(c) PROVE WritesInTurn'
  BY <1>t, <1>2, TailStays DEF AnnounceFails, Report, Leave, Goto, Queued
<1>3. ASSUME NEW c \in Calls, Submit(c) \/ Result(c) PROVE WritesInTurn'
  <2>1. CASE Throw(c, tail)
    BY <1>t, <1>3, <2>1, TailThrown DEF Submit, Result, Queued
  <2>2. CASE UNCHANGED tail /\ \E await \in {"running", "verifying"} : Goto(c, await)
    BY <1>t, <1>3, <2>2, TailStays DEF Submit, Result, Goto, Queued, queue
  <2>. QED BY <1>3, <2>1, <2>2 DEF Submit, Result
<1>4. ASSUME NEW c \in Calls, ResultFails(c) \/ ReportFails(c) \/ HandoffPending(c) PROVE WritesInTurn'
  BY <1>t, <1>4, TailThrown DEF ResultFails, ReportFails, HandoffPending, Queued
<1>5. ASSUME NEW c \in Calls, Handoff(c) PROVE WritesInTurn'
  <2>1. CASE Throw(c, tail)
    BY <1>t, <1>5, <2>1, TailThrown DEF Handoff, Queued
  <2>2. CASE Goto(c, "recording") /\ tail' = Append(tail, c)
    BY <1>t, <1>5, <2>2, TailGrows DEF Handoff, Goto, Queued
  <2>. QED BY <1>5, <2>1, <2>2 DEF Handoff
<1>6. ASSUME NEW c \in Calls, RecordLoad(c) PROVE WritesInTurn'
  <2>1. CASE HasRun(TaskOf[c])
    <3>1. \E await \in {"reporting", "ended"} : pc' = [pc EXCEPT ![c] = await]
      BY <1>6, <2>1 DEF RecordLoad, Recorded, Leave, Goto
    <3>2. loaded' = [loaded EXCEPT ![c] = NotLoaded] /\ tail' = Tail(tail) /\ Writing(c)
      BY <1>t, <1>6, <2>1 DEF RecordLoad
    <3>. QED BY <1>t, <3>1, <3>2, TailMoves DEF Queued
  <2>2. CASE ~HasRun(TaskOf[c])
    BY <1>t, <1>6, <2>2 DEF RecordLoad, WritesInTurn, Writing
  <2>. QED BY <2>1, <2>2
<1>7. ASSUME NEW c \in Calls, RecordCommit(c) PROVE WritesInTurn'
  <2>1. \E await \in {"reporting", "ended"} : pc' = [pc EXCEPT ![c] = await]
    BY <1>7 DEF RecordCommit, Recorded, Leave, Goto
  <2>. QED BY <1>t, <1>7, <2>1, TailMoves DEF RecordCommit, Queued
<1>8. ASSUME NEW c \in Calls, RecordUncertain(c) \/ RecordConflict(c) PROVE WritesInTurn'
  <2>1. Writing(c) /\ loaded' = [loaded EXCEPT ![c] = NotLoaded]
    BY <1>8 DEF RecordUncertain, RecordConflict
  <2>2. CASE Throw(c, Tail(tail)) /\ c \in Experts
    BY <1>t, <1>w, <2>1, <2>2, TailTurns DEF Throw, Goto, Queued
  <2>3. CASE Leave(c, TRUE) /\ tail' = Tail(tail)
    BY <1>t, <2>1, <2>3, TailMoves DEF Leave, Goto, Queued
  <2>. QED BY <1>8, <2>2, <2>3 DEF RecordUncertain, RecordConflict, Throw
<1>9. CASE OtherWrite \/ UNCHANGED vars
  <2>1. UNCHANGED <<pc, queue>>  BY <1>9 DEF OtherWrite, vars
  <2>. QED BY <2>1 DEF WritesInTurn, Writing, queue
<1>10. CASE Crash
  <2>1. /\ tail' = <<>> /\ \A c \in Calls : loaded'[c] = NotLoaded /\ pc'[c] \notin Queued
    BY <1>t, <1>10 DEF Crash, LocalOK, Finished, Queued
  <2>2. Len(tail') = 0
    BY <2>1
  <2>. QED BY <2>1, <2>2 DEF WritesInTurn, Queued
<1>. QED
  BY <1>1, <1>2, <1>3, <1>4, <1>5, <1>6, <1>7, <1>8, <1>9, <1>10 DEF Next, Proceed

\* The runs are recorded one at a time and each in its turn, whatever fails: the
\* tail holds the dispatches that have one to record, each once, and only the
\* first has read the state: enqueueStateWrite.
THEOREM WritesInTurnHolds == Spec => []WritesInTurn
<1>1. Init => WritesInTurn
  <2>. SUFFICES ASSUME Init PROVE WritesInTurn  OBVIOUS
  <2>1. tail = <<>> /\ Len(tail) = 0  BY DEF Init
  <2>. QED BY <2>1 DEF Init, WritesInTurn
<1>. QED BY Invariance, <1>1, TailStep, PTL DEF Spec
-----------------------------------------------------------------------------
(* Delegation, for any experts and workers, roles, capabilities and paths. *)
(* What makes an accepted tree whole is told by no guard of the step that  *)
(* accepts it: it needs that a name is only used again for the same task   *)
(* (asked), that a worker's task was cut from its expert's as that was     *)
(* asked for (OfItsExpert), and that what was accepted stays registered.   *)
Members == Leads \cup Helpers
ExpertTasks ==
  [name : Leads, parent : {G!NoTask}, role : Roles, caps : SUBSET UNION Requests,
   write : Scopes, version : Versions, at : {"running", "ended"}]
WorkerTasks ==
  [name : Helpers, parent : ExpertTasks, role : {"worker"}, caps : SUBSET UNION Requests,
   write : Scopes, version : Versions, at : {"running", "ended"}]
Durable ==
  [status : G!Statuses, parent : Leads \cup {"none"}, changed : Scopes, children : SUBSET Helpers,
   version : Versions, ack : {"pending", "accepted", "needs-rework"}]

DelegationTypeOK ==
  /\ version \in Versions /\ used \in [Leads -> Nat]
  /\ proposed \subseteq ExpertTasks \cup WorkerTasks
  /\ asked \in [Leads -> ExpertTasks \cup {G!NoTask}]
  /\ started \in [Members -> ExpertTasks \cup WorkerTasks \cup {G!NoTask}]
  /\ \A n \in Members : started[n] # G!NoTask => started[n].name = n
  /\ results \in [Members -> Durable \cup {G!NoHandoff}]

\* The task of an expert is the one asked for under its name.
AsAsked(t) ==
  LET a == asked[t.name] IN
  /\ a # G!NoTask /\ a.name = t.name
  /\ t.role = a.role /\ t.caps = a.caps /\ t.write = a.write /\ t.version = a.version

\* The task of a worker is within what was asked of its expert.
OfItsExpert(t) ==
  LET a == asked[t.parent.name] IN
  /\ a # G!NoTask /\ t.version = a.version
  /\ t.caps \subseteq a.caps \ G!Forbidden /\ t.write \subseteq a.write
  /\ a.role = "tester" => t.write \subseteq {"test"}

Granted(t) == IF t.name \in Leads THEN AsAsked(t) ELSE OfItsExpert(t)

\* An accepted handoff tells what its task, still registered, was.
TellsItsTask(n) ==
  /\ started[n] # G!NoTask /\ started[n].at = "ended"
  /\ results[n].version = started[n].version /\ results[n].changed \subseteq started[n].write
  /\ results[n].parent = started[n].parent.name

TreeInv ==
  /\ \A t \in proposed : t.at = "running" /\ Granted(t)
  /\ \A n \in Members : started[n] # G!NoTask => Granted(started[n])
  /\ \A n \in Members : G!Accepted(n) => TellsItsTask(n)
  /\ \A e \in Leads : G!Accepted(e) =>
       \A w \in results[e].children : w \in Helpers /\ G!Accepted(w) /\ results[w].parent = e

DelegationInv == part = "delegation" => DelegationTypeOK /\ TreeInv

\* Tasks and handoffs are not what stands for none.
LEMMA TasksAreTasks ==
  ASSUME NEW t \in ExpertTasks \cup WorkerTasks
  PROVE  /\ t # G!NoTask /\ t.name \in Members
         /\ t.name \in Leads => t \in ExpertTasks
         /\ t.name \in Helpers => t \in WorkerTasks
<1>1. DOMAIN t # DOMAIN G!NoTask  BY DEF ExpertTasks, WorkerTasks, G!NoTask
<1>2. t.name \in Members  BY DEF ExpertTasks, WorkerTasks, Members
<1>3. t.name \in Leads => t \in ExpertTasks
  BY LeadsAreNotHelpers DEF ExpertTasks, WorkerTasks
<1>4. t.name \in Helpers => t \in WorkerTasks
  BY LeadsAreNotHelpers DEF ExpertTasks, WorkerTasks
<1>. QED BY <1>1, <1>2, <1>3, <1>4

LEMMA HandoffsAreHandoffs == ASSUME NEW h \in Durable PROVE h # G!NoHandoff
<1>1. DOMAIN h # DOMAIN G!NoHandoff  BY DEF Durable, G!NoHandoff
<1>. QED BY <1>1

\* A task once granted stays so while what was asked for stays asked for.
LEMMA GrantsLast ==
  ASSUME NEW t \in ExpertTasks \cup WorkerTasks, DelegationTypeOK, Granted(t),
         \A e \in Leads : asked[e] # G!NoTask => asked'[e] = asked[e]
  PROVE  Granted(t)'
<1>1. CASE t.name \in Leads
  <2>1. asked'[t.name] = asked[t.name]  BY <1>1 DEF Granted, AsAsked
  <2>. QED BY <1>1, <2>1 DEF Granted, AsAsked
<1>2. CASE t.name \notin Leads
  <2>1. t \in WorkerTasks  BY <1>2 DEF ExpertTasks
  <2>2. t.parent.name \in Leads  BY <2>1 DEF WorkerTasks, ExpertTasks
  <2>3. asked'[t.parent.name] = asked[t.parent.name]  BY <1>2, <2>2 DEF Granted, OfItsExpert
  <2>. QED BY <1>2, <2>3 DEF Granted, OfItsExpert
<1>. QED BY <1>1, <1>2

LEMMA DispatchKeepsTree ==
  ASSUME DelegationTypeOK, TreeInv, NEW e \in Leads, G!Dispatch(e)
  PROVE  DelegationTypeOK' /\ TreeInv'
<1>0. PICK role \in Roles, requested \in Requests, write \in Scopes :
        LET task == [name |-> e, parent |-> G!NoTask, role |-> role,
                     caps |-> requested \cap G!MaxCapabilities(role),
                     write |-> write, version |-> version, at |-> "running"]
        IN /\ asked[e] \in {G!NoTask, task} /\ asked' = [asked EXCEPT ![e] = task]
           /\ proposed' = proposed \cup {task}
  BY DEF G!Dispatch
<1>1. PICK task :
        /\ task = [name |-> e, parent |-> G!NoTask, role |-> role,
                   caps |-> requested \cap G!MaxCapabilities(role),
                   write |-> write, version |-> version, at |-> "running"]
        /\ asked[e] \in {G!NoTask, task} /\ asked' = [asked EXCEPT ![e] = task]
        /\ proposed' = proposed \cup {task}
  BY <1>0
<1>2. requested \cap G!MaxCapabilities(role) \in SUBSET UNION Requests  BY <1>1
<1>3. task \in ExpertTasks /\ task.name = e
  BY <1>1, <1>2 DEF ExpertTasks, DelegationTypeOK
<1>4. UNCHANGED <<phase, version, started, used, results, changes>>  BY DEF G!Dispatch
<1>5. DelegationTypeOK'
  BY <1>1, <1>3, <1>4 DEF DelegationTypeOK
<1>6. asked'[e] = task /\ \A x \in Leads : asked[x] # G!NoTask => asked'[x] = asked[x]
  BY <1>1 DEF DelegationTypeOK
<1>7. Granted(task)'
  <2>1. task # G!NoTask  BY <1>3, TasksAreTasks
  <2>. QED BY <1>3, <1>6, <2>1 DEF Granted, AsAsked
<1>8. \A t \in proposed' : t.at = "running" /\ Granted(t)'
  <2>1. ASSUME NEW t \in proposed PROVE t.at = "running" /\ Granted(t)'
    BY <2>1, <1>6, GrantsLast DEF TreeInv, DelegationTypeOK
  <2>2. task.at = "running"  BY <1>1
  <2>. QED BY <1>1, <1>7, <2>1, <2>2
<1>9. ASSUME NEW n \in Members, started[n] # G!NoTask PROVE Granted(started[n])'
  <2>1. started[n] \in ExpertTasks \cup WorkerTasks /\ Granted(started[n])
    BY <1>9 DEF TreeInv, DelegationTypeOK
  <2>2. PICK t : t = started[n]  OBVIOUS
  <2>3. Granted(t)'  BY <1>6, <2>1, <2>2, GrantsLast
  <2>4. started'[n] = t  BY <1>4, <2>2
  <2>. QED BY <2>3, <2>4 DEF Granted, AsAsked, OfItsExpert
<1>. QED BY <1>4, <1>5, <1>8, <1>9 DEF TreeInv, G!Accepted, TellsItsTask

LEMMA DelegateKeepsTree ==
  ASSUME DelegationTypeOK, TreeInv, NEW e \in Leads, NEW w \in Helpers, G!Delegate(e, w)
  PROVE  DelegationTypeOK' /\ TreeInv'
<1>0. PICK requested \in Requests, write \in Scopes :
        LET caps == G!Intersected(started[e], requested)
        IN /\ G!Within(started[e], write)
           /\ proposed' = proposed \cup {[name |-> w, parent |-> started[e], role |-> "worker",
                                          caps |-> caps, write |-> write,
                                          version |-> started[e].version, at |-> "running"]}
  BY DEF G!Delegate
<1>1. PICK caps : caps = G!Intersected(started[e], requested)  OBVIOUS
<1>2. PICK task :
        /\ task = [name |-> w, parent |-> started[e], role |-> "worker", caps |-> caps,
                   write |-> write, version |-> started[e].version, at |-> "running"]
        /\ proposed' = proposed \cup {task}
  BY <1>0, <1>1
<1>3. /\ started[e] \in ExpertTasks /\ started[e].name = e
      /\ started[e] # G!NoTask /\ Granted(started[e])
  <2>1. started[e] # G!NoTask /\ e \in Members  BY DEF G!Delegate, G!Running, Members
  <2>. QED BY <2>1, TasksAreTasks DEF DelegationTypeOK, TreeInv
<1>4. /\ caps \in SUBSET UNION Requests /\ caps \subseteq started[e].caps \ G!Forbidden
      /\ write \subseteq started[e].write
      /\ started[e].role = "tester" => write \subseteq {"test"}
  BY <1>0, <1>1 DEF G!Intersected, G!Within, G!Patterns
<1>5. task \in WorkerTasks /\ task.name = w /\ task.parent = started[e] /\ task.at = "running"
  <2>1. started[e].version \in Versions  BY <1>3 DEF ExpertTasks
  <2>. QED BY <1>2, <1>3, <1>4, <2>1 DEF WorkerTasks
<1>6. Granted(task)
  <2>1. task.name \notin Leads  BY <1>5, LeadsAreNotHelpers
  <2>2. AsAsked(started[e])  BY <1>3 DEF Granted
  <2>3. task.caps = caps /\ task.write = write /\ task.version = started[e].version  BY <1>2
  <2>. QED BY <1>3, <1>4, <1>5, <2>1, <2>2, <2>3 DEF Granted, AsAsked, OfItsExpert
<1>7. UNCHANGED <<phase, version, asked, started, used, results, changes>>  BY DEF G!Delegate
<1>8. DelegationTypeOK'
  BY <1>2, <1>5, <1>7 DEF DelegationTypeOK
<1>9. TreeInv'
  BY <1>2, <1>5, <1>6, <1>7
     DEF TreeInv, Granted, AsAsked, OfItsExpert, G!Accepted, TellsItsTask
<1>. QED BY <1>8, <1>9

LEMMA DropKeepsTree ==
  ASSUME DelegationTypeOK, TreeInv, NEW task \in proposed, G!Drop(task)
  PROVE  DelegationTypeOK' /\ TreeInv'
BY DEF G!Drop, DelegationTypeOK, TreeInv, Granted, AsAsked, OfItsExpert, G!Accepted, TellsItsTask

LEMMA StartKeepsTree ==
  ASSUME DelegationTypeOK, TreeInv, NEW task \in proposed, G!StartTask(task)
  PROVE  DelegationTypeOK' /\ TreeInv'
<1>1. PICK n : n = task.name  OBVIOUS
<1>2. /\ task \in ExpertTasks \cup WorkerTasks /\ n \in Members
      /\ n \in Helpers => task.parent.name \in Leads
  <2>1. task \in ExpertTasks \cup WorkerTasks  BY DEF DelegationTypeOK
  <2>2. n \in Helpers => task \in WorkerTasks  BY <1>1, <2>1, TasksAreTasks
  <2>. QED BY <1>1, <2>1, <2>2, TasksAreTasks DEF WorkerTasks, ExpertTasks
<1>3. /\ started[n] = G!NoTask /\ results[n] = G!NoHandoff
      /\ started' = [started EXCEPT ![n] = task] /\ proposed' = proposed \ {task}
      /\ UNCHANGED <<phase, version, asked, results, changes>>
  BY <1>1 DEF G!StartTask
<1>4. used' \in [Leads -> Nat]
  BY <1>1, <1>2 DEF G!StartTask, DelegationTypeOK
<1>5. \A m \in Members : started'[m] = IF m = n THEN task ELSE started[m]
  BY <1>3 DEF DelegationTypeOK
<1>6. DelegationTypeOK'
  <2>1. started' \in [Members -> ExpertTasks \cup WorkerTasks \cup {G!NoTask}]
    BY <1>2, <1>3 DEF DelegationTypeOK
  <2>2. \A m \in Members : started'[m] # G!NoTask => started'[m].name = m
    BY <1>1, <1>5 DEF DelegationTypeOK
  <2>. QED BY <1>3, <1>4, <2>1, <2>2 DEF DelegationTypeOK
<1>7. \A t \in proposed' : t.at = "running" /\ Granted(t)'
  BY <1>3 DEF TreeInv, Granted, AsAsked, OfItsExpert
<1>8. ASSUME NEW m \in Members, started'[m] # G!NoTask PROVE Granted(started[m])'
  <2>1. PICK t : t = started'[m]  OBVIOUS
  <2>2. Granted(t)  BY <1>5, <1>8, <2>1 DEF TreeInv
  <2>. QED BY <1>3, <2>1, <2>2 DEF Granted, AsAsked, OfItsExpert
<1>9. ASSUME NEW m \in Members, G!Accepted(m)' PROVE TellsItsTask(m)'
  <2>1. G!Accepted(m) /\ m # n  BY <1>3, <1>9 DEF G!Accepted
  <2>2. TellsItsTask(m)  BY <2>1 DEF TreeInv
  <2>. QED BY <1>3, <1>5, <2>1, <2>2 DEF TellsItsTask
<1>10. \A e \in Leads : G!Accepted(e)' =>
         \A w \in results'[e].children : w \in Helpers /\ G!Accepted(w)' /\ results'[w].parent = e
  BY <1>3 DEF TreeInv, G!Accepted
<1>. QED BY <1>6, <1>7, <1>8, <1>9, <1>10 DEF TreeInv

LEMMA AcceptKeepsTree ==
  ASSUME DelegationTypeOK, TreeInv, NEW n \in Members, G!Accept(n)
  PROVE  DelegationTypeOK' /\ TreeInv'
<1>1. PICK status \in G!Statuses, changed \in Scopes, children \in SUBSET Helpers,
           stored \in BOOLEAN :
        /\ G!Declares(n, changed) /\ G!Acknowledged(n, children)
        /\ results' = [results EXCEPT ![n] = G!Handoff(n, status, changed, children, stored)]
        /\ started' = IF stored THEN [started EXCEPT ![n].at = "ended"]
                      ELSE [started EXCEPT ![n] = G!NoTask]
  BY DEF G!Accept
<1>2. PICK h : h = G!Handoff(n, status, changed, children, stored)  OBVIOUS
<1>3. /\ started[n] # G!NoTask /\ started[n].version = version /\ results[n] = G!NoHandoff
      /\ started[n] \in ExpertTasks \cup WorkerTasks /\ Granted(started[n])
  <2>1. started[n] # G!NoTask  BY DEF G!Accept, G!Running
  <2>. QED BY <2>1 DEF G!Accept, G!Fresh, G!Unwritten, DelegationTypeOK, TreeInv
<1>4. started[n].parent.name \in Leads \cup {"none"}
  BY <1>3 DEF ExpertTasks, WorkerTasks, G!NoTask
<1>5. /\ h.version = version /\ h.changed = changed /\ h.children = children
      /\ h.parent = started[n].parent.name
      /\ (h.ack = "accepted" => stored)
      /\ h \in Durable
  BY <1>1, <1>2, <1>4 DEF G!Handoff, G!Verdict, G!Statuses, Durable, DelegationTypeOK
<1>6. UNCHANGED <<phase, version, proposed, asked, used, changes>>  BY DEF G!Accept
<1>7. PICK ended : ended = [started[n] EXCEPT !.at = "ended"]  OBVIOUS
<1>8. /\ ended \in ExpertTasks \cup WorkerTasks /\ ended.at = "ended"
      /\ ended.name = started[n].name /\ ended.parent = started[n].parent
      /\ ended.role = started[n].role /\ ended.caps = started[n].caps
      /\ ended.write = started[n].write /\ ended.version = started[n].version
  BY <1>3, <1>7 DEF ExpertTasks, WorkerTasks
<1>9. started' = [started EXCEPT ![n] = IF stored THEN ended ELSE G!NoTask]
  BY <1>1, <1>7
<1>10. \A m \in Members : /\ started'[m] = IF m = n THEN IF stored THEN ended ELSE G!NoTask
                                           ELSE started[m]
                          /\ results'[m] = IF m = n THEN h ELSE results[m]
  BY <1>1, <1>2, <1>9 DEF DelegationTypeOK
<1>11. DelegationTypeOK'
  <2>1. started' \in [Members -> ExpertTasks \cup WorkerTasks \cup {G!NoTask}]
    BY <1>8, <1>9 DEF DelegationTypeOK
  <2>2. results' \in [Members -> Durable \cup {G!NoHandoff}]
    BY <1>1, <1>2, <1>5 DEF DelegationTypeOK
  <2>3. \A m \in Members : started'[m] # G!NoTask => started'[m].name = m
    BY <1>3, <1>8, <1>10 DEF DelegationTypeOK
  <2>. QED BY <1>6, <2>1, <2>2, <2>3 DEF DelegationTypeOK
<1>12. \A t \in proposed' : t.at = "running" /\ Granted(t)'
  BY <1>6 DEF TreeInv, Granted, AsAsked, OfItsExpert
<1>13. ASSUME NEW m \in Members, started'[m] # G!NoTask PROVE Granted(started[m])'
  <2>1. PICK t : t = started'[m]  OBVIOUS
  <2>2. Granted(t)
    <3>1. CASE m = n
      BY <1>3, <1>8, <1>10, <1>13, <2>1, <3>1 DEF Granted, AsAsked, OfItsExpert
    <3>2. CASE m # n
      BY <1>10, <1>13, <2>1, <3>2 DEF TreeInv
    <3>. QED BY <3>1, <3>2
  <2>. QED BY <1>6, <2>1, <2>2 DEF Granted, AsAsked, OfItsExpert
<1>14. ASSUME NEW m \in Members, G!Accepted(m)' PROVE TellsItsTask(m)'
  <2>1. CASE m = n
    <3>1. results'[n] = h  BY <1>10, <2>1
    <3>2. h.ack = "accepted"  BY <1>14, <2>1, <3>1 DEF G!Accepted
    <3>3. stored  BY <1>5, <3>2
    <3>4. started'[n] = ended  BY <1>10, <2>1, <3>3
    <3>5. h.changed \subseteq ended.write  BY <1>1, <1>5, <1>8 DEF G!Declares
    <3>6. ended # G!NoTask  BY <1>8, TasksAreTasks
    <3>7. h.version = ended.version /\ h.parent = ended.parent.name
      BY <1>3, <1>5, <1>8
    <3>. QED BY <1>8, <2>1, <3>1, <3>4, <3>5, <3>6, <3>7 DEF TellsItsTask
  <2>2. CASE m # n
    <3>1. G!Accepted(m)  BY <1>10, <1>14, <2>2 DEF G!Accepted
    <3>2. TellsItsTask(m)  BY <3>1 DEF TreeInv
    <3>. QED BY <1>10, <2>2, <3>2 DEF TellsItsTask
  <2>. QED BY <2>1, <2>2
<1>15. ASSUME NEW e \in Leads, G!Accepted(e)', NEW w \in results'[e].children
       PROVE  w \in Helpers /\ G!Accepted(w)' /\ results'[w].parent = e
  <2>1. /\ w \in Helpers /\ w # n /\ results[w] # G!NoHandoff
        /\ results[w].ack = "accepted" /\ results[w].parent = e
    <3>1. CASE e = n
      <4>1. w \in children  BY <1>5, <1>10, <1>15, <3>1 DEF Members
      <4>. QED BY <1>1, <1>3, <3>1, <4>1 DEF G!Acknowledged
    <3>2. CASE e # n
      <4>1. G!Accepted(e) /\ w \in results[e].children
        BY <1>10, <1>15, <3>2 DEF G!Accepted, Members
      <4>. QED BY <1>3, <4>1 DEF TreeInv, G!Accepted
    <3>. QED BY <3>1, <3>2
  <2>. QED BY <1>10, <2>1 DEF G!Accepted, Members
<1>. QED BY <1>11, <1>12, <1>13, <1>14, <1>15 DEF TreeInv

LEMMA FailKeepsTree ==
  ASSUME DelegationTypeOK, TreeInv, NEW n \in Members, G!Fail(n)
  PROVE  DelegationTypeOK' /\ TreeInv'
<1>1. /\ started' = [started EXCEPT ![n] = G!NoTask] /\ started[n].at = "running"
      /\ UNCHANGED <<phase, version, proposed, asked, used, results, changes>>
  BY DEF G!Fail, G!Running
<1>2. \A m \in Members : started'[m] = IF m = n THEN G!NoTask ELSE started[m]
  BY <1>1 DEF DelegationTypeOK
<1>3. DelegationTypeOK'
  BY <1>1, <1>2 DEF DelegationTypeOK
<1>4. ASSUME NEW m \in Members, G!Accepted(m)' PROVE TellsItsTask(m)'
  <2>1. TellsItsTask(m)  BY <1>1, <1>4 DEF TreeInv, G!Accepted
  <2>2. m # n  BY <1>1, <2>1 DEF TellsItsTask
  <2>. QED BY <1>1, <1>2, <2>1, <2>2 DEF TellsItsTask
<1>5. ASSUME NEW m \in Members, started'[m] # G!NoTask PROVE Granted(started[m])'
  BY <1>1, <1>2, <1>5 DEF TreeInv, Granted, AsAsked, OfItsExpert
<1>6. (\A t \in proposed : t.at = "running" /\ Granted(t))'
  BY <1>1 DEF TreeInv, Granted, AsAsked, OfItsExpert
<1>7. (\A m \in Members : started[m] # G!NoTask => Granted(started[m]))'
  <2>. SUFFICES ASSUME NEW m \in Members, started'[m] # G!NoTask PROVE Granted(started[m])'
    OBVIOUS
  <2>. QED BY <1>5
<1>8. \A e \in Leads : G!Accepted(e)' =>
        \A w \in results'[e].children : w \in Helpers /\ G!Accepted(w)' /\ results'[w].parent = e
  BY <1>1 DEF TreeInv, G!Accepted
<1>. QED BY <1>3, <1>4, <1>6, <1>7, <1>8 DEF TreeInv

LEMMA DelegationStep ==
  ASSUME DelegationTypeOK, TreeInv, G!Next
  PROVE  DelegationTypeOK' /\ TreeInv'
<1>1. CASE G!Change
  BY <1>1 DEF G!Change, DelegationTypeOK, TreeInv, Granted, AsAsked, OfItsExpert, G!Accepted,
              TellsItsTask
<1>2. CASE \E e \in Leads : G!Dispatch(e) \/ \E w \in Helpers : G!Delegate(e, w)
  BY <1>2, DispatchKeepsTree, DelegateKeepsTree
<1>3. CASE \E task \in proposed : G!Drop(task) \/ G!StartTask(task)
  BY <1>3, DropKeepsTree, StartKeepsTree
<1>4. CASE \E n \in G!Names : G!Accept(n) \/ G!Fail(n)
  BY <1>4, AcceptKeepsTree, FailKeepsTree DEF G!Names, Members
<1>. QED BY <1>1, <1>2, <1>3, <1>4 DEF G!Next

\* An accepted tree is of one piece.
LEMMA TreeIsWhole ==
  ASSUME DelegationTypeOK, TreeInv
  PROVE  G!AcceptedTreeIsWhole
<1>. SUFFICES ASSUME NEW e \in Leads, G!Accepted(e), NEW w \in results[e].children
              PROVE  /\ G!Accepted(w) /\ results[w].parent = e
                     /\ results[w].version = results[e].version
                     /\ results[w].changed \subseteq started[e].write
                     /\ started[w].caps \subseteq started[e].caps \ G!Forbidden
                     /\ started[e].role = "tester" => results[w].changed \subseteq {"test"}
  BY DEF G!AcceptedTreeIsWhole
<1>1. w \in Helpers /\ G!Accepted(w) /\ results[w].parent = e  BY DEF TreeInv
<1>2. TellsItsTask(e) /\ TellsItsTask(w)  BY <1>1 DEF TreeInv, Members
<1>3. AsAsked(started[e]) /\ started[e].name = e
  BY <1>2 DEF TellsItsTask, TreeInv, Granted, DelegationTypeOK, Members
<1>4. OfItsExpert(started[w]) /\ started[w].parent.name = e
  <2>1. started[w].name = w  BY <1>1, <1>2 DEF TellsItsTask, DelegationTypeOK, Members
  <2>2. started[w].name \notin Leads  BY <1>1, <2>1, LeadsAreNotHelpers
  <2>. QED BY <1>1, <1>2, <2>2 DEF TellsItsTask, TreeInv, Granted, Members
<1>. QED BY <1>1, <1>2, <1>3, <1>4 DEF TellsItsTask, AsAsked, OfItsExpert

\* What is accepted of an expert is of one piece, whatever tasks are proposed,
\* started, failed and asked for again while phases and documents change.
THEOREM AcceptedTreeIsWholeHolds == TeamSpec => []AcceptedTreeIsWhole
<1>1. TeamInit => DelegationInv
  <2>. SUFFICES ASSUME G!Init PROVE DelegationTypeOK /\ TreeInv
    BY DEF TeamInit, DelegationInv
  <2>1. DelegationTypeOK
    BY DEF G!Init, G!Names, Members, DelegationTypeOK
  <2>. QED BY <2>1 DEF G!Init, G!Names, Members, TreeInv, G!Accepted
<1>2. DelegationInv /\ [TeamNext]_<<part, vars, delegation>> => DelegationInv'
  <2>. SUFFICES ASSUME DelegationInv, [TeamNext]_<<part, vars, delegation>>, part = "delegation"
                PROVE  DelegationTypeOK' /\ TreeInv'
    BY DEF TeamNext, DelegationInv
  <2>1. DelegationTypeOK /\ TreeInv  BY DEF DelegationInv
  <2>2. CASE G!Next
    BY <2>1, <2>2, DelegationStep
  <2>3. CASE UNCHANGED delegation
    BY <2>1, <2>3 DEF delegation, DelegationTypeOK, TreeInv, Granted, AsAsked, OfItsExpert,
                      G!Accepted, TellsItsTask
  <2>. QED BY <2>2, <2>3 DEF TeamNext
<1>3. DelegationInv => AcceptedTreeIsWhole
  BY TreeIsWhole DEF DelegationInv, AcceptedTreeIsWhole
<1>. QED BY <1>1, <1>2, <1>3, PTL DEF TeamSpec
=============================================================================

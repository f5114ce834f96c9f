--------------------------- MODULE TaskScheduler ---------------------------
(***************************************************************************)
(* The bounded scheduler of one process (task-scheduler.ts, task-queue.ts) *)
(* between the coordinator that submits tasks and the runtime that runs    *)
(* their agents.  Experts (depth 1) own a budget record; workers (depth 2) *)
(* reserve part of their parent's.  The code between two awaits is one     *)
(* step: every handler ends with the drain that starts whatever can start. *)
(* A task's agent is modelled as the runtime treats it                     *)
(* (harness-agent-runtime.ts): a creation that was aborted never starts    *)
(* its agent, and cancelling waits until the agent is idle.                *)
(***************************************************************************)
EXTENDS BudgetLedger, Sequences, SequencesExt

CONSTANTS Experts, Workers,
          Parent,         \* worker -> the expert it works for
          Writes,         \* task -> the paths it writes; none for a reader
          Authorized,     \* tasks the coordinator submits with an overlap token
          Ceiling,        \* task -> its budget
          Usages,         \* usages an agent's result may report
          Priorities,     \* of the calls of submit
          MaxExperts, MaxWriters

Family == Experts \cup Workers

ASSUME FamiliesAreDisjoint == Experts \cap Workers = {} /\ Parent \in [Workers -> Experts]
ASSUME BudgetsAreAmounts == Ceiling \in [Family -> Amounts] /\ Usages \subseteq Amounts
ASSUME WallIsMetered == "wallMs" \in Dims
ASSUME FamilyIsFinite == IsFiniteSet(Family)
ASSUME LimitsAreNumbers == MaxExperts \in Nat /\ MaxWriters \in Nat
ASSUME PrioritiesOfSubmit == Priorities \subseteq {"blocking", "normal"}

VARIABLES sched,      \* the scheduler's own state, a record: see SchedType
          agent,      \* task -> the state of the agent created for it
          cancelled,  \* tasks a cancel was requested for while they ran
          disposed

slots == <<sched, agent, cancelled, disposed>>

Lanes == {"expert", "writer", "read"}
NoRecord == [blocked |-> "no record"]

\* queue: one FIFO per lane and priority.  phase: idle before its submission,
\* done after its run, leaked when releasing its slot failed.  out: what the
\* caller of submit got.
SchedType ==
  [queue : [Lanes -> [{"blocking", "normal"} -> Seq(Family)]],
   phase : [Family -> {"idle", "queued", "spawning", "running", "stopping", "done", "leaked"}],
   out : [Family -> {"none", "value", "undefined", "rejected"}],
   experts : Int, writers : Int,
   ledger : [Experts -> [budget : Amounts, consumed : Amounts, blocked : BOOLEAN,
                         reserved : UNION {[ws -> {Ceiling[w] : w \in Workers}] : ws \in SUBSET Workers}]
                        \cup {NoRecord}]]

Writer(t) == Writes[t] # {}
Lane(t) == IF t \in Experts THEN "expert" ELSE IF Writer(t) THEN "writer" ELSE "read"

\* The entries of the active map: they hold a slot.
Active(s) == {t \in Family : s.phase[t] \in {"spawning", "running", "stopping", "leaked"}}

\* pathsOverlap: one path contains the other.
Overlapping(t, u) == \E p \in Writes[t], q \in Writes[u] : IsPrefix(p, q) \/ IsPrefix(q, p)

----------------------------------------------------------------------------
\* Starting whatever can start.

\* The head of a lane: a blocking entry hides the normal ones behind it.
PeekPriority(s, lane) == IF s.queue[lane]["blocking"] # <<>> THEN "blocking" ELSE "normal"
Waiting(s, lane) == s.queue[lane][PeekPriority(s, lane)] # <<>>
LaneHead(s, lane) == Head(s.queue[lane][PeekPriority(s, lane)])

\* A bug: any authorized worker may write inside any expert's scope.
MayOverlapAny(t, owner) == t \in Workers /\ owner \in Experts /\ t \in Authorized

\* A worker may write inside its own parent's scope, with the parent's token.
MayOverlap(t, owner) ==
  t \in Workers /\ owner = Parent[t] /\ {t, owner} \subseteq Authorized

CanStart(s, t) ==
  /\ t \in Experts => s.experts < MaxExperts
  /\ Writer(t) => s.writers < MaxWriters
  /\ \A owner \in Active(s) : Overlapping(t, owner) => MayOverlap(t, owner)

Startable(s) == {lane \in Lanes : Waiting(s, lane) /\ CanStart(s, LaneHead(s, lane))}

\* takeNext: blocking heads first, and experts before writers before readers.
Order == <<"expert", "writer", "read">>
Before(s, l, m) ==
  \/ PeekPriority(s, l) = "blocking" /\ PeekPriority(s, m) = "normal"
  \/ PeekPriority(s, l) = PeekPriority(s, m) /\ \E i, j \in 1..3 : i <= j /\ Order[i] = l /\ Order[j] = m
NextLane(s) == CHOOSE l \in Startable(s) : \A m \in Startable(s) : Before(s, l, m)

Dequeued(s, lane) == [s EXCEPT !.queue[lane][PeekPriority(s, lane)] = Tail(@)]

Occupy(s, t) ==
  [s EXCEPT !.phase[t] = "spawning",
            !.experts = IF t \in Experts THEN @ + 1 ELSE @,
            !.writers = IF Writer(t) THEN @ + 1 ELSE @]

Refused(s, t) == [s EXCEPT !.phase[t] = "done", !.out[t] = "rejected"]

\* start: an expert registers its ceiling, a worker reserves of its parent's;
\* a worker that does not fit blocks the parent and is rejected.
Start(s, t) ==
  IF t \in Experts
  THEN Occupy([s EXCEPT !.ledger[t] = NewRecord(Ceiling[t])], t)
  ELSE IF Fits(s.ledger[Parent[t]], Ceiling[t])
       THEN Occupy([s EXCEPT !.ledger[Parent[t]] = Reserved(@, t, Ceiling[t])], t)
       ELSE Refused([s EXCEPT !.ledger[Parent[t]] = Blocked(@)], t)

\* What one turn of the drain can lead to: the task taken is rejected as well
\* when another process has the ledger.
StartOne(s) ==
  IF Startable(s) = {} THEN {s}
  ELSE LET lane == NextLane(s)
           next == Dequeued(s, lane)
       IN  {Start(next, LaneHead(s, lane)), Refused(next, LaneHead(s, lane))}

\* drain: each turn takes one entry, so Cardinality(Family) turns are enough.
Turns(s) ==
  LET turn[n \in 0..Cardinality(Family)] ==
        IF n = 0 THEN {s} ELSE UNION {StartOne(y) : y \in turn[n - 1]}
  IN  turn
Drains(s) == Turns(s)[Cardinality(Family)]

Drained(s) == IF disposed THEN {s} ELSE Drains(s)

\* The agents of the tasks that a step started are being created.
WithCreated(a) == [t \in Family |->
  IF sched'.phase[t] = "spawning" /\ a[t] = "none" THEN "creating" ELSE a[t]]

----------------------------------------------------------------------------
\* The end of a run: accounting, settling, releasing.

Settled(s, t, o) == [s EXCEPT !.out[t] = IF @ = "none" THEN o ELSE @]

\* consume for a worker; record, without the children, for an expert.
Charged(s, t, usage) ==
  IF t \in Workers
  THEN [s EXCEPT !.ledger[Parent[t]] = Consumed(@, t, usage)]
  ELSE [s EXCEPT !.ledger[t] = Recorded(@, [usage EXCEPT !["children"] = 0])]

\* A wall-clock timeout is charged in full and blocks an expert, and the
\* parent that it leaves without time.
TimedOut(s, t) ==
  LET wall == [Zero EXCEPT !["wallMs"] = Ceiling[t]["wallMs"]]
      charged == Charged(s, t, wall)
      owner == IF t \in Workers THEN Parent[t] ELSE t
  IN  IF t \in Experts \/ Remaining(charged.ledger[owner])["wallMs"] = 0
      THEN [charged EXCEPT !.ledger[owner] = Blocked(@)]
      ELSE charged

\* A bug: the worker's hold outlives a run that was not charged.
VacatedHolding(s, t) ==
  [s EXCEPT !.phase[t] = "done",
            !.experts = IF t \in Experts THEN @ - 1 ELSE @,
            !.writers = IF Writer(t) THEN @ - 1 ELSE @]

\* release
Vacated(s, t) ==
  [s EXCEPT !.phase[t] = "done",
            !.experts = IF t \in Experts THEN @ - 1 ELSE @,
            !.writers = IF Writer(t) THEN @ - 1 ELSE @,
            !.ledger = IF t \in Workers
                       THEN [@ EXCEPT ![Parent[t]] = Unreserved(s.ledger[Parent[t]], t)] ELSE @]

\* A bug: what waited for the slot is not started.
FinishUndrained(t, s, o) ==
  /\ sched' = Vacated(Settled(s, t, o), t)
  /\ cancelled' = cancelled \ {t}

\* The finally of run.  While another process has the ledger, the release of a
\* worker's reservation throws before anything is freed, and skips the drain.
Finish(t, s, o) ==
  \/ /\ sched' \in Drained(Vacated(Settled(s, t, o), t))
     /\ cancelled' = cancelled \ {t}
  \/ /\ t \in Workers
     /\ sched' = [Settled(s, t, o) EXCEPT !.phase[t] = "leaked"]
     /\ UNCHANGED cancelled

Failure(t) == IF t \in cancelled THEN "undefined" ELSE "rejected"

----------------------------------------------------------------------------
SchedulerInit ==
  /\ sched = [queue |-> [l \in Lanes |-> [p \in {"blocking", "normal"} |-> <<>>]],
              phase |-> [t \in Family |-> "idle"], out |-> [t \in Family |-> "none"],
              experts |-> 0, writers |-> 0, ledger |-> [e \in Experts |-> NoRecord]]
  /\ agent = [t \in Family |-> "none"]
  /\ cancelled = {} /\ disposed = FALSE

\* A bug: the task waits for ever, or starts, after dispose.
SubmitAlways(t, priority) ==
  /\ sched.phase[t] = "idle"
  /\ t \in Workers => agent[Parent[t]] = "live"
  /\ sched' \in Drains([sched EXCEPT !.phase[t] = "queued",
                                     !.queue[Lane(t)][priority] = Append(@, t)])
  /\ agent' = WithCreated(agent)
  /\ UNCHANGED <<cancelled, disposed>>

\* submit: a worker is submitted by a tool call of its parent's agent, which
\* may still be on its way when that agent has been stopped.
Submit(t, priority) ==
  /\ sched.phase[t] = "idle"
  /\ t \in Workers => \/ agent[Parent[t]] = "live"
                      \/ agent[Parent[t]] = "gone"
  /\ IF disposed THEN sched' = Refused(sched, t)
     ELSE sched' \in Drains([sched EXCEPT !.phase[t] = "queued",
                                          !.queue[Lane(t)][priority] = Append(@, t)])
  /\ agent' = WithCreated(agent)
  /\ UNCHANGED <<cancelled, disposed>>

\* cancel of a queued task; what waited behind it may start.
CancelQueued(t) ==
  /\ sched.phase[t] = "queued"
  /\ sched' \in Drained([Settled(sched, t, "undefined") EXCEPT
                            !.phase[t] = "done",
                            !.queue[Lane(t)] = [p \in DOMAIN @ |-> RemoveFirst(@[p], t)]])
  /\ agent' = WithCreated(agent)
  /\ UNCHANGED <<cancelled, disposed>>

\* cancel of a running task; the rest of it is the run's.
CancelActive(t) ==
  /\ sched.phase[t] \in {"spawning", "running", "stopping"} /\ t \notin cancelled
  /\ cancelled' = cancelled \cup {t}
  /\ UNCHANGED <<sched, agent, disposed>>

SpawnReturns(t) ==
  /\ sched.phase[t] = "spawning"
  /\ sched' = [sched EXCEPT !.phase[t] = "running"]
  /\ agent' = [agent EXCEPT ![t] = "live"]
  /\ UNCHANGED <<cancelled, disposed>>

SpawnFails(t) ==
  /\ sched.phase[t] = "spawning"
  /\ Finish(t, sched, Failure(t))
  /\ agent' = WithCreated([agent EXCEPT ![t] = "aborted"])
  /\ UNCHANGED disposed

\* The runtime notices the abort of a creation that was given up.
AbandonSpawn(t) ==
  /\ agent[t] = "creating" /\ sched.phase[t] # "spawning"
  /\ agent' = [agent EXCEPT ![t] = "aborted"]
  /\ UNCHANGED <<sched, cancelled, disposed>>

\* The agent reports a result, once its own workers have answered it unless it
\* is being cancelled.  A worker's usage over its reservation is not charged,
\* an expert's over its ceiling is; both are failures.
Result(t, usage) ==
  /\ sched.phase[t] = "running"
  /\ t \in cancelled \/ \A w \in Workers :
       Parent[w] = t => sched.phase[w] \in {"idle", "done", "leaked"}
  /\ LET over == IF t \in Workers THEN ~UsageFits(Ceiling[t], usage)
                 ELSE ~AtMost([usage EXCEPT !["children"] = 0], Remaining(sched.ledger[t]))
     IN  IF t \in cancelled THEN Finish(t, sched, "undefined")
         ELSE IF over /\ t \in Workers THEN Finish(t, sched, "rejected")
         ELSE Finish(t, Charged(sched, t, usage), IF over THEN "rejected" ELSE "value")
  /\ agent' = WithCreated([agent EXCEPT ![t] = IF t \in cancelled THEN "gone" ELSE "answered"])
  /\ UNCHANGED disposed

\* The agent fails, or its result is invalid: it is disposed of.
AgentFails(t) ==
  /\ sched.phase[t] = "running"
  /\ Finish(t, sched, Failure(t))
  /\ agent' = WithCreated([agent EXCEPT ![t] = "gone"])
  /\ UNCHANGED disposed

\* The wall-clock timer, or the runtime's own deadline: the creation is given
\* up, or the agent is cancelled.
SpawnTimeout(t) ==
  /\ sched.phase[t] = "spawning"
  /\ Finish(t, TimedOut(sched, t), Failure(t))
  /\ agent' = WithCreated(agent)
  /\ UNCHANGED disposed

RunTimeout(t) ==
  /\ sched.phase[t] = "running"
  /\ sched' = [sched EXCEPT !.phase[t] = "stopping"]
  /\ UNCHANGED <<agent, cancelled, disposed>>

\* The agent is idle; only then is the timeout accounted for.
Stopped(t) ==
  /\ sched.phase[t] = "stopping"
  /\ Finish(t, TimedOut(sched, t), Failure(t))
  /\ agent' = WithCreated([agent EXCEPT ![t] = "gone"])
  /\ UNCHANGED disposed

\* dispose rejects what is queued; it then cancels the active tasks one after
\* the other, which are some of the steps CancelActive may take.
Dispose ==
  /\ ~disposed /\ disposed' = TRUE
  /\ sched' = [sched EXCEPT
       !.queue = [l \in Lanes |-> [p \in {"blocking", "normal"} |-> <<>>]],
       !.phase = [t \in Family |-> IF @[t] = "queued" THEN "done" ELSE @[t]],
       !.out = [t \in Family |-> IF sched.phase[t] = "queued" THEN "rejected" ELSE @[t]]]
  /\ UNCHANGED <<agent, cancelled>>

Timer(t) == SpawnTimeout(t) \/ RunTimeout(t)

Run(t) ==
  \/ CancelQueued(t)
  \/ CancelActive(t)
  \/ SpawnReturns(t)
  \/ SpawnFails(t)
  \/ AbandonSpawn(t)
  \/ AgentFails(t)
  \/ Timer(t)
  \/ Stopped(t)
  \/ \E p \in Priorities : Submit(t, p)
  \/ \E u \in Usages : Result(t, u)

SchedulerNext == Dispose \/ \E t \in Family : Run(t)

SchedulerSpec == SchedulerInit /\ [][SchedulerNext]_slots

\* A timer that is set fires and a cancelled agent becomes idle: weak fairness,
\* written with the conditions that enable these actions instead of ENABLED.
FairSpec == SchedulerSpec /\ \A t \in Family :
  /\ []<>(sched.phase[t] \notin {"spawning", "running"}) \/ []<><<Timer(t)>>_slots
  /\ []<>(sched.phase[t] # "stopping") \/ []<><<Stopped(t)>>_slots

----------------------------------------------------------------------------
SchedulerTypeOK ==
  /\ sched \in SchedType
  /\ agent \in [Family -> {"none", "creating", "live", "answered", "gone", "aborted"}]
  /\ cancelled \subseteq Family /\ disposed \in BOOLEAN

\* The counters count the active tasks, and neither passes its limit.
Caps ==
  LET active == Active(sched)
  IN  /\ sched.experts = Cardinality(active \cap Experts) /\ sched.experts <= MaxExperts
      /\ sched.writers = Cardinality({t \in active : Writer(t)}) /\ sched.writers <= MaxWriters

\* Two writers run at once in overlapping paths only if one of them is the
\* other's worker and the coordinator gave both the same token.
WritersApart ==
  \A t, u \in Active(sched) : t # u /\ Overlapping(t, u) =>
    /\ {t, u} \subseteq Authorized
    /\ \/ t \in Workers /\ u = Parent[t]
       \/ u \in Workers /\ t = Parent[u]

Leaked == {t \in Family : sched.phase[t] = "leaked"}

\* A reservation stands for a running worker and a settled call holds nothing:
\* no outcome of a run leaks a slot or a hold, but a failed release.
SettledHoldsNothing ==
  /\ \A t \in Active(sched) \ Leaked : sched.out[t] = "none"
  /\ \A w \in Workers \ Leaked : sched.ledger[Parent[w]] # NoRecord =>
       (w \in DOMAIN sched.ledger[Parent[w]].reserved <=> w \in Active(sched))

\* Work conserving: no handler leaves a task waiting that could start.
NoIdleSlot == ~disposed => Startable(sched) = {}

\* An agent runs only while its task holds a slot: timeouts, cancellation
\* and late creation do not leave one behind.
AgentsInSlots == \A t \in Family : agent[t] = "live" => t \in Active(sched)

\* A parent is charged one child for each worker that returned a value, and
\* none that the parent itself repeats in its own result.
ChildrenCountedOnce ==
  \A e \in Experts : sched.ledger[e] # NoRecord =>
    LET mine == {w \in Workers : Parent[w] = e}
        children == sched.ledger[e].consumed["children"]
    IN  /\ Cardinality({w \in mine : sched.out[w] = "value"}) <= children
        /\ children <= Cardinality({w \in mine : sched.phase[w] \in {"done", "leaked"}})

\* Every call of submit is answered although no agent need ever report, as when
\* experts fill the writer slots that their own workers wait for: the timers
\* free the slots.  Only a leaked slot can keep a call waiting for ever.
EveryCallAnswered ==
  \A t \in Family : sched.phase[t] = "queued" ~> sched.out[t] # "none" \/ Leaked # {}

\* What was waiting or comes late never starts after dispose.
DisposedStartsNothing == [][disposed => Active(sched') \subseteq Active(sched)]_sched

============================================================================

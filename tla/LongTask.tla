----------------------------- MODULE LongTask -----------------------------
(* The execution of long tasks: an agent of the harness                    *)
(* (harness-adapter/src/harness-agent-runtime.ts) works in a session       *)
(* (agent-team/src/long-task-execution-session.ts, which                   *)
(* bundle/src/long-task-session-binding.ts gives it) that keeps what was   *)
(* said and done in a checkpoint on disk (context-manager.ts).  Processes  *)
(* of one workspace exclude each other by a run lease, which the sessions  *)
(* of a process share.                                                     *)
(*                                                                         *)
(* A session s is <<host, task>>: the scheduler runs a task of a host once *)
(* at a time.  A message is [role, call]: the call a tool message answers  *)
(* or an assistant message makes, 0 for none; ids are positions.  The size *)
(* of a message is a small number; a long result of a tool has the size 2  *)
(* and 1 when it is archived.  Who writes a summary (the provider, a       *)
(* model, the host) does not change what happens with it.                  *)
EXTENDS Naturals, Sequences, SequencesExt, FiniteSets, FiniteSetsExt

CONSTANTS Hosts, Tasks, NoHost,
          Keys,          \* idempotency keys of side effects
          SafeLimit,     \* of the size of a projection
          RetainRecent,  \* messages that stay as they are
          TaskMax, WindowMax, CompactionMax,  \* token budgets of a session
          MaxLog,        \* bound: messages of a task
          MaxOpened,     \* bound: sessions opened
          MaxStops       \* bound: crashes of a process

VARIABLES lease,   \* the process that holds the run lease
          refs,    \* SharedLongTaskRunLease.state.refs of each process
          lost,    \* sessions whose last save failed: they keep the lease
          disk,    \* the checkpoint of each task
          mem,     \* the context manager of each session
          at,      \* where each session is
          op,      \* the side effect that runs in each session
          spent,   \* the budget window of each session
          mended,  \* the agent has been asked for a correction
          opened, stops
vars == <<lease, refs, lost, disk, mem, at, op, spent, mended, opened, stops>>

Sessions == Hosts \X Tasks
Host(s) == s[1]
Task(s) == s[2]

Message(role, call) == [role |-> role, call |-> call]
Checkpoint(log, compactions, done) == [log |-> log, compactions |-> compactions, done |-> done]
Empty == Checkpoint(<<>>, <<>>, {})
Unspent == [task |-> 0, window |-> 0, compaction |-> 0]

(***************************************************************************)
(* The context manager: what is sent to the model of a transcript.         *)
(***************************************************************************)

(* latestValidCompaction: the last whose source is a prefix of the log. *)
Valid(m) == {i \in DOMAIN m.compactions : IsPrefix(m.compactions[i], m.log)}
Covered(m) == IF Valid(m) = {} THEN 0
              ELSE Len(m.compactions[CHOOSE i \in Valid(m) : \A j \in Valid(m) : j <= i])

(* buildProjectedMessages: of what a compaction covers the system messages *)
(* stay, the rest is its summary.  What is sent is a set of positions.     *)
IsSystem(message) == message.role = "system"
Projected(m) == {i \in DOMAIN m.log : i > Covered(m) \/ IsSystem(m.log[i])}

(* cleanOldToolResults: a long result that is not recent is archived. *)
Recent(sent, i) == Cardinality({j \in sent : j > i}) < RetainRecent
Size(message, recent) ==
  IF message.role = "user" \/ (message.role = "tool" /\ recent) THEN 2 ELSE 1
Fits(m) == LET sent == Projected(m)
               summary == IF Covered(m) = 0 THEN 0 ELSE 1
           IN summary + MapThenSumSet(LAMBDA i : Size(m.log[i], Recent(sent, i)), sent) <= SafeLimit

(* crossesToolPair: a call is on the left and its result on the right. *)
Crosses(log, n) == \E i \in 1..n, j \in (n + 1)..Len(log) : log[i].call # 0 /\ log[i].call = log[j].call

(* findCompactionBoundary. *)
Boundary(log) ==
  LET most == IF Len(log) > RetainRecent THEN Len(log) - RetainRecent ELSE 0
      b == CHOOSE n \in 0..most : /\ ~Crosses(log, n)
                                  /\ \A k \in (n + 1)..most : Crosses(log, k)
  IN IF \A i \in 1..b : IsSystem(log[i]) THEN 0 ELSE b

(* createCompaction: of the messages before the boundary. *)
Compacted(m) == [m EXCEPT !.compactions = Append(@, SubSeq(m.log, 1, Boundary(m.log)))]

(* A bug: the memory keeps the compaction that was not saved. *)
KeepPushed(before) == Compacted(before)

(* restore. *)
Restore(before) == before

(* append. *)
Appended(m, message) == [m EXCEPT !.log = Append(@, message)]

(***************************************************************************)
(* The session.                                                            *)
(***************************************************************************)
Init == /\ lease = NoHost
        /\ refs = [h \in Hosts |-> 0]
        /\ lost = [h \in Hosts |-> 0]
        /\ disk = [t \in Tasks |-> Empty]
        /\ mem = [s \in Sessions |-> Empty]
        /\ at = [s \in Sessions |-> "none"]
        /\ op = [s \in Sessions |-> "none"]
        /\ spent = [s \in Sessions |-> Unspent]
        /\ mended = [s \in Sessions |-> FALSE]
        /\ opened = 0 /\ stops = 0

Go(s, place) == at' = [at EXCEPT ![s] = place]
Held == UNCHANGED <<lease, refs, lost, opened, stops>>
Idle(s) == op[s] = "none"      \* withLock: nothing else runs in the session

(* saveCheckpoint of what the session now holds: the file is renamed into  *)
(* place, or it throws and the file is what it was.                        *)
Save(s, m, saved, failed) ==
  /\ mem' = [mem EXCEPT ![s] = m]
  /\ \/ disk' = [disk EXCEPT ![Task(s)] = m] /\ Go(s, saved)
     \/ Go(s, failed) /\ UNCHANGED disk

(* The lease of a process that has its own is shared. *)
Acquire(s) ==
  /\ at[s] = "none" /\ opened < MaxOpened
  /\ opened = 0 => s = CHOOSE first \in Sessions : TRUE \* they are alike
  /\ lease \in {NoHost, Host(s)}
  /\ lease' = Host(s)
  /\ refs' = [refs EXCEPT ![Host(s)] = @ + 1]
  /\ opened' = opened + 1
  /\ Go(s, "acquired")
  /\ UNCHANGED <<lost, disk, mem, op, spent, mended, stops>>

(* A bug: the first session that closes returns the lease. *)
GiveBackFirst(h) == /\ refs' = [refs EXCEPT ![h] = @ - 1]
                    /\ lease' = NoHost

(* release: the last session of the process returns it. *)
GiveBack(h) == /\ refs' = [refs EXCEPT ![h] = @ - 1]
               /\ lease' = IF refs[h] = 1 THEN NoHost ELSE lease

(* open: the paths must be leased, the checkpoint is loaded; or the run    *)
(* lease is given back.                                                    *)
Load(s) ==
  /\ at[s] = "acquired"
  /\ \/ /\ mem' = [mem EXCEPT ![s] = disk[Task(s)]] /\ Go(s, "prompting")
        /\ UNCHANGED <<lease, refs>>
     \/ GiveBack(Host(s)) /\ Go(s, "none") /\ UNCHANGED mem
  /\ UNCHANGED <<lost, disk, op, spent, mended, opened, stops>>

(* openExecutionSession: the prompt goes into the transcript ... *)
Prompt(s) ==
  /\ at[s] = "prompting" /\ Len(mem[s].log) < MaxLog
  /\ Save(s, Appended(mem[s], Message("user", 0)), "preparing", "closing")
  /\ Held /\ UNCHANGED <<op, spent, mended>>

(* ... and the context is prepared: it fits, or what there is is saved ... *)
Prepare(s) ==
  /\ at[s] = "preparing"
  /\ Save(s, mem[s], IF Fits(mem[s]) THEN "ready" ELSE "compacting", "closing")
  /\ Held /\ UNCHANGED <<op, spent, mended>>

(* ... before it is compacted: the compaction is saved, or the memory is   *)
(* rolled back to what was saved before.                                   *)
Compact(s) ==
  /\ at[s] = "compacting"
  /\ LET m == Compacted(mem[s]) IN
     \/ /\ Boundary(mem[s].log) > 0 /\ Fits(m)
        /\ mem' = [mem EXCEPT ![s] = m]
        /\ disk' = [disk EXCEPT ![Task(s)] = m]
        /\ Go(s, "ready") \/ Go(s, "closing")
     \/ /\ mem' = [mem EXCEPT ![s] = Restore(mem[s])]
        /\ Go(s, "closing") /\ UNCHANGED disk
  /\ Held /\ UNCHANGED <<op, spent, mended>>

(* spawn: the agent is created and gets its task; or time is up, the       *)
(* harness fails, or the caller has gone.                                  *)
Start(s) == /\ at[s] = "ready"
            /\ Go(s, "running") \/ Go(s, "closing")
            /\ Held /\ UNCHANGED <<disk, mem, op, spent, mended>>

(* runTool: an effect that is recorded as completed is not run again.      *)
(* Tools are guarded once a correction is asked for.                       *)
BeginTool(s, k) ==
  /\ at[s] = "running" /\ Idle(s) /\ ~mended[s]
  /\ k \notin mem[s].done
  /\ op' = [op EXCEPT ![s] = k]
  /\ Held /\ UNCHANGED <<disk, mem, at, spent, mended>>

(* The effect ends: it is recorded, and the record is saved (a second      *)
(* attempt follows one that fails); a failed effect stays open.            *)
EndTool(s) ==
  /\ ~Idle(s)
  /\ op' = [op EXCEPT ![s] = "none"]
  /\ \/ Save(s, [mem[s] EXCEPT !.done = @ \cup {op[s]}], at[s], at[s])
     \/ UNCHANGED <<disk, mem, at>>
  /\ Held /\ UNCHANGED <<spent, mended>>

(* append, of what the runner of the task says: a call, then its result.   *)
(* A call that a process died on is made again, it gets no late result.    *)
Calls(log) == Cardinality({i \in DOMAIN log : log[i].role = "assistant" /\ log[i].call # 0})
Pending(log) == Last(log).role = "assistant" /\ Last(log).call # 0
AppendStep(s) ==
  /\ at[s] = "running" /\ Idle(s) /\ ~mended[s]
  /\ LET log == mem[s].log IN
     /\ Len(log) < MaxLog
     /\ Save(s, Appended(mem[s], IF Pending(log) THEN Message("tool", Calls(log))
                                 ELSE Message("assistant", Calls(log) + 1)), "running", "closing")
  /\ Held /\ UNCHANGED <<op, spent, mended>>

(* consumeModel, consumeCompaction (of what the preparation took) and      *)
(* openNextWindow (after an answer) of the budget window: a charge that    *)
(* exceeds a limit charges nothing and throws.                             *)
Charge(b) == [b EXCEPT !.task = @ + 1, !.window = @ + 1]
Affordable(b) == b.task < TaskMax /\ b.window < WindowMax
ChargeCompaction(s) ==
  /\ at[s] = "ready"
  /\ spent[s].task < TaskMax /\ spent[s].compaction < CompactionMax
  /\ spent' = [spent EXCEPT ![s].task = @ + 1, ![s].compaction = @ + 1]
  /\ Held /\ UNCHANGED <<disk, mem, at, op, mended>>
OpenNextWindow(s) ==
  /\ at[s] = "answered" /\ spent[s].task < TaskMax /\ spent[s].window > 0
  /\ spent' = [spent EXCEPT ![s].window = 0]
  /\ Held /\ UNCHANGED <<disk, mem, at, op, mended>>

(* resolveResult: the answer is appended and charged, once per event. *)
Answer(s) ==
  /\ at[s] = "running" /\ Idle(s) /\ Len(mem[s].log) < MaxLog
  /\ Save(s, Appended(mem[s], Message("assistant", 0)),
             IF Affordable(spent[s]) THEN "answered" ELSE "closing", "closing")
  /\ spent' = IF at'[s] = "answered" THEN [spent EXCEPT ![s] = Charge(@)] ELSE spent
  /\ Held /\ UNCHANGED <<op, mended>>

(* It is decoded: a result, an error, or one correction with the tools of  *)
(* the agent disabled, unless the agent has been stopped.                  *)
Decode(s) == /\ at[s] = "answered" /\ Go(s, "closing")
             /\ Held /\ UNCHANGED <<disk, mem, op, spent, mended>>
Correct(s) ==
  /\ at[s] = "answered" /\ ~mended[s] /\ Len(mem[s].log) < MaxLog
  /\ mended' = [mended EXCEPT ![s] = TRUE]
  /\ Save(s, Appended(mem[s], Message("user", 0)), "running", "closing")
  /\ Held /\ UNCHANGED <<op, spent>>

(* cancel, the wall time, an abort: the agent is disposed of, once, and    *)
(* the session is closed after what runs in it.                            *)
Stop(s) == /\ at[s] = "running" /\ Go(s, "closing")
           /\ Held /\ UNCHANGED <<disk, mem, op, spent, mended>>

(* close: the last save, then the lease.  When the save fails the session  *)
(* stays open and every later close is that failure.                       *)
Gone(s) == /\ mem' = [mem EXCEPT ![s] = Empty]
           /\ spent' = [spent EXCEPT ![s] = Unspent]
           /\ mended' = [mended EXCEPT ![s] = FALSE]
           /\ Go(s, "none")
Close(s) ==
  /\ at[s] = "closing" /\ Idle(s)
  /\ \/ /\ disk' = [disk EXCEPT ![Task(s)] = mem[s]]
        /\ GiveBack(Host(s)) /\ UNCHANGED lost
     \/ /\ lost' = [lost EXCEPT ![Host(s)] = @ + 1]
        /\ UNCHANGED <<disk, lease, refs>>
  /\ Gone(s) /\ UNCHANGED <<op, opened, stops>>

(* The process dies, with all its sessions; the system frees its lock. *)
Die(h) ==
  /\ stops < MaxStops /\ lease = h
  /\ stops' = stops + 1
  /\ lease' = NoHost
  /\ refs' = [refs EXCEPT ![h] = 0]
  /\ lost' = [lost EXCEPT ![h] = 0]
  /\ mem' = [s \in Sessions |-> IF Host(s) = h THEN Empty ELSE mem[s]]
  /\ at' = [s \in Sessions |-> IF Host(s) = h THEN "none" ELSE at[s]]
  /\ op' = [s \in Sessions |-> IF Host(s) = h THEN "none" ELSE op[s]]
  /\ spent' = [s \in Sessions |-> IF Host(s) = h THEN Unspent ELSE spent[s]]
  /\ mended' = [s \in Sessions |-> IF Host(s) = h THEN FALSE ELSE mended[s]]
  /\ UNCHANGED <<disk, opened>>

Next ==
  \/ \E s \in Sessions : \/ Acquire(s) \/ Load(s) \/ Prompt(s) \/ Prepare(s) \/ Compact(s)
                         \/ Start(s) \/ AppendStep(s) \/ EndTool(s) \/ ChargeCompaction(s)
                         \/ OpenNextWindow(s) \/ Answer(s) \/ Decode(s) \/ Correct(s)
                         \/ Stop(s) \/ Close(s)
  \/ \E s \in Sessions, k \in Keys : BeginTool(s, k)
  \/ \E h \in Hosts : Die(h)

Spec == Init /\ [][Next]_vars

(***************************************************************************)
(* Properties.                                                             *)
(***************************************************************************)

(* An effect whose completion is in the checkpoint is never started again, *)
(* by any process (runTool, under the run lease).                          *)
StartsWhatIsNotDone ==
  \A s \in Sessions : op'[s] # op[s] /\ op'[s] # "none" => op'[s] \notin disk[Task(s)].done
CompletedRunsOnce == [][StartsWhatIsNotDone]_vars

(* The transcript on disk only grows: no session writes back an older one. *)
Appends == \A t \in Tasks : IsPrefix(disk[t].log, disk'[t].log)

(* A compaction that fails leaves nothing behind in memory: outside of     *)
(* prepare a session has the compactions that are on disk.                 *)
ArtifactsAreDurable ==
  \A s \in Sessions : at[s] \notin {"none", "acquired"} =>
    mem[s].compactions = disk[Task(s)].compactions

(* The model never gets the result of a call without the call.             *)
PairsStayTogether ==
  \A s \in Sessions : at[s] \in {"ready", "running"} =>
    LET log == mem[s].log IN
    \A j \in Projected(mem[s]) : log[j].role = "tool" =>
      \E i \in Projected(mem[s]) : i < j /\ log[i].role = "assistant" /\ log[i].call = log[j].call

(* A process holds the run lease exactly while it has a session, or one    *)
(* whose last save failed (SharedLongTaskRunLease, across every way an     *)
(* agent can end).                                                         *)
LeaseIsCounted ==
  \A h \in Hosts : /\ refs[h] = Cardinality({s \in Sessions : Host(s) = h /\ at[s] # "none"}) + lost[h]
                   /\ (refs[h] > 0) <=> (lease = h)
===========================================================================

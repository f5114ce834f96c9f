------------------------------- MODULE MCTeam -------------------------------
(* The work of the team for TLC: the sessions of long tasks, the tools on  *)
(* the files, and the development of a plan.  Each is checked for what the *)
(* others may do to it (a session's owner works, or stops; a user edits;   *)
(* agents write), so a behavior is of one part.                            *)
EXTENDS Development

CONSTANTS Parts, \* of those three, what the run is about
          Hosts, HostTasks, NoHost, Keys, SafeLimit, RetainRecent, TaskMax, WindowMax, \* long tasks
          CompactionMax, MaxLog, MaxOpened, MaxStops,
          Agents, NoAgent, MaxCalls, MaxEdits, MaxInodes, MaxTasks                 \* tools

VARIABLES part,
          runLease, refs, lost, disk, mem, place, op, spent, mended, opened, stops,
          file, bytes, inodes, texts, edits, permitted, lease, tasks, at, calls, accepted, before,
          after, handle, text, patches, tested, touched

(* A plan of two slices, a task each, the second after the first. *)
MCNeeds == <<{}, {1}>>
MCTasksOf == <<{1}, {2}>>

(* Nobody is not a process or an agent, no effect is not an effect; recent *)
(* messages are some (positiveInteger), bounds and slices are numbers.     *)
ASSUME NobodyIsNobody == NoHost \notin Hosts /\ NoAgent \notin Agents /\ "none" \notin Keys
ASSUME BoundsAreNumbers == /\ RetainRecent \in Nat \ {0} /\ MaxInodes \in Nat \ {0}
                           /\ MaxRuns \in Nat /\ Slices \subseteq Nat

L == INSTANCE LongTask WITH lease <- runLease, at <- place, Tasks <- HostTasks
T == INSTANCE ManagedTools

sessions == <<runLease, refs, lost, disk, mem, place, op, spent, mended, opened, stops>>
tools == <<file, bytes, inodes, texts, edits, permitted, lease, tasks, at, calls, accepted, before,
           after, handle, text, patches, tested, touched>>
team == <<part, sessions, tools, vars>>

(* A part that is not in play has no state: its variables are 0. *)
TeamInit ==
  /\ part \in Parts
  /\ IF part = "sessions" THEN L!Init
     ELSE /\ runLease = 0 /\ refs = 0 /\ lost = 0 /\ disk = 0 /\ mem = 0 /\ place = 0
          /\ op = 0 /\ spent = 0 /\ mended = 0 /\ opened = 0 /\ stops = 0
  /\ IF part = "tools" THEN T!Init
     ELSE /\ file = 0 /\ bytes = 0 /\ inodes = 0 /\ texts = 0 /\ edits = 0 /\ permitted = 0
          /\ lease = 0 /\ tasks = 0 /\ at = 0 /\ calls = 0 /\ accepted = 0 /\ before = 0
          /\ after = 0 /\ handle = 0 /\ text = 0 /\ patches = 0 /\ tested = 0
          /\ touched = 0
  /\ IF part = "development" THEN Init
     ELSE /\ phase = 0 /\ plan = 0 /\ approved = 0 /\ dirty = 0 /\ there = 0 /\ saved = 0
          /\ delivered = 0 /\ up = 0 /\ status = 0 /\ ctl = 0 /\ coord = 0 /\ lock = 0
          /\ run = 0 /\ stop = 0 /\ asked = 0 /\ change = 0 /\ events = 0

TeamNext == \/ part = "sessions" /\ L!Next /\ UNCHANGED <<part, tools, vars>>
            \/ part = "tools" /\ T!Next /\ UNCHANGED <<part, sessions, vars>>
            \/ part = "development" /\ Next /\ UNCHANGED <<part, sessions, tools>>

TeamSpec == TeamInit /\ [][TeamNext]_team

(* A compaction that a session goes by is on disk, and what is sent of the *)
(* rest has no result without its call: context-manager.ts compact,        *)
(* restore and findCompactionBoundary.                                     *)
CompactionsAreWhole == part = "sessions" => L!ArtifactsAreDurable /\ L!PairsStayTogether

(* A side effect that is done is not done again, across sessions and       *)
(* deaths: long-task-execution-session.ts endTool and close.               *)
CompletedRunsOnce == [][part = "sessions" => L!StartsWhatIsNotDone]_team

(* What the owner of a path accepted is what the path holds, unless        *)
(* somebody else changed it, and test evidence is of the files as the      *)
(* agents left them: patch-tracker.ts, managed-test-evidence.ts.           *)
OwnedFileIsAccepted == part = "tools" => T!OwnedFileIsAccepted /\ T!EvidenceIsCurrent

(* Bytes go to the file the writer looked at: patch-tracker.ts             *)
(* sameFile against the opened handle.                                     *)
WritesGoToTheFileSeen == [][part = "tools" => T!WritesWhatWasSeen]_team

(* A refused write is taken back only when the file is as the agent left   *)
(* it: not so (see ManagedTools).                                          *)
RollbackTakesBackOwnEdit == [][part = "tools" => T!TakesBackOwnEdit]_team

(* One run goes through the plan at a time, no other plan is approved      *)
(* while it works, a checkpoint whose files are there can be resumed, and  *)
(* a delivery that is ready was tested with the files it names:            *)
(* development-coordinator.ts runExclusive and verifyCheckpointResult,     *)
(* file-development-checkpoint-store.ts archiveForChange,                  *)
(* final-development-verification.ts.                                      *)
WorkKeepsItsPlan == part = "development" => /\ OneExecutor
                                            /\ WorkIsOnApprovedPlan
                                            /\ CheckpointResumes
                                            /\ DeliveredIsTested
============================================================================

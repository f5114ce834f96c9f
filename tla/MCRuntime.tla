----------------------------- MODULE MCRuntime -----------------------------
(* The host's runtime for TLC: the approved installation of its tools, the *)
(* database with its GUI, the migration of the database, and the tasks of  *)
(* the conversations.  They share no state beyond what each models itself, *)
(* so a behavior is of one part.                                           *)
EXTENDS TaskHost, TLC

CONSTANTS Parts,                                         \* of those four
          Procs, Tokens, NoFile, NoToken, NoAction,      \* installation
          Pids, MaxDesigns, MaxCrashes,                  \* database
          Schemas, MaxRequests, MaxRevision, MaxSessions \* migration

VARIABLES part,
          tokens, opened, ran, files, tree, receipt, at, download, evidence,
          os, reserve, record, gui, operation, session, designs, databases, cluster,
          live, harmed, deaths,
          source, drafts, active, stored, drafted, orm, file, revision, job, pending,
          req, applied, ends

Action(kind, program, words) == [kind |-> kind, program |-> program, words |-> words]
Install == Action("install", "none", {})
(* What tokens are asked for: the plan, a question of each kind, and       *)
(* questions that are also refusals.                                       *)
Actions == {Install, Action("install", "none", {"-g"}), Action("command", "npm", {"install"}),
            Action("command", "npm", {"install", "remote database"}),
            Action("command", "sh", {"migrat"}), Action("command", "git", {"push", "-f", "install"})}

I == INSTANCE Installation WITH op <- download
D == INSTANCE Database WITH op <- operation, made <- databases, crashes <- deaths
M == INSTANCE Migration WITH designs <- drafts, saved <- stored, made <- drafted, ran <- applied,
                             crashes <- ends

(* What stands for nothing is none of the values; bounds are numbers.      *)
ASSUME NothingIsNoValue ==
  /\ NoFile \notin [by : Procs \cup {I!Nobody}, content : I!Contents, links : {1, 2}]
  /\ I!Nobody \notin Procs
  /\ NoToken \notin [action : Actions, kind : {"install", "migration"}, used : BOOLEAN,
                     expired : BOOLEAN]
  /\ 1 \in Schemas /\ 0 \notin Schemas
ASSUME BoundsAreNumbers == MaxDesigns \in Nat /\ MaxSessions \in Nat /\ MaxTasks \in Nat

installation == <<tokens, opened, ran, files, tree, receipt, at, download, evidence>>
database == <<os, reserve, record, gui, operation, session, designs, databases,
              cluster, live, harmed, deaths>>
migration == <<source, drafts, active, stored, drafted, orm, file, revision, job,
               pending, req, applied, ends>>
runtime == <<part, installation, database, migration, vars>>

(* A part that is not in play has no state: its variables are 0. *)
RuntimeInit ==
  /\ part \in Parts
  /\ IF part = "installation" THEN I!Init
     ELSE /\ tokens = 0 /\ opened = 0 /\ ran = 0 /\ files = 0 /\ tree = 0 /\ receipt = 0
          /\ at = 0 /\ download = 0 /\ evidence = 0
  /\ IF part = "database" THEN D!Init
     ELSE /\ os = 0 /\ reserve = 0 /\ record = 0 /\ gui = 0 /\ operation = 0
          /\ session = 0 /\ designs = 0 /\ databases = 0 /\ cluster = 0 /\ live = 0
          /\ harmed = 0 /\ deaths = 0
  /\ IF part = "migration" THEN M!Init
     ELSE /\ source = 0 /\ drafts = 0 /\ active = 0 /\ stored = 0 /\ drafted = 0
          /\ orm = 0 /\ file = 0 /\ revision = 0 /\ job = 0 /\ pending = 0 /\ req = 0
          /\ applied = 0 /\ ends = 0
  /\ IF part = "tasks" THEN Init
     ELSE /\ records = 0 /\ phase = 0 /\ hosts = 0 /\ working = 0 /\ bridge = 0
          /\ ticket = 0 /\ op = 0 /\ call = 0 /\ made = 0 /\ resolved = 0 /\ boots = 0
          /\ crashes = 0

RuntimeNext ==
  \/ part = "installation" /\ I!Next /\ UNCHANGED <<part, database, migration, vars>>
  \/ part = "database" /\ D!Next /\ UNCHANGED <<part, installation, migration, vars>>
  \/ part = "migration" /\ M!Next /\ UNCHANGED <<part, installation, database, vars>>
  \/ part = "tasks" /\ Next /\ UNCHANGED <<part, installation, database, migration>>

RuntimeSpec == RuntimeInit /\ [][RuntimeNext]_runtime

(* Processes are interchangeable. *)
Symmetry == Permutations(Procs)

(* What runs with a token the policy does not forbid, and a token runs     *)
(* once: approval-token.ts consumePrepared, rules.ts evaluateRules.        *)
RunIsApproved == part = "installation" => I!RunIsApproved

(* A session that has returned left nothing running: install-session.ts    *)
(* execute waits for every operation it tracked.                           *)
SessionsEndClean == part = "installation" => I!SessionsEndClean

(* Evidence of an installation is of a whole one: uv-installer.ts          *)
(* ensureInstalled, artifact-downloader.ts fetch, across deaths.           *)
EvidenceIsWhole == part = "installation" => I!EvidenceIsWhole

(* No signal goes to a process of others, a GUI process that lives is      *)
(* reserved, so there is one at most, and the database of one the host     *)
(* knows of is not dropped: process-supervisor.ts assertIdentity, start    *)
(* and cleanupChild, database-execution-port.ts openGuiProcess and         *)
(* stopServices.                                                           *)
OneOwnGui == part = "database" => D!KillsOnlyOwn /\ D!LiveIsReserved /\ D!KnownGuiKeepsDesign

(* The SQL that runs is the SQL that was approved, across restarts, there  *)
(* is a copy of the database before, and a request the review holds for    *)
(* the user is on disk: database-migration-review.ts              *)
(* restorePending, native-database-migration.ts apply,                     *)
(* migration-review-store.ts.                                              *)
AppliedIsApproved ==
  part = "migration" => M!AppliedIsApproved /\ M!BackupBeforeApply /\ M!PendingIsDurable

(* Who is inside a task's host is who the task belongs to, and a task is   *)
(* moved from where the user saw it: conversation-task-host.ts dispatch    *)
(* against resolveTask.                                                    *)
CallerOwnsTask == part = "tasks" => OwnerActs /\ MovesWhatWasShown

(* A task that starts finds no other that was never delivered: createTask, *)
(* drainQueuedTasks.                                                       *)
TaskStartsAlone == [][part = "tasks" => NoneUnfinished]_runtime
============================================================================

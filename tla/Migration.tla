----------------------------- MODULE Migration -----------------------------
(* A database migration from the design to the source database: how it is  *)
(* generated and tried on a clone and how it is applied                    *)
(* (bundle/src/native-database-migration.ts, and the ORM source written    *)
(* with it, database/src/orm-schema-synchronizer.ts), how it waits for the *)
(* user's decision (database-migration-review.ts), how that wait outlives  *)
(* the host (migration-review-store.ts, workflow-host.ts).                 *)
(*                                                                         *)
(* A schema is a number; SQL is the pair of schemas it was generated from. *)
(* Whoever has a connection may change the source, the GUI the design, an  *)
(* editor the ORM source, and any other step the task's revision.  What    *)
(* works on the database goes through one queue (native-postgresql.ts      *)
(* execute), what works on the record through another.                     *)
EXTENDS Naturals

CONSTANTS Schemas,     \* 1 is the schema at the start
          MaxRequests, \* bound: requests for approval ever made
          MaxRevision, \* bound: revisions made by other steps
          MaxSessions, \* bound: design databases ever made
          MaxCrashes   \* bound: ends of the host

None == 0
Requests == 1..MaxRequests
DesignSessions == 1..MaxSessions

VARIABLES source,   \* the schema of the source database
          designs,  \* of the design database of each session; None: it is gone
          active,   \* the session the port holds
          saved,    \* the session on disk
          made,     \* sessions made so far
          orm,      \* the content of the ORM source, named by its schema
          file,     \* the record of the pending request on disk
          revision, \* of the task's state
          job,      \* the preparation or restoration under way
          pending,  \* the request the review holds
          req,      \* the requests, each with how far it is
          ran,      \* history variable: what was run on the source
          crashes
databases == <<source, designs, active, saved, made>>
vars == <<databases, orm, file, revision, job, pending, req, ran, crashes>>

NoRecord == [rev |-> None]
Idle == [at |-> "idle"]
NoRequest == [at |-> "none"]
Over == [at |-> "over"]

\* A preparation or restoration, with what it has read so far.
Job(kind, rev, of) == [at |-> "source", kind |-> kind, rev |-> rev, session |-> of,
                             before |-> None, designed |-> None, sql |-> <<None, None>>,
                             ormBefore |-> None]

Init == /\ source = 1 /\ designs = [s \in DesignSessions |-> None] /\ active = None /\ saved = None /\ made = 0
        /\ orm = 1 /\ file = NoRecord /\ revision = 1
        /\ job = Idle /\ pending = None /\ req = [n \in Requests |-> NoRequest]
        /\ ran = {} /\ crashes = 0

(* The two queues. *)
DbFree == /\ job.at \notin {"design", "generate", "try", "recheck"}
          /\ \A n \in Requests : req[n].at \notin {"checked", "synchronized", "backed up", "ran"}
StoreFree == \A n \in Requests : req[n].at # "clearing"

InPort(n) == req[n].at = "pending"
(* listPending: approvals of other kinds come and go. *)
PortEmpty == \A n \in Requests : ~InPort(n)
Fresh == CHOOSE n \in Requests : req[n] = NoRequest
HasFresh == \E n \in Requests : req[n] = NoRequest
At(n, step) == req' = [req EXCEPT ![n].at = step]

(***************************************************************************)
(* Preparing and restoring.                                                *)
(***************************************************************************)

(* A preparation ends by throwing; a restoration's failure is written into *)
(* the task's state.                                                       *)
JobFails(kind) == /\ job' = Idle
                  /\ revision' = IF kind = "restore" THEN revision + 1 ELSE revision

(* DatabaseMigrationReview.prepare: a request made at another revision is  *)
(* given up; while one is held or any is pending nothing is prepared.      *)
Prepare ==
  /\ job = Idle /\ HasFresh
  /\ LET expired == pending # None /\ req[pending].rev # revision
     IN /\ req' = IF expired /\ InPort(pending) THEN [req EXCEPT ![pending] = Over] ELSE req
        /\ pending' = IF expired THEN None ELSE pending
        /\ \/ /\ pending' = None /\ active # None /\ \A n \in Requests : req'[n].at # "pending"
              /\ job' = Job("prepare", revision, active)
           \/ job' = Idle
  /\ UNCHANGED <<databases, orm, file, revision, ran, crashes>>

(* workflow-host and restorePending, once, when the host starts. *)
Boot ==
  /\ job.at = "boot"
  /\ \/ file = NoRecord /\ job' = Idle /\ UNCHANGED <<file, revision>>
     \/ file # NoRecord /\ file.rev # revision /\ file' = NoRecord /\ JobFails("restore")
     \/ /\ file # NoRecord /\ file.rev = revision /\ UNCHANGED file
        /\ JobFails("restore")     \* another approval is pending, the session is another
     \/ /\ file # NoRecord /\ file.rev = revision /\ saved = file.session /\ HasFresh
        /\ job' = Job("restore", file.rev, saved)
        /\ UNCHANGED <<file, revision>>
  /\ UNCHANGED <<databases, orm, pending, req, ran, crashes>>

(* prepareNativeDatabaseMigration: dump both, pull both and generate, try  *)
(* on a clone of the source, dump both again.                              *)
Design == designs[job.session]
(* An operation whose request was approved before this began is served     *)
(* first.                                                                  *)
DumpSource == /\ job.at = "source" /\ DbFree /\ \A n \in Requests : req[n].at # "queued"
              /\ job' = [job EXCEPT !.at = "design", !.before = source]
              /\ UNCHANGED <<databases, orm, file, revision, pending, req, ran, crashes>>
DumpDesign == /\ job.at = "design"
              /\ IF Design \in {None, job.before} THEN JobFails(job.kind)
                 ELSE /\ job' = [job EXCEPT !.at = "generate", !.designed = Design]
                      /\ UNCHANGED revision
              /\ UNCHANGED <<databases, orm, file, pending, req, ran, crashes>>
Generate == /\ job.at = "generate"
            /\ IF Design \in {None, source} THEN JobFails(job.kind)
               ELSE /\ job' = [job EXCEPT !.at = "try", !.sql = <<source, Design>>]
                    /\ UNCHANGED revision
            /\ UNCHANGED <<databases, orm, file, pending, req, ran, crashes>>
(* What the SQL makes of a schema: none when it fails. *)
Outcomes(sql, schema) == IF schema = sql[1] THEN {sql[2]} ELSE Schemas
Try == /\ job.at = "try"
       /\ \/ job.designed \in Outcomes(job.sql, source) /\ job' = [job EXCEPT !.at = "recheck"] /\ UNCHANGED revision
          \/ JobFails(job.kind)
       /\ UNCHANGED <<databases, orm, file, pending, req, ran, crashes>>
Recheck == /\ job.at = "recheck"
           /\ IF source = job.before /\ Design = job.designed
              THEN job' = [job EXCEPT !.at = "present", !.ormBefore = orm] /\ UNCHANGED revision
              ELSE JobFails(job.kind)
           /\ UNCHANGED <<databases, orm, file, pending, req, ran, crashes>>

(* The request as the user sees it, and the operation behind it.  The ORM  *)
(* source is part of the operation; native-postgresql.ts does not pass it  *)
(* on to the review.                                                       *)
Request(shown) == [at |-> "pending", shown |-> shown, shownOrm |-> None, sql |-> job.sql, rev |-> job.rev,
                   session |-> job.session, restored |-> job.kind = "restore",
                   before |-> job.before, designed |-> job.designed, ormBefore |-> job.ormBefore,
                   backup |-> None]
Ask(shown) == /\ req' = [req EXCEPT ![Fresh] = Request(shown)]
              /\ job' = Idle

(* After preparing: the revision and the port are looked at again, the     *)
(* request is held, then saved, then asked for.                            *)
Hold == /\ job.at = "present" /\ job.kind = "prepare" /\ HasFresh
        /\ \/ /\ revision = job.rev /\ PortEmpty
              /\ pending' = Fresh /\ job' = [job EXCEPT !.at = "save"]
           \/ job' = Idle /\ UNCHANGED pending
        /\ UNCHANGED <<databases, orm, file, revision, req, ran, crashes>>
Save == /\ job.at = "save" /\ StoreFree
        /\ LET record == [rev |-> job.rev, sql |-> job.sql, session |-> job.session] IN
           \/ file' = record /\ Ask(job.sql) /\ UNCHANGED pending
           \/ file' \in {file, record} /\ pending' = None /\ job' = Idle /\ UNCHANGED req
        /\ UNCHANGED <<databases, orm, revision, ran, crashes>>

(* After restoring: the operation must be the one on record (samePreview). *)
\* A bug: any operation that could be prepared passes for the one on record.
SamePrepared(record) == TRUE
SamePreview(record) == job.sql = record.sql
AskAgain ==
  /\ job.at = "present" /\ job.kind = "restore"
  /\ IF SamePreview(file) THEN pending' = Fresh /\ Ask(file.sql) /\ UNCHANGED <<file, revision>>
     ELSE file' = NoRecord /\ JobFails("restore") /\ UNCHANGED <<pending, req>>
  /\ UNCHANGED <<databases, orm, ran, crashes>>

(***************************************************************************)
(* The user's decision, and what follows it (attachDecision).              *)
(***************************************************************************)
Decide(n) == /\ InPort(n) /\ \/ At(n, "approved") \/ At(n, "clearing")   \* rejected
             /\ UNCHANGED <<databases, orm, file, revision, job, pending, ran, crashes>>

(* Whichever way it ends, the review holds no request after it. *)
End(n) == req' = [req EXCEPT ![n] = Over] /\ pending' = None

CompareRevision(n) ==
  /\ req[n].at = "approved"
  /\ IF req[n].rev = revision THEN At(n, "queued") /\ UNCHANGED pending ELSE End(n)
  /\ UNCHANGED <<databases, orm, file, revision, job, ran, crashes>>

(* apply: the operation's session is still the active one (a restored      *)
(* operation keeps its own), and neither schema has changed.               *)
Unchanged(n) == /\ req[n].restored \/ active = req[n].session
                /\ source = req[n].before /\ designs[req[n].session] = req[n].designed
CompareSchemas(n) ==
  /\ req[n].at = "queued" /\ DbFree
  /\ IF Unchanged(n) THEN At(n, "checked") /\ UNCHANGED pending ELSE End(n)
  /\ UNCHANGED <<databases, orm, file, revision, job, ran, crashes>>

(* The ORM source must be what it was, and is written first. *)
Synchronize(n) ==
  /\ req[n].at = "checked"
  /\ \/ orm = req[n].ormBefore /\ orm' = req[n].sql[2] /\ At(n, "synchronized") /\ UNCHANGED pending
     \/ End(n) /\ UNCHANGED orm
  /\ UNCHANGED <<databases, file, revision, job, ran, crashes>>

(* A later failure writes the old ORM source back, if it can. *)
RollBack(n) == End(n) /\ orm' \in {orm, req[n].ormBefore}

BackUp(n) ==
  /\ req[n].at = "synchronized"
  /\ \/ req' = [req EXCEPT ![n].at = "backed up", ![n].backup = source] /\ UNCHANGED <<pending, orm>>
     \/ RollBack(n)
  /\ UNCHANGED <<databases, file, revision, job, ran, crashes>>

(* psql in one transaction: it commits, or not, or commits and is killed   *)
(* before it says so.                                                      *)
RunSql(n) ==
  /\ req[n].at = "backed up"
  /\ \/ /\ source' \in Outcomes(req[n].sql, source)
        /\ ran' = ran \cup {[n |-> n, sql |-> req[n].sql, shown |-> req[n].shown, backup |-> req[n].backup]}
        /\ \/ At(n, "ran") /\ UNCHANGED <<pending, orm>>
           \/ RollBack(n)
     \/ RollBack(n) /\ UNCHANGED <<source, ran>>
  /\ UNCHANGED <<designs, active, saved, made, file, revision, job, crashes>>

(* The source is what was designed, and applied.json is written. *)
VerifySource(n) ==
  /\ req[n].at = "ran"
  /\ \/ source = req[n].designed /\ At(n, "clearing") /\ UNCHANGED <<pending, orm>>
     \/ RollBack(n)
  /\ UNCHANGED <<databases, file, revision, job, ran, crashes>>

(* The record is removed, if it can be, and the review is told.  What was  *)
(* compared is not read again.                                             *)
Clear(n) == /\ req[n].at = "clearing"
            /\ req' = [req EXCEPT ![n] = [@ EXCEPT !.at = "cleared", !.before = None, !.designed = None,
                                          !.ormBefore = None, !.backup = None]]
            /\ file' \in {file, NoRecord}
            /\ UNCHANGED <<databases, orm, revision, job, pending, ran, crashes>>
Cleared(n) == /\ req[n].at = "cleared" /\ End(n)
              /\ UNCHANGED <<databases, orm, file, revision, job, ran, crashes>>

(***************************************************************************)
(* Everything else.                                                        *)
(***************************************************************************)

(* openGui when no GUI runs: the old design database goes, a new one is a  *)
(* copy of the source.                                                     *)
OpenSession ==
  /\ DbFree /\ job.at # "boot" /\ made < MaxSessions
  /\ made' = made + 1 /\ active' = made' /\ saved' = made'
  /\ designs' = [s \in DesignSessions |-> IF s = made' THEN source ELSE IF s = active THEN None ELSE designs[s]]
  /\ UNCHANGED <<source, orm, file, revision, job, pending, req, ran, crashes>>

(* stopDatabase: assertIdle. *)
StopDatabase ==
  /\ DbFree /\ job = Idle /\ pending = None /\ active # None
  /\ designs' = [designs EXCEPT ![active] = None] /\ active' = None /\ saved' = None
  /\ UNCHANGED <<source, made, orm, file, revision, job, pending, req, ran, crashes>>

(* The GUI works on the active session's database. *)
Redesign == /\ active # None
            /\ \E schema \in Schemas : designs' = [designs EXCEPT ![active] = schema]
            /\ UNCHANGED <<source, active, saved, made, orm, file, revision, job, pending, req, ran, crashes>>
Alter == /\ source' \in Schemas
         /\ UNCHANGED <<designs, active, saved, made, orm, file, revision, job, pending, req, ran, crashes>>
Edit == /\ orm' \in Schemas
        /\ UNCHANGED <<databases, file, revision, job, pending, req, ran, crashes>>
Advance == /\ revision < MaxRevision /\ revision' = revision + 1
           /\ UNCHANGED <<databases, orm, file, job, pending, req, ran, crashes>>

(* The host ends: what it held in memory goes. *)
Crash == /\ crashes < MaxCrashes /\ crashes' = crashes + 1
         /\ active' = None /\ pending' = None /\ job' = [at |-> "boot"]
         /\ req' = [n \in Requests |-> IF req[n] = NoRequest THEN NoRequest ELSE Over]
         /\ UNCHANGED <<source, designs, saved, made, orm, file, revision, ran>>

Next == \/ Prepare \/ Boot \/ DumpSource \/ DumpDesign \/ Generate \/ Try \/ Recheck \/ Hold
        \/ Save \/ AskAgain \/ OpenSession \/ StopDatabase \/ Redesign \/ Alter \/ Edit
        \/ Advance \/ Crash
        \/ \E n \in Requests : \/ Decide(n) \/ CompareRevision(n) \/ CompareSchemas(n) \/ Synchronize(n)
                               \/ BackUp(n) \/ RunSql(n) \/ VerifySource(n) \/ Clear(n)
                               \/ Cleared(n)

Spec == Init /\ [][Next]_vars

(***************************************************************************)
(* Properties.                                                             *)
(***************************************************************************)

(* The SQL that is run is the SQL whose digest the user approved, also     *)
(* when the host ended in between and the SQL was generated again.         *)
AppliedIsApproved == \A run \in ran : run.sql = run.shown

(* Before any SQL is run on the source there is a copy of it.              *)
BackupBeforeApply == \A run \in ran : run.backup # None

(* As long as the review holds it and the user can still decide it, a      *)
(* request is on disk, and the end of the host does not lose it, but when  *)
(* an earlier request that is over has just removed the record, and is     *)
(* about to make the review forget the later one, too.                     *)
PendingIsDurable == pending # None /\ InPort(pending) /\ (\A n \in Requests : req[n].at # "cleared")
                    => file # NoRecord /\ file.sql = req[pending].shown /\ file.rev = req[pending].rev

===========================================================================

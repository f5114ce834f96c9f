----------------------------- MODULE Database -----------------------------
(* The workspace's PostgreSQL and its GUI: the port that opens and stops   *)
(* both (database/src/database-execution-port.ts), the cluster             *)
(* (postgresql-cluster.ts), the GUI's launcher (dbgate-launcher.ts) and    *)
(* the supervisor that starts and stops its process and keeps a record of  *)
(* it on disk (platform-macos/src/process-supervisor.ts).                  *)
(*                                                                         *)
(* Every operation goes through one queue (bundle/src/native-postgresql.ts *)
(* execute, serializeGui, DbGateLauncher.serialize), so one runs at a      *)
(* time; it is interleaved with processes that exit, pids that are used    *)
(* again by processes of others, and the end of the host.  The n-th design *)
(* database is made for the n-th GUI process, which works on it.  ps and   *)
(* the signal that follows it are one step.  ps itself runs: the code takes *)
(* a process for gone when ps cannot be started (process-supervisor.ts     *)
(* 194), and then forgets one that may live.                               *)
EXTENDS Naturals, FiniteSets

CONSTANTS Pids,
          MaxDesigns, \* bound: design databases ever made
          MaxCrashes  \* bound: ends of the host

None == 0             \* no process, no database, no record
Foreign == MaxDesigns + 1
Designs == 1..MaxDesigns

VARIABLES os,      \* the process of each pid: None, a GUI process, Foreign
          reserve, \* the reservation on disk
          record,  \* the record on disk: [pid, start] or None
          gui,     \* the launcher's process, and whether it is "running" or "interrupted"
          op,      \* the operation that runs, and what follows the step
          session, \* the port's active design session
          designs, \* the design databases that exist
          made,    \* design databases made so far
          cluster, \* "stopped", "initialized", "running", "interrupted"
          live,    \* whether a postmaster runs
          harmed,  \* history variable: a signal went to a process of others
          crashes
disk == <<reserve, record>>
port == <<session, designs, made>>
postgres == <<cluster, live>>
vars == <<os, disk, gui, op, port, postgres, harmed, crashes>>

NoGui == [state |-> "stopped"]
Idle == [at |-> "idle"]
Child(pid, start) == [pid |-> pid, start |-> start]
NoRecord == Child(None, None)
Alive(pid) == os[pid] # None
Is(child) == os[child.pid] = child.start

Init == /\ os = [pid \in Pids |-> None]
        /\ reserve = FALSE /\ record = NoRecord
        /\ gui = NoGui /\ op = Idle
        /\ session = None /\ designs = {} /\ made = 0
        /\ cluster = "stopped" /\ live = FALSE
        /\ harmed = FALSE /\ crashes = 0

Go(step) == op' = [op EXCEPT !.at = step]
Done == op' = Idle

(***************************************************************************)
(* Opening.                                                                *)
(***************************************************************************)

(* openGui, stop and dispose: the operation is next in the queue. *)
BeginOpen == /\ op = Idle /\ op' = [at |-> "start cluster", then |-> "open"]
             /\ UNCHANGED <<os, disk, gui, port, postgres, harmed, crashes>>
BeginStop == /\ op = Idle /\ op' = [at |-> "stop gui", then |-> "stop"]
             /\ UNCHANGED <<os, disk, gui, port, postgres, harmed, crashes>>

(* PostgresqlCluster.start: a postmaster.pid that this host did not make,  *)
(* or a cleanup that failed, refuses; so does pg_ctl when one runs.  What  *)
(* does not become ready is stopped again, if it can be.                   *)
Startable == \/ cluster = "stopped" /\ ~live
             \/ cluster = "initialized"
StartCluster ==
  /\ op.at = "start cluster"
  /\ \/ cluster = "running" /\ Go("look") /\ UNCHANGED postgres
     \/ cluster \in {"stopped", "interrupted"} /\ Done /\ UNCHANGED postgres
     \/ Startable /\ ~live /\ cluster' = "running" /\ live' = TRUE /\ Go("look")
     \/ Startable /\ cluster' = "initialized" /\ UNCHANGED live /\ Done
     \/ Startable /\ ~live /\ cluster' \in {"initialized", "interrupted"} /\ live' = TRUE /\ Done
  /\ UNCHANGED <<os, disk, gui, port, harmed, crashes>>

(* openGuiProcess: a GUI that runs is shown again; one whose cleanup is    *)
(* incomplete is stopped first; an old session is discarded.               *)
Look == /\ op.at = "look"
        /\ IF gui.state = "running" THEN Done
           ELSE Go(IF gui.state = "interrupted" THEN "stop gui" ELSE "discard")
        /\ UNCHANGED <<os, disk, gui, port, postgres, harmed, crashes>>

(* SchemaDesignSession.open: createdb fails, or the session cannot be      *)
(* persisted and its database is left, or the session is the active one.   *)
CreateDesign ==
  /\ op.at = "create" /\ made < MaxDesigns
  /\ \/ Done /\ UNCHANGED port
     \/ /\ made' = made + 1 /\ designs' = designs \cup {made'}
        /\ \/ session' = made' /\ Go("reserve")
           \/ Done /\ UNCHANGED session
  /\ UNCHANGED <<os, disk, gui, postgres, harmed, crashes>>

(* What follows when the GUI did not start and its launcher holds nothing. *)
Undo == op' = [at |-> "discard", then |-> "undo"]

(* ProcessSupervisor.start: the reservation is exclusive. *)
Reserve == /\ op.at = "reserve"
           /\ IF reserve THEN Undo /\ UNCHANGED disk
              ELSE reserve' = TRUE /\ UNCHANGED record /\ Go("spawn")
           /\ UNCHANGED <<os, gui, port, postgres, harmed, crashes>>

Spawn ==
  /\ op.at = "spawn"
  /\ \/ reserve' = FALSE /\ Undo /\ UNCHANGED os
     \/ \E pid \in Pids : /\ ~Alive(pid) /\ os' = [os EXCEPT ![pid] = session]
                          /\ op' = [at |-> "inspect", then |-> "open", child |-> Child(pid, session)]
                          /\ UNCHANGED reserve
  /\ UNCHANGED <<record, gui, port, postgres, harmed, crashes>>

(* inspect, and the record is written; either can fail. *)
Record ==
  /\ op.at = "inspect"
  /\ \/ Is(op.child) /\ record' = op.child /\ Go("recorded")
     \/ Go("terminate") /\ UNCHANGED record
  /\ UNCHANGED <<os, reserve, gui, port, postgres, harmed, crashes>>

(* The process is handed to the launcher; the write may have failed after  *)
(* the record was there.                                                   *)
HandOver ==
  /\ op.at = "recorded"
  /\ \/ gui' = [state |-> "starting", child |-> op.child] /\ Go("wait")
     \/ Go("terminate") /\ UNCHANGED gui
  /\ UNCHANGED <<os, disk, port, postgres, harmed, crashes>>

(* cleanupChild: the child has exited, or is made to, or stays alive.  The *)
(* record goes when the process is gone, the reservation when both are.    *)
Unreserved(gone) == gone
Terminate ==
  /\ op.at = "terminate"
  /\ \E gone \in BOOLEAN :
       /\ ~Is(op.child) => gone
       /\ os' = IF gone /\ Is(op.child) THEN [os EXCEPT ![op.child.pid] = None] ELSE os
       /\ record' = IF gone /\ record = op.child THEN NoRecord ELSE record
       /\ reserve' = ~Unreserved(gone)
  /\ Undo
  /\ UNCHANGED <<gui, port, postgres, harmed, crashes>>

(* waitForReady: the GUI listens where it should, or the launcher keeps it *)
(* for its cleanup and stops it.  The port stops one that listens when its *)
(* login cannot be granted (authorizeLogin).                               *)
WaitReady ==
  /\ op.at = "wait"
  /\ \/ /\ Is(op.child) /\ gui' = [gui EXCEPT !.state = "running"]
        /\ Done \/ op' = [at |-> "stop gui", then |-> "undo again"]
     \/ gui' = [gui EXCEPT !.state = "interrupted"] /\ op' = [at |-> "stop gui", then |-> "undo"]
  /\ UNCHANGED <<os, disk, port, postgres, harmed, crashes>>

(***************************************************************************)
(* Stopping the GUI: DbGateLauncher.stopProcess, ProcessSupervisor.stop.   *)
(***************************************************************************)

(* A stop that throws ends the operation; after a failed start the port    *)
(* tries once more.                                                        *)
StopFailed == IF op.then = "undo" THEN op' = [at |-> "stop gui", then |-> "undo again"] ELSE Done

Stopped == /\ gui' = NoGui
           /\ op' = [at |-> "discard", then |-> IF op.then = "undo again" THEN "undo" ELSE op.then]
Forget == record' = NoRecord /\ reserve' = FALSE

StopGui ==
  /\ op.at = "stop gui"
  /\ IF gui = NoGui THEN Stopped /\ UNCHANGED <<disk, os>>
     ELSE IF record = NoRecord
     THEN /\ gui' = [gui EXCEPT !.state = "interrupted"] /\ StopFailed /\ UNCHANGED <<disk, os>>
     ELSE IF ~Alive(record.pid) THEN Forget /\ Stopped /\ UNCHANGED os
     ELSE /\ gui' = [gui EXCEPT !.state = "interrupted"] /\ UNCHANGED disk
          /\ IF ~Is(record) THEN StopFailed /\ UNCHANGED os
             ELSE /\ Go("terminating")                           \* SIGTERM
                  /\ os' \in {os, [os EXCEPT ![record.pid] = None]}
  /\ UNCHANGED <<port, postgres, harmed, crashes>>

(* A bug: what lives under the pid after the wait is killed. *)
StillAlive == Alive(record.pid)

(* Before SIGKILL the identity is checked again. *)
StillOurs == Is(record)
Kill ==
  /\ op.at = "terminating"
  /\ IF ~Alive(record.pid) THEN Forget /\ Stopped /\ UNCHANGED <<os, harmed>>
     ELSE IF ~StillOurs THEN StopFailed /\ UNCHANGED <<os, disk, gui, harmed>>
     ELSE /\ harmed' = (os[record.pid] = Foreign)
          /\ \/ os' = [os EXCEPT ![record.pid] = None] /\ Forget /\ Stopped
             \/ StopFailed /\ UNCHANGED <<os, disk, gui>>
  /\ UNCHANGED <<port, postgres, crashes>>

(***************************************************************************)
(* After the GUI: the design session, the cluster.                         *)
(***************************************************************************)

(* discardActiveDesignSession: dropdb may fail, and then all stays. *)
After == CASE op.then = "open" -> Go("create") [] op.then = "stop" -> Go("stop cluster")
           [] OTHER -> Done
Discard ==
  /\ op.at = "discard"
  /\ IF session = None THEN After /\ UNCHANGED port
     ELSE \/ session' = None /\ designs' = designs \ {session} /\ UNCHANGED made /\ After
          \/ Done /\ UNCHANGED port
  /\ UNCHANGED <<os, disk, gui, postgres, harmed, crashes>>

StopCluster ==
  /\ op.at = "stop cluster"
  /\ \/ cluster \in {"running", "interrupted"} /\ live /\ cluster' = "initialized" /\ live' = FALSE
     \/ cluster \in {"running", "interrupted"} /\ cluster' = "interrupted" /\ UNCHANGED live
     \/ cluster \in {"stopped", "initialized"} /\ UNCHANGED postgres
  /\ Done
  /\ UNCHANGED <<os, disk, gui, port, harmed, crashes>>

(***************************************************************************)
(* The rest of the machine.                                                *)
(***************************************************************************)
Exit(pid) == /\ Alive(pid) /\ os' = [os EXCEPT ![pid] = None]
             /\ UNCHANGED <<disk, gui, op, port, postgres, harmed, crashes>>
Take(pid) == /\ ~Alive(pid) /\ os' = [os EXCEPT ![pid] = Foreign]
             /\ UNCHANGED <<disk, gui, op, port, postgres, harmed, crashes>>
PostmasterExits == /\ live /\ live' = FALSE
                   /\ UNCHANGED <<os, disk, gui, op, port, cluster, harmed, crashes>>
(* The host ends without a stop: memory goes; processes and files stay. *)
Crash == /\ crashes < MaxCrashes /\ crashes' = crashes + 1
         /\ gui' = NoGui /\ op' = Idle /\ session' = None /\ cluster' = "stopped"
         /\ UNCHANGED <<os, disk, designs, made, live, harmed>>

Next == \/ BeginOpen \/ BeginStop \/ StartCluster \/ Look \/ CreateDesign \/ Reserve \/ Spawn
        \/ Record \/ HandOver \/ Terminate \/ WaitReady \/ StopGui \/ Kill \/ Discard
        \/ StopCluster \/ PostmasterExits \/ Crash
        \/ \E pid \in Pids : Exit(pid) \/ Take(pid)

Spec == Init /\ [][Next]_vars

(***************************************************************************)
(* Properties.                                                             *)
(***************************************************************************)
Guis == {pid \in Pids : os[pid] \in Designs}

(* No signal goes to a process of others, although the pid on record may   *)
(* have been given to one while the supervisor waited.                     *)
KillsOnlyOwn == ~harmed

(* A GUI process that lives is reserved, so there is never a second one,   *)
(* whatever failed or crashed between its spawn and its end.               *)
LiveIsReserved == (Guis # {} => reserve) /\ Cardinality(Guis) <= 1

(* The database a GUI works on exists as long as the launcher knows of the *)
(* GUI and it lives (database-execution-port.ts 160).                      *)
KnownGuiKeepsDesign == gui # NoGui /\ Is(gui.child) => gui.child.start \in designs

===========================================================================

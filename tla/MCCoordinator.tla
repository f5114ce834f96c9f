--------------------------- MODULE MCCoordinator ---------------------------
(***************************************************************************)
(* Small instances of TeamCoordinator.  Family: e1 and e2 dispatch one     *)
(* task, e3 another, and the worker of e1 has paths inside its expert's    *)
(* and over those of the other task.  Beside it, what Delegation says of   *)
(* tasks and their results, in behaviors of their own: the two share no    *)
(* state, TeamCoordinator abstracts from what a task may do.               *)
(***************************************************************************)
EXTENDS TeamCoordinator, TLC

CONSTANTS Parts,                        \* of "dispatch" and "delegation"
          e1, e2, e3, w1, t1, t2, u1,   \* dispatch
          Leads, Helpers, Roles, Requests, Scopes,  \* delegation
          Versions, MaxChildren, MaxProposals, MaxChanges

\* A task has one kind: the name of an expert's is not that of a worker's.
ASSUME LeadsAreNotHelpers == Leads \cap Helpers = {}

VARIABLES part,
          phase, version, proposed, asked, started, used, results, changes

ThreeExperts == {e1, e2, e3}
OneWorker    == {w1}

FamilyTasks == e1 :> t1 @@ e2 :> t1 @@ e3 :> t2 @@ w1 :> u1
OfFirst  == w1 :> e1
WorkerClashes == {{t1, u1}, {t2, u1}}

\* Experts that may delegate to workers, and their paths.
G == INSTANCE Delegation WITH Experts <- Leads, Workers <- Helpers,
       tasks <- started, handoffs <- results

delegation == <<phase, version, proposed, asked, started, used, results, changes>>

\* The dispatches not in play stay as they start; the variables of Delegation
\* not in play are 0.
TeamInit ==
  /\ part \in Parts
  /\ Init
  /\ IF part = "delegation" THEN G!Init
     ELSE phase = 0 /\ version = 0 /\ proposed = 0 /\ asked = 0 /\ started = 0 /\ used = 0
          /\ results = 0 /\ changes = 0

TeamNext ==
  /\ UNCHANGED part
  /\ \/ part = "dispatch" /\ Next /\ UNCHANGED delegation
     \/ part = "delegation" /\ G!Next /\ UNCHANGED vars

Interchangeable == Permutations(Versions)

TeamSpec == TeamInit /\ [][TeamNext]_<<part, vars, delegation>>

\* What is accepted of an expert is of one piece: delegation-guard.ts,
\* handoff-service.ts.
AcceptedTreeIsWhole == part = "delegation" => G!AcceptedTreeIsWhole
=============================================================================

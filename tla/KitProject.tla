----------------------------- MODULE KitProject -----------------------------
(* Spec Kit is initialised in the workspace (spec-workflow/src,            *)
(* spec-kit-adapter.ts and spec-kit-project.ts; policy-engine/src,         *)
(* install-session.ts): `specify init --force` overwrites two directories, *)
(* so a plan says what they held when it was approved, and what the tool   *)
(* was.  A look reads one tree after the other while others edit them;     *)
(* several processes may be at it, and die.                                *)
EXTENDS Naturals, Sequences, FiniteSets

CONSTANTS Procs, NoPlan,
          MaxTokens,  \* bound: tokens that are not used
          MaxEdited   \* bound: trees that are as an edit left them

VARIABLES tree,      \* what each of the trees holds
          plan,      \* the plan each process prepares: the trees it has seen
          approvals, \* the approved plans whose token is not used
          at,        \* where each process is: a look or another place, and its next tree
          late,      \* history variable: the trees changed since the session of each
                     \* process looks for the command it is to run
          met        \* history variable: the other trees that the last command has not
                     \* met as its plan says
kit == <<tree, plan, approvals, at, late, met>>

Overwritten == {"specify", "commands"}
Trees == Overwritten \cup {"tool"}
Unseen == [t \in Trees |-> "unseen"]

\* The tool is installed (see Installation); the directories may not be there,
\* which a plan says as it says what else they hold.
KitInit ==
  /\ tree = [t \in Trees |-> "first"]
  /\ plan = [p \in Procs |-> NoPlan]
  /\ approvals = {}
  /\ at = [p \in Procs |-> <<"idle", 1>>]
  /\ late = [p \in Procs |-> {}]
  /\ met = {}

In(p, place) == at[p][1] = place
Go(p, place) == at' = [at EXCEPT ![p] = <<place, 1>>]
Change(trees, content) ==
  /\ tree' = [t \in Trees |-> IF t \in trees THEN content ELSE tree[t]]
  /\ late' = [p \in Procs |-> IF at[p][1] \in {"command", "run"} THEN late[p] \cup trees
                              ELSE {}]

\* The looks, and the trees each one reads: assertInstalledSpecKitEvidence and
\* snapshotBeforeForce; assertCurrentManagedPreconditions and assertCurrentRuntimeClosure.
Order(look) == CASE look \in {"prepare", "callback"} -> <<"tool", "specify", "commands">>
                 [] look \in {"session", "command"} -> <<"commands", "specify", "tool">>
                 [] look = "after" -> <<"tool">>

\* Where a look that finds nothing wrong leads to.
After(look) == CASE look = "prepare" -> "prepared" [] look = "session" -> "consume"
                 [] look = "callback" -> "ask" [] look = "command" -> "run"
                 [] look = "after" -> "verify"

MoveOn(p) == IF at[p][2] = Len(Order(at[p][1])) THEN Go(p, After(at[p][1]))
             ELSE at' = [at EXCEPT ![p] = <<@[1], @[2] + 1>>]

\* prepareInitialization
Prepare(p) ==
  /\ at[p][1] \in {"idle", "prepared", "initialized"} /\ Go(p, "prepare")
  /\ plan' = [plan EXCEPT ![p] = Unseen]
  /\ UNCHANGED <<tree, approvals, late, met>>

\* A tree that is not what the plan says ends the call; the tool's evidence is
\* what its provenance says, and a tree may be refused for what is in it.
Look(p) ==
  /\ at[p][1] \in {"prepare", "session", "callback", "command", "after"}
  /\ LET t == Order(at[p][1])[at[p][2]]
         known == ~In(p, "prepare") IN
     \/ Go(p, IF known THEN "prepared" ELSE "idle") /\ UNCHANGED plan
     \/ /\ t = "tool" => tree[t] = "first"
        /\ known => tree[t] = plan[p][t]
        /\ plan' = [plan EXCEPT ![p][t] = tree[t]]
        /\ MoveOn(p)
  /\ UNCHANGED <<tree, approvals, late, met>>

\* The user sees the plan of a process, whose digest a token is issued for.
Approve(p) ==
  /\ In(p, "prepared") /\ Cardinality(approvals) < MaxTokens
  /\ approvals' = approvals \cup {plan[p]}
  /\ UNCHANGED <<tree, plan, at, late, met>>

\* initialize, and execute: the plan is looked at, and its token is used.
Initialize(p) ==
  /\ In(p, "prepared") /\ Go(p, "session")
  /\ UNCHANGED <<tree, plan, approvals, late, met>>
Consume(p) ==
  /\ In(p, "consume")
  /\ Go(p, IF plan[p] \in approvals THEN "callback" ELSE "prepared")
  /\ approvals' = approvals \ {plan[p]}
  /\ UNCHANGED <<tree, plan, late, met>>

\* A bug: the session does not look again when the command is asked for.
AskUnchecked(p) ==
  /\ In(p, "ask") /\ Go(p, "run") /\ late' = [late EXCEPT ![p] = {}]
  /\ UNCHANGED <<tree, plan, approvals, met>>

\* executeApprovedInstallCommand: the session looks once more.
AskCommand(p) ==
  /\ In(p, "ask") /\ Go(p, "command") /\ late' = [late EXCEPT ![p] = {}]
  /\ UNCHANGED <<tree, plan, approvals, met>>

\* The command writes both directories, may fail or die on the way, and is
\* followed by another look at the tool.
Run(p) ==
  /\ \/ /\ In(p, "run") /\ Go(p, "running") /\ Change(Overwritten, "half")
        /\ met' = {t \in Trees : tree[t] # plan[p][t]} \ late[p]
     \/ In(p, "running") /\ Go(p, "after") /\ Change(Overwritten, "generic") /\ UNCHANGED met
     \/ In(p, "running") /\ Go(p, "prepared") /\ UNCHANGED <<tree, late, met>>
  /\ UNCHANGED <<plan, approvals>>

\* requireInitializedGeneric
Verify(p) ==
  /\ In(p, "verify")
  /\ Go(p, IF \A t \in Overwritten : tree[t] = "generic" THEN "initialized" ELSE "prepared")
  /\ UNCHANGED <<tree, plan, approvals, late, met>>

\* The prepared plans are gone with the process, the tokens are not.
Die(p) == /\ ~In(p, "dead") /\ Go(p, "dead") /\ plan' = [plan EXCEPT ![p] = NoPlan]
          /\ UNCHANGED <<tree, approvals, late, met>>

Edit == /\ \E t \in Trees : tree[t] # "edited" /\ Change({t}, "edited")
        /\ Cardinality({t \in Trees : tree[t] = "edited"}) < MaxEdited
        /\ UNCHANGED <<plan, approvals, at, met>>

KitNext == \/ \E p \in Procs : \/ Prepare(p) \/ Look(p) \/ Approve(p) \/ Initialize(p)
                               \/ Consume(p) \/ AskCommand(p) \/ Run(p) \/ Verify(p) \/ Die(p)
           \/ Edit

KitSpec == KitInit /\ [][KitNext]_kit
---------------------------------------------------------------------------
\* What `specify init --force` overwrites, and the tool that does it, are what
\* the approved plan says, unless they have changed while the session was
\* already looking for this command: no edit before that, and no other
\* initialisation, is overwritten unseen (SpecKitAdapter, executeApprovedInstallCommand).
InitMeetsPlan == met = {}
===========================================================================

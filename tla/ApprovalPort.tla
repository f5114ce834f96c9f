---------------------------- MODULE ApprovalPort ----------------------------
(* The port through which an approval request reaches the user.  A request   *)
(* is pending until the user decides it, then settling until the service     *)
(* that asked has acted on the decision; whoever decided waits for that      *)
(* settlement.  One request per gate can be outstanding, since the           *)
(* composition keeps one flight per gate; ids are therefore left out.        *)
(* Source: packages/core/src/control-mediated-approval-port.ts               *)
EXTENDS Naturals

---------------------------------------------------------------------------
(* The pure part of the document workflow: the phases of a task and their    *)
(* order, the two approval gates, which documents a gate covers, and what a  *)
(* changed document invalidates.  A document is abstracted to its content,   *)
(* which stands for its SHA-256; contracts, headings and wording are left    *)
(* out.  Docs with phase "other" are the files phaseForArtifactPath does not *)
(* know: both gates cover them.                                              *)
(* Source: packages/core/src/{state-machine,artifact-invalidation,           *)
(* approval-service}.ts                                                      *)
CONSTANTS
    Docs,       \* the documents of the active feature
    DocPhase,   \* phaseForArtifactPath: the phase that owns a document
    Contents,   \* what a document can contain, as told apart by its hash
    Missing     \* the approval that has not been given

ASSUME DocsAssumption ==
    /\ DocPhase \in [Docs -> {"SPECIFY", "DESIGN", "PLAN", "other"}]
    /\ Missing \notin UNION {[D -> Contents] : D \in SUBSET Docs}

PhaseOrder == << "DISCOVER", "SPECIFY", "AWAIT_REQUIREMENTS_APPROVAL", "DESIGN",
                 "AWAIT_DESIGN_APPROVAL", "PLAN", "BUILD", "VERIFY", "DELIVER" >>

Phases == {PhaseOrder[i] : i \in 1 .. 9}
Rank(p) == CHOOSE i \in 1 .. 9 : PhaseOrder[i] = p

Gates == {"requirements", "design"}

Awaiting(g) == IF g = "requirements" THEN "AWAIT_REQUIREMENTS_APPROVAL"
                                     ELSE "AWAIT_DESIGN_APPROVAL"
After(g)    == IF g = "requirements" THEN "DESIGN" ELSE "PLAN"

Scope(g) == {d \in Docs : DocPhase[d] \in
               {"SPECIFY", "other"} \cup (IF g = "design" THEN {"DESIGN"} ELSE {})}

Snapshots == UNION {[Scope(g) -> Contents] : g \in Gates}

(* The part of a snapshot of all documents that gate g approves. *)
Scoped(g, f) == [d \in Scope(g) |-> f[d]]

(* A change to a document of phase p: back to p unless the task is not past  *)
(* it yet, without the approvals that covered the document.                  *)
Invalidated(s, p) ==
    [s EXCEPT !.phase = IF Rank(s.phase) > Rank(p) THEN p ELSE s.phase,
              !.approvals = [g \in Gates |->
                 IF p = "SPECIFY" \/ (p = "DESIGN" /\ g = "design")
                 THEN Missing ELSE s.approvals[g]]]
---------------------------------------------------------------------------
CONSTANT MaxRevision        \* bound on the revisions of the task's state

ASSUME BoundAssumption == MaxRevision \in Nat

VARIABLES
    entry,      \* gate -> its request: free, pending or decided
    closed      \* the port accepts no more requests

portVars == <<entry, closed>>

Revisions == 0 .. MaxRevision
Free == [status |-> "free", rev |-> 0, hashes |-> Missing, effect |-> "none"]

Requests == [status : {"free", "pending", "decided"}, rev : Revisions,
             hashes : Snapshots \cup {Missing}, effect : {"none", "approve", "reject"}]

PortTypeOK == entry \in [Gates -> Requests] /\ closed \in BOOLEAN

PortInit == entry = [g \in Gates |-> Free]
            /\ closed = FALSE

Pending(g) == entry[g].status = "pending"

(* requestApproval followed at once by waitForSettlement. *)
Asked(g, r, h) ==
    /\ ~closed /\ entry[g].status = "free"
    /\ entry' = [entry EXCEPT
                   ![g] = [status |-> "pending", rev |-> r, hashes |-> h, effect |-> "none"]]
    /\ UNCHANGED closed

(* decide: only a pending request, only at the revision it was made at. *)
Decided(g, effect, r) ==
    /\ Pending(g) /\ entry[g].rev = r
    /\ entry' = [entry EXCEPT ![g].status = "decided", ![g].effect = effect]
    /\ UNCHANGED closed

(* completeSettlement and failSettlement: nothing is left to do for a        *)
(* request that was settled before.  Which of the two it was shows in how    *)
(* the flight goes on.                                                       *)
Settled(g) == entry' = [entry EXCEPT ![g] = Free] /\ UNCHANGED closed

\* A bug: undecided requests are left open.
PortClosedOnly == closed' = TRUE /\ UNCHANGED entry

(* closeAndDrain: undecided requests are rejected, decided ones are left to  *)
(* the flights that act on them.                                             *)
PortClosed ==
    /\ closed' = TRUE
    /\ entry' = [g \in Gates |-> IF Pending(g) THEN Free ELSE entry[g]]
=============================================================================

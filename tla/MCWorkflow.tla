----------------------------- MODULE MCWorkflow -----------------------------
(* One requirements document and one design document with two contents each. *)
(* A task passes eight revisions before it is delivered; so that a run sees  *)
(* every phase with few revisions, it starts a new task and also tasks that  *)
(* an earlier host saved in the phases of SavedIn, whose approvals cover the *)
(* saved documents; revisions are counted from the saved one.                *)
EXTENDS Workflow

CONSTANTS spec, plan, SavedIn

MCDocs == {spec, plan}
MCDocPhase == [d \in MCDocs |-> IF d = spec THEN "SPECIFY" ELSE "DESIGN"]

Saved(p) ==
    [phase |-> p, rev |-> 0, error |-> FALSE, change |-> "none", verdict |-> "none",
     approvals |-> [g \in Gates |-> IF Rank(p) > Rank(Awaiting(g)) THEN Scoped(g, files)
                                                                   ELSE Missing]]

InitSaved ==
    /\ PortInit
    /\ files \in [Docs -> Contents]
    /\ st \in {Saved(p) : p \in SavedIn}
    /\ flight = [g \in Gates |-> NoFlight]
    /\ op = NoOp /\ cmd = NoCmd /\ seen = Unseen /\ life = "none" /\ up = "down"

MCSpec == (Init \/ InitSaved) /\ [][Next]_vars
MCFairSpec == MCSpec /\ Fairness
=============================================================================

----------------------------- MODULE MCScheduler ----------------------------
(***************************************************************************)
(* A small instance of TaskScheduler: an expert with a writing and a       *)
(* reading worker, and an expert that writes below the first one's scope,  *)
(* and so has to wait for it.                                              *)
(***************************************************************************)
EXTENDS TaskScheduler, TLC

CONSTANTS e1, e2, w1, w2

MCExperts == {e1, e2}
MCWorkers == {w1, w2}
MCParent  == w1 :> e1 @@ w2 :> e1
MCWrites  == e1 :> {<<"src">>} @@ e2 :> {<<"src", "a">>}
          @@ w1 :> {<<"src", "a">>} @@ w2 :> {}
All       == Family

MCDims == {"wallMs", "children"}
Amount(w, c) == [d \in MCDims |-> IF d = "wallMs" THEN w ELSE c]

\* e1 can afford both workers' time; one usage is above a worker's budget.
MCCeiling  == [t \in Family |-> IF t \in Workers THEN Amount(1, 1) ELSE Amount(2, 2)]
MCUsages   == {Amount(1, 1), Amount(2, 0)}
NormalOnly == {"normal"}

\* Slots are neither overrun, leaked nor left idle while a queued task could
\* start, agents live in slots of their own, and a child is charged to its
\* parent once: canStart, release, drain and run.
SlotsAreKept == Caps /\ SettledHoldsNothing /\ NoIdleSlot /\ AgentsInSlots /\ ChildrenCountedOnce
============================================================================

------------------------------- MODULE MCFeed -------------------------------
(***************************************************************************)
(* Small instances of ControlSurface: two processes over one log, the      *)
(* first with two transactions and the view, the second with an agent.     *)
(***************************************************************************)
EXTENDS ControlSurface, TLC

CONSTANTS h1, h2, c1, c2, a1

TwoHosts == {h1, h2}
FirstHost == {h1}
TwoCalls == {c1, c2}
OneAgent == {a1}

AgentApart == c1 :> h1 @@ c2 :> h1 @@ a1 :> h2
TwoChanges == c1 :> 2 @@ c2 :> 1
=============================================================================

------------------------------ MODULE MCEdges ------------------------------
(* What the team shares with others, for TLC: the budget ledger's file     *)
(* between processes, the runtimes and tools in the workspace between      *)
(* installers, and the review between the user's panel and chat.  They     *)
(* share no state beyond what each models itself, so a behavior is of one  *)
(* part.                                                                   *)
EXTENDS DurableBudgetLedger, TLC

CONSTANTS Parts,                                          \* of those below
          p1, p2, parent1, c1, c2, c3, MaxConsumed, MaxIds,  \* budget
          Hashes, NoHash, MaxRevision, MaxRequests, MaxClients, MaxCalls,  \* review
          NoTree, NoReceipt, NoPlan, MaxTokens, MaxEdited, MaxFaults                 \* installers

VARIABLES part,
          served, wanted, decided,                                 \* review
          shown, clients, screen, fetching, op, viewed, crossed,   \* panel
          current, content, calls, previewed, entry, load, read, confirmed,  \* chat
          root, at, seen, began,                                   \* Node runtime
          manifest, packages, plugin, spare, left, found, faults,  \* GUI plugin
          tree, plan, approvals, late, met                         \* Spec Kit

MCProcs    == {p1, p2}
MCParents  == {parent1}
MCChildren == {c1, c2, c3}
MCIds      == 1..MaxIds
MCDims     == {"tokens", "children"}

Amount(t, c) == [d \in MCDims |-> IF d = "tokens" THEN t ELSE c]
MCBudgets == {Amount(3, 2), Amount(1, 1)}
MCUsages  == {Amount(1, 0), Amount(2, 1)}

(* Two of each: chats and processes. *)
P == INSTANCE Panel WITH Sessions <- Procs, asked <- wanted, read <- fetching, seen <- viewed
C == INSTANCE Conversation WITH Sessions <- Procs, asked <- wanted
N == INSTANCE NodeRuntime
D == INSTANCE DbGateInstall
K == INSTANCE KitProject

(* What is not there differs from what is there. *)
ASSUME NoTreeIsNoTree == NoTree \notin N!Trees \cup {"whole"}
ASSUME NoHashIsNoHash == NoHash \notin Hashes

review == <<served, wanted, decided>>
panel == <<shown, clients, screen, fetching, op, viewed, crossed>>
chat == <<current, content, calls, previewed, entry, load, read, confirmed>>
place == <<at, seen>>
node == <<root, began>>
gui == <<manifest, packages, plugin, spare, left, found, faults>>
kit == <<tree, plan, approvals, late, met>>
edges == <<part, vars, review, panel, chat, place, node, gui, kit>>

(* The ledger's file not in play stays as it starts; the other parts not in *)
(* play have no state: their variables are 0.                               *)
EdgesInit ==
  /\ part \in Parts
  /\ Init
  /\ part \notin {"panel", "chat"} => served = 0 /\ wanted = 0 /\ decided = 0
  /\ IF part = "panel" THEN P!PanelInit
     ELSE shown = 0 /\ clients = 0 /\ screen = 0 /\ fetching = 0 /\ op = 0 /\ viewed = 0
          /\ crossed = FALSE
  /\ IF part = "chat" THEN C!Init
     ELSE current = 0 /\ content = 0 /\ calls = 0 /\ previewed = 0 /\ entry = 0 /\ load = 0
          /\ read = 0 /\ confirmed = 0
  /\ part \notin {"node", "gui"} => seen = 0
  /\ part \notin {"node", "gui", "kit"} => at = 0
  /\ IF part = "node" THEN N!NodeInit ELSE root = 0 /\ began = 0
  /\ IF part = "gui" THEN D!DbGateInit
     ELSE manifest = 0 /\ packages = 0 /\ plugin = 0 /\ spare = 0 /\ left = 0 /\ found = 0
          /\ faults = 0
  /\ IF part = "kit" THEN K!KitInit
     ELSE tree = 0 /\ plan = 0 /\ approvals = 0 /\ late = 0 /\ met = 0

EdgesNext ==
  /\ UNCHANGED part
  /\ \/ part = "budget" /\ Next
        /\ UNCHANGED <<review, panel, chat, place, node, gui, kit>>
     \/ part = "panel" /\ P!Next /\ UNCHANGED <<vars, chat, place, node, gui, kit>>
     \/ part = "chat" /\ C!Next /\ UNCHANGED <<vars, panel, place, node, gui, kit>>
     \/ part = "node" /\ N!NodeNext
        /\ UNCHANGED <<vars, review, panel, chat, gui, kit>>
     \/ part = "gui" /\ D!DbGateNext
        /\ UNCHANGED <<vars, review, panel, chat, node, kit>>
     \/ part = "kit" /\ K!KitNext /\ seen' = seen
        /\ UNCHANGED <<vars, review, panel, chat, node, gui>>

EdgesSpec == EdgesInit /\ [][EdgesNext]_edges

(* Consumption is followed up to MaxConsumed, and the panel until the chat *)
(* is changed under a command (see Panel).                                 *)
Bounded == /\ \A p \in Known : file[p].consumed["tokens"] <= MaxConsumed
           /\ ~crossed

Symmetry == Permutations(MCProcs) \cup Permutations(Hashes)

(* What the panel approves was on screen: control-client.ts                *)
(* assertApproval, client-overlay.ts.                                      *)
ApprovedWasSeen == part = "panel" => P!ApprovedWasSeen

(* "this client prevents stale or unseen approval decisions": not so when  *)
(* the chat is changed under a command (see Panel).                        *)
NoUnseenApproval == part = "panel" => P!NoUnseenApproval

(* What the chat's tool approves was read, confirmed and complete:         *)
(* conversation tool execute.                                              *)
ChatApprovalIsReviewed == part = "chat" => C!ChatApprovalIsReviewed

(* A Node runtime that is given has held what was approved, and nobody     *)
(* else's failure removes one that is published:                           *)
(* policy-owned-artifact-adapter.ts; an install of the GUI that fails or   *)
(* dies keeps the plugin: dbgate-installer.ts replaceOwnedDirectory.       *)
RuntimesAreKept == /\ part = "node" => N!RuntimesAreKept
                   /\ part = "gui" => D!PluginKept

(* What `specify init --force` overwrites is what was approved:            *)
(* spec-kit-adapter.ts, install-session.ts.                                *)
InitMeetsPlan == part = "kit" => K!InitMeetsPlan
============================================================================

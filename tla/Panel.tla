------------------------------- MODULE Panel -------------------------------
(***************************************************************************)
(* The team's panel in the browser (packages/web/src/client-overlay.ts,    *)
(* control-client.ts, panel-model.ts).  The component lives on while the   *)
(* user changes between chats.  It makes a client per chat, which keeps    *)
(* the last state it accepted and whether its approval was looked at; it   *)
(* polls, one read at a time, and dispatches one command at a time.        *)
(*                                                                         *)
(* Answers arrive when they like: after the chat was changed, or after a   *)
(* newer one.  An update of the component, its rendering and the effects   *)
(* of that are one step.                                                   *)
(***************************************************************************)
EXTENDS ReviewService, Integers, Sequences

CONSTANT MaxClients     \* bound on the clients made, one per chat entered

VARIABLES shown,    \* the chat on screen
          clients,  \* the clients made so far: [session, state, viewed]
          screen,   \* [client (0: none), model, preview, online]
          read,     \* the read under way: [client (0: to connect), got]; one
                    \* for a page that was left touches nothing on screen
          op,       \* the command under way
          seen,     \* the approvals whose preview was on screen
          crossed   \* the chat was changed while a command was under way

page == <<shown, clients, screen, read, op, seen, crossed>>
panel == <<service, page>>

NoState == [revision |-> 0, id |-> 0, hash |-> "unread"]
NoOp == [at |-> "none"]
Blank == [client |-> 0, model |-> NoState, preview |-> NoHash, online |-> TRUE]
Asking(client) == [client |-> client, got |-> NoState]
NoRead == [client |-> -1, got |-> NoState]

PanelInit ==
  /\ ServiceInit
  /\ shown \in Sessions /\ clients = <<>> /\ screen = Blank
  /\ read = Asking(0) /\ op = NoOp /\ seen = {} /\ crossed = FALSE

----------------------------------------------------------------------------
(* The client *)

\* A bug: the next revision of the same content counts as looked at.
KeyUnversioned(state) == <<state.id, state.hash>>

\* What was looked at is one request, at one revision.
Key(state) == <<state.id, state.hash, state.revision>>

Accepts(c, state) == state.revision >= c.state.revision

\* acceptSnapshot, setState
Accepted(c, state) ==
  [c EXCEPT !.state = state, !.viewed = @ /\ Key(state) = Key(c.state)]

Inspected(c) == c.state.id # 0 /\ c.viewed

----------------------------------------------------------------------------
(* The component *)

ApprovalKey(scr, cs) ==
  IF scr.model.id = 0 \/ scr.client = 0 THEN <<>>
  ELSE <<cs[scr.client].session, Key(scr.model)>>

\* The effects of showing new after old: a preview that came in for the
\* approval on screen marks the client's as viewed; a preview goes when
\* the approval on screen is another one.
Inspects(old, new, cs) ==
  /\ new.preview # NoHash /\ new.client # 0 /\ new.model.hash = new.preview
  /\ <<new.preview, new.client, new.model.hash>> # <<old.preview, old.client, old.model.hash>>
  /\ cs[new.client].state.id # 0

Show(new, cs) ==
  LET marks == Inspects(screen, new, cs)
      final == IF marks THEN [new EXCEPT !.model = cs[new.client].state] ELSE new
      keys  == {ApprovalKey(screen, clients), ApprovalKey(new, cs), ApprovalKey(final, cs)}
  IN /\ clients' = IF marks THEN [cs EXCEPT ![new.client].viewed = TRUE] ELSE cs
     /\ screen' = IF \A k, l \in keys : k = l THEN final ELSE [final EXCEPT !.preview = NoHash]
     /\ seen' = IF new.preview # NoHash /\ new.model.hash = new.preview
                THEN seen \cup {Key(new.model)} ELSE seen

\* The user enters another chat: everything on screen goes.
Switch(s) ==
  /\ s # shown /\ Len(clients) < MaxClients
  /\ shown' = s /\ screen' = Blank /\ read' = Asking(0)
  /\ crossed' = (crossed \/ op.at # "none")
  /\ UNCHANGED <<service, clients, op, seen>>

Poll ==
  /\ screen.client # 0 /\ read = NoRead
  /\ read' = Asking(screen.client)
  /\ UNCHANGED <<service, shown, clients, screen, op, seen, crossed>>

Serve ==
  /\ read # NoRead /\ read.got = NoState
  /\ read' = [read EXCEPT !.got = State(shown)]
  /\ UNCHANGED <<service, shown, clients, screen, op, seen, crossed>>

\* The first state of a chat makes its client.
Connect ==
  /\ read.client = 0 /\ read.got # NoState /\ read' = NoRead
  /\ LET cs == Append(clients, [session |-> shown, state |-> read.got, viewed |-> FALSE])
     IN Show([screen EXCEPT !.client = Len(cs), !.model = read.got, !.online = TRUE], cs)
  /\ UNCHANGED <<service, shown, op, crossed>>

\* A poll's answer; one that is older than what the client has is refused.
Refresh ==
  /\ read.client > 0 /\ read.got # NoState /\ read' = NoRead
  /\ IF Accepts(clients[read.client], read.got)
     THEN Show([screen EXCEPT !.model = read.got, !.online = TRUE],
               [clients EXCEPT ![read.client] = Accepted(@, read.got)])
     ELSE screen' = [screen EXCEPT !.online = FALSE] /\ UNCHANGED <<clients, seen>>
  /\ UNCHANGED <<service, shown, op, crossed>>

\* A poll fails; nothing can be clicked until one succeeds.  Connecting is
\* tried again until it does.
Fail ==
  /\ read.client > 0 /\ read.got = NoState /\ read' = NoRead
  /\ screen' = [screen EXCEPT !.online = FALSE]
  /\ UNCHANGED <<service, shown, clients, op, seen, crossed>>

\* A button of what is on screen; the client refuses what is not about the
\* state it has, and a decision on what was not looked at.
Click(kind) ==
  LET c == clients[screen.client]
      m == screen.model
  IN /\ screen.client # 0 /\ op.at = "none" /\ screen.online
     /\ m.revision = c.state.revision
     /\ kind # "clarify" => m.id # 0 /\ m.hash = c.state.hash
     /\ kind = "decide" => m.id = c.state.id /\ Inspected(c)
     /\ op' = [at |-> "sent", kind |-> kind, client |-> screen.client,
               id |-> m.id, hash |-> m.hash, revision |-> m.revision, got |-> NoState]
     /\ UNCHANGED <<service, shown, clients, screen, read, seen, crossed>>

Command(s) ==
  CASE op.kind = "open" -> Previewable(s, op) /\ UNCHANGED service
    [] op.kind = "decide" -> Approve(s, op, "panel") \/ Refuse(s, op)
    [] op.kind = "clarify" -> Clarify(s, op)

Run ==
  /\ op.at = "sent" /\ Command(clients[op.client].session)
  /\ op' = [op EXCEPT !.at = "done"]
  /\ UNCHANGED <<shown, clients, screen, read, seen, crossed>>

\* Its answer is here: the command's client reads the state again.
Reads ==
  /\ op.at = "done"
  /\ op' = [op EXCEPT !.at = "read", !.got = State(clients[op.client].session)]
  /\ UNCHANGED <<service, shown, clients, screen, read, seen, crossed>>

\* A command that fails says so, and a preview goes with it: it is refused,
\* or it was done and its answer is lost, or the state cannot be read again,
\* or what was read is older than what a poll has brought by now.
Refused ==
  /\ op.at # "none" /\ op' = NoOp
  /\ op.at = "read" => ~Accepts(clients[op.client], op.got)
  /\ screen' = IF op.kind = "open" THEN [screen EXCEPT !.preview = NoHash] ELSE screen
  /\ UNCHANGED <<service, shown, clients, read, seen, crossed>>

\* The state read is the client's and is shown, whoever is on screen by now,
\* with the preview the command asked for.
Shows ==
  /\ op.at = "read" /\ Accepts(clients[op.client], op.got) /\ op' = NoOp
  /\ Show([screen EXCEPT !.model = op.got,
                         !.preview = IF op.kind = "open" THEN op.hash ELSE @],
          [clients EXCEPT ![op.client] = Accepted(@, op.got)])
  /\ UNCHANGED <<service, shown, read, crossed>>

Next ==
  \/ \E s \in Sessions : (Working(s) /\ UNCHANGED page) \/ Switch(s)
  \/ Poll \/ Serve \/ Connect \/ Refresh \/ Fail
  \/ Run \/ Reads \/ Refused \/ Shows
  \/ \E kind \in {"open", "decide", "clarify"} : Click(kind)

Spec == PanelInit /\ [][Next]_panel

----------------------------------------------------------------------------
(* Properties *)

\* An approval that is granted from the panel was on screen: its preview, at
\* the revision it is granted for -- as long as no chat is changed while a
\* command is under way (assertApproval, inspectApproval, setState).
ApprovedWasSeen ==
  crossed \/ \A d \in decided : d.by = "panel" => <<d.id, d.hash, d.revision>> \in seen

\* "this client prevents stale or unseen approval decisions from being sent
\* accidentally" (control-client.ts): also when chats are changed.
NoUnseenApproval ==
  \A d \in decided : d.by = "panel" => <<d.id, d.hash, d.revision>> \in seen
=============================================================================

---------------------------- MODULE Conversation ----------------------------
(***************************************************************************)
(* The team's tool of a chat (packages/bundle/src/                         *)
(* conversation-workflow-tool.ts, workflow-questions.ts) and the card and  *)
(* document view in which the user answers it (packages/web/src/           *)
(* review-session.ts, task-review-card.ts, task-resource-panel.ts).  The   *)
(* model calls the tool, several calls may be under way; each reads the    *)
(* state first, may put a question to the user, reads the state again and  *)
(* dispatches.  Meanwhile the team works on, the panel decides, the user   *)
(* moves the chat to another task.                                         *)
(*                                                                         *)
(* Sessions are here the tasks, one of which is the chat's.  A call that   *)
(* is aborted after it dispatched only stops waiting.                      *)
(***************************************************************************)
EXTENDS ReviewService, Sequences

CONSTANT MaxCalls       \* bound on the calls of the tool

VARIABLES current,   \* the chat's task
          content,   \* what the documents are: "plain", with open "questions",
                     \* or a "migration"
          calls,     \* the calls so far, and what each is about
          previewed, \* what the chat read last, with its open questions
          entry,     \* the review on screen: [call (0: none), inspected]
          load,      \* its document view's read: [call, at, about]
          read,      \* all that the chat, and the user, have read
          confirmed  \* all that the user confirmed

chat == <<current, content, calls, previewed, entry, load, read, confirmed>>
conversation == <<service, chat>>

Nothing == [task |-> "none", id |-> 0, hash |-> NoHash, revision |-> 0]
NoEntry == [call |-> 0, inspected |-> NoHash]
NoLoad == [call |-> 0, at |-> "state", about |-> Nothing]

Init ==
  /\ ServiceInit
  /\ current \in Sessions
  /\ content \in [Hashes -> {"plain", "questions", "migration"}]
  /\ calls = <<>> /\ previewed = Nothing /\ entry = NoEntry /\ load = NoLoad
  /\ read = {} /\ confirmed = {}

\* getState, of the chat's task of now.
About(task) == [task |-> task, id |-> served[task].id, hash |-> served[task].hash,
                revision |-> served[task].revision]
Now == About(current)

\* What the documents of the request are; none are there without a request.
Kind(hash) == IF hash = NoHash THEN "plain" ELSE content[hash]

Over == [kind |-> "none", at |-> "done", about |-> Nothing, answer |-> "none"]
Ends(c) == calls' = [calls EXCEPT ![c] = Over]

----------------------------------------------------------------------------
(* The calls *)

\* A bug: it is enough that the chat read some version.
ReadOnce(state) == previewed # Nothing

\* previews.get(id) === identity
ReadNow(state) == previewed = state

\* What the user is asked: what the document leaves open, or for a decision
\* on the whole; a migration is confirmed in the host's own dialog.
Question(state) ==
  CASE Kind(state.hash) = "migration" -> "host"
    [] Kind(previewed.hash) = "questions" -> "answers"
    [] OTHER -> "review"

Call(kind) ==
  /\ Len(calls) < MaxCalls
  /\ LET begin(at) == calls' = Append(calls, [kind |-> kind, at |-> at, about |-> Now, answer |-> "none"])
     IN CASE kind \in {"approve", "reject"} -> Now.id # 0 /\ ReadNow(Now) /\ begin(Question(Now))
          [] kind \in {"preview", "ask"} -> Now.id # 0 /\ begin(IF kind = "ask" THEN "answers" ELSE "sent")
          [] kind = "refine" -> \E at \in {"answers", "sent"} : begin(at)
          [] kind = "resolve" -> begin("answers")
          [] kind \in {"continue", "start"} -> Now.id = 0 /\ begin("sent")
  /\ UNCHANGED <<service, current, content, previewed, entry, load, read, confirmed>>

Asking(c, how) == c \in DOMAIN calls /\ calls[c].at = how

\* An answer outside of the document view: to questions, or the host's
\* dialog.
Answer(c, answer) ==
  /\ Asking(c, "answers") \/ Asking(c, "host")
  /\ calls' = [calls EXCEPT ![c].at = "answered", ![c].answer = answer]
  /\ confirmed' = IF Asking(c, "host") /\ answer = "approve"
                  THEN confirmed \cup {[id |-> calls[c].about.id, hash |-> calls[c].about.hash]}
                  ELSE confirmed
  /\ UNCHANGED <<service, current, content, previewed, entry, load, read>>

\* Later, or no clear answer, or the call is aborted.
Defer(c) ==
  /\ c \in DOMAIN calls /\ calls[c].at \notin {"done", "sent"} /\ Ends(c)
  /\ UNCHANGED <<service, current, content, previewed, entry, load, read, confirmed>>

\* After the answer the state must still be the one that was asked about;
\* what was read does not count again.
Resume(c) ==
  /\ Asking(c, "answered")
  /\ IF calls[c].kind \in {"approve", "reject", "ask", "refine"} /\ Kind(calls[c].about.hash) # "migration"
        /\ Now # calls[c].about
     THEN Ends(c) /\ UNCHANGED previewed
     ELSE /\ calls' = [calls EXCEPT ![c].at = "sent"]
          /\ previewed' = IF calls[c].kind \in {"approve", "reject"} THEN Nothing ELSE previewed
  /\ UNCHANGED <<service, current, content, entry, load, read, confirmed>>

\* What a call dispatches.
Command(c) ==
  LET a == calls[c].about
      t == a.task
  IN CASE calls[c].kind = "preview" -> Previewable(t, a) /\ UNCHANGED service
       [] calls[c].kind \in {"approve", "reject"} ->
            IF calls[c].answer = "answers" THEN Clarify(t, a)
            ELSE IF calls[c].kind = "approve" /\ calls[c].answer = "approve" THEN Approve(t, a, "chat")
            ELSE Refuse(t, a)
       [] calls[c].kind \in {"ask", "refine"} -> Clarify(t, a)
       [] calls[c].kind = "continue" -> Fenced(t, a) /\ (Ask(t) \/ MoveOn(t) \/ UNCHANGED service)
       [] calls[c].kind \in {"start", "resolve"} -> UNCHANGED service

\* It runs for the task it was meant for.  A new task, or another that is
\* taken over, becomes the chat's.
Run(c) ==
  /\ Asking(c, "sent") /\ calls[c].about.task = current
  /\ Command(c) /\ Ends(c)
  /\ \/ /\ calls[c].kind = "preview"
        /\ previewed' = calls[c].about /\ read' = read \cup {calls[c].about}
        /\ UNCHANGED current
     \/ /\ calls[c].kind \in {"start", "resolve"} /\ Fenced(current, calls[c].about)
        /\ current' \in Sessions \ {current}
        /\ previewed' = IF calls[c].kind = "resolve" THEN Nothing ELSE previewed
        /\ UNCHANGED read
     \/ /\ calls[c].kind \notin {"preview", "start", "resolve"}
        /\ previewed' = IF calls[c].kind = "ask" THEN Nothing ELSE previewed
        /\ UNCHANGED <<current, read>>
  /\ UNCHANGED <<content, entry, load, confirmed>>

Fails(c) ==
  /\ Asking(c, "sent") /\ Ends(c)
  /\ UNCHANGED <<service, current, content, previewed, entry, load, read, confirmed>>

----------------------------------------------------------------------------
(* The review *)

\* The card of the first question that is open replaces the one before.
Attach(c) ==
  /\ Asking(c, "review") /\ entry.call # c
  /\ \A b \in 1..(c - 1) : calls[b].at # "review"
  /\ entry' = [call |-> c, inspected |-> NoHash]
  /\ UNCHANGED <<service, current, content, calls, previewed, load, read, confirmed>>

\* The documents are loaded, and loaded again; an older load is forgotten.
Load ==
  /\ entry.call # 0 /\ calls[entry.call].at = "review" /\ load = NoLoad
  /\ load' = [NoLoad EXCEPT !.call = entry.call]
  /\ entry' = [entry EXCEPT !.inspected = NoHash]
  /\ UNCHANGED <<service, current, content, calls, previewed, read, confirmed>>

\* The card's question names the approval.
SameQuestion(state) == state.id # 0 /\ state.id = calls[load.call].about.id

LoadState ==
  /\ load.call # 0 /\ load.at = "state"
  /\ load' = IF SameQuestion(Now) THEN [load EXCEPT !.at = "preview", !.about = Now] ELSE NoLoad
  /\ UNCHANGED <<service, current, content, calls, previewed, entry, read, confirmed>>

LoadPreview ==
  /\ load.at = "preview" /\ load' = NoLoad
  /\ IF current = load.about.task /\ Previewable(current, load.about) /\ entry.call = load.call
     THEN entry' = [entry EXCEPT !.inspected = load.about.hash] /\ read' = read \cup {load.about}
     ELSE UNCHANGED <<entry, read>>
  /\ UNCHANGED <<service, current, content, calls, previewed, confirmed>>

\* The user confirms, or returns it with a comment: the card's question is
\* answered, if it is still open.
Submit(answer) ==
  /\ entry.call # 0 /\ entry.inspected # NoHash /\ calls[entry.call].at = "review"
  /\ calls' = [calls EXCEPT ![entry.call].at = "answered", ![entry.call].answer = answer]
  /\ confirmed' = IF answer = "approve"
                  THEN confirmed \cup {[id |-> calls[entry.call].about.id, hash |-> entry.inspected]}
                  ELSE confirmed
  /\ UNCHANGED <<service, current, content, previewed, entry, load, read>>

----------------------------------------------------------------------------

\* The team works on the chat's task; the panel decides what it shows.
Others ==
  /\ Working(current) \/ Approve(current, Now, "panel") \/ Refuse(current, Now)
  /\ UNCHANGED chat

Next ==
  \/ Others \/ Load \/ LoadState \/ LoadPreview
  \/ \E kind \in {"preview", "approve", "reject", "ask", "refine", "continue", "start", "resolve"} : Call(kind)
  \/ \E c \in DOMAIN calls :
       \/ Defer(c) \/ Resume(c) \/ Run(c) \/ Fails(c) \/ Attach(c)
       \/ \E answer \in {"approve", "reject", "answers"} :
            (answer = "answers" <=> calls[c].at = "answers") /\ Answer(c, answer)
  \/ \E answer \in {"approve", "reject", "answers"} : Submit(answer)

Spec == Init /\ [][Next]_conversation

----------------------------------------------------------------------------
(* Properties *)

\* What the chat approves the chat had read, at the revision it is granted
\* for, the user has confirmed with that very content before them, and no
\* question of it was left open (execute, createReviewSessionStore).
ChatApprovalIsReviewed ==
  \A d \in decided : d.by = "chat" =>
    /\ \E r \in read : [id |-> r.id, hash |-> r.hash, revision |-> r.revision]
                       = [id |-> d.id, hash |-> d.hash, revision |-> d.revision]
    /\ [id |-> d.id, hash |-> d.hash] \in confirmed
    /\ content[d.hash] # "questions"
=============================================================================

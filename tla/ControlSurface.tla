--------------------------- MODULE ControlSurface ---------------------------
(***************************************************************************)
(* The view of the team that a process shows (packages/web/src/control-    *)
(* surface.ts): it starts from the durable state, subscribes to the port   *)
(* of its process, reads the log, replays it together with what came in    *)
(* meanwhile (view-model.ts), and applies the port's further events.       *)
(*                                                                         *)
(* The phase a view shows is named by the revision that set it: the first  *)
(* event of a call.                                                        *)
(***************************************************************************)
EXTENDS EventFeed

CONSTANT Shown     \* the processes that show the team

ASSUME ShownAreHosts == Shown \subseteq Hosts

VARIABLE view    \* per process that has one, its control surface

surface == <<vars, view>>

Closed == [mode |-> "closed", read |-> {}, buffer |-> {}, applied |-> {},
           revision |-> 0, phase |-> 0]

SInit == Init /\ view = [h \in Shown |-> Closed]

Events == {log[i] : i \in 1..Len(log)}
Revision(e) == IF e.client \in Calls THEN rev[e.client] ELSE 0

Largest(S) == CHOOSE n \in S : \A m \in S : m <= n
Last(v) == Largest({0} \cup {e.seq : e \in v.applied})

\* replay: the events after the last one applied, in the order of their
\* numbers; the revision only grows, the phase is that of the last change.
Replayed(v, events) ==
  LET fresh  == {e \in events : e.seq > Last(v)}
      phases == {e \in fresh : e.client \in Calls /\ e.nth = 1}
  IN [v EXCEPT !.applied = @ \cup fresh,
               !.revision = Largest({@} \cup {Revision(e) : e \in fresh}),
               !.phase = IF phases = {} THEN @
                         ELSE Revision(CHOOSE e \in phases : \A d \in phases : d.seq <= e.seq)]

\* The surface is created: subscribed, before it reads, with the state's phase.
Open(h) ==
  /\ view[h].mode = "closed"
  /\ view' = [view EXCEPT ![h] = [Closed EXCEPT !.mode = "reading",
                                   !.revision = revision, !.phase = revision]]
  /\ UNCHANGED vars

Read(h) ==
  /\ view[h].mode = "reading" /\ tear # "broken"
  /\ view' = [view EXCEPT ![h].mode = "replaying", ![h].read = Events]
  /\ UNCHANGED vars

\* The log cannot be read: there is no surface.
ReadFails(h) ==
  /\ view[h].mode = "reading"
  /\ view' = [view EXCEPT ![h] = Closed]
  /\ UNCHANGED vars

Replay(h) ==
  /\ view[h].mode = "replaying"
  /\ view' = [view EXCEPT ![h] =
                [Replayed(@, @.read \cup @.buffer) EXCEPT
                   !.mode = "open", !.read = {}, !.buffer = {}]]
  /\ UNCHANGED vars

\* The subscriber: events are kept until the log was read, and then applied.
Heard(v, e) ==
  CASE v.mode \in {"reading", "replaying"} -> [v EXCEPT !.buffer = @ \cup {e}]
    [] v.mode = "open" -> Replayed(v, {e})
    [] OTHER -> v

Hear(h) ==
  /\ Deliver(h)
  /\ view' = [s \in Shown |-> IF s = h THEN Heard(view[s], Event(s)) ELSE view[s]]

Dispose(h) ==
  /\ view[h].mode = "open" /\ view' = [view EXCEPT ![h] = Closed]
  /\ UNCHANGED vars

Die(h) ==
  Crash(h) /\ view' = [s \in Shown |-> IF s = h THEN Closed ELSE view[s]]

Next ==
  \/ \E c \in Clients : Begin(c) /\ UNCHANGED view
  \/ \E h \in Hosts :
       \/ Quietly(h) /\ UNCHANGED view
       \/ Hear(h) \/ Die(h)
  \/ \E h \in Shown :
       Open(h) \/ Read(h) \/ ReadFails(h) \/ Replay(h) \/ Dispose(h)

Spec == SInit /\ [][Next]_surface

\* A promise that can settle does.
FairSpec ==
  Spec /\ \A h \in Hosts : WF_surface((Advance(h) /\ UNCHANGED view) \/ Hear(h))

----------------------------------------------------------------------------
(* Properties *)

TypeOK ==
  /\ FeedTypeOK
  /\ \A h \in Shown :
       /\ view[h].mode \in {"closed", "reading", "replaying", "open"}
       /\ view[h].read \cup view[h].buffer \cup view[h].applied \subseteq
            [client : Clients, nth : Nat, seq : Nat]
       /\ view[h].revision \in Nat /\ view[h].phase \in Nat

\* A view shows nothing that is not in the log, and an open view shows every
\* event that the port of its process has acknowledged, also those that were
\* appended while the surface was reading the log (createBackendTeamControl-
\* Surface).
ViewIsComplete ==
  \A h \in Shown :
    /\ view[h].applied \subseteq Events
    /\ view[h].mode = "open" =>
         \A c \in Clients : HostOf[c] = h =>
           \A n \in 1..sent[c] :
             \E e \in view[h].applied : e.client = c /\ e.nth = n

=============================================================================

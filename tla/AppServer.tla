----------------------------- MODULE AppServer -----------------------------
(***************************************************************************)
(* One inference of a model through the Codex app server                   *)
(* (packages/harness-adapter/src/codex-llm-adapter.ts, stream) and its     *)
(* client (codex-app-server-client.ts): a child process with a temporary   *)
(* directory of its own, JSON-RPC over its pipes.  The stream makes its    *)
(* requests one after another, then waits for the turn to complete or to   *)
(* ask for one tool; whatever happens, it interrupts the turn and releases *)
(* the child.  Requests and the stream have timers; the caller may abort,  *)
(* the adapter may be disposed, the child may say anything, or die.        *)
(***************************************************************************)
EXTENDS Naturals, Sequences

CONSTANT MaxWire     \* bound on the frames written by the child, not yet read

VARIABLES at,        \* what the stream awaits
          pending,   \* the request in the client's table, or "none"
          reply,     \* how the awaited request was settled
          turn,      \* the promise of the turn: "open", "answer", "tool", "error"
          lifecycle, \* of the client
          child,     \* "none", "up", "gone"
          directory, \* the temporary directory exists
          wire,      \* the frames of the child that were not read yet
          killing,   \* how far the disposal of the child has got
          closed,    \* the adapter was disposed
          told,      \* what the child said of this turn: "answer", "tool"
          outcome    \* what the stream gave: "none", "answer", "tool", "error"

vars == <<at, pending, reply, turn, lifecycle, child, directory, wire, killing,
          closed, told, outcome>>

Requests == <<"initialize", "account", "config", "thread", "turn">>
Calls == {Requests[i] : i \in 1..5} \cup {"interrupt"}
Following(r) == Requests[(CHOOSE i \in 1..4 : Requests[i] = r) + 1]

Init ==
  /\ at = "idle" /\ pending = "none" /\ reply = "none" /\ turn = "open"
  /\ lifecycle = "idle" /\ child = "none" /\ directory = FALSE /\ wire = <<>>
  /\ killing = "no" /\ closed = FALSE /\ told = {} /\ outcome = "none"

Dead == lifecycle \in {"disposing", "disposed"}
Awaits(r) == at = r /\ reply = "none"

----------------------------------------------------------------------------
(* The client *)

\* rejectPending
Rejected ==
  IF pending = "none" THEN UNCHANGED <<pending, reply>>
  ELSE pending' = "none" /\ reply' = "error"

\* fail, once: the requests are rejected, the stream's observer is called.
Fails ==
  IF Dead \/ lifecycle = "failed" THEN UNCHANGED <<lifecycle, pending, reply, turn>>
  ELSE /\ lifecycle' = "failed" /\ Rejected
       /\ turn' = IF turn = "open" THEN "error" ELSE turn

\* dispose: whatever is pending is rejected, then the child is stopped.
Disposes ==
  IF Dead THEN UNCHANGED <<lifecycle, pending, reply, killing>>
  ELSE /\ lifecycle' = "disposing" /\ Rejected
       /\ killing' = IF child = "up" THEN "ending" ELSE "done"

\* The child is asked to end, then to terminate, then killed; each is given
\* a moment.  Nobody waits longer than that.
Kill ==
  /\ lifecycle = "disposing"
  /\ LET next == CASE child = "gone" \/ killing \in {"killed", "done"} -> "done"
                   [] killing = "ending" -> "terminating"
                   [] killing = "terminating" -> "killed"
     IN /\ killing' = next
        /\ child' = IF next = "killed" THEN "gone" ELSE child
        /\ lifecycle' = IF next = "done" THEN "disposed" ELSE lifecycle
  /\ UNCHANGED <<at, pending, reply, turn, directory, wire, closed, told, outcome>>

\* A request: refused when the client is not ready.
Sends(r) ==
  IF lifecycle = "ready" \/ r = "initialize"
  THEN pending' = r /\ reply' = "none"
  ELSE UNCHANGED pending /\ reply' = "error"

RequestTimeout ==
  /\ pending # "none" /\ pending' = "none" /\ reply' = "error"
  /\ UNCHANGED <<at, turn, lifecycle, child, directory, wire, killing, closed, told, outcome>>

----------------------------------------------------------------------------
(* The child *)

Writes(frame) ==
  /\ child = "up" /\ Len(wire) < MaxWire /\ wire' = Append(wire, frame)
  /\ UNCHANGED <<at, pending, reply, turn, lifecycle, child, directory, killing, closed,
                 outcome>>

\* It answers a request, also when that has timed out; it completes or fails
\* the turn, asks for a tool, or for what is not allowed, or writes garbage.
\* Only of a turn that was asked for.
Answer(r) == Writes(r) /\ UNCHANGED told
             /\ \/ pending = r
                \/ r = "turn" /\ at \in {"turn", "interrupt"} /\ reply # "none"
Say(frame) ==
  /\ at \in {"turn", "waiting"} /\ Writes(frame)
  /\ told' = IF frame \in {"answer", "tool"} THEN told \cup {frame} ELSE told
Garbage == Writes("garbage") /\ UNCHANGED told

Exit ==
  /\ child = "up" /\ child' = "gone" /\ Fails
  /\ UNCHANGED <<at, directory, wire, killing, closed, told, outcome>>

\* receive and dispatch.  An answer that nobody awaits is ignored; the turn
\* settles once.
Receive ==
  /\ wire # <<>> /\ wire' = Tail(wire)
  /\ LET frame == wire[1] IN
     CASE Dead -> UNCHANGED <<pending, reply, turn, lifecycle>>
       [] ~Dead /\ frame = "garbage" -> Fails
       [] ~Dead /\ frame \in Calls ->
            /\ IF pending = frame THEN pending' = "none" /\ reply' \in {"ok", "error"}
               ELSE UNCHANGED <<pending, reply>>
            /\ UNCHANGED <<turn, lifecycle>>
       [] OTHER ->
            /\ turn' = IF turn = "open" THEN frame ELSE turn
            /\ UNCHANGED <<pending, reply, lifecycle>>
  /\ UNCHANGED <<at, child, directory, killing, closed, told, outcome>>

----------------------------------------------------------------------------
(* The stream *)

Begin ==
  /\ at = "idle" /\ ~closed
  /\ at' = "initialize" /\ directory' = TRUE /\ child' = "up"
  /\ lifecycle' = "starting" /\ pending' = "initialize"
  /\ UNCHANGED <<reply, turn, wire, killing, closed, told, outcome>>

\* The next request; the first one's answer makes the client ready, if it is
\* still starting.
Proceed ==
  /\ at \in {"initialize", "account", "config", "thread"} /\ reply = "ok"
  /\ IF at = "initialize"
     THEN IF lifecycle = "starting"
          THEN lifecycle' = "ready" /\ pending' = "account" /\ reply' = "none"
          ELSE reply' = "error" /\ UNCHANGED <<lifecycle, pending>>
     ELSE Sends(Following(at)) /\ UNCHANGED lifecycle
  /\ at' = Following(at)
  /\ UNCHANGED <<turn, child, directory, wire, killing, closed, told, outcome>>

Wait ==
  /\ at = "turn" /\ reply = "ok" /\ at' = "waiting" /\ reply' = "none"
  /\ UNCHANGED <<pending, turn, lifecycle, child, directory, wire, killing, closed, told, outcome>>

\* The stream is over: a turn that was started is interrupted.
Interrupts ==
  IF at = "waiting" THEN at' = "interrupt" /\ Sends("interrupt")
  ELSE at' = "release" /\ UNCHANGED <<pending, reply>>

GiveUp ==
  /\ at \in {"initialize", "account", "config", "thread", "turn"} /\ reply = "error"
  /\ outcome' = "error" /\ Interrupts
  /\ UNCHANGED <<turn, lifecycle, child, directory, wire, killing, closed, told>>

Deliver ==
  /\ at = "waiting" /\ turn # "open"
  /\ outcome' = turn /\ Interrupts
  /\ UNCHANGED <<turn, lifecycle, child, directory, wire, killing, closed, told>>

Interrupted ==
  /\ at = "interrupt" /\ reply # "none" /\ at' = "release"
  /\ UNCHANGED <<pending, reply, turn, lifecycle, child, directory, wire, killing, closed, told, outcome>>

Release ==
  /\ at = "release" /\ at' = "releasing" /\ Disposes
  /\ UNCHANGED <<turn, child, directory, wire, closed, told, outcome>>

\* A bug: the directory goes while the child is being stopped.
ReleasedAtOnce ==
  /\ at = "releasing" /\ at' = "done" /\ directory' = FALSE
  /\ UNCHANGED <<pending, reply, turn, lifecycle, child, wire, killing, closed, told, outcome>>

Released ==
  /\ at = "releasing" /\ lifecycle = "disposed"
  /\ at' = "done" /\ directory' = FALSE
  /\ UNCHANGED <<pending, reply, turn, lifecycle, child, wire, killing, closed, told, outcome>>

Running == at \in Calls \cup {"waiting"}

\* A bug: the timer only stops the child.
StopsOnly == UNCHANGED turn

\* The timer of the stream, or the caller's abort.
Settles == turn' = IF turn = "open" THEN "error" ELSE turn

Timeout ==
  /\ Running /\ outcome = "none" /\ Settles /\ Disposes
  /\ UNCHANGED <<at, child, directory, wire, closed, told, outcome>>

\* dispose of the adapter: no stream starts any more, the child of this one
\* is stopped; only its timer tells a stream that waits for its turn.
Close ==
  /\ ~closed /\ closed' = TRUE
  /\ IF Running THEN Disposes ELSE UNCHANGED <<lifecycle, pending, reply, killing>>
  /\ UNCHANGED <<at, turn, child, directory, wire, told, outcome>>

Step == Proceed \/ Wait \/ GiveUp \/ Deliver \/ Interrupted \/ Release \/ Released
Next ==
  \/ Begin \/ Step \/ Receive \/ Kill \/ RequestTimeout \/ Timeout \/ Close
  \/ \E r \in Calls : Answer(r)
  \/ \E frame \in {"answer", "tool", "error"} : Say(frame)
  \/ Garbage \/ Exit

\* Promises that can settle do, and timers fire.
Fair ==
  /\ WF_vars(Step) /\ WF_vars(Receive) /\ WF_vars(Kill)
  /\ WF_vars(RequestTimeout) /\ WF_vars(Timeout)

Spec == Init /\ [][Next]_vars
FairSpec == Spec /\ Fair

----------------------------------------------------------------------------
(* Properties *)

\* What a stream gives is what the child said of its turn; and when it is
\* over nothing is left: no request, no child, no directory.
OutcomeIsTold ==
  /\ outcome \in {"answer", "tool"} => outcome \in told
  /\ at = "done" => pending = "none" /\ child = "gone" /\ ~directory /\ outcome # "none"

\* A stream that began ends, also when the child falls silent, or is gone,
\* or the adapter is disposed meanwhile.
StreamsEnd == at = "initialize" ~> at = "done"
=============================================================================

----------------------------- MODULE EventFeed -----------------------------
(***************************************************************************)
(* The event feed of a workspace.  A transaction that has committed a new  *)
(* state announces its changes one by one (evented-state-store.ts), and a  *)
(* spawned agent's start and end are recorded (production-orchestration-   *)
(* port.ts).  Both go through the port of their process, which numbers the *)
(* events and appends one at a time (persisted-event-port.ts), to a log    *)
(* file that the processes share under a lock (file-persisted-event-       *)
(* store.ts).  A file operation may fail and a process may die at each of  *)
(* them.                                                                   *)
(*                                                                         *)
(* Of an event only its announcer and its place among the announcer's own  *)
(* events are kept.  Identifiers are unique (random UUIDs, agent handles). *)
(***************************************************************************)
EXTENDS Integers, Sequences

CONSTANTS Hosts,       \* processes with a port over the same log
          Calls,       \* transactions that commit
          Agents,      \* spawned agents: two events each
          HostOf,      \* the process of a call or an agent
          Changes      \* how many events a call announces, its phase first

Clients == Calls \cup Agents
Free == "nobody"
Left == "left behind"

ASSUME ClientsHaveHosts ==
  /\ Calls \cap Agents = {} /\ HostOf \in [Clients -> Hosts]
  /\ Changes \in [Calls -> Nat \ {0}]
ASSUME HostsAreNamed == {Free, Left} \cap Hosts = {}

VARIABLES log,      \* the events of the log file, in file order
          tear,     \* how the file ends: "whole", "unended" line, "broken" line
          lock,     \* whose lock file exists; Left: of a call that is gone
          port,     \* per process, whether it has read the log, and its next number
          queue,    \* per process, the clients waiting for the port, and
                    \* before it the calls waiting to announce the state
          at,       \* per process, how far the first of them is
          pc,       \* per client, where it stands
          sent,     \* per client, how many of its events were acknowledged
          revision, \* the state's revision
          rev       \* per call, the revision it committed

feed == <<log, tear, lock, port, queue, at>>
vars == <<feed, pc, sent, revision, rev>>

NewPort  == [ready |-> FALSE, next |-> 1]
NoQueue  == [turn |-> <<>>, tail |-> <<>>]
Stages   == {"idle", "locking", "checking", "writing", "syncing", "delivering"}
Standing == {"idle", "emitting", "running", "recording", "done", "thrown", "lost"}
Waiting  == {"emitting", "recording"}

Init ==
  /\ log = <<>> /\ tear = "whole" /\ lock = Free
  /\ port = [h \in Hosts |-> NewPort] /\ queue = [h \in Hosts |-> NoQueue]
  /\ at = [h \in Hosts |-> "idle"]
  /\ pc = [c \in Clients |-> "idle"] /\ sent = [c \in Clients |-> 0]
  /\ revision = 0 /\ rev = [c \in Calls |-> 0]

----------------------------------------------------------------------------
(* Emissions: a state event waits for the state events before it, and then  *)
(* for whatever the port was given before it.                               *)

StateEmitted(q, c) ==
  [turn |-> Append(q.turn, c),
   tail |-> IF q.turn = <<>> THEN Append(q.tail, c) ELSE q.tail]

RunEmitted(q, a) == [q EXCEPT !.tail = Append(@, a)]

\* The port is done with its first client.
Taken(q) ==
  IF Head(q.tail) \in Agents THEN [q EXCEPT !.tail = Tail(@)]
  ELSE LET turn == Tail(q.turn) IN
       [turn |-> turn,
        tail |-> Tail(q.tail) \o (IF turn = <<>> THEN <<>> ELSE <<Head(turn)>>)]

Emitting(h) == queue[h].tail # <<>>
Client(h) == Head(queue[h].tail)
Event(h)  == [client |-> Client(h), nth |-> sent[Client(h)] + 1,
              seq |-> port[h].next]

\* The commit goes through: its events are announced from now on.
Commit(c) ==
  /\ pc[c] = "idle" /\ pc' = [pc EXCEPT ![c] = "emitting"]
  /\ revision' = revision + 1 /\ rev' = [rev EXCEPT ![c] = revision + 1]
  /\ queue' = [queue EXCEPT ![HostOf[c]] = StateEmitted(@, c)]
  /\ UNCHANGED <<log, tear, lock, port, at, sent>>

\* The store commits and throws: nothing is announced.
CommitThrows(c) ==
  /\ pc[c] = "idle" /\ pc' = [pc EXCEPT ![c] = "thrown"]
  /\ revision' = revision + 1 /\ rev' = [rev EXCEPT ![c] = revision + 1]
  /\ UNCHANGED <<feed, sent>>

\* An agent was spawned: its start is recorded before its handle is returned.
Spawn(a) ==
  /\ pc[a] = "idle" /\ pc' = [pc EXCEPT ![a] = "emitting"]
  /\ queue' = [queue EXCEPT ![HostOf[a]] = RunEmitted(@, a)]
  /\ UNCHANGED <<log, tear, lock, port, at, sent, revision, rev>>

\* Its result, its failure or its cancellation, whichever comes first.
RunEnds(a) ==
  /\ pc[a] = "running" /\ pc' = [pc EXCEPT ![a] = "recording"]
  /\ queue' = [queue EXCEPT ![HostOf[a]] = RunEmitted(@, a)]
  /\ UNCHANGED <<log, tear, lock, port, at, sent, revision, rev>>

\* A bug: the changes after one that could not be announced are announced.
RejectedGoesOn(h) ==
  LET c == Client(h) IN
    /\ at' = [at EXCEPT ![h] = "idle"]
    /\ sent' = [sent EXCEPT ![c] = @ + 1]
    /\ IF c \in Calls /\ sent[c] + 1 < Changes[c]
         THEN queue' = [queue EXCEPT ![h] = StateEmitted(Taken(@), c)] /\ UNCHANGED pc
         ELSE queue' = [queue EXCEPT ![h] = Taken(@)] /\ pc' = [pc EXCEPT ![c] = "thrown"]
    /\ UNCHANGED <<revision, rev>>

\* The emission throws, and the client with it: a transaction although its
\* state is committed; a spawn cancels its agent first.
Rejected(h) ==
  /\ at' = [at EXCEPT ![h] = "idle"]
  /\ pc' = [pc EXCEPT ![Client(h)] = "thrown"]
  /\ queue' = [queue EXCEPT ![h] = Taken(@)]
  /\ UNCHANGED <<sent, revision, rev>>

\* The emission returns, and the client goes on.
Resolved(h) ==
  LET c == Client(h) IN
    /\ at' = [at EXCEPT ![h] = "idle"]
    /\ sent' = [sent EXCEPT ![c] = @ + 1]
    /\ IF c \in Calls /\ sent[c] + 1 < Changes[c]
         THEN queue' = [queue EXCEPT ![h] = StateEmitted(Taken(@), c)] /\ UNCHANGED pc
         ELSE /\ queue' = [queue EXCEPT ![h] = Taken(@)]
              /\ pc' = [pc EXCEPT ![c] =
                         IF pc[c] = "emitting" /\ c \in Agents THEN "running" ELSE "done"]
    /\ UNCHANGED <<revision, rev>>

----------------------------------------------------------------------------
(* The port and the file, for the first client of process h *)

Goto(h, stage) == at' = [at EXCEPT ![h] = stage]

\* initialize: the port reads the log once, without the lock.
Initialise(h) ==
  /\ at[h] = "idle" /\ Emitting(h) /\ ~port[h].ready
  /\ tear # "broken"
  /\ \E last \in {0} \cup {log[i].seq : i \in 1..Len(log)} :
       /\ \A i \in 1..Len(log) : log[i].seq <= last
       /\ port' = [port EXCEPT ![h] = [ready |-> TRUE, next |-> last + 1]]
  /\ Goto(h, "locking")
  /\ UNCHANGED <<log, tear, lock, queue, pc, sent, revision, rev>>

\* The log cannot be read or parsed; the next emission tries again.
InitialiseFails(h) ==
  /\ at[h] = "idle" /\ Emitting(h) /\ ~port[h].ready
  /\ Rejected(h) /\ UNCHANGED <<log, tear, lock, port>>

Start(h) ==
  /\ at[h] = "idle" /\ Emitting(h) /\ port[h].ready
  /\ Goto(h, "locking")
  /\ UNCHANGED <<log, tear, lock, port, queue, pc, sent, revision, rev>>

Acquire(h) ==
  /\ at[h] = "locking" /\ lock = Free /\ lock' = h /\ Goto(h, "checking")
  /\ UNCHANGED <<log, tear, port, queue, pc, sent, revision, rev>>

\* A bug: whoever finds the lock busy tries again without an end.
GiveUpNever(h) == FALSE /\ at[h] = "locking" /\ UNCHANGED vars

\* A hundred attempts found the lock taken, or it cannot be created at all.
GiveUp(h) ==
  /\ at[h] = "locking"
  /\ Rejected(h) /\ UNCHANGED <<log, tear, lock, port>>

\* The lock is removed; if that fails it stays, and the append throws.
Unlocked == lock' \in {Free, Left}

NumberTaken(seq) == \E i \in 1..Len(log) : log[i].seq = seq

\* The file is read again under the lock.  A number that another process used
\* since this port read the log is refused, now and for this port ever after.
Check(h) ==
  /\ at[h] = "checking"
  /\ IF tear = "broken" \/ NumberTaken(port[h].next)
       THEN Unlocked /\ Rejected(h)
       ELSE Goto(h, "writing") /\ UNCHANGED <<lock, queue, pc, sent, revision, rev>>
  /\ UNCHANGED <<log, tear, port>>

\* The line is appended; after an unended line both make one that is broken.
Written(h) ==
  /\ log' = Append(log, Event(h))
  /\ tear' = IF tear = "unended" THEN "broken" ELSE tear

\* Only a part of the line gets into the file, or all but its end.
HalfWritten(h) ==
  \/ log' = log /\ tear' = "broken"
  \/ log' = Append(log, Event(h)) /\ tear' = IF tear = "unended" THEN "broken" ELSE "unended"

Write(h) ==
  /\ at[h] = "writing" /\ Written(h) /\ Goto(h, "syncing")
  /\ UNCHANGED <<lock, port, queue, pc, sent, revision, rev>>

WriteTears(h) ==
  /\ at[h] = "writing" /\ HalfWritten(h) /\ Unlocked /\ Rejected(h)
  /\ UNCHANGED port

Sync(h) ==
  /\ at[h] = "syncing" /\ lock' = Free /\ Goto(h, "delivering")
  /\ UNCHANGED <<log, tear, port, queue, pc, sent, revision, rev>>

\* Any file operation under the lock throws, the removal of the lock included:
\* after the write the event is in the log and the port does not know.
Fails(h) ==
  /\ at[h] \in {"checking", "writing", "syncing"}
  /\ Unlocked /\ Rejected(h) /\ UNCHANGED <<log, tear, port>>

\* The port remembers the event, its subscribers have it, emit returns.
Deliver(h) ==
  /\ at[h] = "delivering"
  /\ port' = [port EXCEPT ![h].next = @ + 1]
  /\ Resolved(h) /\ UNCHANGED <<log, tear, lock>>

----------------------------------------------------------------------------
(* The process dies: its port, its queue and its clients are gone, its lock *)
(* file stays.                                                              *)
Crash(h) ==
  /\ \/ UNCHANGED <<log, tear>>
     \/ at[h] = "writing" /\ (Written(h) \/ HalfWritten(h))
  /\ lock' = IF lock = h THEN Left ELSE lock
  /\ port' = [port EXCEPT ![h] = NewPort] /\ queue' = [queue EXCEPT ![h] = NoQueue]
  /\ at' = [at EXCEPT ![h] = "idle"]
  /\ pc' = [c \in Clients |-> IF HostOf[c] = h /\ pc[c] \notin {"idle", "done", "thrown"}
                                THEN "lost" ELSE pc[c]]
  /\ UNCHANGED <<sent, revision, rev>>

\* What the port does about its first client without waiting for anybody.
Advance(h) ==
  \/ Initialise(h) \/ InitialiseFails(h) \/ Start(h) \/ Acquire(h) \/ GiveUp(h)
  \/ Check(h) \/ Write(h) \/ Sync(h)

Begin(c) == \/ c \in Calls /\ (Commit(c) \/ CommitThrows(c))
            \/ c \in Agents /\ (Spawn(c) \/ RunEnds(c))

Quietly(h) == Advance(h) \/ WriteTears(h) \/ Fails(h)

FeedNext == \/ \E c \in Clients : Begin(c)
            \/ \E h \in Hosts : Quietly(h) \/ Deliver(h) \/ Crash(h)

FeedSpec == Init /\ [][FeedNext]_vars

----------------------------------------------------------------------------
(* Properties *)

FeedTypeOK ==
  /\ log \in Seq([client : Clients, nth : Nat, seq : Nat])
  /\ tear \in {"whole", "unended", "broken"} /\ lock \in Hosts \cup {Free, Left}
  /\ port \in [Hosts -> [ready : BOOLEAN, next : Nat \ {0}]]
  /\ queue \in [Hosts -> [turn : Seq(Calls), tail : Seq(Clients)]]
  /\ at \in [Hosts -> Stages] /\ pc \in [Clients -> Standing]
  /\ sent \in [Clients -> Nat] /\ revision \in Nat /\ rev \in [Calls -> Nat]

\* The log is numbered 1, 2, 3, ... in file order, whichever processes append
\* to it, and whatever fails or dies: no gap, no number twice (appendOne).
LogIsNumbered == \A i \in 1..Len(log) : log[i].seq = i

\* An announcer's events are in the log in their order and without a hole: what
\* follows a change that could not be announced is not announced (emitChanges),
\* and no end of a run is recorded without its start (spawnAgent).
NothingIsSkipped ==
  \A i \in 1..Len(log) :
    log[i].nth > 1 => \E j \in 1..(i - 1) :
      log[j].client = log[i].client /\ log[j].nth = log[i].nth - 1

InLog(c, n) == \E i \in 1..Len(log) : log[i].client = c /\ log[i].nth = n

\* Every event a client was told of is in the log ("events are durable before
\* subscribers are notified").
ToldIsLogged == \A c \in Clients : \A n \in 1..sent[c] : InLog(c, n)

\* A port gets through its queue: no emission is stuck behind a lost lock, a
\* broken log, or an emission that failed before it.
EmissionsEnd == \A h \in Hosts : Emitting(h) ~> ~Emitting(h)
=============================================================================

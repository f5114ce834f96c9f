----------------------------- MODULE FeedProofs -----------------------------
(***************************************************************************)
(* For any processes, transactions and agents: the log stays numbered      *)
(* without a gap, and every event that was acknowledged is in it; nothing  *)
(* of an announcer is skipped, and a view shows all it should (ViewInv).   *)
(*                                                                         *)
(* The invariant: only the owner of the lock file is between its check and *)
(* its sync (LockHeld), a port is never more than one ahead of the log     *)
(* (PortBehind), one that is about to write has the number after the last  *)
(* (WritesNext), and one that has written has its client's event in the    *)
(* log (Synced, Logged).  The queues keep the clients of a process apart   *)
(* from those of the others (Queued), and a port at work has one (Busy).   *)
(***************************************************************************)
EXTENDS ControlSurface, FiniteSetTheorems, TLAPS

UnderLock == {"checking", "writing", "syncing"}
EventSet == [client : Clients, nth : Nat, seq : Nat]
Of(h) == {c \in Clients : HostOf[c] = h}
Queues(h) == [turn : Seq(Of(h) \cap Calls), tail : Seq(Of(h))]

\* Of the calls that wait to announce the state, one waits at the port.
OneTurn(q) ==
  /\ q.turn = <<>> <=> \A i \in 1..Len(q.tail) : q.tail[i] \notin Calls
  /\ \A i, j \in 1..Len(q.tail) : q.tail[i] \in Calls /\ q.tail[j] \in Calls => i = j

Queued == \A h \in Hosts : queue[h] \in Queues(h) /\ OneTurn(queue[h])
Busy == \A h \in Hosts : at[h] # "idle" => Emitting(h)
LockHeld == \A h \in Hosts : at[h] \in UnderLock => lock = h
PortBehind == \A h \in Hosts : port[h].next <= Len(log) + 1
WritesNext == \A h \in Hosts : at[h] = "writing" => port[h].next = Len(log) + 1
Synced == \A h \in Hosts : at[h] \in {"syncing", "delivering"} => port[h].next <= Len(log)
Logged == \A h \in Hosts : at[h] \in {"syncing", "delivering"} =>
            InLog(Client(h), sent[Client(h)] + 1)

Numbering == LogIsNumbered /\ LockHeld /\ PortBehind /\ WritesNext /\ Synced
Telling == Queued /\ Busy /\ Logged /\ ToldIsLogged
IInv == FeedTypeOK /\ Numbering /\ Telling

----------------------------------------------------------------------------
(* The queues *)

\* A new emission goes to the end of the queue.
LEMMA StateEmittedQueues ==
  ASSUME NEW h \in Hosts, NEW q \in Queues(h), OneTurn(q),
         NEW c \in Of(h), c \in Calls, NEW r, r = StateEmitted(q, c)
  PROVE  /\ r \in Queues(h) /\ OneTurn(r)
         /\ r.tail # <<>> /\ (q.tail # <<>> => Head(r.tail) = Head(q.tail))
<1>t. /\ q.turn \in Seq(Of(h) \cap Calls) /\ q.tail \in Seq(Of(h))
      /\ q = [turn |-> q.turn, tail |-> q.tail]
  BY DEF Queues
<1>1. r.turn = Append(q.turn, c) /\ r.turn # <<>> /\ r.turn \in Seq(Of(h) \cap Calls)
  BY <1>t DEF StateEmitted
<1>2. CASE q.turn = <<>>
  <2>1. r.tail = Append(q.tail, c)  BY <1>2 DEF StateEmitted
  <2>2. r.tail \in Seq(Of(h)) /\ Len(r.tail) = Len(q.tail) + 1
        /\ \A i \in 1..Len(r.tail) : i <= Len(q.tail) => r.tail[i] = q.tail[i]
    BY <2>1, <1>t
  <2>3. \A i \in 1..Len(r.tail) : r.tail[i] \in Calls => i = Len(r.tail)
    BY <2>2, <1>2, <1>t DEF OneTurn
  <2>4. r.tail # <<>> /\ (q.tail # <<>> => Head(r.tail) = Head(q.tail))
    BY <2>1, <2>2, <1>t
  <2>5. r \in Queues(h)  BY <2>2, <1>1 DEF Queues, StateEmitted
  <2>6. Len(r.tail) \in 1..Len(r.tail) /\ r.tail[Len(r.tail)] \in Calls
    BY <2>1, <2>2, <1>t
  <2>. QED BY <2>3, <2>4, <2>5, <2>6, <1>1 DEF OneTurn
<1>3. CASE q.turn # <<>>
  <2>1. r.tail = q.tail  BY <1>3 DEF StateEmitted
  <2>2. r \in Queues(h)  BY <2>1, <1>1, <1>t DEF Queues, StateEmitted
  <2>3. OneTurn(r)  BY <2>1, <1>1, <1>3 DEF OneTurn
  <2>4. r.tail # <<>>
    <3>1. q.tail = <<>> => Len(q.tail) = 0  BY <1>t
    <3>2. q.tail = <<>> => \A i \in 1..Len(q.tail) : q.tail[i] \notin Calls
      BY <3>1
    <3>. QED BY <3>2, <2>1, <1>3 DEF OneTurn
  <2>. QED BY <2>1, <2>2, <2>3, <2>4
<1>. QED BY <1>2, <1>3

\* The same for the record of an agent's run.
LEMMA RunEmittedQueues ==
  ASSUME NEW h \in Hosts, NEW q \in Queues(h), OneTurn(q),
         NEW a \in Of(h), a \notin Calls, NEW r, r = RunEmitted(q, a)
  PROVE  /\ r \in Queues(h) /\ OneTurn(r)
         /\ r.tail # <<>> /\ (q.tail # <<>> => Head(r.tail) = Head(q.tail))
<1>t. q.turn \in Seq(Of(h) \cap Calls) /\ q.tail \in Seq(Of(h))
  BY DEF Queues
<1>1. r.turn = q.turn /\ r.tail = Append(q.tail, a) /\ r \in Queues(h)
  <2>1. r = [turn |-> q.turn, tail |-> Append(q.tail, a)]
    BY DEF Queues, RunEmitted
  <2>. QED BY <2>1, <1>t DEF Queues
<1>2. /\ Len(r.tail) = Len(q.tail) + 1 /\ r.tail[Len(r.tail)] = a
      /\ \A i \in 1..Len(r.tail) : i # Len(r.tail) => i \in 1..Len(q.tail) /\ r.tail[i] = q.tail[i]
  BY <1>1, <1>t
<1>3. OneTurn(r)  BY <1>1, <1>2 DEF OneTurn
<1>4. r.tail # <<>> /\ (q.tail # <<>> => Head(r.tail) = Head(q.tail))
  <2>1. Append(q.tail, a) # <<>>  BY <1>t
  <2>2. q.tail # <<>> => Head(Append(q.tail, a)) = Head(q.tail)  BY <1>t
  <2>. QED BY <1>1, <2>1, <2>2
<1>. QED BY <1>1, <1>3, <1>4

\* What is left of a queue when the port is done with its first client.
LEMMA TakenQueues ==
  ASSUME NEW h \in Hosts, NEW q \in Queues(h), OneTurn(q), q.tail # <<>>,
         NEW r, r = Taken(q)
  PROVE  r \in Queues(h) /\ OneTurn(r)
<1>t. q.turn \in Seq(Of(h) \cap Calls) /\ q.tail \in Seq(Of(h))
  BY DEF Queues
<1>0. /\ Head(q.tail) = q.tail[1] /\ Head(q.tail) \in Of(h)
      /\ Tail(q.tail) \in Seq(Of(h)) /\ Len(Tail(q.tail)) = Len(q.tail) - 1
      /\ Len(q.tail) \in Nat /\ Len(q.tail) > 0
      /\ \A i \in 1..Len(Tail(q.tail)) : Tail(q.tail)[i] = q.tail[i + 1]
  BY <1>t
<1>1. CASE Head(q.tail) \in Agents
  <2>1. r.turn = q.turn /\ r.tail = Tail(q.tail) /\ r \in Queues(h)
    BY <1>1, <1>0, <1>t DEF Taken, Queues
  <2>2. \A i \in 1..Len(r.tail) : i + 1 \in 1..Len(q.tail) /\ r.tail[i] = q.tail[i + 1]
    BY <2>1, <1>0
  <2>3. q.tail[1] \notin Calls  BY <1>1, <1>0, ClientsHaveHosts
  <2>4. \A i \in 1..Len(q.tail) : i # 1 => i - 1 \in 1..Len(r.tail) /\ r.tail[i - 1] = q.tail[i]
    BY <2>1, <1>0
  <2>5. (\A i \in 1..Len(q.tail) : q.tail[i] \notin Calls)
          <=> \A i \in 1..Len(r.tail) : r.tail[i] \notin Calls
    BY <2>2, <2>3, <2>4
  <2>6. \A i, j \in 1..Len(r.tail) : r.tail[i] \in Calls /\ r.tail[j] \in Calls => i = j
    <3>. SUFFICES ASSUME NEW i \in 1..Len(r.tail), NEW j \in 1..Len(r.tail),
                         r.tail[i] \in Calls, r.tail[j] \in Calls
                  PROVE  i = j
      OBVIOUS
    <3>1. i + 1 = j + 1  BY <2>2 DEF OneTurn
    <3>. QED BY <3>1
  <2>. QED BY <2>1, <2>5, <2>6 DEF OneTurn
<1>2. CASE Head(q.tail) \notin Agents
  <2>1. Head(q.tail) \in Calls  BY <1>2, <1>0 DEF Of, Clients
  <2>2. q.turn # <<>>  BY <2>1, <1>0 DEF OneTurn
  <2>3. \A i \in 1..Len(Tail(q.tail)) : Tail(q.tail)[i] \notin Calls
    BY <2>1, <1>0 DEF OneTurn
  <2>4. CASE Tail(q.turn) = <<>>
    <3>1. r = [turn |-> <<>>, tail |-> Tail(q.tail) \o <<>>]
      BY <2>4, <1>2 DEF Taken
    <3>2. r.turn = <<>> /\ r.tail = Tail(q.tail) /\ r \in Queues(h)
      BY <3>1, <1>0 DEF Queues
    <3>. QED BY <3>2, <2>3 DEF OneTurn
  <2>5. CASE Tail(q.turn) # <<>>
    <3>. DEFINE n == Head(Tail(q.turn))
    <3>1. r = [turn |-> Tail(q.turn), tail |-> Tail(q.tail) \o <<n>>]
      BY <2>5, <1>2 DEF Taken
    <3>2. Tail(q.turn) \in Seq(Of(h) \cap Calls) /\ n \in Of(h)
      BY <2>2, <2>5, <1>t
    <3>3. r \in Queues(h) /\ r.turn # <<>>
      BY <3>1, <3>2, <2>5, <1>0 DEF Queues
    <3>4. /\ Len(r.tail) = Len(Tail(q.tail)) + 1
          /\ \A i \in 1..Len(Tail(q.tail)) : r.tail[i] = Tail(q.tail)[i]
      BY <3>1, <3>2, <1>0
    <3>5. \A i \in 1..Len(r.tail) : r.tail[i] \in Calls => i = Len(r.tail)
      BY <3>4, <2>3, <1>0
    <3>6. Len(r.tail) \in 1..Len(r.tail) /\ r.tail[Len(r.tail)] = n /\ n \in Calls
      BY <3>1, <3>2, <3>4, <2>2, <2>5, <1>t, <1>0, SMTT(20)
    <3>. QED BY <3>3, <3>5, <3>6 DEF OneTurn
  <2>. QED BY <2>4, <2>5
<1>. QED BY <1>1, <1>2

\* The first client of a process is one of its own, and so is the event.
LEMMA FirstClient ==
  ASSUME FeedTypeOK, Queued, NEW h \in Hosts, Emitting(h)
  PROVE  /\ Client(h) \in Of(h) /\ Client(h) \in Clients /\ HostOf[Client(h)] = h
         /\ Event(h) \in EventSet
<1>1. queue[h].tail \in Seq(Of(h)) /\ queue[h].tail # <<>>
  BY DEF Queued, Queues, Emitting
<1>2. Client(h) \in Of(h)  BY <1>1 DEF Client
<1>3. Client(h) \in Clients /\ HostOf[Client(h)] = h  BY <1>2 DEF Of
<1>4. sent[Client(h)] + 1 \in Nat /\ port[h].next \in Nat
  BY <1>3 DEF FeedTypeOK
<1>. QED BY <1>2, <1>3, <1>4 DEF Event, EventSet

\* The queues have the types that the type invariant names.
LEMMA QueuesAreTyped ==
  ASSUME NEW h \in Hosts
  PROVE  Queues(h) \subseteq [turn : Seq(Calls), tail : Seq(Clients)]
<1>. SUFFICES ASSUME NEW q \in Queues(h)
              PROVE  q \in [turn : Seq(Calls), tail : Seq(Clients)]
  OBVIOUS
<1>1. /\ q = [turn |-> q.turn, tail |-> q.tail]
      /\ q.turn \in Seq(Of(h) \cap Calls) /\ q.tail \in Seq(Of(h))
  BY DEF Queues
<1>2. q.turn \in Seq(Calls)  BY <1>1
<1>3. Of(h) \subseteq Clients  BY DEF Of
<1>4. q.tail \in Seq(Clients)  BY <1>1, <1>3
<1>. QED BY <1>1, <1>2, <1>4

\* What is in the log stays there when an event is appended to it.
LEMMA LogGrows ==
  ASSUME log \in Seq(EventSet), NEW e \in EventSet,
         log' = log \/ log' = Append(log, e)
  PROVE  /\ log' \in Seq(EventSet)
         /\ \A c, n : InLog(c, n) => InLog(c, n)'
         /\ log' # log => InLog(e.client, e.nth)'
<1>1. CASE log' = log  BY <1>1 DEF InLog
<1>2. CASE log' = Append(log, e)
  <2>1. /\ log' \in Seq(EventSet) /\ Len(log') = Len(log) + 1 /\ Len(log) \in Nat
        /\ \A i \in 1..Len(log) : log'[i] = log[i]
        /\ log'[Len(log')] = e
    BY <1>2
  <2>. QED BY <2>1 DEF InLog
<1>. QED BY <1>1, <1>2

\* A number that is not taken and not more than one ahead is the next one.
LEMMA NextNumber ==
  ASSUME FeedTypeOK, LogIsNumbered, PortBehind, NEW h \in Hosts,
         ~NumberTaken(port[h].next)
  PROVE  port[h].next = Len(log) + 1
<1>1. port[h].next \in Nat \ {0} /\ Len(log) \in Nat /\ port[h].next <= Len(log) + 1
  BY DEF FeedTypeOK, PortBehind
<1>2. port[h].next \notin 1..Len(log)  BY DEF NumberTaken, LogIsNumbered
<1>. QED BY <1>1, <1>2

\* The largest number of a log without gaps is its length.
LEMMA LastNumber ==
  ASSUME FeedTypeOK, LogIsNumbered,
         NEW last \in {0} \cup {log[i].seq : i \in 1..Len(log)},
         \A i \in 1..Len(log) : log[i].seq <= last
  PROVE  last = Len(log)
<1>1. Len(log) \in Nat  BY DEF FeedTypeOK
<1>2. CASE Len(log) = 0  BY <1>2
<1>3. CASE Len(log) > 0
  <2>1. Len(log) \in 1..Len(log)  BY <1>1, <1>3
  <2>2. Len(log) <= last  BY <2>1 DEF LogIsNumbered
  <2>3. last \in 0..Len(log)  BY <1>1 DEF LogIsNumbered
  <2>. QED BY <1>1, <2>2, <2>3
<1>. QED BY <1>1, <1>2, <1>3

\* A log that gets its next number stays numbered.
LEMMA StaysNumbered ==
  ASSUME log \in Seq(EventSet), LogIsNumbered, NEW e \in EventSet,
         log' = log \/ (log' = Append(log, e) /\ e.seq = Len(log) + 1)
  PROVE  /\ LogIsNumbered' /\ Len(log) \in Nat /\ Len(log') \in Nat
         /\ Len(log') \in {Len(log), Len(log) + 1}
<1>1. CASE log' = log  BY <1>1 DEF LogIsNumbered
<1>2. CASE log' = Append(log, e) /\ e.seq = Len(log) + 1
  <2>1. /\ Len(log') = Len(log) + 1 /\ Len(log) \in Nat
        /\ \A i \in 1..Len(log) : log'[i] = log[i]
        /\ log'[Len(log')] = e
    BY <1>2
  <2>. QED BY <2>1, <1>2 DEF LogIsNumbered
<1>. QED BY <1>1, <1>2

----------------------------------------------------------------------------
(* The steps *)

\* The invariant holds at the start.
LEMMA Initially == Init => IInv
<1>. SUFFICES ASSUME Init PROVE IInv  OBVIOUS
<1>1. FeedTypeOK
  BY DEF Init, FeedTypeOK, NewPort, NoQueue, Stages, Standing
<1>2. Numbering
  BY DEF Init, Numbering, LogIsNumbered, LockHeld, PortBehind, WritesNext, Synced,
         UnderLock, NewPort
<1>3. ASSUME NEW h \in Hosts PROVE queue[h] \in Queues(h) /\ OneTurn(queue[h])
  BY DEF Init, Queues, OneTurn, NoQueue
<1>4. Telling
  BY <1>3 DEF Init, Telling, Queued, Busy, Logged, ToldIsLogged
<1>. QED BY <1>1, <1>2, <1>4 DEF IInv

\* The log's types and the port's work are apart from the queues: an emission
\* that begins joins the end of its queue.
LEMMA BeginQueues ==
  ASSUME IInv, NEW c \in Clients, Begin(c)
  PROVE  /\ UNCHANGED <<log, tear, lock, port, at, sent>>
         /\ pc' \in [Clients -> Standing] /\ revision' \in Nat /\ rev' \in [Calls -> Nat]
         /\ Queued' /\ queue' \in [Hosts -> [turn : Seq(Calls), tail : Seq(Clients)]]
         /\ \A g \in Hosts : Emitting(g) => Emitting(g)' /\ Client(g)' = Client(g)
<1>. DEFINE h == HostOf[c]
<1>t. FeedTypeOK /\ Numbering /\ Queued /\ Busy /\ Logged /\ ToldIsLogged
  BY DEF IInv, Telling
<1>h. h \in Hosts /\ c \in Of(h)
  BY ClientsHaveHosts DEF Of
<1>1. /\ UNCHANGED <<log, tear, lock, port, at, sent>>
      /\ pc' \in [Clients -> Standing] /\ revision' \in Nat /\ rev' \in [Calls -> Nat]
  <2>1. UNCHANGED <<log, tear, lock, port, at, sent>>
    BY DEF Begin, Commit, CommitThrows, Spawn, RunEnds, feed
  <2>2. \E s \in Standing : pc' = [pc EXCEPT ![c] = s]
    BY DEF Begin, Commit, CommitThrows, Spawn, RunEnds, Standing
  <2>3. pc' \in [Clients -> Standing]  BY <2>2, <1>t DEF FeedTypeOK
  <2>4. \/ UNCHANGED <<revision, rev>>
        \/ revision' = revision + 1 /\ rev' = [rev EXCEPT ![c] = revision + 1]
    BY DEF Begin, Commit, CommitThrows, Spawn, RunEnds
  <2>5. revision \in Nat /\ revision + 1 \in Nat /\ rev \in [Calls -> Nat]
    BY <1>t DEF FeedTypeOK
  <2>6. revision' \in Nat /\ rev' \in [Calls -> Nat]
    BY <2>4, <2>5
  <2>. QED BY <2>1, <2>3, <2>6
<1>2. \/ queue' = queue
      \/ \E r : /\ queue' = [queue EXCEPT ![h] = r] /\ r \in Queues(h) /\ OneTurn(r)
                /\ r.tail # <<>> /\ (Emitting(h) => Head(r.tail) = Client(h))
  <2>1. ASSUME c \in Calls, Commit(c)
        PROVE  \E r : /\ queue' = [queue EXCEPT ![h] = r] /\ r \in Queues(h) /\ OneTurn(r)
                      /\ r.tail # <<>> /\ (Emitting(h) => Head(r.tail) = Client(h))
    <3>1. queue' = [queue EXCEPT ![h] = StateEmitted(queue[h], c)]
      BY <2>1 DEF Commit
    <3>2. queue[h] \in Queues(h) /\ OneTurn(queue[h])  BY <1>t, <1>h DEF Queued
    <3>. DEFINE r == StateEmitted(queue[h], c)
    <3>3. /\ r \in Queues(h) /\ OneTurn(r)
          /\ r.tail # <<>> /\ (Emitting(h) => Head(r.tail) = Client(h))
      BY <3>2, <1>h, <2>1, StateEmittedQueues DEF Emitting, Client
    <3>. QED BY <3>1, <3>3
  <2>2. ASSUME c \in Agents, Spawn(c) \/ RunEnds(c)
        PROVE  \E r : /\ queue' = [queue EXCEPT ![h] = r] /\ r \in Queues(h) /\ OneTurn(r)
                      /\ r.tail # <<>> /\ (Emitting(h) => Head(r.tail) = Client(h))
    <3>1. queue' = [queue EXCEPT ![h] = RunEmitted(queue[h], c)]
      BY <2>2 DEF Spawn, RunEnds
    <3>2. queue[h] \in Queues(h) /\ OneTurn(queue[h])  BY <1>t, <1>h DEF Queued
    <3>3. c \notin Calls  BY <2>2, ClientsHaveHosts
    <3>. DEFINE r == RunEmitted(queue[h], c)
    <3>4. /\ r \in Queues(h) /\ OneTurn(r)
          /\ r.tail # <<>> /\ (Emitting(h) => Head(r.tail) = Client(h))
      BY <3>2, <3>3, <1>h, RunEmittedQueues DEF Emitting, Client
    <3>. QED BY <3>1, <3>4
  <2>3. ASSUME CommitThrows(c) PROVE queue' = queue
    BY <2>3 DEF CommitThrows, feed
  <2>. QED BY <2>1, <2>2, <2>3 DEF Begin
<1>3. /\ Queued' /\ queue' \in [Hosts -> [turn : Seq(Calls), tail : Seq(Clients)]]
      /\ \A g \in Hosts : Emitting(g) => Emitting(g)' /\ Client(g)' = Client(g)
  <2>1. CASE queue' = queue
    BY <2>1, <1>t DEF Queued, FeedTypeOK, Emitting, Client
  <2>2. CASE queue' # queue
    <3>1. PICK r : /\ queue' = [queue EXCEPT ![h] = r] /\ r \in Queues(h) /\ OneTurn(r)
                   /\ r.tail # <<>> /\ (Emitting(h) => Head(r.tail) = Client(h))
      BY <1>2, <2>2
    <3>2. r \in [turn : Seq(Calls), tail : Seq(Clients)]
      BY <3>1, <1>h, QueuesAreTyped
    <3>3. queue' \in [Hosts -> [turn : Seq(Calls), tail : Seq(Clients)]]
      BY <3>1, <3>2, <1>t DEF FeedTypeOK
    <3>4. \A g \in Hosts : queue'[g] = IF g = h THEN r ELSE queue[g]
      BY <3>1, <1>t DEF FeedTypeOK
    <3>5. Queued'  BY <3>1, <3>4, <1>t DEF Queued
    <3>. QED BY <3>1, <3>3, <3>4, <3>5 DEF Emitting, Client
  <2>. QED BY <2>1, <2>2
<1>. QED BY <1>1, <1>3

\* A new emission keeps the invariant.
LEMMA BeginKeeps ==
  ASSUME IInv, NEW c \in Clients, Begin(c)
  PROVE  IInv'
<1>t. FeedTypeOK /\ Numbering /\ Queued /\ Busy /\ Logged /\ ToldIsLogged
  BY DEF IInv, Telling
<1>1. /\ UNCHANGED <<log, tear, lock, port, at, sent>>
      /\ pc' \in [Clients -> Standing] /\ revision' \in Nat /\ rev' \in [Calls -> Nat]
  BY BeginQueues
<1>3. /\ Queued' /\ queue' \in [Hosts -> [turn : Seq(Calls), tail : Seq(Clients)]]
      /\ \A g \in Hosts : Emitting(g) => Emitting(g)' /\ Client(g)' = Client(g)
  BY BeginQueues
<1>4. FeedTypeOK'  BY <1>t, <1>1, <1>3 DEF FeedTypeOK
<1>5. Numbering'
  <2>1. UNCHANGED <<log, lock, port, at>>  BY <1>1
  <2>. QED BY <2>1, <1>t DEF Numbering, LogIsNumbered, LockHeld, PortBehind, WritesNext, Synced
<1>6. Telling'
  <2>1. UNCHANGED <<log, at, sent>>  BY <1>1
  <2>2. Busy'  BY <2>1, <1>t, <1>3 DEF Busy
  <2>3. \A b, n : InLog(b, n) => InLog(b, n)'  BY <2>1 DEF InLog
  <2>4. Logged'  BY <2>1, <2>3, <1>t, <1>3 DEF Logged, Busy
  <2>5. ToldIsLogged'  BY <2>1, <2>3, <1>t DEF ToldIsLogged
  <2>. QED BY <2>2, <2>4, <2>5, <1>3 DEF Telling
<1>. QED BY <1>4, <1>5, <1>6 DEF IInv

\* A port that is done with its first client, whatever the outcome, or whose
\* process died: no other port is between its check and its sync meanwhile.
LEMMA LeavingKeeps ==
  ASSUME IInv, NEW h \in Hosts, at' = [at EXCEPT ![h] = "idle"], FeedTypeOK',
         log' = log \/ (at[h] = "writing" /\ log' = Append(log, Event(h))),
         lock' = lock \/ lock = h,
         \A g \in Hosts : \/ port'[g] = port[g]
                          \/ g = h /\ port'[g].next <= Len(log) + 1,
         Queued', \A g \in Hosts : g # h => queue'[g] = queue[g],
         \/ sent' = sent
         \/ at[h] = "delivering" /\ sent' = [sent EXCEPT ![Client(h)] = @ + 1]
  PROVE  IInv'
<1>t. /\ FeedTypeOK /\ LogIsNumbered /\ LockHeld /\ PortBehind /\ WritesNext /\ Synced
      /\ Queued /\ Busy /\ Logged /\ ToldIsLogged
      /\ log \in Seq(EventSet)
  BY DEF IInv, Numbering, Telling, FeedTypeOK, EventSet
<1>a. at'[h] = "idle" /\ \A g \in Hosts : g # h => at'[g] = at[g]
  BY <1>t DEF FeedTypeOK
<1>1. at[h] = "writing" => /\ Event(h) \in EventSet /\ Event(h).seq = Len(log) + 1
                           /\ lock = h
  BY <1>t, FirstClient DEF Busy, WritesNext, Event, LockHeld, UnderLock
<1>2. /\ LogIsNumbered' /\ Len(log) \in Nat /\ Len(log') \in Nat
      /\ Len(log') \in {Len(log), Len(log) + 1}
      /\ (\A c, n : InLog(c, n) => InLog(c, n)')
  <2>1. CASE log' = log  BY <2>1, <1>t DEF LogIsNumbered, InLog
  <2>2. CASE log' # log
    BY <2>2, <1>t, <1>1, StaysNumbered, LogGrows
  <2>. QED BY <2>1, <2>2
<1>3. \A g \in Hosts : at'[g] = "writing" => log' = log
  BY <1>a, <1>1, <1>t DEF LockHeld, UnderLock
<1>4. LockHeld'  BY <1>a, <1>t DEF LockHeld, UnderLock
<1>5. PortBehind'
  <2>1. \A g \in Hosts : port[g].next \in Nat /\ port'[g].next \in Nat
    BY <1>t DEF FeedTypeOK
  <2>. QED BY <2>1, <1>2, <1>t DEF PortBehind
<1>6. WritesNext'  BY <1>3, <1>a, <1>t DEF WritesNext
<1>7. Synced'
  <2>1. ASSUME NEW g \in Hosts, at'[g] \in {"syncing", "delivering"}
        PROVE  port'[g].next <= Len(log')
    <3>1. g # h /\ port'[g] = port[g] /\ port[g].next \in Nat
      BY <2>1, <1>a, <1>t DEF FeedTypeOK
    <3>2. port[g].next <= Len(log)  BY <2>1, <3>1, <1>a, <1>t DEF Synced
    <3>. QED BY <3>1, <3>2, <1>2
  <2>. QED BY <2>1 DEF Synced
<1>8. Busy'  BY <1>a, <1>t DEF Busy, Emitting
<1>9. Logged'
  <2>1. ASSUME NEW g \in Hosts, at'[g] \in {"syncing", "delivering"}
        PROVE  InLog(Client(g), sent[Client(g)] + 1)'
    <3>1. g # h /\ at[g] = at'[g]  BY <2>1, <1>a
    <3>2. Emitting(g) /\ InLog(Client(g), sent[Client(g)] + 1)
      BY <3>1, <2>1, <1>t DEF Busy, Logged
    <3>3. Client(g)' = Client(g)  BY <3>1 DEF Client
    <3>4. sent'[Client(g)] = sent[Client(g)]
      <4>1. CASE sent' = sent  BY <4>1
      <4>2. CASE at[h] = "delivering" /\ sent' = [sent EXCEPT ![Client(h)] = @ + 1]
        <5>1. Client(h) # Client(g)  BY <4>2, <3>1, <3>2, <1>t, FirstClient DEF Busy
        <5>. QED BY <4>2, <5>1, <3>2, <1>t, FirstClient DEF FeedTypeOK
      <4>. QED BY <4>1, <4>2
    <3>5. InLog(Client(g), sent[Client(g)] + 1)'
      <4>1. InLog(Client(g), sent[Client(g)] + 1)' <=>
              \E i \in 1..Len(log') : log'[i].client = Client(g)'
                                       /\ log'[i].nth = sent'[Client(g)'] + 1
        BY DEF InLog
      <4>. QED BY <4>1, <3>2, <3>3, <3>4, <1>2 DEF InLog
    <3>. QED BY <3>5
  <2>. QED BY <2>1 DEF Logged
<1>10. ToldIsLogged'
  <2>1. CASE sent' = sent  BY <2>1, <1>2, <1>t DEF ToldIsLogged
  <2>2. CASE at[h] = "delivering" /\ sent' = [sent EXCEPT ![Client(h)] = @ + 1]
    <3>1. Client(h) \in Clients /\ InLog(Client(h), sent[Client(h)] + 1)
      BY <2>2, <1>t, FirstClient DEF Busy, Logged
    <3>2. \A c \in Clients : sent[c] \in Nat /\
            sent'[c] = IF c = Client(h) THEN sent[c] + 1 ELSE sent[c]
      BY <2>2, <1>t DEF FeedTypeOK
    <3>3. ASSUME NEW c \in Clients, NEW n \in 1..sent'[c] PROVE InLog(c, n)
      <4>1. n \in 1..sent[c] \/ (c = Client(h) /\ n = sent[c] + 1)
        BY <3>2
      <4>. QED BY <4>1, <3>1, <1>t DEF ToldIsLogged
    <3>. QED BY <3>3, <1>2 DEF ToldIsLogged
  <2>. QED BY <2>1, <2>2
<1>. QED BY <1>2, <1>4, <1>5, <1>6, <1>7, <1>8, <1>9, <1>10 DEF IInv, Numbering, Telling

\* What the file may look like after a step: every one of them says how it ends.
Endings == {"whole", "unended", "broken"}

\* The emission throws.
LEMMA RejectedKeeps ==
  ASSUME IInv, NEW h \in Hosts, Emitting(h), Rejected(h),
         tear' \in Endings, port' = port,
         log' = log \/ (at[h] = "writing" /\ log' = Append(log, Event(h))),
         lock' = lock \/ (lock = h /\ lock' \in {Free, Left})
  PROVE  IInv'
<1>t. FeedTypeOK /\ Queued /\ log \in Seq(EventSet)
  BY DEF IInv, Telling, FeedTypeOK, EventSet
<1>r. /\ at' = [at EXCEPT ![h] = "idle"] /\ pc' = [pc EXCEPT ![Client(h)] = "thrown"]
      /\ queue' = [queue EXCEPT ![h] = Taken(queue[h])]
      /\ UNCHANGED <<sent, revision, rev>>
  BY DEF Rejected
<1>1. Taken(queue[h]) \in Queues(h) /\ OneTurn(Taken(queue[h]))
  BY <1>t, TakenQueues DEF Queued, Emitting
<1>2. \A g \in Hosts : queue'[g] = IF g = h THEN Taken(queue[h]) ELSE queue[g]
  BY <1>t, <1>r DEF FeedTypeOK
<1>3. Queued'  BY <1>1, <1>2, <1>t DEF Queued
<1>4. queue' \in [Hosts -> [turn : Seq(Calls), tail : Seq(Clients)]]
  <2>1. Taken(queue[h]) \in [turn : Seq(Calls), tail : Seq(Clients)]
    BY <1>1, QueuesAreTyped
  <2>. QED BY <2>1, <1>r, <1>t DEF FeedTypeOK
<1>5. log' \in Seq(EventSet)  BY <1>t, FirstClient
<1>6. FeedTypeOK'
  BY <1>t, <1>r, <1>4, <1>5 DEF FeedTypeOK, EventSet, Endings, Stages, Standing
<1>7. \A g \in Hosts : g # h => queue'[g] = queue[g]  BY <1>2
<1>. QED BY <1>r, <1>3, <1>6, <1>7, LeavingKeeps

\* The emission returns: the port remembers the event, the client goes on.
LEMMA DeliverKeeps ==
  ASSUME IInv, NEW h \in Hosts, Deliver(h)
  PROVE  IInv'
<1>. DEFINE c == Client(h)
            q == Taken(queue[h])
<1>t. /\ FeedTypeOK /\ Queued /\ Busy /\ Synced
  BY DEF IInv, Telling, Numbering
<1>r. /\ at[h] = "delivering" /\ at' = [at EXCEPT ![h] = "idle"]
      /\ port' = [port EXCEPT ![h].next = @ + 1]
      /\ sent' = [sent EXCEPT ![c] = @ + 1]
      /\ UNCHANGED <<log, tear, lock, revision, rev>>
  BY DEF Deliver, Resolved
<1>c. Emitting(h) /\ c \in Of(h) /\ c \in Clients
  BY <1>t, <1>r, FirstClient DEF Busy
<1>1. q \in Queues(h) /\ OneTurn(q)
  BY <1>t, <1>c, TakenQueues DEF Queued, Emitting
<1>2. \E s \in Standing : pc' = [pc EXCEPT ![c] = s] \/ pc' = pc
  BY DEF Deliver, Resolved, Standing
<1>3. PICK r : /\ queue' = [queue EXCEPT ![h] = r] /\ r \in Queues(h) /\ OneTurn(r)
  <2>1. CASE c \in Calls /\ sent[c] + 1 < Changes[c]
    <3>1. queue' = [queue EXCEPT ![h] = StateEmitted(q, c)]
      BY <2>1 DEF Deliver, Resolved
    <3>2. StateEmitted(q, c) \in Queues(h) /\ OneTurn(StateEmitted(q, c))
      BY <2>1, <1>1, <1>c, StateEmittedQueues
    <3>. QED BY <3>1, <3>2
  <2>2. CASE ~(c \in Calls /\ sent[c] + 1 < Changes[c])
    <3>1. queue' = [queue EXCEPT ![h] = q]
      BY <2>2 DEF Deliver, Resolved
    <3>. QED BY <3>1, <1>1
  <2>. QED BY <2>1, <2>2
<1>4. \A g \in Hosts : queue'[g] = IF g = h THEN r ELSE queue[g]
  BY <1>t, <1>3 DEF FeedTypeOK
<1>5. Queued'  BY <1>3, <1>4, <1>t DEF Queued
<1>6. queue' \in [Hosts -> [turn : Seq(Calls), tail : Seq(Clients)]]
  <2>1. r \in [turn : Seq(Calls), tail : Seq(Clients)]
    BY <1>3, QueuesAreTyped
  <2>. QED BY <2>1, <1>3, <1>t DEF FeedTypeOK
<1>7. /\ port' \in [Hosts -> [ready : BOOLEAN, next : Nat \ {0}]]
      /\ \A g \in Hosts : g # h => port'[g] = port[g]
      /\ port'[h].next = port[h].next + 1
  <2>1. port \in [Hosts -> [ready : BOOLEAN, next : Nat \ {0}]]
    BY <1>t DEF FeedTypeOK
  <2>2. port[h].next + 1 \in Nat \ {0} /\ port[h].ready \in BOOLEAN
    BY <2>1
  <2>3. port' = [port EXCEPT ![h] = [port[h] EXCEPT !.next = port[h].next + 1]]
    BY <1>r
  <2>4. [port[h] EXCEPT !.next = port[h].next + 1] =
          [ready |-> port[h].ready, next |-> port[h].next + 1]
    BY <2>1
  <2>. QED BY <2>1, <2>2, <2>3, <2>4
<1>8. sent' \in [Clients -> Nat] /\ pc' \in [Clients -> Standing]
      /\ at' \in [Hosts -> Stages]
  <2>1. sent \in [Clients -> Nat] /\ pc \in [Clients -> Standing] /\ at \in [Hosts -> Stages]
    BY <1>t DEF FeedTypeOK
  <2>2. sent[c] + 1 \in Nat /\ "idle" \in Stages  BY <2>1, <1>c DEF Stages
  <2>3. sent' \in [Clients -> Nat]  BY <2>1, <2>2, <1>r
  <2>4. pc' \in [Clients -> Standing]  BY <2>1, <1>2
  <2>. QED BY <2>1, <2>2, <2>3, <2>4, <1>r
<1>9. FeedTypeOK'  BY <1>t, <1>r, <1>6, <1>7, <1>8 DEF FeedTypeOK
<1>10. \A g \in Hosts : \/ port'[g] = port[g]
                        \/ g = h /\ port'[g].next <= Len(log) + 1
  <2>1. port[h].next <= Len(log) /\ port[h].next \in Nat /\ Len(log) \in Nat
    BY <1>r, <1>t DEF Synced, FeedTypeOK
  <2>. QED BY <2>1, <1>7
<1>11. \A g \in Hosts : g # h => queue'[g] = queue[g]  BY <1>4
<1>. QED BY <1>r, <1>5, <1>9, <1>10, <1>11, LeavingKeeps

\* The process dies.
LEMMA CrashKeeps ==
  ASSUME IInv, NEW h \in Hosts, Crash(h)
  PROVE  IInv'
<1>t. FeedTypeOK /\ Queued /\ Busy /\ log \in Seq(EventSet)
  BY DEF IInv, Telling, FeedTypeOK, EventSet
<1>r. /\ at' = [at EXCEPT ![h] = "idle"] /\ port' = [port EXCEPT ![h] = NewPort]
      /\ queue' = [queue EXCEPT ![h] = NoQueue]
      /\ UNCHANGED <<sent, revision, rev>>
      /\ lock' = lock \/ (lock = h /\ lock' = Left)
  BY DEF Crash
<1>1. /\ log' = log \/ (at[h] = "writing" /\ log' = Append(log, Event(h)))
      /\ tear' \in Endings
  BY <1>t DEF Crash, Written, HalfWritten, Endings, FeedTypeOK
<1>2. log' \in Seq(EventSet)
  <2>1. CASE log' = log  BY <2>1, <1>t
  <2>2. CASE at[h] = "writing" /\ log' = Append(log, Event(h))
    <3>1. Event(h) \in EventSet  BY <2>2, <1>t, FirstClient DEF Busy
    <3>. QED BY <2>2, <3>1, <1>t
  <2>. QED BY <2>1, <2>2, <1>1
<1>3. pc' \in [Clients -> Standing]
  BY <1>t DEF Crash, FeedTypeOK, Standing
<1>4. NoQueue \in Queues(h) /\ OneTurn(NoQueue) /\ NewPort \in [ready : BOOLEAN, next : Nat \ {0}]
      /\ NoQueue \in [turn : Seq(Calls), tail : Seq(Clients)]
  BY DEF NoQueue, Queues, OneTurn, NewPort
<1>5. \A g \in Hosts : queue'[g] = IF g = h THEN NoQueue ELSE queue[g]
  BY <1>r, <1>t DEF FeedTypeOK
<1>6. Queued'  BY <1>4, <1>5, <1>t DEF Queued
<1>7. FeedTypeOK'
  BY <1>t, <1>r, <1>1, <1>2, <1>3, <1>4 DEF FeedTypeOK, EventSet, Endings, Stages
<1>8. \A g \in Hosts : \/ port'[g] = port[g]
                       \/ g = h /\ port'[g].next <= Len(log) + 1
  <2>1. Len(log) \in Nat  BY <1>t
  <2>. QED BY <2>1, <1>r, <1>t DEF FeedTypeOK, NewPort
<1>9. \A g \in Hosts : g # h => queue'[g] = queue[g]  BY <1>5
<1>10. lock' = lock \/ lock = h  BY <1>r
<1>. QED BY <1>r, <1>1, <1>6, <1>7, <1>8, <1>9, <1>10, LeavingKeeps

\* A step of the port that goes on with its first client.
LEMMA WorkKeeps ==
  ASSUME IInv, NEW h \in Hosts,
         \/ Initialise(h) \/ Start(h) \/ Acquire(h) \/ Sync(h) \/ Write(h)
         \/ Check(h) /\ at'[h] = "writing"
  PROVE  IInv'
<1>t. /\ FeedTypeOK /\ LogIsNumbered /\ LockHeld /\ PortBehind /\ WritesNext /\ Synced
      /\ Queued /\ Busy /\ Logged /\ ToldIsLogged
      /\ log \in Seq(EventSet) /\ Len(log) \in Nat
      /\ port \in [Hosts -> [ready : BOOLEAN, next : Nat \ {0}]]
      /\ at \in [Hosts -> Stages]
  BY DEF IInv, Numbering, Telling, FeedTypeOK, EventSet
<1>p. \A g \in Hosts : port[g].next \in Nat \ {0}
  BY <1>t
<1>. USE DEF Goto
<1>1. ASSUME Initialise(h) PROVE FeedTypeOK' /\ Numbering' /\ Telling'
  <2>. USE <1>1 DEF Initialise
  <2>1. PICK last \in {0} \cup {log[i].seq : i \in 1..Len(log)} :
          /\ \A i \in 1..Len(log) : log[i].seq <= last
          /\ port' = [port EXCEPT ![h] = [ready |-> TRUE, next |-> last + 1]]
    OBVIOUS
  <2>2. last = Len(log)  BY <2>1, <1>t, LastNumber
  <2>3. port' \in [Hosts -> [ready : BOOLEAN, next : Nat \ {0}]]
    BY <2>1, <2>2, <1>t
  <2>4. FeedTypeOK'  BY <2>3, <1>t DEF FeedTypeOK, Stages
  <2>5. \A g \in Hosts : port'[g] = port[g] \/ (g = h /\ port'[g].next = Len(log) + 1)
    BY <2>1, <2>2, <1>t
  <2>6. \A g \in Hosts : at'[g] = IF g = h THEN "locking" ELSE at[g]  BY <1>t
  <2>7. Numbering'
    BY <2>5, <2>6, <1>t, <1>p
    DEF Numbering, LogIsNumbered, LockHeld, PortBehind, WritesNext, Synced, UnderLock
  <2>8. Telling'
    BY <2>6, <1>t DEF Telling, Queued, Busy, Logged, ToldIsLogged, Emitting, Client, InLog
  <2>. QED BY <2>4, <2>7, <2>8
<1>2. ASSUME Start(h) \/ Acquire(h) \/ Sync(h) \/ (Check(h) /\ at'[h] = "writing")
      PROVE  FeedTypeOK' /\ Numbering' /\ Telling'
  <2>1. /\ UNCHANGED <<log, tear, port, queue, pc, sent, revision, rev>>
        /\ \E s \in {"locking", "checking", "writing", "delivering"} :
             at' = [at EXCEPT ![h] = s]
        /\ lock' \in Hosts \cup {Free, Left}
    <3>1. CASE Start(h)  BY <3>1, <1>t DEF Start, FeedTypeOK
    <3>2. CASE Acquire(h)  BY <3>2 DEF Acquire
    <3>3. CASE Sync(h)  BY <3>3 DEF Sync
    <3>4. CASE Check(h) /\ at'[h] = "writing"
      BY <3>4, <1>t DEF Check, Rejected, FeedTypeOK
    <3>. QED BY <1>2, <3>1, <3>2, <3>3, <3>4
  <2>2. FeedTypeOK'  BY <2>1, <1>t DEF FeedTypeOK, Stages
  <2>3. \A g \in Hosts : g # h => at'[g] = at[g]  BY <2>1, <1>t
  <2>4. at[h] = "idle" => Emitting(h)
    <3>1. CASE Start(h)  BY <3>1 DEF Start
    <3>2. CASE ~Start(h)  BY <3>2, <1>2 DEF Acquire, Sync, Check
    <3>. QED BY <3>1, <3>2
  <2>5. LogIsNumbered' /\ PortBehind'
    BY <2>1, <1>t DEF LogIsNumbered, PortBehind
  <2>6. LockHeld'
    <3>1. CASE Start(h)  BY <3>1, <1>t DEF Start, LockHeld, UnderLock
    <3>2. CASE Acquire(h)
      BY <3>2, <1>t, HostsAreNamed DEF Acquire, LockHeld, UnderLock
    <3>3. CASE Sync(h)  BY <3>3, <1>t DEF Sync, LockHeld, UnderLock
    <3>4. CASE Check(h) /\ at'[h] = "writing"
      BY <3>4, <1>t DEF Check, Rejected, LockHeld, UnderLock
    <3>. QED BY <1>2, <3>1, <3>2, <3>3, <3>4
  <2>7. WritesNext'
    <3>1. at'[h] = "writing" => port[h].next = Len(log) + 1
      <4>1. CASE Check(h) /\ at'[h] = "writing"
        <5>1. ~NumberTaken(port[h].next)
          BY <4>1, <1>t DEF Check, Rejected
        <5>. QED BY <5>1, <1>t, NextNumber
      <4>2. CASE Start(h) \/ Acquire(h) \/ Sync(h)
        BY <4>2, <1>t DEF Start, Acquire, Sync
      <4>. QED BY <1>2, <4>1, <4>2
    <3>. QED BY <3>1, <2>1, <2>3, <1>t DEF WritesNext
  <2>8. at'[h] \in {"syncing", "delivering"} => at[h] = "syncing"
    <3>1. CASE Sync(h)  BY <3>1 DEF Sync
    <3>2. CASE ~Sync(h)  BY <3>2, <1>2, <1>t DEF Start, Acquire, Check
    <3>. QED BY <3>1, <3>2
  <2>9. Synced'  BY <2>1, <2>3, <2>8, <1>t DEF Synced
  <2>10. Queued' /\ ToldIsLogged'
    <3>1. Queued'  BY <2>1, <1>t DEF Queued
    <3>2. \A c, n : InLog(c, n) => InLog(c, n)'  BY <2>1 DEF InLog
    <3>3. sent' = sent  BY <2>1
    <3>. QED BY <3>1, <3>2, <3>3, <1>t DEF ToldIsLogged
  <2>11. Busy'  BY <2>1, <2>3, <2>4, <1>t DEF Busy, Emitting
  <2>12. Logged'  BY <2>1, <2>3, <2>8, <1>t DEF Logged, InLog, Client
  <2>. QED BY <2>2, <2>5, <2>6, <2>7, <2>9, <2>10, <2>11, <2>12 DEF Numbering, Telling
<1>3. ASSUME Write(h) PROVE FeedTypeOK' /\ Numbering' /\ Telling'
  <2>. USE <1>3 DEF Write, Written
  <2>1. /\ Event(h) \in EventSet /\ lock = h
        /\ port[h].next = Len(log) + 1 /\ Event(h).seq = Len(log) + 1
    BY <1>t, FirstClient DEF Busy, LockHeld, UnderLock, WritesNext, Event
  <2>2. /\ log' \in Seq(EventSet) /\ LogIsNumbered' /\ Len(log') = Len(log) + 1
        /\ \A c, n : InLog(c, n) => InLog(c, n)'
        /\ \E i \in 1..Len(log') : /\ log'[i].client = Client(h)
                                   /\ log'[i].nth = sent[Client(h)] + 1
    <3>1. PICK e \in EventSet : e = Event(h)  BY <2>1
    <3>2. log' = Append(log, e) /\ e.seq = Len(log) + 1  BY <3>1, <2>1
    <3>3. Len(log') = Len(log) + 1 /\ log'[Len(log')] = e
      BY <3>2, <1>t
    <3>4. e.client = Client(h) /\ e.nth = sent[Client(h)] + 1  BY <3>1 DEF Event
    <3>5. \E i \in 1..Len(log') : /\ log'[i].client = Client(h)
                                  /\ log'[i].nth = sent[Client(h)] + 1
      BY <3>3, <3>4, <1>t
    <3>. QED BY <3>2, <3>3, <3>5, <1>t, StaysNumbered, LogGrows
  <2>3. \A g \in Hosts : at'[g] = IF g = h THEN "syncing" ELSE at[g]  BY <1>t
  <2>4. FeedTypeOK'  BY <2>2, <1>t DEF FeedTypeOK, EventSet, Stages
  <2>5. LockHeld' /\ PortBehind'
    BY <2>1, <2>2, <2>3, <1>t, <1>p DEF LockHeld, PortBehind, UnderLock
  <2>6. WritesNext'
    BY <2>1, <2>3, <1>t DEF WritesNext, LockHeld, UnderLock
  <2>7. Synced'  BY <2>1, <2>2, <2>3, <1>t, <1>p DEF Synced
  <2>8. Queued' /\ Busy'  BY <2>3, <1>t DEF Queued, Busy, Emitting
  <2>9. ToldIsLogged'  BY <2>2, <1>t DEF ToldIsLogged
  <2>10. Logged'  BY <2>2, <2>3, <1>t DEF Logged, Client, InLog
  <2>. QED BY <2>2, <2>4, <2>5, <2>6, <2>7, <2>8, <2>9, <2>10 DEF Numbering, Telling
<1>. QED BY <1>1, <1>2, <1>3 DEF IInv

\* Every step keeps the invariant.
LEMMA Inductive == IInv /\ [FeedNext]_vars => IInv'
<1>. SUFFICES ASSUME IInv, [FeedNext]_vars PROVE IInv'  OBVIOUS
<1>t. /\ FeedTypeOK /\ LockHeld /\ Queued /\ Busy
  BY DEF IInv, Numbering, Telling
<1>1. ASSUME NEW c \in Clients, Begin(c) PROVE IInv'
  BY <1>1, BeginKeeps
<1>2. ASSUME NEW h \in Hosts, Deliver(h) PROVE IInv'
  BY <1>2, DeliverKeeps
<1>3. ASSUME NEW h \in Hosts, Crash(h) PROVE IInv'
  BY <1>3, CrashKeeps
<1>4. ASSUME NEW h \in Hosts, InitialiseFails(h) \/ GiveUp(h) PROVE IInv'
  <2>1. Emitting(h) /\ Rejected(h) /\ UNCHANGED <<log, tear, lock, port>>
    BY <1>4, <1>t DEF InitialiseFails, GiveUp, Busy
  <2>2. tear' \in Endings  BY <2>1, <1>t DEF FeedTypeOK, Endings
  <2>. QED BY <2>1, <2>2, RejectedKeeps
<1>5. ASSUME NEW h \in Hosts, Fails(h) \/ WriteTears(h) \/ (Check(h) /\ at'[h] # "writing")
      PROVE  IInv'
  <2>1. at[h] \in UnderLock /\ Emitting(h) /\ lock = h
    BY <1>5, <1>t DEF Fails, WriteTears, Check, UnderLock, Busy, LockHeld
  <2>2. Rejected(h) /\ Unlocked /\ port' = port
    <3>1. CASE Check(h) /\ at'[h] # "writing"
      <4>1. at' = [at EXCEPT ![h] = "writing"] => at'[h] = "writing"
        BY <1>t DEF FeedTypeOK
      <4>. QED BY <3>1, <4>1 DEF Check, Goto
    <3>2. CASE ~(Check(h) /\ at'[h] # "writing")
      BY <3>2, <1>5 DEF Fails, WriteTears
    <3>. QED BY <3>1, <3>2
  <2>3. /\ log' = log \/ (at[h] = "writing" /\ log' = Append(log, Event(h)))
        /\ tear' \in Endings
    BY <1>5, <1>t DEF Fails, WriteTears, Check, HalfWritten, FeedTypeOK, Endings
  <2>4. lock' \in {Free, Left}  BY <2>2 DEF Unlocked
  <2>. QED BY <2>1, <2>2, <2>3, <2>4, RejectedKeeps
<1>6. ASSUME NEW h \in Hosts,
             \/ Initialise(h) \/ Start(h) \/ Acquire(h) \/ Sync(h) \/ Write(h)
             \/ Check(h) /\ at'[h] = "writing"
      PROVE  IInv'
  BY <1>6, WorkKeeps
<1>7. ASSUME UNCHANGED vars PROVE IInv'
  BY <1>7 DEF vars, feed, IInv, FeedTypeOK, Numbering, Telling, LogIsNumbered, LockHeld,
              PortBehind, WritesNext, Synced, Queued, Busy, Logged, ToldIsLogged,
              InLog, Emitting, Client
<1>. QED
  BY <1>1, <1>2, <1>3, <1>4, <1>5, <1>6, <1>7 DEF FeedNext, Quietly, Advance

\* What the views do changes nothing of the feed, and what they hear of it is
\* a step of the feed.
LEMMA SurfaceStep == [Next]_surface => [FeedNext]_vars
BY DEF Next, surface, FeedNext, Hear, Die, Open, Read, ReadFails, Replay, Dispose

\* The invariant holds in every state of the feed.
THEOREM Invariance == Spec => []IInv
<1>1. SInit => IInv  BY Initially DEF SInit
<1>2. IInv /\ [Next]_surface => IInv'  BY Inductive, SurfaceStep
<1>. QED BY <1>1, <1>2, PTL DEF Spec

\* The feed keeps its types.
THEOREM FeedTypeCorrect == Spec => []FeedTypeOK
<1>1. IInv => FeedTypeOK  BY DEF IInv
<1>. QED BY Invariance, <1>1, PTL

\* However many processes append to the log, and wherever they fail or die:
\* the events are numbered 1, 2, 3, ... in file order.
THEOREM LogIsNumberedHolds == Spec => []LogIsNumbered
<1>1. IInv => LogIsNumbered  BY DEF IInv, Numbering
<1>. QED BY Invariance, <1>1, PTL

\* Every event that its announcer was told of is in the log.
THEOREM ToldIsLoggedHolds == Spec => []ToldIsLogged
<1>1. IInv => ToldIsLogged  BY DEF IInv, Telling
<1>. QED BY Invariance, <1>1, PTL
----------------------------------------------------------------------------
(* Nothing is skipped *)

\* What a step does to the log.
LEMMA LogStep ==
  ASSUME IInv, [FeedNext]_vars
  PROVE  log' = log \/ \E h \in Hosts : Emitting(h) /\ log' = Append(log, Event(h))
<1>t. Busy  BY DEF IInv, Telling
<1>1. ASSUME NEW h \in Hosts, at[h] = "writing" PROVE Emitting(h)
  BY <1>1, <1>t DEF Busy
<1>2. ASSUME NEW c \in Clients, Begin(c) PROVE log' = log
  BY <1>2 DEF Begin, Commit, CommitThrows, Spawn, RunEnds, feed
<1>3. ASSUME NEW h \in Hosts, Quietly(h) PROVE log' = log \/ (Emitting(h) /\ log' = Append(log, Event(h)))
  <2>1. CASE Write(h)  BY <2>1, <1>1 DEF Write, Written
  <2>2. CASE WriteTears(h)  BY <2>2, <1>1 DEF WriteTears, HalfWritten
  <2>3. CASE Initialise(h) \/ InitialiseFails(h) \/ Start(h) \/ Acquire(h) \/ GiveUp(h)
    BY <2>3 DEF Initialise, InitialiseFails, Start, Acquire, GiveUp
  <2>4. CASE Check(h) \/ Sync(h) \/ Fails(h)  BY <2>4 DEF Check, Sync, Fails
  <2>. QED BY <1>3, <2>1, <2>2, <2>3, <2>4 DEF Quietly, Advance
<1>4. ASSUME NEW h \in Hosts, Deliver(h) PROVE log' = log
  BY <1>4 DEF Deliver
<1>5. ASSUME NEW h \in Hosts, Crash(h) PROVE log' = log \/ (Emitting(h) /\ log' = Append(log, Event(h)))
  BY <1>5, <1>1 DEF Crash, Written, HalfWritten
<1>6. ASSUME UNCHANGED vars PROVE log' = log
  BY <1>6 DEF vars, feed
<1>. QED BY <1>2, <1>3, <1>4, <1>5, <1>6 DEF FeedNext

\* The event that is appended follows one that was acknowledged, and what was
\* acknowledged is in the log.
LEMMA SkipStep == IInv /\ NothingIsSkipped /\ [FeedNext]_vars => NothingIsSkipped'
<1>. SUFFICES ASSUME IInv, NothingIsSkipped, [FeedNext]_vars
              PROVE  NothingIsSkipped'
  OBVIOUS
<1>t. FeedTypeOK /\ Queued /\ ToldIsLogged  BY DEF IInv, Telling
<1>1. CASE log' = log  BY <1>1 DEF NothingIsSkipped
<1>2. ASSUME NEW h \in Hosts, Emitting(h), log' = Append(log, Event(h))
      PROVE  NothingIsSkipped'
  <2>1. Client(h) \in Clients /\ sent[Client(h)] \in Nat
    BY <1>2, <1>t, FirstClient DEF FeedTypeOK
  <2>2. PICK e : e = Event(h)  OBVIOUS
  <2>3. e.client = Client(h) /\ e.nth = sent[Client(h)] + 1  BY <2>2 DEF Event
  <2>4. PICK n \in Nat : n = Len(log)  BY <1>t DEF FeedTypeOK
  <2>5. /\ Len(log') = n + 1 /\ log'[n + 1] = e
        /\ \A i \in 1..n : log'[i] = log[i]
    <3>1. log \in Seq([client : Clients, nth : Nat, seq : Nat])  BY <1>t DEF FeedTypeOK
    <3>2. log' = Append(log, e)  BY <1>2, <2>2
    <3>. QED BY <3>1, <3>2, <2>4
  <2>6. ASSUME e.nth > 1
        PROVE  \E j \in 1..n : log[j].client = e.client /\ log[j].nth = e.nth - 1
    <3>1. sent[Client(h)] \in 1..sent[Client(h)]  BY <2>1, <2>3, <2>6
    <3>2. InLog(Client(h), sent[Client(h)])  BY <3>1, <2>1, <1>t DEF ToldIsLogged
    <3>3. PICK j \in 1..Len(log) : log[j].client = Client(h) /\ log[j].nth = sent[Client(h)]
      BY <3>2 DEF InLog
    <3>4. e.nth - 1 = sent[Client(h)]  BY <2>1, <2>3
    <3>. QED BY <3>3, <3>4, <2>3, <2>4
  <2>. SUFFICES ASSUME NEW i \in 1..(n + 1), log'[i].nth > 1
                PROVE  \E j \in 1..(i - 1) : /\ log'[j].client = log'[i].client
                                             /\ log'[j].nth = log'[i].nth - 1
    BY <2>5 DEF NothingIsSkipped
  <2>7. CASE i = n + 1
    <3>1. PICK j \in 1..n : log[j].client = e.client /\ log[j].nth = e.nth - 1
      BY <2>5, <2>6, <2>7
    <3>2. j \in 1..(i - 1) /\ log'[j] = log[j] /\ log'[i] = e  BY <2>5, <2>7
    <3>. QED BY <3>1, <3>2
  <2>8. CASE i # n + 1
    <3>1. i \in 1..n  BY <2>8
    <3>2. log'[i] = log[i]  BY <3>1, <2>5
    <3>3. PICK j \in 1..(i - 1) : log[j].client = log[i].client /\ log[j].nth = log[i].nth - 1
      BY <3>1, <3>2, <2>4 DEF NothingIsSkipped
    <3>4. j \in 1..n  BY <3>1
    <3>5. log'[j] = log[j]  BY <3>4, <2>5
    <3>. QED BY <3>2, <3>3, <3>5
  <2>. QED BY <2>7, <2>8
<1>. QED BY <1>1, <1>2, LogStep

\* The events of an announcer are in the log in their order, none left out:
\* nothing is announced after a change that could not be.
THEOREM NothingIsSkippedHolds == Spec => []NothingIsSkipped
<1>1. SInit => NothingIsSkipped  BY DEF SInit, Init, NothingIsSkipped
<1>2. IInv /\ NothingIsSkipped /\ [Next]_surface => NothingIsSkipped'
  BY SkipStep, SurfaceStep
<1>. QED BY <1>1, <1>2, Invariance, PTL DEF Spec

----------------------------------------------------------------------------
(* The views *)

Past == {"syncing", "delivering"}
Modes == {"closed", "reading", "replaying", "open"}
Views == [mode : Modes, read : SUBSET EventSet, buffer : SUBSET EventSet,
          applied : SUBSET EventSet, revision : Nat, phase : Nat]

Held(v) == v.read \cup v.buffer \cup v.applied

\* What a view keeps in each of its modes.
Shaped(v) ==
  /\ v.mode # "open" => v.applied = {}
  /\ v.mode \in {"closed", "reading"} => v.read = {}
  /\ v.mode \in {"closed", "open"} => v.buffer = {} /\ v.read = {}

\* From the moment the log was read, it has what the process's clients know.
Complete(h, v) ==
  v.mode \in {"replaying", "open"} =>
    \A c \in Clients : HostOf[c] = h =>
      \A n \in 1..sent[c] : \E e \in Held(v) : e.client = c /\ e.nth = n

\* An event that is written and not delivered is in the view, or it comes
\* after all that is.
Ahead(h, v) ==
  at[h] \in Past => Event(h) \in Held(v) \/ \A e \in Held(v) : e.seq < port[h].next

\* An event that is written is in the log under its number.
Placed == \A h \in Hosts : at[h] \in Past => Event(h) \in Events
Revisions == \A c \in Calls : rev[c] <= revision
ViewOK(h, v) == /\ Shaped(v) /\ Held(v) \subseteq Events /\ v.revision <= revision
                /\ Complete(h, v) /\ Ahead(h, v)
ViewInv == /\ view \in [Shown -> Views] /\ Placed /\ Revisions
           /\ \A h \in Shown : ViewOK(h, view[h])

\* A set of numbers that has a bound has a largest one.
LEMMA LargestExists ==
  ASSUME NEW S \in SUBSET Nat, S # {}, NEW b \in Nat, \A n \in S : n <= b
  PROVE  \E n \in S : \A m \in S : m <= n
<1>. DEFINE bounds == {k \in 0..b : \A m \in S : m <= k}
            up == {0..k : k \in bounds}
<1>1. b \in bounds /\ bounds \subseteq 0..b /\ \A k \in bounds : k \in Nat
  OBVIOUS
<1>2. PICK k \in bounds : \A y \in bounds : k <= y
  <2>1. IsFiniteSet(0..b) /\ 0..b \in up
    BY <1>1, FS_Interval
  <2>2. \A x \in up : x \in SUBSET (0..b)  BY <1>1
  <2>3. up \subseteq FiniteSubsetsOf(0..b)
    BY <2>1, <2>2, FS_Subset DEF FiniteSubsetsOf
  <2>4. IsWellFoundedOn(StrictSubsetOrdering(0..b), FiniteSubsetsOf(0..b))
    BY <2>1, FS_StrictSubsetOrderingWellFounded
  <2>5. PICK x \in up : \A y \in up : ~(<<y, x>> \in StrictSubsetOrdering(0..b))
    <3>. HIDE DEF up
    <3>. QED BY <2>1, <2>3, <2>4, WFMin
  <2>6. PICK k \in bounds : x = 0..k  OBVIOUS
  <2>7. ASSUME NEW y \in bounds, y < k PROVE FALSE
    <3>1. 0..y \in up /\ 0..y \subseteq x /\ 0..y # x  BY <2>6, <2>7, <1>1
    <3>2. <<0..y, x>> \in StrictSubsetOrdering(0..b)
      BY <3>1, <2>2 DEF StrictSubsetOrdering
    <3>. QED BY <3>1, <3>2, <2>5
  <2>8. \A y \in bounds : y \in Nat /\ k \in Nat  BY <1>1
  <2>9. \A y \in bounds : k <= y  BY <2>7, <2>8
  <2>. QED BY <2>9
<1>3. CASE k \in S  BY <1>3
<1>4. CASE k \notin S
  <2>1. k \in Nat /\ \A m \in S : m \in Nat /\ m <= k /\ m # k  BY <1>4
  <2>2. \A m \in S : m <= k - 1  BY <2>1
  <2>3. k > 0
    <3>1. PICK m \in S : TRUE  OBVIOUS
    <3>2. m \in Nat /\ m <= k /\ m # k /\ k \in Nat  BY <3>1, <2>1
    <3>. QED BY <3>2
  <2>4. k - 1 \in bounds  BY <2>2, <2>3, <1>1
  <2>. QED BY <1>2, <2>4, <2>1
<1>. QED BY <1>3, <1>4

\* Largest is the largest.
LEMMA LargestIs ==
  ASSUME NEW S \in SUBSET Nat, S # {}, NEW b \in Nat, \A n \in S : n <= b
  PROVE  Largest(S) \in S /\ Largest(S) <= b /\ \A m \in S : m <= Largest(S)
<1>1. \E n \in S : \A m \in S : m <= n  BY LargestExists
<1>. QED BY <1>1 DEF Largest

\* The events of the log, and what they have for numbers and revisions.
LEMMA EventsAre ==
  ASSUME IInv, Revisions
  PROVE  /\ Events \subseteq EventSet /\ Len(log) \in Nat
         /\ \A e \in Events : /\ e.seq \in 1..Len(log)
                              /\ Revision(e) \in Nat /\ Revision(e) <= revision
<1>t. FeedTypeOK /\ LogIsNumbered /\ log \in Seq(EventSet)
  BY DEF IInv, Numbering, FeedTypeOK, EventSet
<1>1. Len(log) \in Nat /\ \A i \in 1..Len(log) : log[i] \in EventSet  BY <1>t
<1>2. \A i \in 1..Len(log) : log[i].seq = i  BY <1>t DEF LogIsNumbered
<1>3. \A c \in Calls : rev[c] \in Nat /\ rev[c] <= revision
  BY <1>t DEF FeedTypeOK, Revisions
<1>4. revision \in Nat  BY <1>t DEF FeedTypeOK
<1>5. \A e : Revision(e) \in Nat /\ Revision(e) <= revision
  BY <1>3, <1>4 DEF Revision
<1>. QED BY <1>1, <1>2, <1>5 DEF Events

\* What a replay makes of a view: of the events it is given it takes those
\* that come after the last it has.
LEMMA ReplayedView ==
  ASSUME IInv, Revisions, NEW v \in Views, NEW S, S \subseteq Events,
         v.applied \subseteq Events, v.revision <= revision,
         NEW r, r = Replayed(v, S)
  PROVE  /\ r \in Views /\ r.mode = v.mode /\ r.read = v.read /\ r.buffer = v.buffer
         /\ r.revision <= revision
         /\ v.applied \subseteq r.applied /\ r.applied \subseteq v.applied \cup S
         /\ \A e \in S : \/ e \in r.applied
                         \/ \E d \in v.applied : e.seq <= d.seq
<1>. DEFINE fresh == {e \in S : e.seq > Last(v)}
            revs == {v.revision} \cup {Revision(e) : e \in fresh}
            phases == {e \in fresh : e.client \in Calls /\ e.nth = 1}
            phase == IF phases = {} THEN v.phase
                     ELSE Revision(CHOOSE e \in phases : \A d \in phases : d.seq <= e.seq)
<1>t. revision \in Nat  BY DEF IInv, FeedTypeOK
<1>v. /\ v.mode \in Modes /\ v.read \in SUBSET EventSet /\ v.buffer \in SUBSET EventSet
      /\ v.applied \in SUBSET EventSet /\ v.revision \in Nat /\ v.phase \in Nat
  BY DEF Views
<1>1. r = [v EXCEPT !.applied = v.applied \cup fresh, !.revision = Largest(revs),
                    !.phase = phase]
  BY DEF Replayed
<1>2. /\ Events \subseteq EventSet /\ Len(log) \in Nat
      /\ \A e \in Events : /\ e.seq \in 1..Len(log)
                           /\ Revision(e) \in Nat /\ Revision(e) <= revision
  BY EventsAre
<1>3. Largest(revs) \in Nat /\ Largest(revs) <= revision
  <2>1. revs \in SUBSET Nat /\ revs # {} /\ \A n \in revs : n <= revision
    BY <1>2, <1>v
  <2>. HIDE DEF revs
  <2>2. Largest(revs) \in revs /\ Largest(revs) <= revision
    BY <2>1, <1>t, LargestIs
  <2>. QED BY <2>1, <2>2
<1>4. phase \in Nat
  <2>1. CASE phases = {}  BY <2>1, <1>v
  <2>2. CASE phases # {}
    <3>. DEFINE seqs == {e.seq : e \in phases}
    <3>1. seqs \in SUBSET Nat /\ seqs # {} /\ \A n \in seqs : n <= Len(log)
      BY <2>2, <1>2
    <3>2. \E n \in seqs : \A m \in seqs : m <= n
      <4>. HIDE DEF seqs
      <4>. QED BY <3>1, <1>2, LargestExists
    <3>3. \E e \in phases : \A d \in phases : d.seq <= e.seq
      BY <3>2
    <3>4. (CHOOSE e \in phases : \A d \in phases : d.seq <= e.seq) \in phases
      <4>. HIDE DEF phases
      <4>. QED BY <3>3
    <3>5. phases \subseteq Events  OBVIOUS
    <3>. QED BY <3>4, <3>5, <2>2, <1>2
  <2>. QED BY <2>1, <2>2
<1>5. fresh \subseteq S /\ fresh \subseteq EventSet  BY <1>2
<1>6. \A e \in S : e \in fresh \/ \E d \in v.applied : e.seq <= d.seq
  <2>. DEFINE seqs == {0} \cup {e.seq : e \in v.applied}
  <2>1. seqs \in SUBSET Nat /\ seqs # {} /\ \A n \in seqs : n <= Len(log)
    BY <1>2
  <2>2. Largest(seqs) \in seqs
    <3>. HIDE DEF seqs
    <3>. QED BY <2>1, <1>2, LargestIs
  <2>3. Last(v) \in Nat /\ (Last(v) = 0 \/ \E d \in v.applied : d.seq = Last(v))
    BY <2>1, <2>2 DEF Last
  <2>4. ASSUME NEW e \in S, e \notin fresh PROVE \E d \in v.applied : e.seq <= d.seq
    <3>1. e.seq \in 1..Len(log)  BY <1>2
    <3>2. ~(e.seq > Last(v))  BY <2>4
    <3>3. e.seq <= Last(v) /\ Last(v) # 0  BY <3>1, <3>2, <2>3, <1>2
    <3>. QED BY <3>3, <2>3
  <2>. QED BY <2>4
<1>. HIDE DEF fresh, revs, phases, phase
<1>7. r = [mode |-> v.mode, read |-> v.read, buffer |-> v.buffer,
           applied |-> v.applied \cup fresh, revision |-> Largest(revs), phase |-> phase]
  BY <1>1 DEF Views
<1>8. v.applied \cup fresh \in SUBSET EventSet  BY <1>v, <1>5
<1>9. r \in Views  BY <1>7, <1>8, <1>v, <1>3, <1>4 DEF Views
<1>. QED BY <1>3, <1>5, <1>6, <1>7, <1>9

\* The log only grows: an event stays where it is.
LEMMA EventsStay ==
  ASSUME IInv, [FeedNext]_vars
  PROVE  Events \subseteq Events'
<1>t. FeedTypeOK /\ Queued /\ log \in Seq(EventSet)
  BY DEF IInv, Telling, FeedTypeOK, EventSet
<1>1. CASE log' = log  BY <1>1 DEF Events
<1>2. ASSUME NEW h \in Hosts, Emitting(h), log' = Append(log, Event(h))
      PROVE  Events \subseteq Events'
  <2>1. Event(h) \in EventSet  BY <1>2, <1>t, FirstClient
  <2>2. /\ Len(log') = Len(log) + 1 /\ Len(log) \in Nat
        /\ \A i \in 1..Len(log) : log'[i] = log[i]
    <3>1. PICK e \in EventSet : e = Event(h)  BY <2>1
    <3>. QED BY <3>1, <1>2, <1>t
  <2>. QED BY <2>2 DEF Events
<1>. QED BY <1>1, <1>2, LogStep

\* Of a port that has written, the step either wrote or left its event alone.
LEMMA EventStays ==
  ASSUME IInv, [FeedNext]_vars, NEW g \in Hosts, at'[g] \in Past
  PROVE  /\ Event(g)' = Event(g) /\ port'[g] = port[g]
         /\ at[g] \in Past \/ (at[g] = "writing" /\ log' = Append(log, Event(g)))
<1>t. FeedTypeOK /\ Queued /\ Busy
  BY DEF IInv, Telling
<1>e. ASSUME Client(g)' = Client(g), sent'[Client(g)] = sent[Client(g)], port'[g] = port[g]
      PROVE  Event(g)' = Event(g)
  BY <1>e DEF Event
<1>1. ASSUME NEW c \in Clients, Begin(c)
      PROVE  Event(g)' = Event(g) /\ port'[g] = port[g] /\ at[g] \in Past
  <2>1. /\ UNCHANGED <<at, sent, port>>
        /\ \A h \in Hosts : Emitting(h) => Client(h)' = Client(h)
    BY <1>1, BeginQueues
  <2>2. at[g] \in Past /\ Emitting(g)  BY <2>1, <1>t DEF Busy, Past
  <2>. QED BY <2>1, <2>2, <1>e
<1>2. ASSUME NEW h \in Hosts, Rejected(h), port' = port
      PROVE  Event(g)' = Event(g) /\ port'[g] = port[g] /\ at[g] \in Past
  <2>1. g # h /\ at'[g] = at[g] /\ queue'[g] = queue[g] /\ sent' = sent
    BY <1>2, <1>t DEF Rejected, FeedTypeOK, Past
  <2>. QED BY <2>1, <1>2, <1>e DEF Client
<1>3. ASSUME NEW h \in Hosts, Initialise(h) \/ Start(h) \/ Acquire(h)
                              \/ (Check(h) /\ at'[h] = "writing")
      PROVE  Event(g)' = Event(g) /\ port'[g] = port[g] /\ at[g] \in Past
  <2>1. /\ UNCHANGED sent
        /\ g # h => port'[g] = port[g]
        /\ \E s \in {"locking", "checking", "writing"} : at' = [at EXCEPT ![h] = s]
        /\ queue' = queue
    <3>1. CASE Initialise(h)  BY <3>1, <1>t DEF Initialise, Goto, FeedTypeOK
    <3>2. CASE Start(h) \/ Acquire(h)  BY <3>2 DEF Start, Acquire, Goto
    <3>3. CASE Check(h) /\ at'[h] = "writing"
      <4>1. ~Rejected(h)  BY <3>3, <1>t DEF Rejected, FeedTypeOK
      <4>. QED BY <3>3, <4>1 DEF Check, Goto
    <3>. QED BY <3>1, <3>2, <3>3, <1>3
  <2>2. g # h /\ at'[g] = at[g]
    <3>1. PICK s \in {"locking", "checking", "writing"} : at' = [at EXCEPT ![h] = s]
      BY <2>1
    <3>2. s \notin Past  BY DEF Past
    <3>3. at'[h] = s /\ (g # h => at'[g] = at[g])  BY <3>1, <1>t DEF FeedTypeOK
    <3>. QED BY <3>2, <3>3
  <2>. QED BY <2>1, <2>2, <1>e DEF Client
<1>4. ASSUME NEW h \in Hosts, Write(h) \/ Sync(h)
      PROVE  /\ Event(g)' = Event(g) /\ port'[g] = port[g]
             /\ at[g] \in Past \/ (at[g] = "writing" /\ log' = Append(log, Event(g)))
  <2>1. /\ UNCHANGED <<sent, port, queue>>
        /\ g # h => at'[g] = at[g]
        /\ g = h => at[g] \in Past \/ (at[g] = "writing" /\ log' = Append(log, Event(g)))
    BY <1>4, <1>t DEF Write, Written, Sync, Goto, FeedTypeOK, Past
  <2>. QED BY <2>1, <1>e DEF Client
<1>5. ASSUME NEW h \in Hosts, Quietly(h)
      PROVE  /\ Event(g)' = Event(g) /\ port'[g] = port[g]
             /\ at[g] \in Past \/ (at[g] = "writing" /\ log' = Append(log, Event(g)))
  <2>1. CASE InitialiseFails(h) \/ GiveUp(h) \/ WriteTears(h) \/ Fails(h)
    BY <2>1, <1>2 DEF InitialiseFails, GiveUp, WriteTears, Fails
  <2>2. CASE Check(h) /\ at'[h] # "writing"
    <3>1. Rejected(h) /\ port' = port  BY <2>2, <1>t DEF Check, Goto, FeedTypeOK
    <3>. QED BY <3>1, <1>2
  <2>. QED BY <2>1, <2>2, <1>3, <1>4, <1>5 DEF Quietly, Advance
<1>6. ASSUME NEW h \in Hosts, Deliver(h)
      PROVE  Event(g)' = Event(g) /\ port'[g] = port[g] /\ at[g] \in Past
  <2>1. /\ at[h] = "delivering" /\ at' = [at EXCEPT ![h] = "idle"]
        /\ port' = [port EXCEPT ![h].next = @ + 1]
        /\ sent' = [sent EXCEPT ![Client(h)] = @ + 1]
        /\ \E r : queue' = [queue EXCEPT ![h] = r]
    BY <1>6 DEF Deliver, Resolved
  <2>2. g # h /\ at'[g] = at[g] /\ port'[g] = port[g] /\ queue'[g] = queue[g]
    BY <2>1, <1>t DEF FeedTypeOK, Past
  <2>3. Emitting(g) /\ Emitting(h)  BY <2>1, <2>2, <1>t DEF Busy, Past
  <2>4. Client(g) # Client(h) /\ Client(g) \in Clients
    BY <2>2, <2>3, <1>t, FirstClient
  <2>5. sent'[Client(g)] = sent[Client(g)]  BY <2>1, <2>4, <1>t DEF FeedTypeOK
  <2>. QED BY <2>2, <2>5, <1>e DEF Client
<1>7. ASSUME NEW h \in Hosts, Crash(h)
      PROVE  Event(g)' = Event(g) /\ port'[g] = port[g] /\ at[g] \in Past
  <2>1. /\ g # h /\ at'[g] = at[g] /\ port'[g] = port[g] /\ queue'[g] = queue[g]
        /\ sent' = sent
    BY <1>7, <1>t DEF Crash, FeedTypeOK, Past
  <2>. QED BY <2>1, <1>e DEF Client
<1>8. ASSUME UNCHANGED vars
      PROVE  Event(g)' = Event(g) /\ port'[g] = port[g] /\ at[g] \in Past
  BY <1>8, <1>e DEF vars, feed, Client
<1>. QED BY <1>1, <1>5, <1>6, <1>7, <1>8 DEF FeedNext

\* What is written is placed.
LEMMA PlacedStep ==
  ASSUME IInv, Placed, [FeedNext]_vars
  PROVE  Placed'
<1>t. FeedTypeOK /\ Queued /\ Busy /\ log \in Seq(EventSet)
  BY DEF IInv, Telling, FeedTypeOK, EventSet
<1>. SUFFICES ASSUME NEW g \in Hosts, at'[g] \in Past
              PROVE  Event(g) \in Events'
  BY EventStays DEF Placed
<1>1. CASE at[g] \in Past  BY <1>1, EventsStay DEF Placed
<1>2. CASE at[g] = "writing" /\ log' = Append(log, Event(g))
  <2>1. Event(g) \in EventSet  BY <1>2, <1>t, FirstClient DEF Busy
  <2>2. PICK e \in EventSet : e = Event(g)  BY <2>1
  <2>3. Len(log') \in 1..Len(log') /\ log'[Len(log')] = e
    BY <2>2, <1>2, <1>t
  <2>. QED BY <2>2, <2>3 DEF Events
<1>. QED BY <1>1, <1>2, EventStays

\* The revisions of the calls are those that the state has had.
LEMMA RevisionsStep ==
  ASSUME IInv, Revisions, [FeedNext]_vars
  PROVE  Revisions' /\ revision <= revision' /\ revision \in Nat /\ revision' \in Nat
<1>t. revision \in Nat /\ rev \in [Calls -> Nat]  BY DEF IInv, FeedTypeOK
<1>1. \/ UNCHANGED <<revision, rev>>
      \/ \E c \in Calls : revision' = revision + 1 /\ rev' = [rev EXCEPT ![c] = revision + 1]
  BY DEF FeedNext, Begin, Commit, CommitThrows, Spawn, RunEnds, Quietly, Advance, Initialise,
         InitialiseFails, Start, Acquire, GiveUp, Check, Write, Sync, WriteTears, Fails,
         Rejected, Deliver, Resolved, Crash, vars
<1>2. CASE UNCHANGED <<revision, rev>>  BY <1>2, <1>t DEF Revisions
<1>3. ASSUME NEW c \in Calls, revision' = revision + 1, rev' = [rev EXCEPT ![c] = revision + 1]
      PROVE  Revisions' /\ revision <= revision' /\ revision' \in Nat
  BY <1>3, <1>t DEF Revisions
<1>. QED BY <1>1, <1>2, <1>3, <1>t

\* At the start there is no view.
LEMMA ClosedIsOK ==
  ASSUME IInv, NEW h \in Shown
  PROVE  Closed \in Views /\ ViewOK(h, Closed)
<1>1. Closed \in Views  BY DEF Closed, Views, Modes
<1>2. Held(Closed) = {} /\ Shaped(Closed) /\ Closed.revision = 0 /\ Closed.mode = "closed"
  BY DEF Held, Shaped, Closed
<1>3. revision \in Nat  BY DEF IInv, FeedTypeOK
<1>. QED BY <1>1, <1>2, <1>3 DEF ViewOK, Complete, Ahead

LEMMA ViewInitially == SInit => ViewInv
<1>. SUFFICES ASSUME SInit PROVE ViewInv  OBVIOUS
<1>1. IInv  BY Initially DEF SInit
<1>2. view = [h \in Shown |-> Closed]  BY DEF SInit
<1>3. Placed /\ Revisions
  BY ClientsHaveHosts DEF SInit, Init, Placed, Past, Revisions
<1>4. \A h \in Shown : Closed \in Views /\ ViewOK(h, Closed)  BY <1>1, ClosedIsOK
<1>. QED BY <1>2, <1>3, <1>4 DEF ViewInv

\* A step of the feed that tells the clients of the view's process nothing
\* leaves the view in order.
LEMMA KeptView ==
  ASSUME IInv, ViewInv, [FeedNext]_vars, NEW h \in Shown, NEW v, v = view[h],
         \A c \in Clients : HostOf[c] = h => sent'[c] = sent[c]
  PROVE  ViewOK(h, v)'
<1>t. /\ ViewOK(h, v) /\ Revisions /\ h \in Hosts /\ v \in Views
      /\ FeedTypeOK /\ WritesNext
  BY ShownAreHosts DEF ViewInv, IInv, Numbering
<1>1. Shaped(v) /\ Held(v) \subseteq Events'
  BY <1>t, EventsStay DEF ViewOK
<1>2. v.revision <= revision'
  <2>1. v.revision \in Nat /\ v.revision <= revision  BY <1>t DEF ViewOK, Views
  <2>. QED BY <2>1, <1>t, RevisionsStep
<1>3. Complete(h, v)'  BY <1>t DEF ViewOK, Complete
<1>4. Ahead(h, v)'
  <2>. SUFFICES ASSUME at'[h] \in Past
                PROVE  Event(h)' \in Held(v) \/ \A e \in Held(v) : e.seq < port'[h].next
    BY DEF Ahead
  <2>1. Event(h)' = Event(h) /\ port'[h] = port[h]  BY <1>t, EventStays
  <2>2. CASE at[h] \in Past  BY <2>1, <2>2, <1>t DEF ViewOK, Ahead
  <2>3. CASE at[h] = "writing"
    <3>1. port[h].next = Len(log) + 1 /\ Len(log) \in Nat
      BY <2>3, <1>t DEF WritesNext, FeedTypeOK
    <3>2. \A e \in Held(v) : e.seq \in 1..Len(log)
      BY <1>t, EventsAre DEF ViewOK
    <3>. QED BY <3>1, <3>2, <2>1
  <2>. QED BY <2>2, <2>3, <1>t, EventStays
<1>. QED BY <1>1, <1>2, <1>3, <1>4 DEF ViewOK

\* A view that hears its process's event has it then.
LEMMA HeardView ==
  ASSUME IInv, ViewInv, NEW h \in Shown, Deliver(h), NEW v, v = view[h],
         NEW w, w = Heard(v, Event(h))
  PROVE  w \in Views /\ ViewOK(h, w)'
<1>. DEFINE e == Event(h)
            c == Client(h)
<1>t. /\ ViewOK(h, v) /\ Revisions /\ h \in Hosts /\ v \in Views /\ Placed
      /\ FeedTypeOK /\ Queued /\ Busy
  BY ShownAreHosts DEF ViewInv, IInv, Telling
<1>r. /\ at[h] = "delivering" /\ at' = [at EXCEPT ![h] = "idle"]
      /\ sent' = [sent EXCEPT ![c] = @ + 1]
      /\ UNCHANGED <<log, revision, rev>>
  BY DEF Deliver, Resolved
<1>1. at'[h] \notin Past  BY <1>r, <1>t DEF FeedTypeOK, Past
<1>2. /\ e \in Events /\ e \in EventSet /\ c \in Clients /\ HostOf[c] = h
      /\ e.client = c /\ e.nth = sent[c] + 1 /\ e.seq = port[h].next
  BY <1>r, <1>t, FirstClient DEF Busy, Placed, Past, Event
<1>3. \A b \in Clients : sent[b] \in Nat /\ sent'[b] = IF b = c THEN sent[b] + 1 ELSE sent[b]
  BY <1>r, <1>t DEF FeedTypeOK
<1>4. Events' = Events  BY <1>r DEF Events
<1>. HIDE DEF e, c
<1>5. ASSUME w \in Views, Shaped(w), Held(w) \subseteq Events, w.revision <= revision,
             w.mode = v.mode, Held(v) \subseteq Held(w),
             w.mode \in {"replaying", "open"} => e \in Held(w)
      PROVE  ViewOK(h, w)'
  <2>1. Complete(h, w)'
    <3>. SUFFICES ASSUME w.mode \in {"replaying", "open"}, NEW b \in Clients, HostOf[b] = h,
                         NEW n \in 1..sent'[b]
                  PROVE  \E d \in Held(w) : d.client = b /\ d.nth = n
      BY DEF Complete
    <3>1. n \in 1..sent[b] \/ (b = c /\ n = sent[c] + 1)  BY <1>3
    <3>2. CASE n \in 1..sent[b]
      BY <3>2, <1>5, <1>t DEF ViewOK, Complete
    <3>3. CASE b = c /\ n = sent[c] + 1  BY <3>3, <1>5, <1>2
    <3>. QED BY <3>1, <3>2, <3>3
  <2>2. Ahead(h, w)'  BY <1>1 DEF Ahead
  <2>3. Held(w) \subseteq Events' /\ w.revision <= revision'  BY <1>4, <1>5, <1>r
  <2>. QED BY <2>1, <2>2, <2>3, <1>5 DEF ViewOK
<1>6. CASE v.mode \in {"reading", "replaying"}
  <2>1. w = [v EXCEPT !.buffer = v.buffer \cup {e}]  BY <1>6 DEF Heard, e
  <2>2. w \in Views  BY <2>1, <1>2, <1>t DEF Views
  <2>3. /\ w.mode = v.mode /\ w.read = v.read /\ w.applied = v.applied
        /\ w.buffer = v.buffer \cup {e} /\ w.revision = v.revision
    BY <2>1, <1>t DEF Views
  <2>4. Shaped(w)  BY <2>3, <1>6, <1>t DEF ViewOK, Shaped
  <2>5. Held(w) = Held(v) \cup {e}  BY <2>3 DEF Held
  <2>6. Held(w) \subseteq Events /\ w.revision <= revision
    BY <2>3, <2>5, <1>2, <1>t DEF ViewOK
  <2>. QED BY <1>5, <2>2, <2>3, <2>4, <2>5, <2>6
<1>7. CASE v.mode = "open"
  <2>1. w = Replayed(v, {e})  BY <1>7 DEF Heard, e
  <2>2. v.applied \subseteq Events /\ v.revision <= revision /\ {e} \subseteq Events
        /\ v.buffer = {} /\ v.read = {}
    BY <1>7, <1>2, <1>t DEF ViewOK, Held, Shaped
  <2>3. /\ w \in Views /\ w.mode = v.mode /\ w.read = v.read /\ w.buffer = v.buffer
        /\ w.revision <= revision
        /\ v.applied \subseteq w.applied /\ w.applied \subseteq v.applied \cup {e}
        /\ e \in w.applied \/ \E d \in v.applied : e.seq <= d.seq
    BY <2>1, <2>2, <1>t, ReplayedView
  <2>4. Held(v) = v.applied /\ Held(w) = w.applied  BY <2>2, <2>3 DEF Held
  <2>5. e \in w.applied
    <3>1. e \in v.applied \/ \A d \in v.applied : d.seq < port[h].next
      BY <2>4, <1>r, <1>t DEF ViewOK, Ahead, Past, e
    <3>2. \A d \in v.applied : d.seq \in Nat /\ e.seq \in Nat
      BY <1>t, <1>2, <2>2, EventsAre
    <3>3. (\A d \in v.applied : d.seq < port[h].next) => ~\E d \in v.applied : e.seq <= d.seq
      BY <3>2, <1>2
    <3>. QED BY <3>1, <3>3, <2>3
  <2>6. Shaped(w)  BY <2>2, <2>3, <1>7 DEF Shaped
  <2>7. Held(w) \subseteq Events  BY <2>2, <2>3, <2>4
  <2>. QED BY <1>5, <2>3, <2>4, <2>5, <2>6, <2>7
<1>8. CASE v.mode = "closed"
  <2>1. w = v  BY <1>8 DEF Heard
  <2>. QED BY <2>1, <1>5, <1>8, <1>t DEF ViewOK
<1>. QED BY <1>6, <1>7, <1>8, <1>t DEF Views, Modes

\* What a surface does of its own accord leaves its view in order.
LEMMA OwnStepKeeps ==
  ASSUME IInv, ViewInv, UNCHANGED vars, NEW h \in Shown,
         Open(h) \/ Read(h) \/ ReadFails(h) \/ Replay(h) \/ Dispose(h)
  PROVE  \E w \in Views : view' = [view EXCEPT ![h] = w] /\ ViewOK(h, w)
<1>. DEFINE v == view[h]
<1>t. /\ ViewOK(h, v) /\ Revisions /\ h \in Hosts /\ v \in Views /\ Placed
      /\ revision \in Nat /\ ToldIsLogged
  BY ShownAreHosts DEF ViewInv, IInv, Telling, FeedTypeOK
<1>. HIDE DEF v
<1>1. CASE Open(h)
  <2>0. PICK w : w = [Closed EXCEPT !.mode = "reading", !.revision = revision,
                                    !.phase = revision]
    OBVIOUS
  <2>1. w = [mode |-> "reading", read |-> {}, buffer |-> {}, applied |-> {},
             revision |-> revision, phase |-> revision]
    BY <2>0 DEF Closed
  <2>2. view' = [view EXCEPT ![h] = w]  BY <1>1, <2>0 DEF Open
  <2>3. w \in Views  BY <2>1, <1>t DEF Views, Modes
  <2>4. Held(w) = {} /\ Shaped(w)  BY <2>1 DEF Held, Shaped
  <2>5. w.mode = "reading" /\ w.revision = revision  BY <2>1
  <2>6. Complete(h, w)  BY <2>5 DEF Complete
  <2>7. Ahead(h, w)  BY <2>4 DEF Ahead
  <2>8. ViewOK(h, w)  BY <2>4, <2>5, <2>6, <2>7, <1>t DEF ViewOK
  <2>. QED BY <2>2, <2>3, <2>8
<1>2. CASE Read(h)
  <2>w. PICK w : w = [v EXCEPT !.mode = "replaying", !.read = Events]  OBVIOUS
  <2>0. v.mode = "reading" /\ view' = [view EXCEPT ![h] = w]
    <3>1. view' = [view EXCEPT ![h].mode = "replaying", ![h].read = Events]
      BY <1>2 DEF Read
    <3>2. view' = [view EXCEPT ![h] = w]
      BY <3>1, <2>w DEF v
    <3>. QED BY <3>2, <1>2 DEF Read, v
  <2>1. w = [mode |-> "replaying", read |-> Events, buffer |-> v.buffer, applied |-> v.applied,
             revision |-> v.revision, phase |-> v.phase]
    BY <2>w, <1>t DEF Views
  <2>2. w \in Views  BY <2>1, <1>t, EventsAre DEF Views, Modes
  <2>3. /\ Held(w) = Events \cup v.buffer \cup v.applied /\ Shaped(w)
        /\ w.mode = "replaying" /\ w.revision = v.revision
    BY <2>0, <2>1, <1>t DEF Held, ViewOK, Shaped
  <2>4. Held(w) = Events  BY <2>3, <1>t DEF ViewOK, Held
  <2>5. Complete(h, w)
    <3>1. ASSUME NEW c \in Clients, NEW n \in 1..sent[c]
          PROVE  \E e \in Events : e.client = c /\ e.nth = n
      BY <1>t DEF ToldIsLogged, InLog, Events
    <3>. QED BY <3>1, <2>4 DEF Complete
  <2>6. Ahead(h, w)  BY <2>4, <1>t DEF Ahead, Placed
  <2>7. ViewOK(h, w)  BY <2>3, <2>4, <2>5, <2>6, <1>t DEF ViewOK
  <2>. QED BY <2>0, <2>2, <2>7
<1>3. CASE ReadFails(h) \/ Dispose(h)
  BY <1>3, ClosedIsOK DEF ReadFails, Dispose
<1>4. CASE Replay(h)
  <2>. DEFINE S == v.read \cup v.buffer
              r == Replayed(v, S)
  <2>w. PICK w : w = [r EXCEPT !.mode = "open", !.read = {}, !.buffer = {}]  OBVIOUS
  <2>0. v.mode = "replaying" /\ view' = [view EXCEPT ![h] = w]
    BY <1>4, <2>w DEF Replay, v
  <2>1. v.applied = {} /\ S \subseteq Events /\ Held(v) = S /\ v.revision <= revision
    BY <2>0, <1>t DEF ViewOK, Shaped, Held
  <2>2. /\ r \in Views /\ r.revision <= revision /\ r.applied \subseteq v.applied \cup S
        /\ \A e \in S : e \in r.applied \/ \E d \in v.applied : e.seq <= d.seq
    <3>. HIDE DEF S
    <3>. QED BY <2>1, <1>t, ReplayedView
  <2>3. r.applied = S  BY <2>1, <2>2
  <2>. HIDE DEF r, S
  <2>4. w = [mode |-> "open", read |-> {}, buffer |-> {}, applied |-> r.applied,
             revision |-> r.revision, phase |-> r.phase]
    BY <2>w, <2>2 DEF Views
  <2>5. w \in Views  BY <2>2, <2>4 DEF Views, Modes
  <2>6. Held(w) = Held(v) /\ Shaped(w)  BY <2>1, <2>3, <2>4 DEF Held, Shaped
  <2>7. Complete(h, w)  BY <2>0, <2>6, <1>t DEF ViewOK, Complete
  <2>8. Ahead(h, w)  BY <2>6, <1>t DEF ViewOK, Ahead
  <2>9. ViewOK(h, w)  BY <2>2, <2>4, <2>6, <2>7, <2>8, <1>t DEF ViewOK
  <2>. QED BY <2>0, <2>5, <2>9
<1>. QED BY <1>1, <1>2, <1>3, <1>4

\* Every step keeps the views in order.
LEMMA ViewStep == IInv /\ ViewInv /\ [Next]_surface => ViewInv'
<1>. SUFFICES ASSUME IInv, ViewInv, [Next]_surface PROVE ViewInv'
  OBVIOUS
<1>t. /\ view \in [Shown -> Views] /\ Placed /\ Revisions /\ FeedTypeOK /\ Queued /\ Busy
      /\ \A h \in Shown : h \in Hosts
  BY ShownAreHosts DEF ViewInv, IInv, Telling
<1>n. [FeedNext]_vars /\ Placed' /\ Revisions' /\ IInv'
  BY <1>t, SurfaceStep, PlacedStep, RevisionsStep, Inductive
<1>1. ASSUME view' = view, sent' = sent PROVE ViewInv'
  <2>1. \A h \in Shown : ViewOK(h, view[h])'
    <3>. SUFFICES ASSUME NEW h \in Shown PROVE ViewOK(h, view[h])'  OBVIOUS
    <3>1. PICK v : v = view[h]  OBVIOUS
    <3>2. ViewOK(h, v)'  BY <3>1, <1>1, <1>n, KeptView
    <3>. QED BY <3>1, <3>2, <1>1
  <2>. QED BY <2>1, <1>1, <1>n, <1>t DEF ViewInv
<1>2. ASSUME NEW c \in Clients, Begin(c), UNCHANGED view PROVE ViewInv'
  BY <1>2, <1>1, BeginQueues
<1>3. ASSUME NEW h \in Hosts, Quietly(h), UNCHANGED view PROVE ViewInv'
  <2>1. sent' = sent
    BY <1>3 DEF Quietly, Advance, Initialise, InitialiseFails, Start, Acquire, GiveUp, Check,
                Write, Sync, WriteTears, Fails, Rejected
  <2>. QED BY <2>1, <1>1, <1>3
<1>4. ASSUME NEW h \in Hosts, Hear(h) PROVE ViewInv'
  <2>1. /\ Deliver(h) /\ at[h] = "delivering" /\ sent' = [sent EXCEPT ![Client(h)] = @ + 1]
        /\ view' = [s \in Shown |-> IF s = h THEN Heard(view[s], Event(s)) ELSE view[s]]
    BY <1>4 DEF Hear, Deliver, Resolved
  <2>2. Client(h) \in Clients /\ HostOf[Client(h)] = h
    BY <2>1, <1>t, FirstClient DEF Busy
  <2>3. ASSUME NEW s \in Shown PROVE view'[s] \in Views /\ ViewOK(s, view[s])'
    <3>1. PICK v : v = view[s]  OBVIOUS
    <3>2. PICK w : w = view'[s]  OBVIOUS
    <3>3. CASE s = h
      <4>1. w = Heard(v, Event(h))  BY <2>1, <3>1, <3>2, <3>3
      <4>2. w \in Views /\ ViewOK(h, w)'  BY <4>1, <3>1, <3>3, <2>1, HeardView
      <4>. QED BY <4>2, <3>2, <3>3
    <3>4. CASE s # h
      <4>1. w = v  BY <2>1, <3>1, <3>2, <3>4
      <4>2. \A c \in Clients : HostOf[c] = s => sent'[c] = sent[c]
        BY <2>1, <2>2, <3>4, <1>t DEF FeedTypeOK
      <4>3. ViewOK(s, v)'  BY <3>1, <4>2, <1>n, KeptView
      <4>4. v \in Views  BY <3>1, <1>t
      <4>. QED BY <4>1, <4>3, <4>4, <3>2
    <3>. QED BY <3>3, <3>4
  <2>4. view' \in [Shown -> Views]  BY <2>1, <2>3
  <2>5. \A s \in Shown : ViewOK(s, view[s])'  BY <2>3
  <2>. QED BY <2>4, <2>5, <1>n DEF ViewInv
<1>5. ASSUME NEW h \in Hosts, Die(h) PROVE ViewInv'
  <2>1. /\ sent' = sent
        /\ view' = [s \in Shown |-> IF s = h THEN Closed ELSE view[s]]
    BY <1>5 DEF Die, Crash
  <2>2. ASSUME NEW s \in Shown PROVE view'[s] \in Views /\ ViewOK(s, view[s])'
    <3>1. PICK v : v = view[s]  OBVIOUS
    <3>2. ViewOK(s, v)'  BY <3>1, <2>1, <1>n, KeptView
    <3>3. IInv' => Closed \in Views /\ ViewOK(s, Closed)'
      <4>1. Closed \in Views  BY ClosedIsOK
      <4>2. Held(Closed) = {} /\ Shaped(Closed) /\ Closed.revision = 0 /\ Closed.mode = "closed"
        BY DEF Held, Shaped, Closed
      <4>3. IInv' => revision' \in Nat  BY DEF IInv, FeedTypeOK
      <4>. QED BY <4>1, <4>2, <4>3 DEF ViewOK, Complete, Ahead
    <3>4. view'[s] = Closed \/ view'[s] = v  BY <2>1, <3>1
    <3>5. CASE view'[s] = Closed  BY <3>3, <3>5, <1>n
    <3>6. CASE view'[s] = v
      <4>1. v \in Views  BY <3>1, <1>t
      <4>. QED BY <4>1, <3>2, <3>6
    <3>. QED BY <3>4, <3>5, <3>6
  <2>3. view' \in [Shown -> Views]  BY <2>1, <2>2
  <2>4. \A s \in Shown : ViewOK(s, view[s])'  BY <2>2
  <2>. QED BY <2>3, <2>4, <1>n DEF ViewInv
<1>6. ASSUME NEW h \in Shown,
             Open(h) \/ Read(h) \/ ReadFails(h) \/ Replay(h) \/ Dispose(h)
      PROVE  ViewInv'
  <2>1. UNCHANGED vars  BY <1>6 DEF Open, Read, ReadFails, Replay, Dispose
  <2>2. PICK w \in Views : view' = [view EXCEPT ![h] = w] /\ ViewOK(h, w)
    BY <2>1, <1>6, OwnStepKeeps
  <2>3. view' \in [Shown -> Views] /\ view'[h] = w
        /\ \A s \in Shown : s # h => view'[s] = view[s]
    BY <2>2, <1>t
  <2>4. \A s \in Shown : ViewOK(s, view'[s])
    BY <2>2, <2>3 DEF ViewInv
  <2>5. ASSUME NEW s \in Shown PROVE ViewOK(s, view[s])'
    <3>1. PICK w2 : w2 = view'[s]  OBVIOUS
    <3>2. ViewOK(s, w2)  BY <2>4, <3>1
    <3>3. ViewOK(s, w2)'
      BY <3>2, <2>1 DEF ViewOK, Complete, Ahead, Event, Events, Client, vars, feed
    <3>. QED BY <3>1, <3>3
  <2>. QED BY <2>3, <2>5, <1>n DEF ViewInv
<1>7. ASSUME UNCHANGED surface PROVE ViewInv'
  BY <1>7, <1>1 DEF surface, vars
<1>. QED BY <1>2, <1>3, <1>4, <1>5, <1>6, <1>7 DEF Next

\* A view shows nothing that is not in the log, and an open view shows every
\* event that the clients of its process were told of, those included that
\* were appended while the surface was reading the log.
THEOREM ViewIsCompleteHolds == Spec => [](TypeOK /\ ViewIsComplete)
<1>1. SInit => ViewInv  BY ViewInitially
<1>2. IInv /\ ViewInv => TypeOK
  <2>. SUFFICES ASSUME IInv, ViewInv PROVE TypeOK  OBVIOUS
  <2>1. FeedTypeOK  BY DEF IInv
  <2>2. \A h \in Shown : view[h] \in Views  BY DEF ViewInv
  <2>. QED BY <2>1, <2>2 DEF TypeOK, Views, Modes, EventSet
<1>3. ViewInv => ViewIsComplete
  <2>. SUFFICES ASSUME ViewInv, NEW h \in Shown
                PROVE  /\ view[h].applied \subseteq Events
                       /\ view[h].mode = "open" =>
                            \A c \in Clients : HostOf[c] = h => \A n \in 1..sent[c] :
                              \E e \in view[h].applied : e.client = c /\ e.nth = n
    BY DEF ViewIsComplete
  <2>1. ViewOK(h, view[h])  BY DEF ViewInv
  <2>2. view[h].applied \subseteq Events  BY <2>1 DEF ViewOK, Held
  <2>3. view[h].mode = "open" => Held(view[h]) = view[h].applied
    BY <2>1 DEF ViewOK, Shaped, Held
  <2>. QED BY <2>1, <2>2, <2>3 DEF ViewOK, Complete
<1>. QED BY <1>1, <1>2, <1>3, ViewStep, Invariance, PTL DEF Spec

=============================================================================

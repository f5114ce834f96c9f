-------------------------- MODULE StateStoreProofs --------------------------
(***************************************************************************)
(* For any number of processes and any bound on revisions: the file, the   *)
(* lock and their failures implement the fenced register, and what a       *)
(* caller was told of survives.  The inductive invariant follows one call  *)
(* through the lock: only the lock's owner is inside (LockHeld), the       *)
(* revision it checked is still the file's until it renames (CheckHolds),  *)
(* and what it renamed is still there, and newer than anything answered,   *)
(* until it answers (Renamed, Synced).                                     *)
(*                                                                         *)
(* Of any inference through the app server: what its stream gives was told *)
(* by the child, and a stream that is over leaves nothing behind.          *)
(*                                                                         *)
(* And of any number of customers and clients: phones are unique, updates  *)
(* are told and walks meet what nobody touches.  The invariant relates     *)
(* three tables, the rows, their histories and the change log, and says of *)
(* a request between its two steps that what it has read is a past row.    *)
(* Of any number of requests to personnel: the log tells how every person  *)
(* became what is stored, a request that fails leaves nothing behind, and  *)
(* nobody is put above themselves or given the number of another.          *)
(***************************************************************************)
EXTENDS MCStateStore, MCServices, FiniteSetTheorems, SequenceTheorems,
        WellFoundedInduction, NaturalsInduction, TLAPS

LockHeld == \A p \in Procs : InLock(p) => lock = p

CheckHolds == \A p \in Procs : pc[p] \in {"writing", "renaming"} => file.rev = seen[p]

Renamed == \A p \in Procs : pc[p] \in {"syncing", "done"} =>
             file = [rev |-> seen[p] + 1, by |-> p] /\ acked < file.rev

Synced == \A p \in Procs : pc[p] = "done" => durable = file

IInv == TypeOK /\ LockHeld /\ CheckHolds /\ Renamed /\ Synced /\ AckedIsDurable

\* A state's revision is a number, and the one after it is a revision.
LEMMA RevisionsAreNumbers ==
  ASSUME NEW s \in States
  PROVE  s.rev \in Nat \cup {Absent} /\ s.rev \in Int
BY DEF States, NoState, Absent

\* The state a writer publishes is a state.
LEMMA NextStateIsState ==
  ASSUME NEW r \in Nat \cup {Absent}, NEW p \in Procs
  PROVE  [rev |-> r + 1, by |-> p] \in States
<1>1. r + 1 \in Nat  BY DEF Absent
<1>. QED BY <1>1 DEF States

\* The invariant holds at the start.
LEMMA Initially == Init => IInv
BY DEF Init, IInv, TypeOK, LockHeld, CheckHolds, Renamed, Synced, AckedIsDurable,
       InLock, Steps, States, NoState, Absent

\* A call that is inside the lock shares it with nobody.
LEMMA AloneInside ==
  ASSUME LockHeld, NEW p \in Procs, InLock(p), NEW q \in Procs, q # p
  PROVE  pc[q] = "idle"
BY DEF LockHeld, InLock

\* Every step keeps the invariant.
LEMMA Inductive == IInv /\ [Next]_vars => IInv'
<1>. SUFFICES ASSUME IInv, [Next]_vars PROVE IInv'  OBVIOUS
<1>. USE DEF IInv
<1>t. /\ TypeOK /\ LockHeld /\ CheckHolds /\ Renamed /\ Synced /\ AckedIsDurable
      /\ file.rev \in Nat \cup {Absent} /\ file.rev \in Int
      /\ durable.rev \in Nat \cup {Absent} /\ durable.rev \in Int
  BY RevisionsAreNumbers DEF TypeOK
<1>1. ASSUME NEW p \in Procs, Load(p) PROVE IInv'
  BY <1>1, <1>t DEF Load, TypeOK, LockHeld, CheckHolds, Renamed, Synced,
                    AckedIsDurable, InLock
<1>2. ASSUME NEW p \in Procs, Acquire(p) PROVE IInv'
  <2>. USE <1>2 DEF Acquire, Goto
  <2>1. TypeOK'  BY <1>t DEF TypeOK, Steps
  <2>2. \A q \in Procs : pc[q] = "idle"
    BY <1>t, NobodyIsNoProcess DEF LockHeld, InLock
  <2>3. LockHeld'  BY <1>t, <2>2 DEF LockHeld, InLock, TypeOK
  <2>4. CheckHolds' /\ Renamed' /\ Synced'
    BY <1>t, <2>2 DEF CheckHolds, Renamed, Synced, TypeOK
  <2>. QED BY <1>t, <2>1, <2>3, <2>4 DEF AckedIsDurable
<1>3. ASSUME NEW p \in Procs, CheckRevision(p) PROVE IInv'
  <2>. USE <1>3 DEF CheckRevision, Goto
  <2>1. TypeOK'  BY <1>t DEF TypeOK, Steps
  <2>2. LockHeld'  BY <1>t DEF LockHeld, InLock, TypeOK
  <2>3. CheckHolds' /\ Renamed' /\ Synced'
    BY <1>t DEF CheckHolds, Renamed, Synced, TypeOK
  <2>. QED BY <1>t, <2>1, <2>2, <2>3 DEF AckedIsDurable
<1>4. ASSUME NEW p \in Procs, WriteTemporary(p) PROVE IInv'
  <2>. USE <1>4 DEF WriteTemporary, Goto
  <2>1. TypeOK'  BY <1>t DEF TypeOK, Steps
  <2>2. LockHeld'  BY <1>t DEF LockHeld, InLock, TypeOK
  <2>3. CheckHolds' /\ Renamed' /\ Synced'
    BY <1>t DEF CheckHolds, Renamed, Synced, TypeOK
  <2>. QED BY <1>t, <2>1, <2>2, <2>3 DEF AckedIsDurable
<1>5. ASSUME NEW p \in Procs, Rename(p) PROVE IInv'
  <2>. USE <1>5 DEF Rename, Goto
  <2>1. file.rev = seen[p]  BY <1>t DEF CheckHolds
  <2>2. \A q \in Procs : q # p => pc[q] = "idle"
    BY <1>t, AloneInside DEF InLock
  <2>3. TypeOK'  BY <1>t, NextStateIsState DEF TypeOK, Steps
  <2>4. LockHeld'  BY <1>t DEF LockHeld, InLock, TypeOK
  <2>5. file'.rev = file.rev + 1  BY <2>1
  <2>6. AckedIsDurable' /\ acked' < file'.rev
    BY <1>t, <2>5 DEF AckedIsDurable, TypeOK, Absent
  <2>7. CheckHolds' /\ Renamed' /\ Synced'
    BY <1>t, <2>2, <2>6 DEF CheckHolds, Renamed, Synced, TypeOK
  <2>. QED BY <2>3, <2>4, <2>6, <2>7
<1>6. ASSUME NEW p \in Procs, SyncDirectory(p) PROVE IInv'
  <2>. USE <1>6 DEF SyncDirectory, Goto
  <2>1. TypeOK'  BY <1>t DEF TypeOK, Steps
  <2>2. LockHeld'  BY <1>t DEF LockHeld, InLock, TypeOK
  <2>3. \A q \in Procs : q # p => pc[q] = "idle"
    BY <1>t, AloneInside DEF InLock
  <2>4. CheckHolds' /\ Renamed' /\ Synced'
    BY <1>t, <2>3 DEF CheckHolds, Renamed, Synced, TypeOK
  <2>5. AckedIsDurable'  BY <1>t DEF AckedIsDurable, TypeOK, Absent
  <2>. QED BY <2>1, <2>2, <2>4, <2>5
<1>7. ASSUME NEW p \in Procs, Fail(p) PROVE IInv'
  <2>. USE <1>7 DEF Fail, Goto
  <2>1. TypeOK'  BY <1>t DEF TypeOK, Steps
  <2>2. LockHeld'  BY <1>t DEF LockHeld, InLock, TypeOK
  <2>3. CheckHolds' /\ Renamed' /\ Synced'
    BY <1>t DEF CheckHolds, Renamed, Synced, TypeOK
  <2>. QED BY <1>t, <2>1, <2>2, <2>3 DEF AckedIsDurable
<1>8. ASSUME NEW p \in Procs, Unlock(p) PROVE IInv'
  <2>. USE <1>8 DEF Unlock, Goto
  <2>1. \A q \in Procs : q # p => pc[q] = "idle"
    BY <1>t, AloneInside DEF InLock
  <2>2. TypeOK'  BY <1>t DEF TypeOK, Steps
  <2>3. \A q \in Procs : pc'[q] = "idle"  BY <1>t, <2>1 DEF TypeOK
  <2>4. LockHeld' /\ CheckHolds' /\ Renamed' /\ Synced'
    BY <2>3 DEF LockHeld, CheckHolds, Renamed, Synced, InLock
  <2>5. AckedIsDurable'  BY <1>t DEF AckedIsDurable, Synced, TypeOK, Absent
  <2>. QED BY <2>2, <2>4, <2>5
<1>9. ASSUME NEW p \in Procs, UnlockFails(p) PROVE IInv'
  <2>. USE <1>9 DEF UnlockFails, Goto
  <2>1. TypeOK'  BY <1>t DEF TypeOK, Steps
  <2>2. LockHeld'  BY <1>t DEF LockHeld, InLock, TypeOK
  <2>3. CheckHolds' /\ Renamed' /\ Synced'
    BY <1>t DEF CheckHolds, Renamed, Synced, TypeOK
  <2>. QED BY <1>t, <2>1, <2>2, <2>3 DEF AckedIsDurable
<1>10. ASSUME NEW p \in Procs, Crash(p) PROVE IInv'
  <2>. USE <1>10 DEF Crash, Goto
  <2>1. TypeOK'  BY <1>t DEF TypeOK, Steps, Absent
  <2>2. LockHeld'  BY <1>t DEF LockHeld, InLock, TypeOK
  <2>3. CheckHolds' /\ Renamed' /\ Synced'
    BY <1>t DEF CheckHolds, Renamed, Synced, TypeOK
  <2>. QED BY <1>t, <2>1, <2>2, <2>3 DEF AckedIsDurable
<1>11. ASSUME PowerLoss PROVE IInv'
  <2>. USE <1>11 DEF PowerLoss
  <2>1. TypeOK'  BY <1>t DEF TypeOK, Steps, Absent
  <2>2. LockHeld' /\ CheckHolds' /\ Renamed' /\ Synced'
    BY DEF LockHeld, CheckHolds, Renamed, Synced, InLock
  <2>3. AckedIsDurable'  BY <1>t DEF AckedIsDurable
  <2>. QED BY <2>1, <2>2, <2>3
<1>12. ASSUME WriteBack PROVE IInv'
  <2>. USE <1>12 DEF WriteBack
  <2>1. TypeOK'  BY <1>t DEF TypeOK
  <2>2. LockHeld' /\ CheckHolds' /\ Renamed' /\ Synced'
    BY <1>t DEF LockHeld, CheckHolds, Renamed, Synced, InLock
  <2>3. AckedIsDurable'  BY <1>t DEF AckedIsDurable, TypeOK, Absent
  <2>. QED BY <2>1, <2>2, <2>3
<1>13. ASSUME UNCHANGED vars PROVE IInv'
  BY <1>13, <1>t DEF vars, TypeOK, LockHeld, CheckHolds, Renamed, Synced,
                     AckedIsDurable, InLock
<1>. QED
  BY <1>1, <1>2, <1>3, <1>4, <1>5, <1>6, <1>7, <1>8, <1>9, <1>10, <1>11, <1>12,
     <1>13 DEF Next, Call

\* The invariant holds in every state of the store.
THEOREM Invariance == Spec => []IInv
BY Initially, Inductive, PTL DEF Spec

\* The store keeps its types: a file that exists has a revision and a writer.
THEOREM TypeCorrect == Spec => []TypeOK
<1>1. IInv => TypeOK  BY DEF IInv
<1>. QED BY Invariance, <1>1, PTL

\* A revision that a caller of transact was told of is never lost.
THEOREM AckedIsDurableHolds == Spec => []AckedIsDurable
<1>1. IInv => AckedIsDurable  BY DEF IInv
<1>. QED BY Invariance, <1>1, PTL

----------------------------------------------------------------------------
(* The refinement *)

\* The initial store is the initial register.
LEMMA RegisterInitially == Init => Register!RInit
BY DEF Init, Register!RInit, Register!Nothing, Register!Absent, Register!Nobody,
       NoState, Absent, Nobody

\* Every step of the store is a step of the register or changes none of its
\* variables.
LEMMA RegisterStep == IInv /\ [Next]_vars => [Register!RNext]_(Register!rvars)
<1>. SUFFICES ASSUME IInv, [Next]_vars
              PROVE  Register!RNext \/ UNCHANGED Register!rvars
  OBVIOUS
<1>. USE DEF IInv
<1>1. ASSUME NEW p \in Procs, Load(p) PROVE Register!Read(p)
  BY <1>1 DEF Load, Register!Read
<1>2. ASSUME NEW p \in Procs,
             \/ Acquire(p) \/ CheckRevision(p) \/ WriteTemporary(p)
             \/ Fail(p) \/ UnlockFails(p)
      PROVE  UNCHANGED Register!rvars
  BY <1>2 DEF Acquire, CheckRevision, WriteTemporary, Fail,
              UnlockFails, Register!rvars
<1>3. ASSUME NEW p \in Procs, Rename(p) PROVE Register!Commit(p)
  <2>1. file.rev = seen[p]  BY <1>3 DEF Rename, CheckHolds
  <2>. QED BY <1>3, <2>1 DEF Rename, Register!Commit
<1>4. ASSUME NEW p \in Procs, SyncDirectory(p) PROVE Register!Persist
  BY <1>4 DEF SyncDirectory, Register!Persist
<1>5. ASSUME NEW p \in Procs, Unlock(p), pc[p] = "done" PROVE Register!Answer(p)
  <2>1. file = [rev |-> seen[p] + 1, by |-> p] /\ acked < file.rev
    BY <1>5 DEF Renamed
  <2>2. durable = file  BY <1>5 DEF Synced
  <2>. QED BY <1>5, <2>1, <2>2 DEF Unlock, Register!Answer
<1>6. ASSUME NEW p \in Procs, Unlock(p), pc[p] # "done"
      PROVE  UNCHANGED Register!rvars
  BY <1>6 DEF Unlock, Register!rvars
<1>7. ASSUME NEW p \in Procs, Crash(p) PROVE Register!Forget(p)
  BY <1>7 DEF Crash, Register!Forget, Register!Absent, Absent
<1>8. ASSUME PowerLoss PROVE Register!PowerLoss
  BY <1>8 DEF PowerLoss, Register!PowerLoss, Register!Absent, Absent
<1>9. ASSUME WriteBack PROVE Register!Persist
  BY <1>9 DEF WriteBack, Register!Persist
<1>10. ASSUME UNCHANGED vars PROVE UNCHANGED Register!rvars
  BY <1>10 DEF vars, Register!rvars
<1>. QED
  BY <1>1, <1>2, <1>3, <1>4, <1>5, <1>6, <1>7, <1>8, <1>9, <1>10
  DEF Next, Call, Register!RNext

\* The state store implements the fenced register: no lost update, no success
\* reported for a write that is not the caller's own or not on disk.
THEOREM Refinement == Spec => ImplementsRegister
<1>. QED
  BY RegisterInitially, RegisterStep, Invariance, PTL
  DEF Spec, ImplementsRegister, Register!RSpec

----------------------------------------------------------------------------
(* The inference, however many frames are on their way.  What is given was *)
(* on the wire, and settled the turn, before; that nothing is left follows *)
(* from where the stream, its client and its child stand to each other.    *)
Told == {"answer", "tool"}
Frames == A!Calls \cup Told \cup {"error", "garbage"}

StreamTypeOK ==
  /\ at \in A!Calls \cup {"idle", "waiting", "release", "releasing", "done"}
  /\ pending \in A!Calls \cup {"none"} /\ reply \in {"none", "ok", "error"}
  /\ turn \in Told \cup {"open", "error"} /\ outcome \in Told \cup {"none", "error"}
  /\ lifecycle \in {"idle", "starting", "ready", "failed", "disposing", "disposed"}
  /\ child \in {"none", "up", "gone"} /\ wire \in Seq(Frames)
  /\ killing \in {"no", "ending", "terminating", "killed", "done"}
  /\ directory \in BOOLEAN /\ closed \in BOOLEAN /\ told \subseteq Told

\* What the child said is passed on and never made up.
PassedOn ==
  /\ \A i \in 1..Len(wire) : wire[i] \in Told => wire[i] \in told
  /\ turn \in Told => turn \in told
  /\ outcome \in Told => outcome \in told

\* A child is there from the first request on; of a client that is disposed of
\* nothing is pending, and its child is gone once that was seen to.
Disposal ==
  /\ at = "idle" <=> child = "none"
  /\ at = "idle" => lifecycle = "idle" /\ wire = <<>>
  /\ A!Dead => pending = "none" /\ killing # "no"
  /\ killing \in {"killed", "done"} => child = "gone"
  /\ lifecycle = "disposed" => killing = "done"

\* The stream is over when its client is; it has given something before.
Over ==
  /\ at \in {"interrupt", "release", "releasing", "done"} => outcome # "none"
  /\ at = "done" => lifecycle = "disposed" /\ ~directory

StreamInv == StreamTypeOK /\ PassedOn /\ Disposal /\ Over

LEMMA CallsAre == A!Calls = {"initialize", "account", "config", "thread", "turn", "interrupt"}
<1>1. \A r : r \in A!Calls <=> \/ \E i \in 1..5 : r = A!Requests[i]
                               \/ r = "interrupt"
  BY DEF A!Calls
<1>2. /\ A!Requests[1] = "initialize" /\ A!Requests[2] = "account" /\ A!Requests[3] = "config"
      /\ A!Requests[4] = "thread" /\ A!Requests[5] = "turn"
  BY DEF A!Requests
<1>3. \A i \in 1..5 : i = 1 \/ i = 2 \/ i = 3 \/ i = 4 \/ i = 5  OBVIOUS
<1>. QED BY <1>1, <1>2, <1>3

\* The next request is one, and not the first.
LEMMA FollowingIsCall ==
  ASSUME at \in {"initialize", "account", "config", "thread"}
  PROVE  A!Following(at) \in {"account", "config", "thread", "turn"}
<1>1. /\ A!Requests[1] = "initialize" /\ A!Requests[2] = "account" /\ A!Requests[3] = "config"
      /\ A!Requests[4] = "thread" /\ A!Requests[5] = "turn"
  BY DEF A!Requests
<1>2. \E i \in 1..4 : A!Requests[i] = at  BY <1>1
<1>3. PICK k : k = CHOOSE i \in 1..4 : A!Requests[i] = at  OBVIOUS
<1>4. k \in 1..4  BY <1>2, <1>3
<1>5. A!Following(at) = A!Requests[k + 1]  BY <1>3 DEF A!Following
<1>6. k = 1 \/ k = 2 \/ k = 3 \/ k = 4  BY <1>4
<1>. QED BY <1>1, <1>5, <1>6

\* The stream's own steps.
LEMMA StreamStepKeeps ==
  ASSUME StreamTypeOK, PassedOn, Disposal, Over, A!Begin \/ A!Step
  PROVE  StreamTypeOK' /\ PassedOn' /\ Disposal' /\ Over'
<1>c. A!Calls = {"initialize", "account", "config", "thread", "turn", "interrupt"}
  BY CallsAre
<1>1. CASE A!Begin
  BY <1>1, <1>c DEF A!Begin, StreamTypeOK, PassedOn, Disposal, Over, A!Dead, Told
<1>2. CASE A!Proceed
  <2>1. A!Following(at) \in {"account", "config", "thread", "turn"}
    BY <1>2, FollowingIsCall DEF A!Proceed
  <2>. QED BY <1>2, <1>c, <2>1 DEF A!Proceed, A!Sends, StreamTypeOK, PassedOn, Disposal, Over,
                                   A!Dead, Told
<1>3. CASE A!Wait
  BY <1>3, <1>c DEF A!Wait, StreamTypeOK, PassedOn, Disposal, Over, A!Dead, Told
<1>8. CASE A!Interrupted
  BY <1>8, <1>c DEF A!Interrupted, StreamTypeOK, PassedOn, Disposal, Over, A!Dead, Told
<1>7. CASE A!Released
  BY <1>7, <1>c DEF A!Released, StreamTypeOK, PassedOn, Disposal, Over, A!Dead, Told
<1>4. CASE A!GiveUp
  BY <1>4, <1>c DEF A!GiveUp, A!Interrupts, A!Sends, StreamTypeOK, PassedOn, Disposal, Over,
                    A!Dead, Told
<1>5. CASE A!Deliver
  BY <1>5, <1>c DEF A!Deliver, A!Interrupts, A!Sends, StreamTypeOK, PassedOn, Disposal, Over,
                    A!Dead, Told
<1>6. CASE A!Release
  BY <1>6, <1>c DEF A!Release, A!Disposes, A!Rejected, StreamTypeOK, PassedOn, Disposal, Over,
                    A!Dead, Told
<1>. QED BY <1>1, <1>2, <1>3, <1>4, <1>5, <1>6, <1>7, <1>8 DEF A!Step

\* What the child does, and what is read of it.
LEMMA ChildKeeps ==
  ASSUME StreamTypeOK, PassedOn, Disposal, Over,
         \/ \E r \in A!Calls : A!Answer(r)
         \/ \E frame \in {"answer", "tool", "error"} : A!Say(frame)
         \/ A!Garbage \/ A!Exit \/ A!Receive
  PROVE  StreamTypeOK' /\ PassedOn' /\ Disposal' /\ Over'
<1>c. A!Calls = {"initialize", "account", "config", "thread", "turn", "interrupt"}
  BY CallsAre
<1>1. ASSUME NEW frame \in Frames, A!Writes(frame), told \subseteq told', told' \subseteq Told,
             frame \in Told => frame \in told'
      PROVE  StreamTypeOK' /\ PassedOn' /\ Disposal' /\ Over'
  <2>1. wire' = Append(wire, frame) /\ wire \in Seq(Frames)
    BY <1>1 DEF A!Writes, StreamTypeOK
  <2>2. /\ wire' \in Seq(Frames) /\ Len(wire') = Len(wire) + 1
        /\ wire'[Len(wire) + 1] = frame /\ Len(wire) \in Nat
        /\ \A i \in 1..Len(wire) : wire'[i] = wire[i]
    BY <2>1
  <2>3. StreamTypeOK'
    BY <1>1, <2>2 DEF A!Writes, StreamTypeOK
  <2>4. ASSUME NEW i \in 1..Len(wire'), wire'[i] \in Told PROVE wire'[i] \in told'
    BY <1>1, <2>2, <2>4 DEF PassedOn
  <2>5. PassedOn'
    BY <1>1, <2>4 DEF A!Writes, PassedOn
  <2>. QED BY <1>1, <2>3, <2>5 DEF A!Writes, Disposal, Over, A!Dead
<1>2. CASE \E r \in A!Calls : A!Answer(r)
  BY <1>1, <1>2, <1>c DEF A!Answer, Frames, Told, StreamTypeOK
<1>3. CASE \E frame \in {"answer", "tool", "error"} : A!Say(frame)
  BY <1>1, <1>3 DEF A!Say, Frames, Told, StreamTypeOK
<1>4. CASE A!Garbage
  BY <1>1, <1>4 DEF A!Garbage, Frames, Told, StreamTypeOK
<1>5. CASE A!Exit
  BY <1>5, <1>c DEF A!Exit, A!Fails, A!Rejected, StreamTypeOK, PassedOn, Disposal, Over,
                    A!Dead, Told
<1>6. CASE A!Receive
  <2>1. /\ wire \in Seq(Frames) /\ wire # <<>> /\ wire' = Tail(wire)
        /\ UNCHANGED <<at, child, directory, killing, closed, told, outcome>>
    BY <1>6 DEF A!Receive, StreamTypeOK
  <2>2. /\ wire' \in Seq(Frames) /\ Len(wire') = Len(wire) - 1 /\ Len(wire) \in Nat \ {0}
        /\ \A i \in 1..Len(wire') : wire'[i] = wire[i + 1]
        /\ wire[1] \in Frames
    BY <2>1
  <2>3. \A i \in 1..Len(wire') : wire'[i] \in Told => wire'[i] \in told'
    BY <2>1, <2>2 DEF PassedOn
  <2>4. wire[1] \in Told => wire[1] \in told
    BY <2>2 DEF PassedOn
  <2>5. PICK frame : frame = wire[1]  OBVIOUS
  <2>6. frame \in Frames /\ (frame \in Told => frame \in told)
    BY <2>2, <2>4, <2>5
  <2>7. \/ UNCHANGED <<pending, reply, turn, lifecycle>>
        \/ /\ ~A!Dead /\ lifecycle' \in {lifecycle, "failed"} /\ pending' \in {pending, "none"}
           /\ reply' \in {reply, "ok", "error"}
           /\ \/ turn' \in {turn, "error"}
              \/ turn' = frame /\ frame \notin A!Calls \cup {"garbage"}
    BY <1>6, <2>5 DEF A!Receive, A!Fails, A!Rejected
  <2>8. turn' \in Told \cup {"open", "error"} /\ (turn' \in Told => turn' \in told)
    BY <2>6, <2>7 DEF StreamTypeOK, PassedOn, Frames, Told
  <2>9. StreamTypeOK'
    BY <2>1, <2>2, <2>7, <2>8 DEF StreamTypeOK
  <2>10. PassedOn'
    BY <2>1, <2>3, <2>8 DEF PassedOn
  <2>11. Disposal'
    <3>1. at # "idle"  BY <2>1 DEF Disposal
    <3>2. A!Dead' => A!Dead /\ UNCHANGED <<pending, lifecycle>>
      BY <2>7 DEF A!Dead
    <3>3. lifecycle' = "disposed" => lifecycle = "disposed"
      BY <2>7
    <3>. QED BY <2>1, <3>1, <3>2, <3>3 DEF Disposal
  <2>12. Over'
    BY <2>1, <2>7 DEF Over, A!Dead
  <2>. QED BY <2>9, <2>10, <2>11, <2>12
<1>. QED BY <1>2, <1>3, <1>4, <1>5, <1>6

\* The timers and the disposals.
LEMMA TimersKeep ==
  ASSUME StreamTypeOK, PassedOn, Disposal, Over,
         A!Kill \/ A!RequestTimeout \/ A!Timeout \/ A!Close
  PROVE  StreamTypeOK' /\ PassedOn' /\ Disposal' /\ Over'
<1>c. A!Calls = {"initialize", "account", "config", "thread", "turn", "interrupt"}
  BY CallsAre
<1>1. CASE A!Kill
  BY <1>1, <1>c DEF A!Kill, StreamTypeOK, PassedOn, Disposal, Over, A!Dead, Told
<1>2. CASE A!RequestTimeout
  BY <1>2, <1>c DEF A!RequestTimeout, StreamTypeOK, PassedOn, Disposal, Over, A!Dead, Told
<1>3. CASE A!Timeout
  BY <1>3, <1>c DEF A!Timeout, A!Running, A!Settles, A!Disposes, A!Rejected, StreamTypeOK,
                    PassedOn, Disposal, Over, A!Dead, Told
<1>4. CASE A!Close
  BY <1>4, <1>c DEF A!Close, A!Running, A!Disposes, A!Rejected, StreamTypeOK, PassedOn,
                    Disposal, Over, A!Dead, Told
<1>. QED BY <1>1, <1>2, <1>3, <1>4

\* What a stream gives is what the child said of its turn, and a stream that is
\* over leaves no request, child or directory, whatever times out, is aborted,
\* disposed of or dies meanwhile: codex-llm-adapter.ts stream.
THEOREM OutcomeIsToldHolds == HostSpec => []OutcomeIsTold
<1>1. HostInit => StreamInv
  <2>. SUFFICES ASSUME A!Init PROVE StreamInv  BY DEF HostInit
  <2>0. wire = <<>> /\ <<>> \in Seq(Frames)  BY DEF A!Init
  <2>1. StreamTypeOK  BY <2>0 DEF A!Init, StreamTypeOK
  <2>2. PassedOn  BY DEF A!Init, PassedOn, Told
  <2>3. Disposal /\ Over  BY DEF A!Init, Disposal, Over, A!Dead
  <2>. QED BY <2>1, <2>2, <2>3 DEF StreamInv
<1>2. StreamInv /\ [HostNext]_<<part, vars, stream>> => StreamInv'
  <2>. SUFFICES ASSUME StreamInv, [HostNext]_<<part, vars, stream>>
                PROVE  StreamTypeOK' /\ PassedOn' /\ Disposal' /\ Over'
    BY DEF StreamInv
  <2>2. StreamTypeOK /\ PassedOn /\ Disposal /\ Over  BY DEF StreamInv
  <2>3. CASE A!Next
    BY <2>2, <2>3, StreamStepKeeps, ChildKeeps, TimersKeep DEF A!Next
  <2>4. CASE UNCHANGED stream
    BY <2>2, <2>4 DEF stream, StreamTypeOK, PassedOn, Disposal, Over, A!Dead
  <2>. QED BY <2>3, <2>4 DEF HostNext
<1>3. StreamInv => OutcomeIsTold
  BY DEF StreamInv, Disposal, Over, PassedOn, Told, OutcomeIsTold, A!OutcomeIsTold, A!Dead
<1>. QED BY <1>1, <1>2, <1>3, PTL DEF HostSpec

----------------------------------------------------------------------------
(* Customers *)

IsRow(r) ==
  /\ DOMAIN r = {"values", "key", "version", "createdBy", "updatedBy", "createdAt", "updatedAt"}
  /\ r.version \in Nat \ {0} /\ r.updatedAt \in Nat

TablesOK ==
  /\ DOMAIN rows = Ids /\ DOMAIN changes = Ids /\ DOMAIN history = Ids /\ DOMAIN flights = Clients
  /\ now \in Nat /\ IsFiniteSet(Stored)
  /\ \A id \in Ids : \E S : history[id] \in Seq(S)
  /\ \A id \in Ids : \E S : changes[id] \in Seq(S)

\* A stored row is the last of its history.
RowsOK ==
  /\ \A id \in Stored : /\ IsRow(rows[id]) /\ rows[id].updatedAt <= now
                        /\ Len(history[id]) = rows[id].version
                        /\ history[id][rows[id].version] = rows[id]
  /\ \A id \in Ids \ Stored : history[id] = <<>> /\ changes[id] = <<>>

\* What was read of a number is a row that it had.
Past(id, row) == /\ id \in Stored
                 /\ row.version \in 1..Len(history[id]) /\ history[id][row.version] = row

\* What a walk has not seen and nobody has touched since has its place behind
\* the pages that were asked for.
WalkOK(f) ==
  /\ DOMAIN f = {"at", "keyword", "page", "seen", "from"}
  /\ f.page \in Nat \ {0}
  /\ \A id \in Ids : f.from[id] # NoRow =>
       /\ id \in Stored /\ f.from[id].version \in Nat
       /\ rows[id] = f.from[id] \/ f.from[id].version < rows[id].version
  /\ f.keyword = Unfiltered => \A id \in Ids :
       f.from[id] # NoRow /\ rows[id] = f.from[id] /\ id \notin f.seen =>
         f.at = "walk" /\ Offset(f.page) <= Place(id, Unfiltered)

FlightOK(f) ==
  \/ f.at = "answered" /\ "seen" \notin DOMAIN f
  \/ f.at = "update" /\ Past(f.id, f.current)
  \/ f.at \in {"detail", "changes"}
  \/ f.at \in {"walk", "answered"} /\ WalkOK(f)

CustomersInv ==
  /\ TablesOK /\ RowsOK /\ PhonesUnique /\ LogEndsInTheRow
  /\ \A c \in Clients : FlightOK(flights[c])

\* A step that writes a row at most: a row that is new or newer.
Grown(id) ==
  \/ rows'[id] = rows[id] /\ history'[id] = history[id]
  \/ /\ IsRow(rows'[id]) /\ rows'[id].updatedAt >= now
     /\ history'[id] = Append(history[id], rows'[id])
     /\ rows'[id].version = IF rows[id] = NoRow THEN 1 ELSE rows[id].version + 1
Growth == TablesOK' /\ \A id \in Ids : Grown(id)

LEMMA RowIsARow ==
  ASSUME NEW r, r.version \in Nat \ {0}
  PROVE  r # NoRow
BY DEF NoRow

\* What was stored stays stored, and its history only gets longer.
LEMMA PastStays ==
  ASSUME TablesOK, RowsOK, Growth, NEW id \in Stored
  PROVE  /\ id \in Stored'
         /\ rows'[id] = rows[id] \/ rows[id].version < rows'[id].version
         /\ Len(history[id]) <= Len(history'[id])
         /\ \A k \in 1..Len(history[id]) : history'[id][k] = history[id][k]
<1>1. id \in Ids /\ rows[id] # NoRow /\ Grown(id) /\ rows[id].version \in Nat \ {0}
  BY DEF Stored, Growth, RowsOK, IsRow
<1>2. PICK S : history[id] \in Seq(S)  BY <1>1 DEF TablesOK
<1>3. CASE rows'[id] = rows[id] /\ history'[id] = history[id]
  BY <1>1, <1>2, <1>3 DEF Stored
<1>4. CASE /\ rows'[id].version = rows[id].version + 1
           /\ history'[id] = Append(history[id], rows'[id])
  <2>1. PICK row : row = rows'[id]  OBVIOUS
  <2>2. history[id] \in Seq(S \cup {row})  BY <1>2, SeqMonotonic
  <2>3. /\ Len(history'[id]) = Len(history[id]) + 1 /\ Len(history[id]) \in Nat
        /\ \A k \in 1..Len(history[id]) : history'[id][k] = history[id][k]
    BY <1>4, <2>1, <2>2, AppendProperties
  <2>4. rows'[id].version \in Nat \ {0}  BY <1>1, <1>4
  <2>5. rows'[id] # NoRow  BY <2>4, RowIsARow
  <2> QED BY <1>1, <1>4, <2>3, <2>5 DEF Stored
<1> QED BY <1>1, <1>3, <1>4 DEF Grown

LEMMA AllMatch == Matched(Unfiltered) = Stored
BY DEF Matched, Matches

\* Nobody gets before a row that is not touched: what is touched is written
\* later, so it comes earlier.
LEMMA PlaceStays ==
  ASSUME TablesOK, RowsOK, Growth, NEW id \in Stored, rows'[id] = rows[id]
  PROVE  Place(id, Unfiltered) <= Place(id, Unfiltered)'
<1> DEFINE Ahead == {other \in Stored : Earlier(other, id)}
<1>1. Place(id, Unfiltered) = Cardinality(Ahead) /\ Place(id, Unfiltered)' = Cardinality(Ahead')
  BY AllMatch DEF Place, Matched, Matches
<1>2. IsFiniteSet(Ahead')
  <2>1. IsFiniteSet(Stored') /\ Ahead' \subseteq Stored'  BY DEF Growth, TablesOK
  <2> QED BY <2>1, FS_Subset
<1>3. ASSUME NEW other \in Stored, Earlier(other, id) PROVE other \in Ahead'
  <2>1. other \in Ids /\ id \in Ids  BY DEF Stored
  <2>2. other \in Stored'  BY PastStays
  <2>3. /\ rows[other].updatedAt \in Nat /\ rows[other].updatedAt <= now /\ now \in Nat
        /\ rows[id].updatedAt \in Nat
    BY DEF RowsOK, IsRow, TablesOK
  <2>4. rows'[other].updatedAt \in Nat /\ rows'[other].updatedAt >= rows[other].updatedAt
    BY <2>1, <2>3 DEF Growth, Grown, IsRow
  <2>5. Earlier(other, id)'  BY <1>3, <2>3, <2>4 DEF Earlier
  <2> QED BY <2>2, <2>5
<1>4. Ahead \in SUBSET Ahead'  BY <1>3
<1> HIDE DEF Ahead
<1> QED BY <1>1, <1>2, <1>4, FS_Subset

\* A row has its place among the rows.
LEMMA PlaceIsBelow ==
  ASSUME TablesOK, RowsOK, NEW id \in Stored
  PROVE  Place(id, Unfiltered) \in Nat /\ Place(id, Unfiltered) < Cardinality(Stored)
<1> DEFINE Ahead == {other \in Stored : Earlier(other, id)}
<1>1. Place(id, Unfiltered) = Cardinality(Ahead)  BY AllMatch DEF Place
<1>2. id \notin Ahead
  <2>1. rows[id].updatedAt \in Nat /\ id \in Nat
    BY IdsAreNumbers DEF RowsOK, IsRow, Stored
  <2> QED BY <2>1 DEF Earlier
<1>3. IsFiniteSet(Stored)  BY DEF TablesOK
<1>4. Ahead \in SUBSET (Stored \ {id})  BY <1>2
<1> HIDE DEF Ahead
<1>5. IsFiniteSet(Stored \ {id}) /\ Cardinality(Stored \ {id}) = Cardinality(Stored) - 1
  BY <1>3, FS_RemoveElement
<1>6. /\ Cardinality(Ahead) \in Nat /\ Cardinality(Ahead) <= Cardinality(Stored \ {id})
      /\ Cardinality(Stored) \in Nat
  BY <1>3, <1>4, <1>5, FS_Subset, FS_CardinalityType
<1>7. Cardinality(Ahead) \in Nat /\ Cardinality(Ahead) < Cardinality(Stored)
  BY <1>5, <1>6
<1> QED BY <1>1, <1>7

\* Where a page begins, and where the next one does.
LEMMA OffsetIsNumber ==
  ASSUME NEW page \in Int
  PROVE  Offset(page) \in Int /\ Offset(page + 1) = Offset(page) + PageSize
<1>1. PageSize \in Int  BY PageSizeAssumption
<1>2. ((page + 1) - 1) * PageSize = (page - 1) * PageSize + PageSize /\ (page - 1) * PageSize \in Int
  BY <1>1
<1> QED BY <1>2 DEF Offset

\* What a request knows stays right when a row is written.
LEMMA FlightStays ==
  ASSUME TablesOK, RowsOK, Growth, NEW f, FlightOK(f)
  PROVE  FlightOK(f)'
<1>1. \A id \in Stored : /\ Len(history[id]) \in Nat /\ Len(history'[id]) \in Nat
                         /\ rows[id].version \in Nat
  <2> SUFFICES ASSUME NEW id \in Stored
               PROVE  /\ Len(history[id]) \in Nat /\ Len(history'[id]) \in Nat
                      /\ rows[id].version \in Nat
    OBVIOUS
  <2>1. id \in Ids  BY DEF Stored
  <2>2. PICK S : history[id] \in Seq(S)  BY <2>1 DEF TablesOK
  <2>3. PICK T : history'[id] \in Seq(T)  BY <2>1 DEF TablesOK, Growth
  <2> QED BY <2>2, <2>3, LenProperties DEF RowsOK, IsRow
<1>2. ASSUME NEW id, NEW row, Past(id, row) PROVE Past(id, row)'
  <2>1. id \in Stored /\ row.version \in 1..Len(history[id])  BY <1>2 DEF Past
  <2>2. row.version \in 1..Len(history'[id])  BY <1>1, <2>1, PastStays
  <2> QED BY <1>2, <2>1, <2>2, PastStays DEF Past
<1>3. ASSUME WalkOK(f) PROVE WalkOK(f)'
  <2>1. ASSUME NEW id \in Ids, f.from[id] # NoRow
        PROVE  /\ id \in Stored' /\ f.from[id].version \in Nat
               /\ rows'[id] = f.from[id] \/ f.from[id].version < rows'[id].version
    <3>1. /\ id \in Stored /\ f.from[id].version \in Nat
          /\ rows[id] = f.from[id] \/ f.from[id].version < rows[id].version
      BY <1>3, <2>1 DEF WalkOK
    <3>2. rows'[id].version \in Nat  BY <3>1, <1>1 DEF Growth, Grown, IsRow
    <3> QED BY <1>1, <3>1, <3>2, PastStays
  <2>2. ASSUME f.keyword = Unfiltered, NEW id \in Ids, f.from[id] # NoRow, rows'[id] = f.from[id],
               id \notin f.seen
        PROVE  f.at = "walk" /\ Offset(f.page) <= Place(id, Unfiltered)'
    <3>1. id \in Stored /\ f.from[id].version \in Nat  BY <1>3, <2>2 DEF WalkOK
    <3>2. rows[id] = f.from[id]
      <4>1. rows[id] = f.from[id] \/ f.from[id].version < rows[id].version
        BY <1>3, <2>2 DEF WalkOK
      <4>2. rows'[id] = rows[id] \/ rows[id].version < rows'[id].version
        BY <3>1, PastStays
      <4>3. rows[id].version \in Nat  BY <1>1, <3>1
      <4>4. rows'[id].version = f.from[id].version  BY <2>2
      <4> QED BY <3>1, <4>1, <4>2, <4>3, <4>4
    <3>3. f.at = "walk" /\ Offset(f.page) <= Place(id, Unfiltered)
      BY <1>3, <2>2, <3>2 DEF WalkOK
    <3>4. Place(id, Unfiltered) <= Place(id, Unfiltered)'  BY <2>2, <3>1, <3>2, PlaceStays
    <3>5. Place(id, Unfiltered) \in Nat  BY <3>1, PlaceIsBelow
    <3>6. Place(id, Unfiltered)' \in Nat
      <4>1. IsFiniteSet(Stored')  BY DEF Growth, TablesOK
      <4>2. Place(id, Unfiltered)' = Cardinality({other \in Stored' : Earlier(other, id)'})
        BY DEF Place, Matched, Matches
      <4>3. IsFiniteSet({other \in Stored' : Earlier(other, id)'})  BY <4>1, FS_Subset
      <4> QED BY <4>2, <4>3, FS_CardinalityType
    <3>7. Offset(f.page) \in Int
      <4>1. f.page \in Int  BY <1>3 DEF WalkOK
      <4>2. PICK page \in Int : page = f.page  BY <4>1
      <4> QED BY <4>2, OffsetIsNumber
    <3>8. PICK o \in Int, n \in Nat, m \in Nat :
            o = Offset(f.page) /\ n = Place(id, Unfiltered) /\ m = Place(id, Unfiltered)'
      BY <3>5, <3>6, <3>7
    <3> QED BY <3>3, <3>4, <3>8
  <2> QED BY <1>3, <2>1, <2>2 DEF WalkOK, Offset
<1> QED BY <1>2, <1>3 DEF FlightOK

\* A step that changes one flight, and writes a row at most.
LEMMA FlightsStay ==
  ASSUME CustomersInv, Growth, NEW c \in Clients, NEW f, FlightOK(f)',
         flights' = [flights EXCEPT ![c] = f]
  PROVE  \A d \in Clients : FlightOK(flights[d])'
<1> SUFFICES ASSUME NEW d \in Clients PROVE FlightOK(flights[d])'
  OBVIOUS
<1>1. DOMAIN flights = Clients /\ TablesOK /\ RowsOK  BY DEF CustomersInv, TablesOK
<1>2. CASE d = c  BY <1>1, <1>2
<1>3. CASE d # c
  <2>1. PICK g : g = flights[d]  OBVIOUS
  <2>2. flights'[d] = g  BY <1>1, <1>3, <2>1
  <2>3. FlightOK(g)  BY <2>1 DEF CustomersInv
  <2>4. FlightOK(g)'  BY <1>1, <2>3, FlightStays
  <2> QED BY <2>2, <2>4
<1> QED BY <1>2, <1>3

\* A step that changes no row.
LEMMA AnswerKeeps ==
  ASSUME CustomersInv, NEW c \in Clients, NEW f, FlightOK(f),
         flights' = [flights EXCEPT ![c] = f], UNCHANGED <<rows, changes, history>>,
         now' \in Nat, now' >= now
  PROVE  CustomersInv'
<1>1. TablesOK' /\ PhonesUnique' /\ LogEndsInTheRow'
  BY DEF CustomersInv, TablesOK, PhonesUnique, LogEndsInTheRow, Stored
<1>2. RowsOK'
  <2>1. \A id \in Stored : rows[id].updatedAt \in Nat /\ rows[id].updatedAt <= now
    BY DEF CustomersInv, RowsOK, IsRow
  <2>2. now \in Nat  BY DEF CustomersInv, TablesOK
  <2>3. \A id \in Stored : rows[id].updatedAt <= now'  BY <2>1, <2>2
  <2> QED BY <2>3 DEF CustomersInv, RowsOK, IsRow, Stored
<1>3. Growth  BY <1>1 DEF Growth, Grown
<1>4. FlightOK(f)'
  <2>1. TablesOK /\ RowsOK  BY DEF CustomersInv
  <2> QED BY <1>3, <2>1, FlightStays
<1> QED BY <1>1, <1>2, <1>3, <1>4, FlightsStay DEF CustomersInv

\* A step that reads.
LEMMA ReadKeeps ==
  ASSUME CustomersInv, NEW c \in Clients, NEW f, FlightOK(f),
         flights' = [flights EXCEPT ![c] = f], UNCHANGED <<rows, changes, now, history>>
  PROVE  CustomersInv'
<1>1. now \in Nat  BY DEF CustomersInv, TablesOK
<1>2. now' \in Nat /\ now' >= now  BY <1>1
<1> QED BY <1>2, AnswerKeeps

LEMMA FailedIsOK == \A status : FlightOK(Failed(status))
BY DEF FlightOK, Failed

LEMMA RefuseKeeps ==
  ASSUME CustomersInv, NEW c \in Clients, Refuse(c) PROVE CustomersInv'
BY FailedIsOK, ReadKeeps DEF Refuse, Send

LEMMA UpdateReadKeeps ==
  ASSUME CustomersInv, NEW c \in Clients, UpdateRead(c) PROVE CustomersInv'
<1>1. PICK id \in Ids, body \in UpdateBodies, by \in Users :
       IF id \notin Stored THEN Send(c, Failed(UpdateStatus("not-found")))
       ELSE \E expected \in Versions :
              Send(c, [at |-> "update", id |-> id, expected |-> expected, body |-> body,
                       by |-> by, current |-> rows[id]])
  BY DEF UpdateRead
<1>2. UNCHANGED <<rows, changes, now, history>>  BY DEF UpdateRead
<1>3. CASE id \notin Stored  BY <1>1, <1>2, <1>3, FailedIsOK, ReadKeeps DEF Send
<1>4. CASE id \in Stored
  <2>1. PICK expected \in Versions :
          Send(c, [at |-> "update", id |-> id, expected |-> expected, body |-> body,
                   by |-> by, current |-> rows[id]])
    BY <1>1, <1>4
  <2>2. PICK row, f : row = rows[id] /\ f = [at |-> "update", id |-> id, expected |-> expected,
                        body |-> body, by |-> by, current |-> row]
    OBVIOUS
  <2>3. Past(id, row)  BY <1>4, <2>2 DEF CustomersInv, RowsOK, IsRow, Past
  <2>4. FlightOK(f)  BY <2>1, <2>2, <2>3 DEF FlightOK
  <2> QED BY <1>2, <2>1, <2>2, <2>4, ReadKeeps DEF Send
<1> QED BY <1>3, <1>4

LEMMA DetailReadKeeps ==
  ASSUME CustomersInv, NEW c \in Clients, DetailRead(c) PROVE CustomersInv'
<1>1. PICK id \in Ids :
        IF id \in Stored THEN Send(c, [at |-> "detail", id |-> id, current |-> rows[id]])
        ELSE Send(c, Failed(FallbackStatus("not-found")))
  BY DEF DetailRead
<1>2. UNCHANGED <<rows, changes, now, history>>  BY DEF DetailRead
<1>3. CASE id \notin Stored  BY <1>1, <1>2, <1>3, FailedIsOK, ReadKeeps DEF Send
<1>4. CASE id \in Stored
  <2>2. PICK row, f : row = rows[id] /\ f = [at |-> "detail", id |-> id, current |-> row]
    OBVIOUS
  <2>4. FlightOK(f)  BY <2>2 DEF FlightOK
  <2> QED BY <1>1, <1>2, <1>4, <2>2, <2>4, ReadKeeps DEF Send
<1> QED BY <1>3, <1>4

LEMMA DetailAnswerKeeps ==
  ASSUME CustomersInv, NEW c \in Clients, DetailAnswer(c) PROVE CustomersInv'
<1>1. PICK f : f = flights[c]  OBVIOUS
<1>2. f.at = "detail" /\ UNCHANGED <<rows, changes, now, history>>  BY <1>1 DEF DetailAnswer
<1>4. PICK log, g : /\ log = Newest(changes[f.id])
                   /\ g = [at |-> "answered", status |-> 200, id |-> f.id,
                           version |-> f.current.version, values |-> f.current.values,
                           recentChanges |-> log]
  OBVIOUS
<1>6. /\ DOMAIN g = {"at", "status", "id", "version", "values", "recentChanges"}
      /\ g.at = "answered"
  BY <1>4
<1>7. FlightOK(g)  BY <1>6 DEF FlightOK
<1> QED BY <1>1, <1>2, <1>4, <1>7, ReadKeeps DEF DetailAnswer, Proceed

LEMMA ChangesReadKeeps ==
  ASSUME CustomersInv, NEW c \in Clients, ChangesRead(c) PROVE CustomersInv'
<1>1. PICK id \in Ids :
        IF id \in Stored THEN Send(c, [at |-> "changes", id |-> id])
        ELSE Send(c, Failed(FallbackStatus("not-found")))
  BY DEF ChangesRead
<1>2. UNCHANGED <<rows, changes, now, history>>  BY DEF ChangesRead
<1>3. FlightOK([at |-> "changes", id |-> id])  BY DEF FlightOK
<1> QED BY <1>1, <1>2, <1>3, FailedIsOK, ReadKeeps DEF Send

LEMMA ChangesAnswerKeeps ==
  ASSUME CustomersInv, NEW c \in Clients, ChangesAnswer(c) PROVE CustomersInv'
<1>1. PICK f : /\ DOMAIN f = {"at", "status", "total", "items"} /\ f.at = "answered"
               /\ flights' = [flights EXCEPT ![c] = f]
  BY DEF ChangesAnswer, Proceed
<1>2. FlightOK(f)  BY <1>1 DEF FlightOK
<1> QED BY <1>1, <1>2, ReadKeeps DEF ChangesAnswer

LEMMA WalkStartKeeps ==
  ASSUME CustomersInv, NEW c \in Clients, WalkStart(c) PROVE CustomersInv'
<1>1. PICK keyword \in Keywords :
       Send(c, [at |-> "walk", keyword |-> keyword, page |-> 1, seen |-> {}, from |-> rows])
  BY DEF WalkStart
<1>2. PICK old, f : old = rows /\
        f = [at |-> "walk", keyword |-> keyword, page |-> 1, seen |-> {}, from |-> old]
  OBVIOUS
<1>3. Offset(1) = 0  BY PageSizeAssumption DEF Offset
<1>4. ASSUME NEW id \in Ids, f.from[id] # NoRow
      PROVE  /\ id \in Stored /\ f.from[id].version \in Nat /\ rows[id] = f.from[id]
             /\ Offset(f.page) <= Place(id, Unfiltered)
  <2>1. id \in Stored /\ rows[id] = f.from[id]  BY <1>2, <1>4 DEF Stored
  <2>2. Place(id, Unfiltered) \in Nat  BY <2>1, PlaceIsBelow DEF CustomersInv
  <2>3. rows[id].version \in Nat  BY <2>1 DEF CustomersInv, RowsOK, IsRow
  <2> QED BY <1>2, <1>3, <2>1, <2>2, <2>3
<1>5. WalkOK(f)  BY <1>2, <1>4 DEF WalkOK
<1>6. FlightOK(f)  BY <1>2, <1>5 DEF FlightOK
<1> QED BY <1>1, <1>2, <1>6, ReadKeeps DEF WalkStart, Send

LEMMA WalkPageKeeps ==
  ASSUME CustomersInv, NEW c \in Clients, WalkPage(c) PROVE CustomersInv'
<1>1. PICK f : f = flights[c]  OBVIOUS
<1>2. /\ f.at = "walk" /\ UNCHANGED <<rows, changes, now, history>>
      /\ IF Offset(f.page) >= Cardinality(Matched(f.keyword))
         THEN flights' = [flights EXCEPT ![c] = [f EXCEPT !.at = "answered"]]
         ELSE flights' = [flights EXCEPT ![c] =
                [f EXCEPT !.page = @ + 1, !.seen = @ \cup Found(f.keyword, f.page)]]
  BY <1>1 DEF WalkPage, Proceed
<1>3. WalkOK(f) /\ f.page \in Nat \ {0}
  BY <1>1, <1>2 DEF CustomersInv, FlightOK, WalkOK
<1>4. PICK page \in Nat \ {0} : page = f.page  BY <1>3
<1>5. Offset(page) \in Int /\ Offset(page + 1) = Offset(page) + PageSize /\ PageSize \in Nat
  BY OffsetIsNumber, PageSizeAssumption
<1>6. TablesOK /\ RowsOK  BY DEF CustomersInv
<1>7. CASE Offset(f.page) >= Cardinality(Matched(f.keyword))
  <2>1. PICK g : g = [f EXCEPT !.at = "answered"]  OBVIOUS
  <2>2. /\ DOMAIN g = {"at", "keyword", "page", "seen", "from"} /\ g.at = "answered"
        /\ g.keyword = f.keyword /\ g.page = f.page /\ g.seen = f.seen /\ g.from = f.from
    BY <1>3, <2>1 DEF WalkOK
  <2>3. ASSUME g.keyword = Unfiltered, NEW id \in Ids, f.from[id] # NoRow,
               rows[id] = f.from[id], id \notin f.seen
        PROVE  FALSE
    <3>1. Offset(page) <= Place(id, Unfiltered) /\ id \in Stored
      BY <1>3, <1>4, <2>2, <2>3 DEF WalkOK
    <3>2. Place(id, Unfiltered) \in Nat /\ Place(id, Unfiltered) < Cardinality(Stored)
      BY <1>6, <3>1, PlaceIsBelow
    <3>3. Offset(page) >= Cardinality(Stored)  BY <1>4, <1>7, <2>2, <2>3, AllMatch
    <3>4. Cardinality(Stored) \in Nat  BY <1>6, FS_CardinalityType DEF TablesOK
    <3> QED BY <1>5, <3>1, <3>2, <3>3, <3>4
  <2>4. WalkOK(g)  BY <1>3, <2>2, <2>3 DEF WalkOK
  <2>5. FlightOK(g)  BY <2>2, <2>4 DEF FlightOK
  <2> QED BY <1>2, <1>7, <2>1, <2>5, ReadKeeps
<1>8. CASE ~(Offset(f.page) >= Cardinality(Matched(f.keyword)))
  <2>1. PICK g : g = [f EXCEPT !.page = @ + 1, !.seen = @ \cup Found(f.keyword, f.page)]
    OBVIOUS
  <2>2. /\ DOMAIN g = {"at", "keyword", "page", "seen", "from"} /\ g.at = "walk"
        /\ g.keyword = f.keyword /\ g.page = page + 1 /\ g.from = f.from
        /\ g.seen = f.seen \cup Found(f.keyword, page)
    BY <1>2, <1>3, <1>4, <2>1 DEF WalkOK
  <2>3. ASSUME g.keyword = Unfiltered, NEW id \in Ids, f.from[id] # NoRow,
               rows[id] = f.from[id], id \notin g.seen
        PROVE  Offset(g.page) <= Place(id, Unfiltered)
    <3>1. Offset(page) <= Place(id, Unfiltered) /\ id \in Stored
      BY <1>3, <1>4, <2>2, <2>3 DEF WalkOK
    <3>2. Place(id, Unfiltered) \in Nat  BY <1>6, <3>1, PlaceIsBelow
    <3>3. id \notin Found(Unfiltered, page)  BY <2>2, <2>3
    <3>4. Place(id, Unfiltered) \notin Offset(page)..(Offset(page) + PageSize - 1)
      BY <3>1, <3>3, AllMatch DEF Found
    <3> QED BY <1>5, <2>2, <3>1, <3>2, <3>4
  <2>4. WalkOK(g)  BY <1>2, <1>3, <2>2, <2>3 DEF WalkOK
  <2>5. FlightOK(g)  BY <2>2, <2>4 DEF FlightOK
  <2> QED BY <1>2, <1>8, <2>1, <2>5, ReadKeeps
<1> QED BY <1>7, <1>8

\* A row that is written, new or newer, leaves the table in order.
LEMMA WriteKeeps ==
  ASSUME CustomersInv, NEW id \in Ids, NEW row, IsRow(row),
         now' \in Nat, now' >= now, row.updatedAt = now',
         row.version = IF rows[id] = NoRow THEN 1 ELSE rows[id].version + 1,
         KeyOwners(row.key, id) = {},
         rows' = [rows EXCEPT ![id] = row],
         history' = [history EXCEPT ![id] = Append(history[id], row)],
         DOMAIN changes' = Ids, DOMAIN flights' = Clients,
         \A other \in Ids \ {id} : changes'[other] = changes[other],
         NEW S, changes'[id] \in Seq(S)
  PROVE  TablesOK' /\ RowsOK' /\ PhonesUnique' /\ Growth
<1>1. TablesOK /\ RowsOK /\ PhonesUnique  BY DEF CustomersInv
<1>2. row # NoRow  BY RowIsARow DEF IsRow
<1>3. DOMAIN rows = Ids /\ DOMAIN history = Ids /\ now \in Nat  BY <1>1 DEF TablesOK
<1>4. /\ rows'[id] = row /\ history'[id] = Append(history[id], row)
      /\ \A other \in Ids \ {id} : rows'[other] = rows[other] /\ history'[other] = history[other]
      /\ DOMAIN rows' = Ids /\ DOMAIN history' = Ids
  BY <1>3
<1>5. Stored' = Stored \cup {id}  BY <1>2, <1>4 DEF Stored
<1>6. PICK T : history[id] \in Seq(T)  BY <1>1 DEF TablesOK
<1>7. /\ history'[id] \in Seq(T \cup {row}) /\ Len(history'[id]) = Len(history[id]) + 1
      /\ history'[id][Len(history[id]) + 1] = row /\ Len(history[id]) \in Nat
  <2>1. history[id] \in Seq(T \cup {row})  BY <1>6, SeqMonotonic
  <2> QED BY <1>4, <2>1, AppendProperties, LenProperties
<1>8. TablesOK'
  <2>1. IsFiniteSet(Stored')  BY <1>1, <1>5, FS_AddElement DEF TablesOK
  <2>2. \A x \in Ids : \E R : history'[x] \in Seq(R)  BY <1>1, <1>4, <1>7 DEF TablesOK
  <2>3. \A x \in Ids : \E R : changes'[x] \in Seq(R)  BY <1>1 DEF TablesOK
  <2> QED BY <1>4, <2>1, <2>2, <2>3 DEF TablesOK
<1>9. Len(history'[id]) = row.version /\ history'[id][row.version] = row
  <2>1. CASE id \in Stored
    BY <1>1, <1>7, <2>1 DEF RowsOK, Stored
  <2>2. CASE id \notin Stored
    <3>1. history[id] = <<>> /\ rows[id] = NoRow  BY <1>1, <2>2 DEF RowsOK, Stored
    <3>2. Len(history[id]) = 0  BY <3>1, EmptySeq
    <3> QED BY <1>7, <3>1, <3>2
  <2> QED BY <2>1, <2>2
<1>10. RowsOK'
  <2>1. ASSUME NEW x \in Stored'
        PROVE  /\ IsRow(rows'[x]) /\ rows'[x].updatedAt <= now'
               /\ Len(history'[x]) = rows'[x].version /\ history'[x][rows'[x].version] = rows'[x]
    <3>1. CASE x = id  BY <1>4, <1>9, <3>1
    <3>2. CASE x # id
      <4>1. x \in Stored /\ x \in Ids \ {id}  BY <1>5, <2>1, <3>2 DEF Stored
      <4>2. /\ IsRow(rows[x]) /\ rows[x].updatedAt <= now /\ rows[x].updatedAt \in Nat
            /\ Len(history[x]) = rows[x].version /\ history[x][rows[x].version] = rows[x]
        BY <1>1, <4>1 DEF RowsOK, IsRow
      <4>3. rows[x].updatedAt <= now'  BY <1>3, <4>2
      <4> QED BY <1>4, <4>1, <4>2, <4>3
    <3> QED BY <3>1, <3>2
  <2>2. \A x \in Ids \ Stored' : history'[x] = <<>> /\ changes'[x] = <<>>
    BY <1>1, <1>4, <1>5 DEF RowsOK
  <2> QED BY <2>1, <2>2 DEF RowsOK, IsRow
<1>11. PhonesUnique'
  <2>1. \A x \in Stored \ {id} : rows[x].key # row.key  BY DEF KeyOwners
  <2>2. \A x \in Stored \ {id} : x \in Ids \ {id}  BY DEF Stored
  <2> QED BY <1>1, <1>4, <1>5, <2>1, <2>2 DEF PhonesUnique
<1>12. Growth
  <2>1. ASSUME NEW x \in Ids PROVE Grown(x)  BY <1>4, <2>1 DEF Grown
  <2> QED BY <1>8, <2>1 DEF Growth
<1> QED BY <1>8, <1>10, <1>11, <1>12

\* What a creation or an update that is refused leaves.
LEMMA RefusedKeeps ==
  ASSUME CustomersInv, NEW c \in Clients, NEW status, flights' = [flights EXCEPT ![c] = Failed(status)],
         UNCHANGED <<rows, changes, history>>, now' \in Times \cup {now}
  PROVE  CustomersInv'
<1>1. now \in Nat  BY DEF CustomersInv, TablesOK
<1>2. now' \in Nat /\ now' >= now  BY <1>1 DEF Times
<1> QED BY <1>2, FailedIsOK, AnswerKeeps

LEMMA CreateKeeps ==
  ASSUME CustomersInv, NEW c \in Clients, Create(c) PROVE CustomersInv'
<1>1. PICK body \in CreateBodies, by \in Users, id \in Ids, t \in Times :
       LET row == NewRow(body, by, t)
           error == CreateError(body, id, row) IN
       /\ now' = IF error = "validation" THEN now ELSE t
       /\ IF error = "none"
          THEN /\ rows' = [rows EXCEPT ![id] = row]
               /\ history' = [history EXCEPT ![id] = <<row>>]
               /\ Send(c, Detail(201, id, 1, row.values))
          ELSE Send(c, Failed(CreateStatus(error))) /\ UNCHANGED <<rows, history>>
  BY DEF Create
<1>2. PICK row : row = NewRow(body, by, t)  OBVIOUS
<1>3. changes' = changes  BY DEF Create
<1>4. CASE CreateError(body, id, row) # "none"
  BY <1>1, <1>2, <1>3, <1>4, RefusedKeeps DEF Send
<1>5. CASE CreateError(body, id, row) = "none"
  <2>1. /\ now' = t /\ rows' = [rows EXCEPT ![id] = row] /\ history' = [history EXCEPT ![id] = <<row>>]
        /\ flights' = [flights EXCEPT ![c] = Detail(201, id, 1, row.values)]
    BY <1>1, <1>2, <1>5 DEF Send
  <2>2. id \notin Stored /\ KeyOwners(row.key, id) = {}
    BY <1>5, Zenon DEF CreateError, InsertError
  <2>3. TablesOK /\ RowsOK /\ LogEndsInTheRow /\ now \in Nat  BY DEF CustomersInv, TablesOK
  <2>4. t \in Nat /\ t >= now  BY <2>3 DEF Times
  <2>5. IsRow(row) /\ row.version = 1 /\ row.updatedAt = t  BY <1>2, <2>4 DEF NewRow, IsRow
  <2>6. rows[id] = NoRow /\ history[id] = <<>> /\ changes[id] = <<>>
    BY <2>2, <2>3 DEF Stored, RowsOK
  <2>7. <<row>> = Append(history[id], row)  BY <2>6
  <2>8. /\ DOMAIN changes' = Ids /\ DOMAIN flights' = Clients /\ changes'[id] \in Seq({})
        /\ DOMAIN rows = Ids /\ DOMAIN history = Ids
    BY <1>3, <2>1, <2>3, <2>6, EmptySeq DEF TablesOK
  <2>9. TablesOK' /\ RowsOK' /\ PhonesUnique' /\ Growth
    BY <1>3, <2>1, <2>2, <2>4, <2>5, <2>6, <2>7, <2>8, WriteKeeps
  <2>10. /\ rows'[id] = row /\ history'[id] = <<row>>
         /\ \A other \in Ids \ {id} : rows'[other] = rows[other] /\ history'[other] = history[other]
    BY <2>1, <2>8
  <2>11. LogEndsInTheRow'
    <3>1. ASSUME NEW x \in Stored', NEW f \in Fields
          PROVE  LET log == changes'[x] IN
                 Leads(log, f, Redacted(f, history'[x][1].values[f]), Len(log) + 1,
                       Redacted(f, rows'[x].values[f]))
      <4>1. CASE x = id
        <5>1. history'[id][1] = row /\ Len(changes[id]) = 0
          BY <2>6, <2>10
        <5> QED BY <1>3, <2>10, <4>1, <5>1 DEF Leads
      <4>2. CASE x # id
        <5>1. x \in Stored /\ x \in Ids \ {id}  BY <2>10, <3>1, <4>2 DEF Stored
        <5> QED BY <1>3, <2>3, <2>10, <5>1, Zenon DEF LogEndsInTheRow
      <4> QED BY <4>1, <4>2
    <3> QED BY <3>1, Zenon DEF LogEndsInTheRow, Leads, Redacted
  <2>12. PICK f, values : f = Detail(201, id, 1, values) /\ values = row.values  OBVIOUS
  <2>13. FlightOK(f)'
    <3>1. f.at = "answered" /\ "seen" \notin DOMAIN f  BY <2>12 DEF Detail
    <3> QED BY <3>1 DEF FlightOK
  <2>14. flights' = [flights EXCEPT ![c] = f]  BY <2>1, <2>12
  <2> QED BY <2>9, <2>11, <2>13, <2>14, FlightsStay DEF CustomersInv
<1> QED BY <1>4, <1>5

\* The entries of an update: one for each field that is submitted.
OneEach(es, values, changed) ==
  /\ \E S : es \in Seq(S)
  /\ \A i \in 1..Len(es) :
       /\ es[i].field \in DOMAIN changed
       /\ es[i].old = Redacted(es[i].field, values[es[i].field])
       /\ es[i].new = Redacted(es[i].field, changed[es[i].field])
  /\ \A f \in DOMAIN changed : \E i \in 1..Len(es) : es[i].field = f
  /\ \A i, j \in 1..Len(es) : i # j => es[i].field # es[j].field

LEMMA EntriesAre ==
  ASSUME NEW values, NEW changed, IsFiniteSet(DOMAIN changed), NEW by, NEW t,
         NEW es, es = Entries(values, changed, by, t)
  PROVE  OneEach(es, values, changed)
<1> DEFINE D == DOMAIN changed
           n == Cardinality(D)
<1>1. n \in Nat /\ ExistsBijection(1..n, D)  BY FS_CardinalityType
<1>2. \E order \in [1..n -> D] : IsInjective(order)
  BY <1>1 DEF ExistsBijection, Bijection, Injection
<1>3. PICK order : order = SetToSeq(D)  OBVIOUS
<1>4. order \in [1..n -> D] /\ IsInjective(order)  BY <1>2, <1>3 DEF SetToSeq
<1>5. \A f \in D : \E i \in 1..n : order[i] = f
  <2>1. order \in Injection(1..n, D)  BY <1>4 DEF Injection
  <2>2. IsFiniteSet(1..n) /\ Cardinality(1..n) = n  BY <1>1, FS_Interval
  <2>3. order \in Surjection(1..n, D)  BY <2>1, <2>2, FS_Injection
  <2> QED BY <2>3 DEF Surjection
<1>6. es = [i \in 1..n |-> Entry(values, changed, order[i], by, t)]
  BY <1>3, <1>4 DEF Entries
<1>8. \E S : es \in Seq(S)
  <2> DEFINE S == {es[i] : i \in 1..n}
  <2>1. es \in [1..n -> S]  BY <1>6
  <2> HIDE DEF S
  <2>2. es \in Seq(S)  BY <1>1, <2>1
  <2> QED BY <2>2
<1>9. Len(es) = n
  <2>1. DOMAIN es = 1..n  BY <1>6
  <2>2. PICK S : es \in Seq(S)  BY <1>8
  <2> QED BY <1>1, <2>1, <2>2
<1>10. \A i \in 1..n : /\ es[i].field = order[i] /\ order[i] \in D
                       /\ es[i].old = Redacted(order[i], values[order[i]])
                       /\ es[i].new = Redacted(order[i], changed[order[i]])
  BY <1>4, <1>6 DEF Entry
<1>11. \A i, j \in 1..n : i # j => order[i] # order[j]  BY <1>4 DEF IsInjective
<1> HIDE DEF n, D
<1>12. \A i \in 1..Len(es) : /\ es[i].field \in D
                             /\ es[i].old = Redacted(es[i].field, values[es[i].field])
                             /\ es[i].new = Redacted(es[i].field, changed[es[i].field])
  BY <1>9, <1>10
<1>13. \A f \in D : \E i \in 1..Len(es) : es[i].field = f
  BY <1>5, <1>9, <1>10
<1>14. \A i, j \in 1..Len(es) : i # j => es[i].field # es[j].field
  BY <1>9, <1>10, <1>11
<1> QED BY <1>8, <1>12, <1>13, <1>14 DEF OneEach, D

\* Further entries lead a field from one value to the next.
Turned(es, f, value, next) ==
  /\ \A i \in 1..Len(es) : es[i].field = f => es[i].new = next
  /\ \A i, j \in 1..Len(es) : i # j => es[i].field # es[j].field
  /\ next = value \/ \E i \in 1..Len(es) : es[i].field = f

\* A story goes on where it was.
LEMMA StoryGoesOn ==
  ASSUME NEW S, NEW log \in Seq(S), NEW es \in Seq(S), NEW f, NEW first, NEW value, NEW next,
         Leads(log, f, first, Len(log) + 1, value), Turned(es, f, value, next),
         NEW all, all = log \o es
  PROVE  Leads(all, f, first, Len(all) + 1, next)
<1> USE DEF Turned
<1>0. Len(log) \in Nat /\ Len(es) \in Nat  BY LenProperties
<1>1. PICK n \in Nat, m \in Nat : n = Len(log) /\ m = Len(es)  BY <1>0
<1>2. /\ all \in Seq(S) /\ Len(all) = n + m /\ DOMAIN all = 1..(n + m) /\ DOMAIN log = 1..n
      /\ \A k \in 1..n : all[k] = log[k]
      /\ \A i \in 1..m : all[n + i] = es[i]
  <2>1. /\ all \in Seq(S) /\ Len(all) = n + m
        /\ \A k \in 1..(n + m) : all[k] = IF k <= n THEN log[k] ELSE es[k - n]
    BY <1>1, ConcatProperties
  <2>2. \A i \in 1..m : n + i \in 1..(n + m) /\ ~(n + i <= n) /\ (n + i) - n = i  BY <1>1
  <2>3. \A k \in 1..n : k \in 1..(n + m) /\ k <= n  BY <1>1
  <2>4. DOMAIN all = 1..(n + m) /\ DOMAIN log = 1..n  BY <1>1, <2>1
  <2> QED BY <2>1, <2>2, <2>3, <2>4
<1>3. ASSUME NEW k \in 1..(n + 1), NEW v, Leads(log, f, first, k, v)
      PROVE  Leads(all, f, first, k, v)
  <2>1. \A j \in 1..(k - 1) : all[j] = log[j]  BY <1>2
  <2>2. \A j \in 1..(k - 1) : \A i \in (j + 1)..(k - 1) : i \in 1..(k - 1)  OBVIOUS
  <2>3. CASE v = first /\ \A j \in 1..(k - 1) : log[j].field # f
    BY <2>1, <2>3 DEF Leads
  <2>4. CASE \E j \in 1..(k - 1) : /\ log[j].field = f /\ log[j].new = v
                                  /\ \A i \in (j + 1)..(k - 1) : log[i].field # f
    <3>1. PICK j \in 1..(k - 1) : /\ log[j].field = f /\ log[j].new = v
                                  /\ \A i \in (j + 1)..(k - 1) : log[i].field # f
      BY <2>4
    <3>2. /\ all[j].field = f /\ all[j].new = v
          /\ \A i \in (j + 1)..(k - 1) : all[i].field # f
      BY <2>1, <2>2, <3>1
    <3> QED BY <3>2 DEF Leads
  <2> QED BY <1>3, <2>3, <2>4 DEF Leads
<1>4. ASSUME NEW i \in 1..(m + 1), \A j \in 1..(i - 1) : es[j].field # f
      PROVE  Leads(all, f, first, n + i, value)
  <2>1. Leads(all, f, first, n + 1, value)  BY <1>1, <1>3
  <2>2. \A j \in 1..n : j \in 1..((n + 1) - 1) /\ j \in 1..((n + i) - 1)  OBVIOUS
  <2>3. \A j \in 1..((n + i) - 1) : j \in 1..n \/ (j - n \in 1..(i - 1) /\ all[j].field # f)
    <3>1. SUFFICES ASSUME NEW j \in 1..((n + i) - 1), j \notin 1..n
                   PROVE  j - n \in 1..(i - 1) /\ all[j].field # f
      OBVIOUS
    <3>2. PICK h \in 1..(i - 1) : h = j - n  BY <3>1
    <3>3. h \in 1..m /\ n + h = j  BY <3>2
    <3>4. es[h].field # f  BY <1>4
    <3>5. all[j] = es[h]  BY <1>2, <3>3
    <3> QED BY <3>2, <3>4, <3>5
  <2>4. CASE value = first /\ \A j \in 1..((n + 1) - 1) : all[j].field # f
    BY <2>2, <2>3, <2>4 DEF Leads
  <2>5. CASE \E j \in 1..((n + 1) - 1) : /\ all[j].field = f /\ all[j].new = value
                                         /\ \A h \in (j + 1)..((n + 1) - 1) : all[h].field # f
    <3>1. PICK j \in 1..((n + 1) - 1) : /\ all[j].field = f /\ all[j].new = value
                                        /\ \A h \in (j + 1)..((n + 1) - 1) : all[h].field # f
      BY <2>5
    <3>2. j \in 1..((n + i) - 1)  OBVIOUS
    <3>3. \A h \in (j + 1)..((n + i) - 1) : all[h].field # f
      <4>1. SUFFICES ASSUME NEW h \in (j + 1)..((n + i) - 1) PROVE all[h].field # f
        OBVIOUS
      <4>2. h \in 1..((n + i) - 1)  OBVIOUS
      <4>3. CASE h \in 1..n
        <5>1. h \in (j + 1)..((n + 1) - 1)  BY <4>3
        <5> QED BY <3>1, <5>1
      <4> QED BY <2>3, <4>2, <4>3
    <3> QED BY <3>1, <3>2, <3>3 DEF Leads
  <2> QED BY <2>1, <2>4, <2>5 DEF Leads
<1>6. Leads(all, f, first, Len(all) + 1, next)
  <2>1. CASE \A i \in 1..m : es[i].field # f
    <3>1. next = value  BY <1>1, <2>1
    <3>2. m + 1 \in 1..(m + 1) /\ (m + 1) - 1 = m /\ n + (m + 1) = (n + m) + 1  OBVIOUS
    <3>3. Leads(all, f, first, n + (m + 1), value)  BY <1>4, <2>1, <3>2
    <3> QED BY <1>2, <3>1, <3>2, <3>3
  <2>2. CASE \E i \in 1..m : es[i].field = f
    <3>1. PICK i \in 1..m : es[i].field = f  BY <2>2
    <3>2. all[n + i].field = f /\ all[n + i].new = next  BY <1>1, <1>2, <3>1
    <3>3. n + i \in 1..(((n + m) + 1) - 1)  OBVIOUS
    <3>4. \A h \in ((n + i) + 1)..(((n + m) + 1) - 1) : all[h].field # f
      <4>1. SUFFICES ASSUME NEW h \in ((n + i) + 1)..(((n + m) + 1) - 1) PROVE all[h].field # f
        OBVIOUS
      <4>2. h - n \in 1..m /\ h - n # i /\ n + (h - n) = h  OBVIOUS
      <4>3. es[h - n].field # f  BY <1>1, <3>1, <4>2
      <4> QED BY <1>2, <4>2, <4>3
    <3>5. Len(all) + 1 = (n + m) + 1  BY <1>2
    <3>6. Leads(all, f, first, (n + m) + 1, next)  BY <3>2, <3>3, <3>4 DEF Leads
    <3> QED BY <3>5, <3>6
  <2> QED BY <2>1, <2>2
<1> QED BY <1>6

\* An update that is refused leaves everything; one that is not leads the log on,
\* whatever it has read.
LEMMA UpdateCommitKeeps ==
  ASSUME CustomersInv, NEW c \in Clients, UpdateCommit(c) PROVE CustomersInv'
<1>1. PICK f, id, changed : f = flights[c] /\ id = f.id /\ changed = Changes(f.body)  OBVIOUS
<1>2. f.at = "update" /\ Past(id, f.current)
  BY <1>1 DEF UpdateCommit, CustomersInv, FlightOK
<1>3. /\ TablesOK /\ RowsOK /\ LogEndsInTheRow /\ now \in Nat
      /\ DOMAIN rows = Ids /\ DOMAIN history = Ids /\ DOMAIN changes = Ids /\ DOMAIN flights = Clients
  BY DEF CustomersInv, TablesOK
<1>4. id \in Stored /\ id \in Ids /\ rows[id] # NoRow  BY <1>2 DEF Past, Stored
<1>5. CASE ~Updatable(f.body)
  BY <1>1, <1>5, RefusedKeeps DEF UpdateCommit, Proceed
<1>6. CASE Updatable(f.body)
  <2>1. PICK t \in Times :
          LET row == NextRow(rows[id], changed, f.by, t)
              error == UpdateError(id, f.expected, row.values) IN
          /\ now' = t
          /\ IF error = "none"
             THEN /\ rows' = [rows EXCEPT ![id] = row]
                  /\ history' = [history EXCEPT ![id] = Append(@, row)]
                  /\ changes' = [changes EXCEPT ![id] =
                                   @ \o Entries(f.current.values, changed, f.by, t)]
                  /\ flights' = [flights EXCEPT ![c] =
                       Detail(200, id, f.current.version + 1, Applied(f.current.values, changed))]
             ELSE /\ flights' = [flights EXCEPT ![c] = Failed(UpdateStatus(error))]
                  /\ UNCHANGED <<rows, changes, history>>
    BY <1>1, <1>6, Zenon DEF UpdateCommit, Proceed
  <2>2. PICK row : row = NextRow(rows[id], changed, f.by, t)  OBVIOUS
  <2>3. CASE UpdateError(id, f.expected, row.values) # "none"
    BY <2>1, <2>2, <2>3, RefusedKeeps
  <2>4. CASE UpdateError(id, f.expected, row.values) = "none"
    <3>1. /\ now' = t /\ rows' = [rows EXCEPT ![id] = row]
          /\ history' = [history EXCEPT ![id] = Append(history[id], row)]
          /\ changes' = [changes EXCEPT ![id] =
               changes[id] \o Entries(f.current.values, changed, f.by, t)]
          /\ flights' = [flights EXCEPT ![c] =
               Detail(200, id, f.current.version + 1, Applied(f.current.values, changed))]
      BY <2>1, <2>2, <2>4
    <3>2. /\ rows[id].version = f.expected
          /\ KeyOwners(PhoneKeyOf[row.values["phone"]], id) = {}
      BY <2>4, Zenon DEF UpdateError
    <3>3. /\ IsRow(rows[id]) /\ rows[id].version \in Nat \ {0} /\ rows[id].updatedAt <= now
          /\ Len(history[id]) = rows[id].version /\ history[id][rows[id].version] = rows[id]
      BY <1>3, <1>4 DEF RowsOK, IsRow
    <3>5. t \in Nat /\ t >= now  BY <1>3 DEF Times
    <3>6. /\ IsRow(row) /\ row.version = rows[id].version + 1 /\ row.updatedAt = t
          /\ row.values = Applied(rows[id].values, changed)
          /\ row.key = PhoneKeyOf[row.values["phone"]]
      <4>1. PICK old, values, key : /\ old = rows[id] /\ values = Applied(rows[id].values, changed)
                                    /\ key = PhoneKeyOf[values["phone"]]
        OBVIOUS
      <4>2. row = [old EXCEPT !.values = values, !.key = key, !.version = @ + 1,
                              !.updatedBy = f.by, !.updatedAt = t]
        BY <2>2, <4>1 DEF NextRow
      <4>3. DOMAIN old = {"values", "key", "version", "createdBy", "updatedBy", "createdAt", "updatedAt"}
            /\ old.version \in Nat \ {0}
        BY <3>3, <4>1 DEF IsRow
      <4>4. /\ DOMAIN row = {"values", "key", "version", "createdBy", "updatedBy", "createdAt", "updatedAt"}
            /\ row.version = old.version + 1 /\ row.updatedAt = t /\ row.values = values /\ row.key = key
        BY <4>2, <4>3
      <4> QED BY <3>5, <4>1, <4>3, <4>4 DEF IsRow
    <3>7. PICK es : es = Entries(f.current.values, changed, f.by, t)  OBVIOUS
    <3>8. DOMAIN changed \subseteq Fields /\ IsFiniteSet(DOMAIN changed)
      <4>1. DOMAIN changed \in SUBSET Fields  BY <1>1 DEF Changes, Submitted
      <4> QED BY <4>1, FieldsAreFinite, FS_Subset
    <3>9. OneEach(es, f.current.values, changed)
      <4>1. PICK values, by : values = f.current.values /\ by = f.by  OBVIOUS
      <4>2. es = Entries(values, changed, by, t)  BY <3>7, <4>1
      <4>3. OneEach(es, values, changed)  BY <3>8, <4>2, EntriesAre
      <4> QED BY <4>1, <4>3
    <3>10. PICK S : changes[id] \in Seq(S) /\ es \in Seq(S)
      <4>1. PICK S1, S2 : changes[id] \in Seq(S1) /\ es \in Seq(S2)  BY <1>3, <1>4, <3>9 DEF TablesOK, OneEach
      <4>2. changes[id] \in Seq(S1 \cup S2) /\ es \in Seq(S1 \cup S2)
        <5>1. S1 \subseteq S1 \cup S2 /\ S2 \subseteq S1 \cup S2  OBVIOUS
        <5>2. PICK log : log = changes[id]  OBVIOUS
        <5> QED BY <4>1, <5>1, <5>2, SeqMonotonic
      <4> QED BY <4>2
    <3>11. /\ changes'[id] = changes[id] \o es /\ changes'[id] \in Seq(S)
           /\ \A x \in Ids \ {id} : changes'[x] = changes[x] /\ history'[x] = history[x]
                                    /\ rows'[x] = rows[x]
           /\ DOMAIN changes' = Ids /\ DOMAIN flights' = Clients
           /\ rows'[id] = row /\ history'[id] = Append(history[id], row)
      <4>1. changes[id] \o es \in Seq(S)  BY <3>10, ConcatProperties
      <4> QED BY <1>3, <1>4, <3>1, <3>7, <4>1
    <3>12. TablesOK' /\ RowsOK' /\ PhonesUnique' /\ Growth
      BY <1>4, <3>1, <3>2, <3>5, <3>6, <3>11, WriteKeeps
    <3>13. id \in Stored' /\ history'[id][1] = history[id][1]
      <4>1. 1 \in 1..Len(history[id])  BY <3>3
      <4> QED BY <1>3, <1>4, <3>12, <4>1, PastStays
    <3>14. ASSUME NEW g \in Fields
           PROVE  LET log == changes'[id] IN
                  Leads(log, g, Redacted(g, history'[id][1].values[g]), Len(log) + 1,
                        Redacted(g, rows'[id].values[g]))
      <4>1. PICK log, first, value, next :
              /\ log = changes[id] /\ first = Redacted(g, history[id][1].values[g])
              /\ value = Redacted(g, rows[id].values[g]) /\ next = Redacted(g, row.values[g])
        OBVIOUS
      <4>2. Leads(log, g, first, Len(log) + 1, value)
        BY <1>3, <1>4, <4>1, Zenon DEF LogEndsInTheRow
      <4>3. row.values[g] = IF g \in DOMAIN changed THEN changed[g] ELSE rows[id].values[g]
        BY <3>6 DEF Applied
      <4>4. \A i \in 1..Len(es) : es[i].field = g => es[i].new = next
        BY <3>9, <4>1, <4>3 DEF OneEach
      <4>5. next = value \/ \E i \in 1..Len(es) : es[i].field = g
        BY <3>9, <4>1, <4>3 DEF OneEach
      <4>6. Turned(es, g, value, next)  BY <3>9, <4>4, <4>5 DEF OneEach, Turned
      <4>7. log \in Seq(S) /\ es \in Seq(S)  BY <3>10, <4>1
      <4>8. PICK all : all = log \o es  OBVIOUS
      <4>9. Leads(all, g, first, Len(all) + 1, next)  BY <4>2, <4>6, <4>7, <4>8, StoryGoesOn
      <4> QED BY <3>11, <3>13, <4>1, <4>8, <4>9, Zenon
    <3>15. LogEndsInTheRow'
      <4>1. ASSUME NEW x \in Stored', NEW g \in Fields
            PROVE  LET log == changes'[x] IN
                   Leads(log, g, Redacted(g, history'[x][1].values[g]), Len(log) + 1,
                         Redacted(g, rows'[x].values[g]))
        <5>1. CASE x = id  BY <3>14, <5>1, Zenon
        <5>2. CASE x # id
          <6>1. x \in Stored /\ x \in Ids \ {id}  BY <3>11, <4>1, <5>2 DEF Stored
          <6> QED BY <1>3, <3>11, <6>1, Zenon DEF LogEndsInTheRow
        <5> QED BY <5>1, <5>2
      <4> QED BY <4>1, Zenon DEF LogEndsInTheRow, Leads, Redacted
    <3>16. PICK d, version, values : d = Detail(200, id, version, values)
                                     /\ flights' = [flights EXCEPT ![c] = d]
      BY <3>1
    <3>17. FlightOK(d)'
      <4>1. d.at = "answered" /\ "seen" \notin DOMAIN d  BY <3>16 DEF Detail
      <4> QED BY <4>1 DEF FlightOK
    <3> QED BY <3>12, <3>15, <3>16, <3>17, FlightsStay DEF CustomersInv
  <2> QED BY <2>3, <2>4
<1> QED BY <1>5, <1>6

LEMMA CustomersKeep ==
  ASSUME CustomersInv, CustomersNext PROVE CustomersInv'
BY RefuseKeeps, CreateKeeps, UpdateReadKeeps, UpdateCommitKeeps, DetailReadKeeps, DetailAnswerKeeps,
   ChangesReadKeeps, ChangesAnswerKeeps, WalkStartKeeps, WalkPageKeeps DEF CustomersNext

\* The invariant of the customers, in behaviors of either service.
LEMMA CustomersInvariance == ServicesSpec => [](service = "customers" => CustomersInv)
<1>1. ServicesInit => (service = "customers" => CustomersInv)
  <2> SUFFICES ASSUME CustomersInit PROVE CustomersInv  BY DEF ServicesInit
  <2>1. Stored = {} /\ \A id \in Ids : rows[id] = NoRow /\ history[id] = <<>> /\ changes[id] = <<>>
    BY DEF CustomersInit, Stored
  <2>2. <<>> \in Seq({}) /\ IsFiniteSet({})  BY EmptySeq, FS_EmptySet
  <2>3. TablesOK  BY <2>1, <2>2 DEF CustomersInit, TablesOK
  <2>4. RowsOK /\ PhonesUnique /\ LogEndsInTheRow
    BY <2>1 DEF RowsOK, PhonesUnique, LogEndsInTheRow
  <2>5. \A c \in Clients : FlightOK(flights[c])
    BY FailedIsOK DEF CustomersInit
  <2> QED BY <2>3, <2>4, <2>5 DEF CustomersInv
<1>2. (service = "customers" => CustomersInv) /\ [ServicesNext]_services
        => (service = "customers" => CustomersInv)'
  <2> SUFFICES ASSUME service = "customers" => CustomersInv, [ServicesNext]_services,
                      service' = "customers"
               PROVE  CustomersInv'
    OBVIOUS
  <2>1. CASE CustomersNext /\ UNCHANGED service  BY <2>1, CustomersKeep
  <2>2. CASE UNCHANGED <<service, customers>>
    <3>1. UNCHANGED <<rows, changes, flights, now, history>> /\ CustomersInv
      BY <2>2 DEF customers
    <3>2. TablesOK' /\ RowsOK' /\ PhonesUnique' /\ LogEndsInTheRow'
      BY <3>1 DEF CustomersInv, TablesOK, RowsOK, PhonesUnique, LogEndsInTheRow, Stored
    <3>3. Growth  BY <3>1, <3>2 DEF Growth, Grown
    <3>4. ASSUME NEW c \in Clients PROVE FlightOK(flights[c])'
      <4>1. PICK f : f = flights[c]  OBVIOUS
      <4>2. FlightOK(f)'  BY <3>1, <3>3, <4>1, FlightStays DEF CustomersInv
      <4> QED BY <3>1, <4>1, <4>2
    <3> QED BY <3>2, <3>4 DEF CustomersInv
  <2> QED BY <2>1, <2>2 DEF ServicesNext, services
<1> QED BY <1>1, <1>2, PTL DEF ServicesSpec

\* No two customers have the same phone key: what is written was looked up in
\* the same step, whatever was read before (memory-customer-repository.ts).
THEOREM PhoneIsOfOneHolds == ServicesSpec => []PhoneIsOfOne
<1>1. (service = "customers" => CustomersInv) => PhoneIsOfOne
  BY DEF CustomersInv, PhoneIsOfOne
<1> QED BY <1>1, CustomersInvariance, PTL

\* A commit that named no version ahead of its reading finds the row it has
\* read: rows of one version are one, and versions only grow.
LEMMA CommitReplaces ==
  ASSUME CustomersInv, NEW c \in Clients, UpdateCommit(c),
         flights[c].expected <= flights[c].current.version,
         rows'[flights[c].id] # rows[flights[c].id], NEW log, log = changes'[flights[c].id]
  PROVE  /\ \A k \in (Len(changes[flights[c].id]) + 1)..Len(log) :
              log[k].old = Redacted(log[k].field, rows[flights[c].id].values[log[k].field])
         /\ flights'[c].version = rows'[flights[c].id].version
         /\ flights'[c].values = rows'[flights[c].id].values
<1>1. PICK f, id, changed : f = flights[c] /\ id = f.id /\ changed = Changes(f.body)  OBVIOUS
<1>2. f.at = "update" /\ Past(id, f.current)
  BY <1>1 DEF UpdateCommit, CustomersInv, FlightOK
<1>3. /\ TablesOK /\ RowsOK
      /\ DOMAIN rows = Ids /\ DOMAIN history = Ids /\ DOMAIN changes = Ids /\ DOMAIN flights = Clients
  BY DEF CustomersInv, TablesOK
<1>4. id \in Stored /\ id \in Ids  BY <1>2 DEF Past, Stored
<1>5. PICK t \in Times :
        LET row == NextRow(rows[id], changed, f.by, t) IN
        /\ UpdateError(id, f.expected, row.values) = "none"
        /\ rows' = [rows EXCEPT ![id] = row]
        /\ changes' = [changes EXCEPT ![id] = @ \o Entries(f.current.values, changed, f.by, t)]
        /\ flights' = [flights EXCEPT ![c] =
             Detail(200, id, f.current.version + 1, Applied(f.current.values, changed))]
  BY <1>1, Zenon DEF UpdateCommit, Proceed
<1>6. PICK row : row = NextRow(rows[id], changed, f.by, t)  OBVIOUS
<1>7. rows[id].version = f.expected
  BY <1>5, <1>6, Zenon DEF UpdateError
<1>8. f.current = rows[id] /\ IsRow(rows[id])
  <2>1. /\ IsRow(rows[id]) /\ rows[id].version \in Nat \ {0}
        /\ Len(history[id]) = rows[id].version /\ history[id][rows[id].version] = rows[id]
    BY <1>3, <1>4 DEF RowsOK, IsRow
  <2>2. f.current.version \in 1..rows[id].version /\ history[id][f.current.version] = f.current
    BY <1>2, <2>1 DEF Past
  <2>3. f.current.version = rows[id].version  BY <1>1, <1>7, <2>1, <2>2
  <2> QED BY <2>1, <2>2, <2>3
<1>9. PICK es : es = Entries(rows[id].values, changed, f.by, t)  OBVIOUS
<1>10. OneEach(es, rows[id].values, changed)
  <2>1. DOMAIN changed \in SUBSET Fields  BY <1>1 DEF Changes, Submitted
  <2>2. IsFiniteSet(DOMAIN changed)  BY <2>1, FieldsAreFinite, FS_Subset
  <2>3. PICK values, by : values = rows[id].values /\ by = f.by  OBVIOUS
  <2>4. es = Entries(values, changed, by, t)  BY <1>9, <2>3
  <2>5. OneEach(es, values, changed)  BY <2>2, <2>4, EntriesAre
  <2> QED BY <2>3, <2>5
<1>11. log = changes[id] \o es /\ rows'[id] = row
  <2>1. es = Entries(f.current.values, changed, f.by, t)  BY <1>8, <1>9, Zenon
  <2>2. rows' = [rows EXCEPT ![id] = row] /\ changes' = [changes EXCEPT ![id] = @ \o es]
    BY <1>5, <1>6, <2>1, Zenon
  <2>3. rows'[id] = row /\ changes'[id] = changes[id] \o es  BY <1>3, <1>4, <2>2
  <2> QED BY <1>1, <2>3, Zenon
<1>12. \A k \in (Len(changes[id]) + 1)..Len(log) :
         log[k].old = Redacted(log[k].field, rows[id].values[log[k].field])
  <2>1. PICK S1, S2 : changes[id] \in Seq(S1) /\ es \in Seq(S2)
    BY <1>3, <1>4, <1>10 DEF TablesOK, OneEach
  <2>2. PICK old : old = changes[id]  OBVIOUS
  <2>3. S1 \subseteq S1 \cup S2 /\ S2 \subseteq S1 \cup S2  OBVIOUS
  <2>4. old \in Seq(S1 \cup S2) /\ es \in Seq(S1 \cup S2)  BY <2>1, <2>2, <2>3, SeqMonotonic
  <2>5. /\ Len(log) = Len(old) + Len(es) /\ Len(old) \in Nat /\ Len(es) \in Nat
        /\ \A k \in 1..(Len(old) + Len(es)) : log[k] = IF k <= Len(old) THEN old[k] ELSE es[k - Len(old)]
    BY <1>11, <2>2, <2>4, ConcatProperties, LenProperties
  <2>6. ASSUME NEW k \in (Len(old) + 1)..Len(log)
        PROVE  log[k].old = Redacted(log[k].field, rows[id].values[log[k].field])
    <3>1. PICK m, n : m = Len(old) /\ n = Len(es)  OBVIOUS
    <3>2. k \in 1..(m + n) /\ ~(k <= m) /\ k - m \in 1..n  BY <2>5, <2>6, <3>1
    <3>3. k - Len(old) \in 1..Len(es) /\ log[k] = es[k - Len(old)]  BY <2>5, <3>1, <3>2, Zenon
    <3>4. \A i \in 1..Len(es) : es[i].old = Redacted(es[i].field, rows[id].values[es[i].field])
      BY <1>10, Zenon DEF OneEach
    <3> QED BY <3>3, <3>4, Zenon
  <2> QED BY <2>2, <2>6
<1>13. flights'[c].version = rows[id].version + 1 /\ flights'[c].values = Applied(rows[id].values, changed)
  <2>1. PICK version, values : version = rows[id].version + 1 /\ values = Applied(rows[id].values, changed)
    OBVIOUS
  <2>2. flights'[c] = Detail(200, id, version, values)  BY <1>3, <1>5, <1>8, <2>1
  <2> QED BY <2>1, <2>2 DEF Detail
<1>14. row.version = rows[id].version + 1 /\ row.values = Applied(rows[id].values, changed)
  <2>1. PICK old, values, key : /\ old = rows[id] /\ values = Applied(rows[id].values, changed)
                                /\ key = PhoneKeyOf[values["phone"]]
    OBVIOUS
  <2>2. row = [old EXCEPT !.values = values, !.key = key, !.version = @ + 1,
                          !.updatedBy = f.by, !.updatedAt = t]
    BY <1>6, <2>1 DEF NextRow
  <2>3. DOMAIN old = {"values", "key", "version", "createdBy", "updatedBy", "createdAt", "updatedAt"}
    BY <1>8, <2>1 DEF IsRow
  <2> QED BY <2>1, <2>2, <2>3
<1>15. flights'[c].version = rows'[id].version /\ flights'[c].values = rows'[id].values
  BY <1>11, <1>13, <1>14, Zenon
<1>16. flights[c].id = id  BY <1>1
<1> QED BY <1>12, <1>15, <1>16, Zenon

\* Only a commit answers an update, and each step is of one client.
LEMMA OnlyCommitsAnswer ==
  ASSUME CustomersInv, CustomersNext, NEW c \in Clients, flights[c].at = "update",
         flights'[c] # flights[c]
  PROVE  UpdateCommit(c)
<1>1. DOMAIN flights = Clients  BY DEF CustomersInv, TablesOK
<1>2. PICK d \in Clients : \/ Refuse(d) \/ Create(d)
                           \/ UpdateRead(d) \/ UpdateCommit(d)
                           \/ DetailRead(d) \/ DetailAnswer(d)
                           \/ ChangesRead(d) \/ ChangesAnswer(d)
                           \/ WalkStart(d) \/ WalkPage(d)
  BY DEF CustomersNext
<1>3. \E f : flights' = [flights EXCEPT ![d] = f]
  <2>1. CASE Refuse(d)  BY <2>1, Zenon DEF Refuse, Send
  <2>2. CASE Create(d)  BY <2>2 DEF Create, Send
  <2>3. CASE UpdateRead(d)  BY <2>3, Zenon DEF UpdateRead, Send
  <2>4. CASE UpdateCommit(d)  BY <2>4, Zenon DEF UpdateCommit, Proceed
  <2>5. CASE DetailRead(d)  BY <2>5, Zenon DEF DetailRead, Send
  <2>6. CASE DetailAnswer(d)  BY <2>6, Zenon DEF DetailAnswer, Proceed
  <2>7. CASE ChangesRead(d)  BY <2>7, Zenon DEF ChangesRead, Send
  <2>8. CASE ChangesAnswer(d)  BY <2>8, Zenon DEF ChangesAnswer, Proceed
  <2>9. CASE WalkStart(d)  BY <2>9, Zenon DEF WalkStart, Send
  <2>10. CASE WalkPage(d)  BY <2>10, Zenon DEF WalkPage, Proceed
  <2> QED BY <1>2, <2>1, <2>2, <2>3, <2>4, <2>5, <2>6, <2>7, <2>8, <2>9, <2>10
<1>4. d = c  BY <1>1, <1>3
<1>5. ~Free(c) /\ flights[c].at \notin {"detail", "changes", "walk"}  BY DEF Free
<1> QED BY <1>2, <1>4, <1>5 DEF Refuse, Create, UpdateRead, DetailRead, DetailAnswer, ChangesRead,
                               ChangesAnswer, WalkStart, WalkPage

\* The log ends in what is stored, whatever versions requests name; and an update
\* that names none ahead of what it has read replaces just that, so what it logs
\* and answers is right (update-customer.ts, updateVersionedWithChanges).
THEOREM UpdatesAreToldHolds == ServicesSpec => UpdatesAreTold
<1>1. (service = "customers" => CustomersInv) => (service = "customers" => LogEndsInTheRow)
  BY DEF CustomersInv
<1>2. (service = "customers" => CustomersInv) /\ [ServicesNext]_services =>
        [service = "customers" => ReplacesWhatItRead]_services
  <2> SUFFICES ASSUME service = "customers" => CustomersInv, ServicesNext, service = "customers"
               PROVE  ReplacesWhatItRead
    OBVIOUS
  <2>1. CustomersInv /\ CustomersNext  BY DEF ServicesNext
  <2> SUFFICES ASSUME NEW c \in Clients, flights[c].at = "update",
                      flights[c].expected <= flights[c].current.version, flights'[c] # flights[c],
                      rows'[flights[c].id] # rows[flights[c].id], NEW log, log = changes'[flights[c].id]
               PROVE  /\ \A k \in (Len(changes[flights[c].id]) + 1)..Len(log) :
                          log[k].old = Redacted(log[k].field, rows[flights[c].id].values[log[k].field])
                      /\ flights'[c].version = rows'[flights[c].id].version
                      /\ flights'[c].values = rows'[flights[c].id].values
    BY Zenon DEF ReplacesWhatItRead
  <2>2. UpdateCommit(c)  BY <2>1, OnlyCommitsAnswer
  <2> QED BY <2>1, <2>2, CommitReplaces
<1> QED BY <1>1, <1>2, CustomersInvariance, PTL DEF UpdatesAreTold, ServicesSpec

\* A walk meets every customer that is not touched: whatever is written comes
\* first, so it moves nobody back before the walker (search).
THEOREM WalkMeetsUntouchedHolds == ServicesSpec => []WalkMeetsUntouched
<1>1. CustomersInv => WalkFindsUntouched
  <2> SUFFICES ASSUME CustomersInv, NEW c \in Clients, flights[c].at = "answered",
                      "seen" \in DOMAIN flights[c], flights[c].keyword = Unfiltered,
                      NEW id \in Ids, flights[c].from[id] # NoRow, rows[id] = flights[c].from[id]
               PROVE  id \in flights[c].seen
    BY DEF WalkFindsUntouched
  <2>1. FlightOK(flights[c])  BY DEF CustomersInv
  <2>2. WalkOK(flights[c])  BY <2>1 DEF FlightOK
  <2> QED BY <2>2 DEF WalkOK
<1>2. (service = "customers" => CustomersInv) => WalkMeetsUntouched
  BY <1>1 DEF WalkMeetsUntouched
<1> QED BY <1>2, CustomersInvariance, PTL
-----------------------------------------------------------------------------
\* Personnel: sequences of any length, the tables and what the log tells.
AnySeq(s) == \E S : s \in Seq(S)

\* One sequence after another.
LEMMA Joined ==
  ASSUME NEW s, NEW t, AnySeq(s), AnySeq(t)
  PROVE  /\ AnySeq(s \o t) /\ Len(s) \in Nat /\ Len(t) \in Nat /\ Len(s \o t) = Len(s) + Len(t)
         /\ DOMAIN s = 1..Len(s) /\ DOMAIN t = 1..Len(t) /\ DOMAIN (s \o t) = 1..(Len(s) + Len(t))
         /\ \A k \in 1..Len(s) : (s \o t)[k] = s[k]
         /\ \A k \in 1..Len(t) : (s \o t)[Len(s) + k] = t[k]
<1>1. PICK S, T : s \in Seq(S) /\ t \in Seq(T)  BY DEF AnySeq
<1>2. PICK U : U = S \cup T  OBVIOUS
<1>3. s \in Seq(U) /\ t \in Seq(U)
  <2>1. S \subseteq U /\ T \subseteq U  BY <1>2
  <2> QED BY <1>1, <2>1
<1>4. s \o t \in Seq(U)  BY <1>3
<1> QED BY <1>3, <1>4 DEF AnySeq

\* A sequence and one more.
LEMMA Appended ==
  ASSUME NEW s, NEW v, AnySeq(s)
  PROVE  /\ AnySeq(Append(s, v)) /\ Len(s) \in Nat /\ DOMAIN s = 1..Len(s)
         /\ DOMAIN Append(s, v) = 1..(Len(s) + 1) /\ Append(s, v)[Len(s) + 1] = v
         /\ \A k \in 1..Len(s) : Append(s, v)[k] = s[k]
<1>1. PICK S : s \in Seq(S)  BY DEF AnySeq
<1>2. PICK U : U = S \cup {v}  OBVIOUS
<1>3. s \in Seq(U)
  <2>1. S \subseteq U  BY <1>2
  <2> QED BY <1>1, <2>1
<1>4. v \in U /\ Append(s, v) \in Seq(U)  BY <1>2, <1>3
<1> QED BY <1>3, <1>4 DEF AnySeq

\* A sequence with one place replaced.
LEMMA Replaced ==
  ASSUME NEW s, NEW i, NEW v, AnySeq(s)
  PROVE  AnySeq([s EXCEPT ![i] = v]) /\ DOMAIN [s EXCEPT ![i] = v] = DOMAIN s
<1>1. PICK S : s \in Seq(S)  BY DEF AnySeq
<1>2. PICK U : U = S \cup {v}  OBVIOUS
<1>3. s \in Seq(U)
  <2>1. S \subseteq U  BY <1>2
  <2> QED BY <1>1, <2>1
<1>4. v \in U /\ DOMAIN s = 1..Len(s)  BY <1>2, <1>3
<1>5. PICK new : new = [s EXCEPT ![i] = v]  OBVIOUS
<1>6. new \in Seq(U) /\ DOMAIN new = DOMAIN s
  <2>1. CASE i \in 1..Len(s)  BY <1>3, <1>4, <1>5, <2>1, ExceptSeq
  <2>2. CASE i \notin 1..Len(s)
    <3>1. new = s  BY <1>3, <1>4, <1>5, <2>2
    <3> QED BY <1>3, <3>1
  <2> QED BY <2>1, <2>2
<1> QED BY <1>5, <1>6 DEF AnySeq

\* A story goes on with nothing, if the value stays, ...
LEMMA ToldStill ==
  ASSUME NEW log, NEW added, AnySeq(log), AnySeq(added), NEW p, NEW actions, NEW fields, NEW v,
         P!Told(log, p, actions, fields, v),
         \A i \in DOMAIN added : ~P!About(added[i], p, actions, fields)
  PROVE  P!Told(log \o added, p, actions, fields, v)
<1>1. PICK x : x = log \o added  OBVIOUS
<1>2. /\ Len(log) \in Nat /\ Len(added) \in Nat /\ DOMAIN log = 1..Len(log)
      /\ DOMAIN added = 1..Len(added) /\ DOMAIN x = 1..(Len(log) + Len(added))
      /\ \A k \in 1..Len(log) : x[k] = log[k]
      /\ \A k \in 1..Len(added) : x[Len(log) + k] = added[k]
  BY <1>1, Joined
<1>3. {k \in DOMAIN x : P!About(x[k], p, actions, fields)}
        = {k \in DOMAIN log : P!About(log[k], p, actions, fields)}
  <2>1. ASSUME NEW k \in DOMAIN x, k \notin DOMAIN log PROVE ~P!About(x[k], p, actions, fields)
    <3>1. k \in Nat /\ k - Len(log) \in 1..Len(added) /\ k = Len(log) + (k - Len(log))  BY <1>2, <2>1
    <3>2. x[k] = added[k - Len(log)]  BY <1>2, <3>1
    <3> QED BY <1>2, <3>1, <3>2
  <2>2. DOMAIN log \subseteq DOMAIN x  BY <1>2
  <2> QED BY <1>2, <2>1, <2>2
<1>4. PICK mine : mine = {k \in DOMAIN log : P!About(log[k], p, actions, fields)}  OBVIOUS
<1>5. \A k \in mine : x[k] = log[k]  BY <1>2, <1>4
<1>6. /\ \A k, m \in mine : k < m /\ {j \in mine : k < j /\ j < m} = {} => log[m].old = log[k].new
      /\ \A k \in mine : (\A m \in mine : m <= k) => log[k].new = v
  BY <1>4 DEF P!Told
<1>7. mine = {k \in DOMAIN x : P!About(x[k], p, actions, fields)}  BY <1>3, <1>4
<1>8. /\ \A k, m \in mine : k < m /\ {j \in mine : k < j /\ j < m} = {} => x[m].old = x[k].new
      /\ \A k \in mine : (\A m \in mine : m <= k) => x[k].new = v
  BY <1>5, <1>6
<1>9. P!Told(x, p, actions, fields, v)  BY <1>7, <1>8 DEF P!Told
<1> QED BY <1>1, <1>9

\* ... or with one entry that leads from the old value to the new one.
LEMMA ToldOn ==
  ASSUME NEW log, NEW added, AnySeq(log), AnySeq(added), NEW p, NEW actions, NEW fields, NEW v,
         NEW i \in DOMAIN added, P!About(added[i], p, actions, fields),
         P!Told(log, p, actions, fields, added[i].old), added[i].new = v,
         \A j \in DOMAIN added : P!About(added[j], p, actions, fields) => j = i
  PROVE  P!Told(log \o added, p, actions, fields, v)
<1>1. PICK x, n : x = log \o added /\ n = Len(log) + i  OBVIOUS
<1>2. /\ Len(log) \in Nat /\ Len(added) \in Nat /\ DOMAIN log = 1..Len(log)
      /\ DOMAIN added = 1..Len(added) /\ DOMAIN x = 1..(Len(log) + Len(added))
      /\ \A k \in 1..Len(log) : x[k] = log[k]
      /\ \A k \in 1..Len(added) : x[Len(log) + k] = added[k]
  BY <1>1, Joined
<1>3. PICK mine, all : /\ mine = {k \in DOMAIN log : P!About(log[k], p, actions, fields)}
                       /\ all = {k \in DOMAIN x : P!About(x[k], p, actions, fields)}
  OBVIOUS
<1>4. n \in Nat /\ n > Len(log) /\ n \in DOMAIN x /\ x[n] = added[i]  BY <1>1, <1>2
<1>5. all = mine \cup {n}
  <2>1. ASSUME NEW k \in DOMAIN x, k \notin DOMAIN log, P!About(x[k], p, actions, fields) PROVE k = n
    <3>1. PICK j \in 1..Len(added) : k = Len(log) + j
      <4>1. k \in Nat /\ k - Len(log) \in 1..Len(added) /\ k = Len(log) + (k - Len(log))  BY <1>2, <2>1
      <4> QED BY <4>1
    <3>2. x[k] = added[j]  BY <1>2, <3>1
    <3> QED BY <1>1, <1>2, <2>1, <3>1, <3>2
  <2>2. DOMAIN log \subseteq DOMAIN x  BY <1>2
  <2>3. n \in all  BY <1>3, <1>4
  <2> QED BY <1>2, <1>3, <2>1, <2>2, <2>3
<1>6. \A k \in mine : k \in Nat /\ k < n /\ x[k] = log[k]  BY <1>2, <1>3, <1>4
<1>7. /\ \A k, m \in mine : k < m /\ {j \in mine : k < j /\ j < m} = {} => log[m].old = log[k].new
      /\ \A k \in mine : (\A m \in mine : m <= k) => log[k].new = added[i].old
  BY <1>3 DEF P!Told
<1>8. ASSUME NEW k \in all, NEW m \in all, k < m, {j \in all : k < j /\ j < m} = {}
      PROVE  x[m].old = x[k].new
  <2>1. k \in mine  BY <1>4, <1>5, <1>6, <1>8
  <2>2. CASE m \in mine
    <3>1. {j \in mine : k < j /\ j < m} = {}  BY <1>5, <1>8
    <3> QED BY <1>6, <1>7, <1>8, <2>1, <2>2, <3>1
  <2>3. CASE m \notin mine
    <3>1. m = n  BY <1>5, <2>3
    <3>2. \A j \in mine : ~(k < j)  BY <1>5, <1>6, <1>8, <3>1
    <3>3. \A j \in mine : j <= k  BY <1>6, <2>1, <3>2
    <3> QED BY <1>4, <1>6, <1>7, <2>1, <3>1, <3>3
  <2> QED BY <2>2, <2>3
<1>9. ASSUME NEW k \in all, \A m \in all : m <= k PROVE x[k].new = v
  <2>1. k = n  BY <1>4, <1>5, <1>6, <1>9
  <2> QED BY <1>4, <2>1
<1> QED BY <1>1, <1>3, <1>8, <1>9 DEF P!Told

Telling == {"create", "status_change", "update"}
IsTables(d) == /\ DOMAIN d = {"persons", "assignments", "log"}
               /\ AnySeq(d.persons) /\ AnySeq(d.assignments) /\ AnySeq(d.log)
IsPersonRow(row) == /\ DOMAIN row = {"number", "status", "reason", "fields"}
              /\ DOMAIN row.fields = P!FieldNames
StaffTablesOK(d) ==
  /\ IsTables(d) /\ \A p \in P!Persons(d) : IsPersonRow(d.persons[p])
  /\ \A k \in DOMAIN d.log : d.log[k].action \in Telling => d.log[k].person \in DOMAIN d.persons
  /\ P!Chains(d)

LogEntries(p, entries) == [i \in DOMAIN entries |-> P!Logged(p, entries[i])]

\* Whoever is not written about keeps the story.
LEMMA StoriesStay ==
  ASSUME NEW d, NEW x, StaffTablesOK(d), IsTables(x), NEW added, AnySeq(added), x.log = d.log \o added,
         NEW q \in P!Persons(x), q \in P!Persons(d), x.persons[q] = d.persons[q],
         \A i \in DOMAIN added : added[i].action \in Telling => added[i].person # q
  PROVE  /\ IsPersonRow(x.persons[q])
         /\ P!Told(x.log, q, {"create", "status_change"}, {"person", "status"}, x.persons[q].status)
         /\ \A f \in P!FieldNames : P!Told(x.log, q, {"update"}, {f}, x.persons[q].fields[f])
<1>1. AnySeq(d.log) /\ IsPersonRow(d.persons[q])  BY DEF StaffTablesOK, IsTables
<1>2. \A i \in DOMAIN added : ~P!About(added[i], q, {"create", "status_change"}, {"person", "status"})
  BY DEF P!About, Telling
<1>3. P!Told(d.log, q, {"create", "status_change"}, {"person", "status"}, x.persons[q].status)
  BY DEF StaffTablesOK, P!Chains
<1>4. ASSUME NEW f \in P!FieldNames PROVE P!Told(x.log, q, {"update"}, {f}, x.persons[q].fields[f])
  <2>1. \A i \in DOMAIN added : ~P!About(added[i], q, {"update"}, {f})  BY DEF P!About, Telling
  <2>2. P!Told(d.log, q, {"update"}, {f}, x.persons[q].fields[f])  BY DEF StaffTablesOK, P!Chains
  <2> QED BY <1>1, <2>1, <2>2, ToldStill
<1> QED BY <1>1, <1>2, <1>3, <1>4, ToldStill

\* LogEntries name persons who are, or were.
LEMMA EntriesNamePersons ==
  ASSUME NEW d, NEW x, StaffTablesOK(d), NEW added, AnySeq(added), x.log = d.log \o added,
         DOMAIN d.persons \subseteq DOMAIN x.persons,
         \A i \in DOMAIN added : added[i].action \in Telling => added[i].person \in DOMAIN x.persons
  PROVE  \A k \in DOMAIN x.log : x.log[k].action \in Telling => x.log[k].person \in DOMAIN x.persons
<1>1. AnySeq(d.log)  BY DEF StaffTablesOK, IsTables
<1>2. /\ Len(d.log) \in Nat /\ Len(added) \in Nat /\ DOMAIN d.log = 1..Len(d.log)
      /\ DOMAIN added = 1..Len(added) /\ DOMAIN x.log = 1..(Len(d.log) + Len(added))
      /\ \A k \in 1..Len(d.log) : x.log[k] = d.log[k]
      /\ \A k \in 1..Len(added) : x.log[Len(d.log) + k] = added[k]
  BY <1>1, Joined
<1>3. ASSUME NEW k \in DOMAIN x.log, k \notin DOMAIN d.log PROVE \E j \in DOMAIN added : x.log[k] = added[j]
  <2>1. k \in Nat /\ k - Len(d.log) \in 1..Len(added) /\ k = Len(d.log) + (k - Len(d.log))  BY <1>2, <1>3
  <2> QED BY <1>2, <2>1
<1> QED BY <1>2, <1>3 DEF StaffTablesOK

\* Persons stay, and nothing is told of them.
LEMMA QuietKeeps ==
  ASSUME NEW d, NEW x, StaffTablesOK(d), IsTables(x), x.persons = d.persons,
         NEW added, AnySeq(added), x.log = d.log \o added,
         \A i \in DOMAIN added : added[i].action \notin Telling
  PROVE  StaffTablesOK(x)
<1>1. P!Persons(x) = P!Persons(d)  BY DEF P!Persons
<1>2. \A q \in P!Persons(x) :
        /\ IsPersonRow(x.persons[q])
        /\ P!Told(x.log, q, {"create", "status_change"}, {"person", "status"}, x.persons[q].status)
        /\ \A f \in P!FieldNames : P!Told(x.log, q, {"update"}, {f}, x.persons[q].fields[f])
  BY <1>1, StoriesStay
<1>3. \A k \in DOMAIN x.log : x.log[k].action \in Telling => x.log[k].person \in DOMAIN x.persons
  BY EntriesNamePersons
<1> QED BY <1>2, <1>3 DEF StaffTablesOK, P!Chains

\* The story of one person goes on, those of the others stay.
LEMMA OneMoves ==
  ASSUME NEW d, NEW x, StaffTablesOK(d), IsTables(x), NEW p, NEW added, AnySeq(added), x.log = d.log \o added,
         DOMAIN d.persons \subseteq DOMAIN x.persons, p \in DOMAIN x.persons,
         \A q \in P!Persons(x) : q # p => q \in P!Persons(d) /\ x.persons[q] = d.persons[q],
         \A i \in DOMAIN added : added[i].action \in Telling => added[i].person = p,
         p \in P!Persons(x) =>
           /\ IsPersonRow(x.persons[p])
           /\ P!Told(x.log, p, {"create", "status_change"}, {"person", "status"}, x.persons[p].status)
           /\ \A f \in P!FieldNames : P!Told(x.log, p, {"update"}, {f}, x.persons[p].fields[f])
  PROVE  StaffTablesOK(x)
<1>1. \A q \in P!Persons(x) :
        /\ IsPersonRow(x.persons[q])
        /\ P!Told(x.log, q, {"create", "status_change"}, {"person", "status"}, x.persons[q].status)
        /\ \A f \in P!FieldNames : P!Told(x.log, q, {"update"}, {f}, x.persons[q].fields[f])
  <2>1. SUFFICES ASSUME NEW q \in P!Persons(x), q # p
                 PROVE  /\ IsPersonRow(x.persons[q])
                        /\ P!Told(x.log, q, {"create", "status_change"}, {"person", "status"},
                                  x.persons[q].status)
                        /\ \A f \in P!FieldNames :
                             P!Told(x.log, q, {"update"}, {f}, x.persons[q].fields[f])
    OBVIOUS
  <2>2. q \in P!Persons(d) /\ x.persons[q] = d.persons[q]  BY <2>1
  <2>3. \A i \in DOMAIN added : added[i].action \in Telling => added[i].person # q  BY <2>1
  <2> QED BY <2>2, <2>3, StoriesStay
<1>2. \A k \in DOMAIN x.log : x.log[k].action \in Telling => x.log[k].person \in DOMAIN x.persons
  BY EntriesNamePersons
<1> QED BY <1>1, <1>2 DEF StaffTablesOK, P!Chains

\* insertChangeRecord appends the entries or fails.
LEMMA ChangesAppended ==
  ASSUME NEW d, IsTables(d), NEW p, NEW operator, NEW entries, AnySeq(entries),
         NEW r, r = P!InsertChanges(d, p, operator, entries)
  PROVE  /\ AnySeq(LogEntries(p, entries)) /\ DOMAIN LogEntries(p, entries) = DOMAIN entries
         /\ \A i \in DOMAIN entries : LogEntries(p, entries)[i] = P!Logged(p, entries[i])
         /\ r.error = "none" => /\ IsTables(r.db) /\ r.db.persons = d.persons
                                /\ r.db.log = d.log \o LogEntries(p, entries)
         /\ r.error # "none" => r.db = d
<1>1. PICK S : entries \in Seq(S)  BY DEF AnySeq
<1>2. DOMAIN entries = 1..Len(entries) /\ Len(entries) \in Nat  BY <1>1
<1>3. PICK new : new = LogEntries(p, entries)  OBVIOUS
<1>4. /\ new = [i \in 1..Len(entries) |-> P!Logged(p, entries[i])]
      /\ \A i \in DOMAIN entries : new[i] = P!Logged(p, entries[i])
  BY <1>2, <1>3 DEF LogEntries
<1>5. PICK T : T = {P!Logged(p, entries[i]) : i \in 1..Len(entries)}  OBVIOUS
<1>6. new \in Seq(T)  BY <1>2, <1>4, <1>5
<1>7. AnySeq(new) /\ DOMAIN new = DOMAIN entries  BY <1>2, <1>4, <1>6 DEF AnySeq
<1>8. AnySeq(d.log \o new)  BY <1>7, Joined DEF IsTables
<1>9. PICK x : x = [d EXCEPT !.log = @ \o new]  OBVIOUS
<1>10. r = P!Goes(x) \/ r = P!Fails(d, "conflict")
  BY <1>3, <1>9 DEF P!InsertChanges, LogEntries
<1>11. x.log = d.log \o new /\ x.persons = d.persons /\ x.assignments = d.assignments /\ DOMAIN x = DOMAIN d
  BY <1>9 DEF IsTables
<1>12. IsTables(x)  BY <1>8, <1>11 DEF IsTables
<1>13. r.error = "none" => r.db = x  BY <1>10 DEF P!Goes, P!Fails
<1>14. r.error # "none" => r.db = d  BY <1>10 DEF P!Goes, P!Fails
<1> QED BY <1>3, <1>4, <1>7, <1>11, <1>12, <1>13, <1>14

\* Persons and log are as they were.
Alike(d, e) == IsTables(e) /\ e.persons = d.persons /\ e.log = d.log

\* updateAssignment leaves persons and log alone.
LEMMA AssignmentUpdated ==
  ASSUME NEW d, IsTables(d), NEW i, NEW row, NEW r, r = P!UpdateAssignment(d, i, row)
  PROVE  Alike(d, r.db)
<1>1. PICK new, x : new = [d.assignments EXCEPT ![i] = row] /\ x = [d EXCEPT !.assignments = new]
  OBVIOUS
<1>2. AnySeq(new)  BY <1>1, Replaced DEF IsTables
<1>3. x.assignments = new /\ x.persons = d.persons /\ x.log = d.log /\ DOMAIN x = DOMAIN d
  BY <1>1 DEF IsTables
<1>4. IsTables(x)  BY <1>2, <1>3 DEF IsTables
<1>5. r.db = x \/ r.db = d  BY <1>1 DEF P!UpdateAssignment, P!Goes, P!Fails
<1> QED BY <1>3, <1>4, <1>5 DEF Alike

\* An insertion of an assignment leaves persons and the log alone, ...
LEMMA AssignmentInserted ==
  ASSUME NEW d, IsTables(d), NEW row, NEW r, r = P!InsertAssignment(d, row)
  PROVE  Alike(d, r.db)
<1>1. PICK new, x : new = Append(d.assignments, row) /\ x = [d EXCEPT !.assignments = new]
  OBVIOUS
<1>2. AnySeq(new)  BY <1>1, Appended DEF IsTables
<1>3. x.assignments = new /\ x.persons = d.persons /\ x.log = d.log /\ DOMAIN x = DOMAIN d
  BY <1>1 DEF IsTables
<1>4. IsTables(x)  BY <1>2, <1>3 DEF IsTables
<1>5. r.db = x \/ r.db = d  BY <1>1 DEF P!InsertAssignment, P!Goes, P!Fails
<1> QED BY <1>3, <1>4, <1>5 DEF Alike

\* ... so does what closes the current assignment ...
LEMMA CurrentClosed ==
  ASSUME NEW d, IsTables(d), NEW p, NEW day, NEW r, r = P!CloseCurrent(d, p, day)
  PROVE  Alike(d, r.db)
<1>1. CASE P!Closable(d, p, day) = {}  BY <1>1 DEF P!CloseCurrent, P!Goes, Alike
<1>2. CASE P!Closable(d, p, day) # {}
  <2>1. PICK i, row : r = P!UpdateAssignment(d, i, row)  BY <1>2 DEF P!CloseCurrent
  <2> QED BY <2>1, AssignmentUpdated
<1> QED BY <1>1, <1>2

\* ... and what closes the one in force on a day.
LEMMA DayClosed ==
  ASSUME NEW d, IsTables(d), NEW p, NEW day, NEW r, r = P!Deactivated(d, p, day)
  PROVE  Alike(d, r.db)
<1>1. CASE P!EffectiveAt(d, p, day) = P!None  BY <1>1 DEF P!Deactivated, P!Goes, Alike
<1>2. CASE P!EffectiveAt(d, p, day) # P!None
  <2>1. PICK i, row : r = P!UpdateAssignment(d, i, row)  BY <1>2 DEF P!Deactivated
  <2> QED BY <2>1, AssignmentUpdated
<1> QED BY <1>1, <1>2


\* Tables with the same persons and the same log tell the same stories.
LEMMA SameStories == ASSUME NEW d, NEW e, StaffTablesOK(d), Alike(d, e) PROVE StaffTablesOK(e)
BY DEF Alike, StaffTablesOK, P!Chains, P!Persons

\* Entries of another kind leave the stories.
LEMMA QuietEntries ==
  ASSUME NEW d, NEW e, StaffTablesOK(d), Alike(d, e),
         NEW p, NEW operator, NEW entries, AnySeq(entries),
         \A i \in DOMAIN entries : entries[i].action \notin Telling,
         NEW r, r = P!InsertChanges(e, p, operator, entries)
  PROVE  StaffTablesOK(r.db)
<1>1. /\ AnySeq(LogEntries(p, entries)) /\ DOMAIN LogEntries(p, entries) = DOMAIN entries
      /\ \A i \in DOMAIN entries : LogEntries(p, entries)[i] = P!Logged(p, entries[i])
      /\ r.error = "none" => /\ IsTables(r.db) /\ r.db.persons = e.persons
                             /\ r.db.log = e.log \o LogEntries(p, entries)
      /\ r.error # "none" => r.db = e
  <2>1. IsTables(e)  BY DEF Alike
  <2> QED BY <2>1, ChangesAppended
<1>2. PICK added :
        /\ AnySeq(added) /\ DOMAIN added = DOMAIN entries
        /\ \A i \in DOMAIN entries : added[i] = P!Logged(p, entries[i])
        /\ r.error = "none" => IsTables(r.db) /\ r.db.persons = e.persons /\ r.db.log = e.log \o added
        /\ r.error # "none" => r.db = e
  BY <1>1
<1>3. \A i \in DOMAIN added : added[i].action \notin Telling  BY <1>2 DEF P!Logged
<1>4. CASE r.error = "none"  BY <1>2, <1>3, <1>4, QuietKeeps DEF Alike
<1>5. CASE r.error # "none"  BY <1>2, <1>5, SameStories
<1> QED BY <1>4, <1>5

\* A sequence of one, ...
LEMMA One == ASSUME NEW v PROVE AnySeq(<<v>>) /\ DOMAIN <<v>> = {1} /\ <<v>>[1] = v
<1>1. <<v>> \in Seq({v}) /\ Len(<<v>>) = 1 /\ <<v>>[1] = v  OBVIOUS
<1>2. DOMAIN <<v>> = 1..1  BY <1>1
<1>3. AnySeq(<<v>>)  BY <1>1, Zenon DEF AnySeq
<1>4. 1..1 = {1}  OBVIOUS
<1> QED BY <1>1, <1>2, <1>3, <1>4

\* ... and one of two.
LEMMA Two == ASSUME NEW v, NEW w
  PROVE AnySeq(<<v, w>>) /\ DOMAIN <<v, w>> = {1, 2} /\ <<v, w>>[1] = v /\ <<v, w>>[2] = w
<1>1. <<v, w>> \in Seq({v, w}) /\ Len(<<v, w>>) = 2 /\ <<v, w>>[1] = v /\ <<v, w>>[2] = w  OBVIOUS
<1>2. DOMAIN <<v, w>> = 1..2  BY <1>1
<1>3. AnySeq(<<v, w>>)  BY <1>1, Zenon DEF AnySeq
<1>4. 1..2 = {1, 2}  OBVIOUS
<1> QED BY <1>1, <1>2, <1>3, <1>4

\* A retraction is about no status and no field (retractAssignment).
LEMMA RetractKeeps ==
  ASSUME StaffTablesOK(db), NEW p, NEW i, NEW operator, NEW r, r = P!Retract(p, i, operator)
  PROVE  StaffTablesOK(r.db)
<1>1. PICK u : u = P!UpdateAssignment(db, i, [db.assignments[i] EXCEPT !.status = "retracted"])  OBVIOUS
<1>2. PICK v : v = P!Change("assignment_retract", "assignment", "pending", "retracted")  OBVIOUS
<1>3. PICK c : c = P!InsertChanges(u.db, p, operator, <<v>>)  OBVIOUS
<1>4. r.db = db \/ r.db = c.db
  BY <1>1, <1>2, <1>3 DEF P!Retract, P!Transaction, P!Then, P!Fails
<1>5. Alike(db, u.db)
  BY <1>1, AssignmentUpdated DEF StaffTablesOK
<1>6. v.action \notin Telling  BY <1>2 DEF P!Change, Telling
<1>7. AnySeq(<<v>>) /\ \A j \in DOMAIN <<v>> : <<v>>[j].action \notin Telling  BY <1>6, One
<1>8. StaffTablesOK(c.db)  BY <1>3, <1>5, <1>7, QuietEntries
<1> QED BY <1>4, <1>8

\* So is a new assignment (createAssignment), ...
LEMMA AssignKeeps ==
  ASSUME StaffTablesOK(db), NEW p, NEW manager, NEW from, NEW to, NEW operator,
         NEW r, r = P!Assign(p, manager, from, to, operator)
  PROVE  StaffTablesOK(r.db)
<1>1. PICK row : row = [person |-> p, manager |-> manager, from |-> from, to |-> to,
                        status |-> IF from <= today THEN "current" ELSE "pending"]
  OBVIOUS
<1>2. PICK u : u = IF row.status = "current" THEN P!CloseCurrent(db, p, from) ELSE P!Goes(db)  OBVIOUS
<1>3. PICK w : w = P!InsertAssignment(u.db, row)  OBVIOUS
<1>4. PICK v : v = P!Change("assignment_change", "manager", P!ManagerAt(db, p, from), manager)  OBVIOUS
<1>5. PICK c : c = P!InsertChanges(w.db, p, operator, <<v>>)  OBVIOUS
<1>6. r.db = db \/ r.db = c.db
  BY <1>1, <1>2, <1>3, <1>4, <1>5 DEF P!Assign, P!Transaction, P!Then, P!Fails
<1>7. Alike(db, u.db)
  <2>1. CASE u = P!CloseCurrent(db, p, from)  BY <2>1, CurrentClosed DEF StaffTablesOK
  <2>2. CASE u = P!Goes(db)  BY <2>2 DEF P!Goes, StaffTablesOK, Alike
  <2> QED BY <1>2, <2>1, <2>2
<1>8. Alike(db, w.db)
  BY <1>3, <1>7, AssignmentInserted DEF Alike
<1>9. v.action \notin Telling  BY <1>4 DEF P!Change, Telling
<1>10. AnySeq(<<v>>) /\ \A j \in DOMAIN <<v>> : <<v>>[j].action \notin Telling  BY <1>9, One
<1>11. StaffTablesOK(c.db)  BY <1>5, <1>8, <1>10, QuietEntries
<1> QED BY <1>6, <1>11

\* ... the application of one that is due (applyDueAssignments), ...
LEMMA ApplyKeeps ==
  ASSUME NEW d, StaffTablesOK(d), NEW i, NEW r, r = P!Apply(d, i)
  PROVE  StaffTablesOK(r.db)
<1>1. PICK row, previous : /\ row = db.assignments[i]
                           /\ previous = P!EffectiveAt(d, row.person, row.from)
  OBVIOUS
<1>2. PICK u : u = P!CloseCurrent(d, row.person, row.from)  OBVIOUS
<1>3. PICK w : w = P!UpdateAssignment(u.db, i, [row EXCEPT !.status = "current"])  OBVIOUS
<1>4. PICK v : v = P!Change("assignment_change", "assignment", "pending", "current")  OBVIOUS
<1>5. PICK entries : entries = IF previous \in {P!None, i} THEN <<>> ELSE <<v>>  OBVIOUS
<1>6. PICK c : c = P!InsertChanges(w.db, row.person, "hr", entries)  OBVIOUS
<1>7. r = u \/ r = w \/ r = c
  BY <1>1, <1>2, <1>3, <1>4, <1>5, <1>6 DEF P!Apply, P!Then
<1>8. Alike(d, u.db)
  BY <1>2, CurrentClosed DEF StaffTablesOK
<1>9. Alike(d, w.db)
  BY <1>3, <1>8, AssignmentUpdated DEF Alike
<1>10. v.action \notin Telling  BY <1>4 DEF P!Change, Telling
<1>11. AnySeq(entries) /\ \A j \in DOMAIN entries : entries[j].action \notin Telling
  <2>1. CASE entries = <<>>
    <3>1. entries \in Seq({}) /\ DOMAIN entries = {}  BY <2>1
    <3> QED BY <3>1 DEF AnySeq
  <2>2. CASE entries = <<v>>  BY <1>10, <2>2, One
  <2> QED BY <1>5, <2>1, <2>2
<1>12. StaffTablesOK(c.db)  BY <1>6, <1>9, <1>11, QuietEntries
<1>13. StaffTablesOK(u.db) /\ StaffTablesOK(w.db)  BY <1>8, <1>9, SameStories
<1> QED BY <1>7, <1>12, <1>13

\* ... and a removal: an attempt in vain is logged, a deleted person is not
\* one of the persons any more (deletePerson).
LEMMA RemovalKeeps ==
  ASSUME StaffTablesOK(db), NEW p, NEW authorized, NEW referenced, NEW operator,
         NEW r, r = P!Removal(p, authorized, referenced, operator)
  PROVE  StaffTablesOK(r.db)
<1>1. PICK v : v = P!Change("delete_attempt", "person", db.persons[p].status, P!Null)  OBVIOUS
<1>2. PICK c : c = P!InsertChanges(db, p, operator, <<v>>)  OBVIOUS
<1>3. PICK x : x = [db EXCEPT !.persons[p] = P!Deleted]  OBVIOUS
<1>4. \/ r.db = db \/ r.db = c.db
      \/ r.db = x /\ p \in P!Persons(db)
  BY <1>1, <1>2, <1>3 DEF P!Removal, P!Transaction, P!DeletePerson, P!Fails, P!Goes
<1>5. v.action \notin Telling  BY <1>1 DEF P!Change, Telling
<1>6. AnySeq(<<v>>) /\ \A j \in DOMAIN <<v>> : <<v>>[j].action \notin Telling  BY <1>5, One
<1>7. StaffTablesOK(c.db)  BY <1>2, <1>6, QuietEntries DEF StaffTablesOK, Alike
<1>8. ASSUME p \in P!Persons(db) PROVE StaffTablesOK(x)
  <2>1. PICK new : new = [db.persons EXCEPT ![p] = P!Deleted]  OBVIOUS
  <2>2. AnySeq(new) /\ DOMAIN new = DOMAIN db.persons  BY <2>1, Replaced DEF StaffTablesOK, IsTables
  <2>3. x.persons = new /\ x.assignments = db.assignments /\ x.log = db.log /\ DOMAIN x = DOMAIN db
    BY <1>3, <2>1 DEF StaffTablesOK, IsTables
  <2>4. IsTables(x)  BY <2>2, <2>3 DEF StaffTablesOK, IsTables
  <2>5. \A q \in P!Persons(x) : q \in P!Persons(db) /\ x.persons[q] = db.persons[q]
    BY <1>8, <2>1, <2>2, <2>3 DEF P!Persons
  <2> QED BY <2>2, <2>3, <2>4, <2>5 DEF StaffTablesOK, P!Chains
<1> QED BY <1>4, <1>7, <1>8


\* The service counts as everybody does.
LEMMA SameNumber == ASSUME NEW D PROVE P!Cardinality(D) = Cardinality(D)
BY Zenon DEF Cardinality, P!Cardinality

\* SetToSeq has every member once.
LEMMA SetInSequence ==
  ASSUME NEW D, IsFiniteSet(D), NEW order, order = P!SetToSeq(D), NEW n, n = Cardinality(D)
  PROVE  /\ n \in Nat /\ order \in [1..n -> D]
         /\ \A f \in D : \E i \in 1..n : order[i] = f
         /\ \A i, j \in 1..n : i # j => order[i] # order[j]
<1>1. n \in Nat /\ ExistsBijection(1..n, D)  BY FS_CardinalityType
<1>2. \E f \in [1..n -> D] : P!IsInjective(f)
  BY <1>1 DEF ExistsBijection, Bijection, Injection, IsInjective, P!IsInjective
<1>3. order \in [1..n -> D] /\ P!IsInjective(order)
  <2>1. P!Cardinality(D) = n  BY SameNumber
  <2> QED BY <1>2, <2>1 DEF P!SetToSeq
<1>4. order \in Injection(1..n, D)  BY <1>3 DEF Injection, IsInjective, P!IsInjective
<1>5. IsFiniteSet(1..n) /\ Cardinality(1..n) = n  BY <1>1, FS_Interval
<1>6. order \in Surjection(1..n, D)  BY <1>4, <1>5, FS_Injection
<1> QED BY <1>1, <1>3, <1>6 DEF P!IsInjective, Surjection

\* The entries of an update: one for each field that changes.
LEMMA FieldEntries ==
  ASSUME NEW old, NEW new, NEW es, es = P!FieldChanges(old, new)
  PROVE  /\ AnySeq(es)
         /\ \A i \in DOMAIN es : /\ es[i].action = "update" /\ es[i].field \in P!FieldNames
                                 /\ es[i].old = old[es[i].field] /\ es[i].new = new[es[i].field]
         /\ \A f \in P!FieldNames : old[f] # new[f] => \E i \in DOMAIN es : es[i].field = f
         /\ \A i, j \in DOMAIN es : es[i].field = es[j].field => i = j
<1>1. PICK D : D = {f \in P!FieldNames : old[f] # new[f]}  OBVIOUS
<1>2. PICK order, n : order = P!SetToSeq(D) /\ n = Cardinality(D)  OBVIOUS
<1>3. IsFiniteSet(D)
  <2>1. IsFiniteSet({}) /\ P!FieldNames = (((({} \cup {"fullName"}) \cup {"mobile"}) \cup {"start"}) \cup {"end"})
    BY FS_EmptySet DEF P!FieldNames
  <2>2. IsFiniteSet(P!FieldNames)  BY <2>1, FS_AddElement
  <2> QED BY <1>1, <2>2, FS_Subset
<1>4. /\ n \in Nat /\ order \in [1..n -> D]
      /\ \A f \in D : \E i \in 1..n : order[i] = f
      /\ \A i, j \in 1..n : i # j => order[i] # order[j]
  BY <1>2, <1>3, SetInSequence
<1>5. es = [i \in 1..n |-> P!Change("update", order[i], old[order[i]], new[order[i]])]
  BY <1>1, <1>2, <1>4 DEF P!FieldChanges
<1>6. DOMAIN es = 1..n /\ \A i \in 1..n : /\ es[i].action = "update" /\ es[i].field = order[i]
                                          /\ es[i].old = old[order[i]] /\ es[i].new = new[order[i]]
  BY <1>5 DEF P!Change
<1>7. AnySeq(es)
  <2>1. PICK S : S = {es[i] : i \in 1..n}  OBVIOUS
  <2>2. es \in [1..n -> S]  BY <1>5, <2>1
  <2>3. es \in Seq(S)  BY <1>4, <2>2
  <2> QED BY <2>3 DEF AnySeq
<1>8. \A i \in 1..n : order[i] \in P!FieldNames  BY <1>1, <1>4
<1>9. \A f \in P!FieldNames : old[f] # new[f] => f \in D  BY <1>1
<1> QED BY <1>4, <1>6, <1>7, <1>8, <1>9

\* Nobody who is not there has entries.
LEMMA NoStoryYet ==
  ASSUME NEW d, StaffTablesOK(d), NEW p, p \notin DOMAIN d.persons, NEW actions, actions \subseteq Telling,
         NEW fields, NEW v
  PROVE  P!Told(d.log, p, actions, fields, v)
<1>1. \A k \in DOMAIN d.log : ~P!About(d.log[k], p, actions, fields)  BY DEF StaffTablesOK, P!About
<1> QED BY <1>1 DEF P!Told

\* Entries that are logged follow those that are there.
Wrote(d, p, entries, x) ==
  \E added : /\ AnySeq(added) /\ DOMAIN added = DOMAIN entries
             /\ \A i \in DOMAIN entries : added[i] = P!Logged(p, entries[i])
             /\ IsTables(x) /\ x.persons = d.persons /\ x.log = d.log \o added
\* What is logged of a person is the entries, one by one (insertChangeRecord).
LEMMA EntriesLogged ==
  ASSUME NEW d, IsTables(d), NEW p, NEW author, NEW entries, AnySeq(entries),
         NEW r, r = P!InsertChanges(d, p, author, entries), r.error = "none"
  PROVE  Wrote(d, p, entries, r.db)
<1>1. /\ AnySeq(LogEntries(p, entries)) /\ DOMAIN LogEntries(p, entries) = DOMAIN entries
      /\ \A i \in DOMAIN entries : LogEntries(p, entries)[i] = P!Logged(p, entries[i])
      /\ r.error = "none" => /\ IsTables(r.db) /\ r.db.persons = d.persons
                             /\ r.db.log = d.log \o LogEntries(p, entries)
  BY ChangesAppended
<1> QED BY <1>1 DEF Wrote

\* Short sequences in a row.
LEMMA JoinedOnes == ASSUME NEW v, NEW y PROVE <<v>> \o <<y>> = <<v, y>> /\ <<v>> \o <<>> = <<v>>
<1>1. /\ <<v>> \in Seq({v, y}) /\ <<y>> \in Seq({v, y}) /\ <<>> \in Seq({v, y})
      /\ <<v, y>> \in Seq({v, y})
  OBVIOUS
<1>2. PICK x : x = <<v>> \o <<y>>  OBVIOUS
<1>3. x \in Seq({v, y}) /\ Len(x) = 2 /\ x[1] = v /\ x[2] = y  BY <1>1, <1>2
<1>4. x = <<v, y>>  BY <1>3
<1>5. <<v>> \o <<>> = <<v>>  BY <1>1
<1> QED BY <1>2, <1>4, <1>5

\* A change of status is told first, then its reason if there is one.
LEMMA StatusTold ==
  ASSUME NEW old, NEW to, NEW reason, NEW es, es = P!StatusChanges(old, to, reason),
         NEW v, v = P!Change("status_change", "status", old.status, to),
         NEW y, y = P!Change("status_change", "reason", old.reason, reason)
  PROVE  es = <<v>> \/ es = <<v, y>>
<1>1. es = <<v>> \o (IF to = "inactive" THEN <<y>> ELSE <<>>)
  BY DEF P!StatusChanges
<1>2. <<v>> \o <<y>> = <<v, y>> /\ <<v>> \o <<>> = <<v>>  BY JoinedOnes
<1> QED BY <1>1, <1>2

\* A person that is created begins its own story (createPerson).
LEMMA PersonCreateKeeps ==
  ASSUME StaffTablesOK(db), NEW body, NEW r, r = P!CreatePerson(body)
  PROVE  StaffTablesOK(r.db)
<1>1. PICK p, row : p = Len(db.persons) + 1 /\ row = P!NewPerson(body)  OBVIOUS
<1>2. PICK first : first = [person |-> p, manager |-> P!Given(body, "manager", P!NoPerson),
                            from |-> body.given["from"], to |-> P!NoDate, status |-> "current"]
  OBVIOUS
<1>3. PICK v, w : /\ v = P!Change("create", "person", P!Null, "active")
                  /\ w = P!Change("assignment_change", "manager", P!NoPerson, first.manager)
  OBVIOUS
<1>4. PICK u : u = P!InsertPerson(db, row)  OBVIOUS
<1>5. PICK a : a = P!InsertAssignment(u.db, first)  OBVIOUS
<1>6. PICK es, c : es = <<v, w>> /\ c = P!InsertChanges(a.db, p, "personnel-service", es)  OBVIOUS
<1>7. r.db = db \/ (r.db = c.db /\ u.error = "none" /\ c.error = "none")
  BY <1>1, <1>2, <1>3, <1>4, <1>5, <1>6 DEF P!CreatePerson, P!Transaction, P!Then, P!Fails
<1>8. SUFFICES ASSUME u.error = "none", c.error = "none" PROVE StaffTablesOK(c.db)
  BY <1>7
<1>9. PICK new : new = Append(db.persons, row)  OBVIOUS
<1>10. /\ AnySeq(new) /\ Len(db.persons) \in Nat /\ DOMAIN db.persons = 1..Len(db.persons)
       /\ DOMAIN new = 1..p /\ new[p] = row /\ \A k \in 1..Len(db.persons) : new[k] = db.persons[k]
  BY <1>1, <1>9, Appended DEF StaffTablesOK, IsTables
<1>11. u.db = [db EXCEPT !.persons = new]
  BY <1>4, <1>8, <1>9 DEF P!InsertPerson, P!Fails, P!Goes
<1>12. /\ u.db.persons = new /\ u.db.assignments = db.assignments /\ u.db.log = db.log
       /\ DOMAIN u.db = DOMAIN db
  BY <1>11 DEF StaffTablesOK, IsTables
<1>13. IsTables(u.db)  BY <1>10, <1>12 DEF StaffTablesOK, IsTables
<1>14. Alike(u.db, a.db)  BY <1>5, <1>13, AssignmentInserted
<1>15. IsTables(a.db) /\ a.db.persons = new /\ a.db.log = db.log  BY <1>12, <1>14 DEF Alike
<1>16. AnySeq(es) /\ DOMAIN es = {1, 2} /\ es[1] = v /\ es[2] = w  BY <1>6, Two
<1>17. PICK added : /\ AnySeq(added) /\ DOMAIN added = {1, 2}
                    /\ added[1] = P!Logged(p, v) /\ added[2] = P!Logged(p, w)
                    /\ IsTables(c.db) /\ c.db.persons = new /\ c.db.log = db.log \o added
  <2>1. PICK d : d = a.db  OBVIOUS
  <2>2. AnySeq(es) /\ IsTables(d) /\ c = P!InsertChanges(d, p, "personnel-service", es) /\ c.error = "none"
    BY <1>6, <1>8, <1>15, <1>16, <2>1
  <2>3. PICK added : /\ AnySeq(added) /\ DOMAIN added = DOMAIN es
                     /\ \A i \in DOMAIN es : added[i] = P!Logged(p, es[i])
                     /\ IsTables(c.db) /\ c.db.persons = d.persons /\ c.db.log = d.log \o added
    BY <2>2, EntriesLogged DEF Wrote
  <2> QED BY <1>15, <1>16, <2>1, <2>3
<1>18. /\ added[1].person = p /\ added[1].action = "create" /\ added[1].field = "person"
       /\ added[1].new = "active"
       /\ added[2].person = p /\ added[2].action = "assignment_change"
  BY <1>3, <1>17 DEF P!Logged, P!Change
<1>19. p \notin DOMAIN db.persons  BY <1>1, <1>10
<1>20. AnySeq(db.log)  BY DEF StaffTablesOK, IsTables
<1>21. IsPersonRow(row) /\ row.status = "active"  BY <1>1 DEF P!NewPerson, IsPersonRow, P!FieldNames
<1>22. P!Told(c.db.log, p, {"create", "status_change"}, {"person", "status"}, "active")
  <2>1. P!Told(db.log, p, {"create", "status_change"}, {"person", "status"}, added[1].old)
    BY <1>19, NoStoryYet DEF Telling
  <2>2. P!About(added[1], p, {"create", "status_change"}, {"person", "status"})  BY <1>18 DEF P!About
  <2>3. \A j \in DOMAIN added : P!About(added[j], p, {"create", "status_change"}, {"person", "status"}) => j = 1
    BY <1>17, <1>18 DEF P!About
  <2> QED BY <1>17, <1>18, <1>20, <2>1, <2>2, <2>3, ToldOn
<1>23. ASSUME NEW f \in P!FieldNames PROVE P!Told(c.db.log, p, {"update"}, {f}, row.fields[f])
  <2>1. P!Told(db.log, p, {"update"}, {f}, row.fields[f])  BY <1>19, NoStoryYet DEF Telling
  <2>2. \A j \in DOMAIN added : ~P!About(added[j], p, {"update"}, {f})  BY <1>17, <1>18 DEF P!About
  <2> QED BY <1>17, <1>20, <2>1, <2>2, ToldStill
<1>24. \A q \in P!Persons(c.db) : q # p => q \in P!Persons(db) /\ c.db.persons[q] = db.persons[q]
  BY <1>1, <1>10, <1>17 DEF P!Persons
<1>25. DOMAIN db.persons \subseteq DOMAIN c.db.persons /\ p \in DOMAIN c.db.persons
  BY <1>1, <1>10, <1>17
<1>26. \A i \in DOMAIN added : added[i].person = p  BY <1>17, <1>18
<1>27. c.db.persons[p] = row  BY <1>10, <1>17
<1>28. /\ IsPersonRow(c.db.persons[p])
       /\ P!Told(c.db.log, p, {"create", "status_change"}, {"person", "status"}, c.db.persons[p].status)
       /\ \A f \in P!FieldNames : P!Told(c.db.log, p, {"update"}, {f}, c.db.persons[p].fields[f])
  BY <1>21, <1>22, <1>23, <1>27
<1>29. AnySeq(added) /\ IsTables(c.db) /\ c.db.log = db.log \o added  BY <1>17
<1>30. \A i \in DOMAIN added : added[i].action \in Telling => added[i].person = p  BY <1>26
<1> QED
  <2>1. PICK x : x = c.db  OBVIOUS
  <2>2. \A q \in P!Persons(x) : q # p => q \in P!Persons(db) /\ x.persons[q] = db.persons[q]
    BY <1>24, <2>1
  <2>3. DOMAIN db.persons \subseteq DOMAIN x.persons /\ p \in DOMAIN x.persons  BY <1>25, <2>1
  <2>4. /\ IsPersonRow(x.persons[p])
        /\ P!Told(x.log, p, {"create", "status_change"}, {"person", "status"}, x.persons[p].status)
        /\ \A f \in P!FieldNames : P!Told(x.log, p, {"update"}, {f}, x.persons[p].fields[f])
    BY <1>28, <2>1
  <2>5. AnySeq(added) /\ IsTables(x) /\ x.log = db.log \o added  BY <1>29, <2>1
  <2>6. StaffTablesOK(x)  BY <1>30, <2>2, <2>3, <2>4, <2>5, OneMoves
  <2> QED BY <2>1, <2>6


\* A person's row is written anew.
Rewritten(d, x, p, row) == x.persons = [d.persons EXCEPT ![p] = row]

\* A row that is written is the row that is read (updatePerson).
LEMMA PersonUpdated ==
  ASSUME NEW d, IsTables(d), NEW p, NEW row, NEW r, r = P!UpdatePerson(d, p, row), r.error = "none"
  PROVE  IsTables(r.db) /\ r.db.log = d.log /\ Rewritten(d, r.db, p, row)
<1>1. PICK new, x : new = [d.persons EXCEPT ![p] = row] /\ x = [d EXCEPT !.persons = new]  OBVIOUS
<1>2. AnySeq(new) /\ DOMAIN new = DOMAIN d.persons  BY <1>1, Replaced DEF IsTables
<1>3. r.db = x  BY <1>1 DEF P!UpdatePerson, P!Goes, P!Fails
<1>4. x.persons = new /\ x.assignments = d.assignments /\ x.log = d.log /\ DOMAIN x = DOMAIN d
  BY <1>1 DEF IsTables
<1>5. IsTables(x)  BY <1>2, <1>4 DEF IsTables
<1> QED BY <1>1, <1>3, <1>4, <1>5 DEF Rewritten

\* Of a person that stays in the table: the entries turn the stored values into
\* the new ones.
LEMMA RowMoves ==
  ASSUME NEW d, StaffTablesOK(d), NEW p \in P!Persons(d), NEW row, IsPersonRow(row),
         NEW x, IsTables(x), Rewritten(d, x, p, row),
         NEW added, AnySeq(added), x.log = d.log \o added,
         \A i \in DOMAIN added : added[i].person = p,
         P!Told(x.log, p, {"create", "status_change"}, {"person", "status"}, row.status),
         \A f \in P!FieldNames : P!Told(x.log, p, {"update"}, {f}, row.fields[f])
  PROVE  StaffTablesOK(x)
<1>1. p \in DOMAIN d.persons  BY DEF P!Persons
<1>2. /\ DOMAIN x.persons = DOMAIN d.persons /\ x.persons[p] = row
      /\ \A q \in DOMAIN d.persons : q # p => x.persons[q] = d.persons[q]
  <2>1. AnySeq(d.persons)  BY DEF StaffTablesOK, IsTables
  <2>2. PICK S : d.persons \in Seq(S)  BY <2>1 DEF AnySeq
  <2>3. PICK n, old, new : /\ n = Len(d.persons) /\ old = d.persons
                           /\ new = [old EXCEPT ![p] = row] /\ x.persons = new
    BY DEF Rewritten
  <2>4. old = [k \in 1..n |-> old[k]] /\ p \in 1..n  BY <1>1, <2>2, <2>3
  <2>5. DOMAIN new = 1..n /\ new[p] = row /\ \A q \in 1..n : q # p => new[q] = old[q]
    BY <2>3, <2>4
  <2> QED BY <2>3, <2>4, <2>5
<1>3. \A q \in P!Persons(x) : q # p => q \in P!Persons(d) /\ x.persons[q] = d.persons[q]
  BY <1>2 DEF P!Persons
<1>4. /\ IsPersonRow(x.persons[p])
      /\ P!Told(x.log, p, {"create", "status_change"}, {"person", "status"}, x.persons[p].status)
      /\ \A f \in P!FieldNames : P!Told(x.log, p, {"update"}, {f}, x.persons[p].fields[f])
  BY <1>2
<1>5. DOMAIN d.persons \subseteq DOMAIN x.persons /\ p \in DOMAIN x.persons  BY <1>1, <1>2
<1>6. \A i \in DOMAIN added : added[i].action \in Telling => added[i].person = p  OBVIOUS
<1> QED BY <1>3, <1>4, <1>5, <1>6, OneMoves

\* Every field that a change touches is told once, from the old value to the
\* new one (updatePerson, recordChanges).
LEMMA ChangeKeeps ==
  ASSUME StaffTablesOK(db), NEW p, NEW body, NEW r, r = P!ChangePerson(p, body)
  PROVE  StaffTablesOK(r.db)
<1>1. PICK old, row : /\ old = db.persons[p]
                      /\ row = [old EXCEPT !.fields = P!NextFields(@, body)]
  OBVIOUS
<1>2. PICK u : u = P!UpdatePerson(db, p, row)  OBVIOUS
<1>3. PICK es, c : /\ es = P!FieldChanges(old.fields, row.fields)
                   /\ c = P!InsertChanges(u.db, p, "personnel-service", es)
  OBVIOUS
<1>4. \/ r.db = db
      \/ r.db = c.db /\ u.error = "none" /\ c.error = "none" /\ p \in P!Persons(db)
  BY <1>1, <1>2, <1>3 DEF P!ChangePerson, P!Transaction, P!Then, P!Fails
<1>5. SUFFICES ASSUME u.error = "none", c.error = "none", p \in P!Persons(db) PROVE StaffTablesOK(c.db)
  BY <1>4
<1>6. IsPersonRow(old)  BY <1>1, <1>5 DEF StaffTablesOK
<1>7. row.fields = P!NextFields(old.fields, body) /\ row.status = old.status /\ DOMAIN row = DOMAIN old
  BY <1>1, <1>6 DEF IsPersonRow
<1>8. IsPersonRow(row)  BY <1>6, <1>7 DEF IsPersonRow, P!NextFields
<1>9. IsTables(u.db) /\ u.db.log = db.log /\ Rewritten(db, u.db, p, row)
  <2>1. IsTables(db)  BY DEF StaffTablesOK
  <2>2. u.error = "none"  BY <1>5
  <2> QED BY <1>2, <2>1, <2>2, PersonUpdated
<1>10. /\ AnySeq(es)
       /\ \A i \in DOMAIN es : /\ es[i].action = "update" /\ es[i].field \in P!FieldNames
                               /\ es[i].old = old.fields[es[i].field] /\ es[i].new = row.fields[es[i].field]
       /\ \A f \in P!FieldNames : old.fields[f] # row.fields[f] => \E i \in DOMAIN es : es[i].field = f
       /\ \A i, j \in DOMAIN es : es[i].field = es[j].field => i = j
  BY <1>3, FieldEntries
<1>11. PICK added : /\ AnySeq(added) /\ DOMAIN added = DOMAIN es
                    /\ \A i \in DOMAIN es : added[i] = P!Logged(p, es[i])
                    /\ IsTables(c.db) /\ c.db.persons = u.db.persons /\ c.db.log = u.db.log \o added
  <2>1. PICK d : d = u.db  OBVIOUS
  <2>2. AnySeq(es) /\ IsTables(d) /\ c = P!InsertChanges(d, p, "personnel-service", es) /\ c.error = "none"
    BY <1>3, <1>5, <1>9, <1>10, <2>1
  <2>3. PICK added : /\ AnySeq(added) /\ DOMAIN added = DOMAIN es
                     /\ \A i \in DOMAIN es : added[i] = P!Logged(p, es[i])
                     /\ IsTables(c.db) /\ c.db.persons = d.persons /\ c.db.log = d.log \o added
    BY <2>2, EntriesLogged DEF Wrote
  <2> QED BY <2>1, <2>3
<1>12. \A i \in DOMAIN added : /\ added[i].person = p /\ added[i].action = "update"
                               /\ added[i].field = es[i].field
                               /\ added[i].old = es[i].old /\ added[i].new = es[i].new
  BY <1>10, <1>11 DEF P!Logged
<1>13. AnySeq(db.log) /\ c.db.log = db.log \o added  BY <1>9, <1>11 DEF StaffTablesOK, IsTables
<1>14. P!Told(c.db.log, p, {"create", "status_change"}, {"person", "status"}, row.status)
  <2>1. \A i \in DOMAIN added : ~P!About(added[i], p, {"create", "status_change"}, {"person", "status"})
    BY <1>12 DEF P!About
  <2>2. P!Told(db.log, p, {"create", "status_change"}, {"person", "status"}, row.status)
    BY <1>1, <1>5, <1>7 DEF StaffTablesOK, P!Chains
  <2> QED BY <1>11, <1>13, <2>1, <2>2, ToldStill
<1>15. ASSUME NEW f \in P!FieldNames PROVE P!Told(c.db.log, p, {"update"}, {f}, row.fields[f])
  <2>1. P!Told(db.log, p, {"update"}, {f}, old.fields[f])  BY <1>1, <1>5 DEF StaffTablesOK, P!Chains
  <2>2. CASE \E i \in DOMAIN es : es[i].field = f
    <3>1. PICK i \in DOMAIN added : es[i].field = f  BY <1>11, <2>2
    <3>2. P!About(added[i], p, {"update"}, {f})  BY <1>12, <3>1 DEF P!About
    <3>3. added[i].old = old.fields[f] /\ added[i].new = row.fields[f]  BY <1>10, <1>11, <1>12, <3>1
    <3>4. \A j \in DOMAIN added : P!About(added[j], p, {"update"}, {f}) => j = i
      BY <1>10, <1>11, <1>12, <3>1 DEF P!About
    <3>5. P!Told(db.log, p, {"update"}, {f}, added[i].old)  BY <2>1, <3>3
    <3>6. AnySeq(added)  BY <1>11
    <3> QED BY <1>13, <3>2, <3>3, <3>4, <3>5, <3>6, ToldOn
  <2>3. CASE ~\E i \in DOMAIN es : es[i].field = f
    <3>1. old.fields[f] = row.fields[f]  BY <1>10, <2>3
    <3>2. \A j \in DOMAIN added : ~P!About(added[j], p, {"update"}, {f})  BY <1>11, <1>12, <2>3 DEF P!About
    <3> QED BY <1>11, <1>13, <2>1, <3>1, <3>2, ToldStill
  <2> QED BY <2>2, <2>3
<1>16. IsTables(c.db) /\ AnySeq(added) /\ Rewritten(db, c.db, p, row)  BY <1>9, <1>11 DEF Rewritten
<1>17. c.db.log = db.log \o added /\ \A i \in DOMAIN added : added[i].person = p  BY <1>12, <1>13
<1>18. p \in P!Persons(db)  BY <1>5
<1> QED BY <1>8, <1>14, <1>15, <1>16, <1>17, <1>18, RowMoves


\* A change of status goes on from the stored status (transitionPersonStatus).
LEMMA StatusKeeps ==
  ASSUME StaffTablesOK(db), NEW p, NEW to, NEW day, NEW reason, NEW operator,
         NEW r, r = P!ChangeStatus(p, to, day, reason, operator)
  PROVE  StaffTablesOK(r.db)
<1>1. PICK old, row : /\ old = db.persons[p]
                      /\ row = [old EXCEPT !.status = to, !.reason = IF to = "inactive" THEN reason ELSE P!Null]
  OBVIOUS
<1>2. PICK u : u = P!UpdatePerson(db, p, row)  OBVIOUS
<1>3. PICK w : w = IF to = "inactive" THEN P!Deactivated(u.db, p, day) ELSE P!Goes(u.db)  OBVIOUS
<1>4. PICK es, c : /\ es = P!StatusChanges(old, to, reason)
                   /\ c = P!InsertChanges(w.db, p, operator, es)
  OBVIOUS
<1>5. \/ r.db = db
      \/ r.db = c.db /\ u.error = "none" /\ c.error = "none" /\ p \in P!Persons(db)
  BY <1>1, <1>2, <1>3, <1>4 DEF P!ChangeStatus, P!Transaction, P!Then, P!Fails
<1>6. SUFFICES ASSUME u.error = "none", c.error = "none", p \in P!Persons(db) PROVE StaffTablesOK(c.db)
  BY <1>5
<1>7. IsPersonRow(old)  BY <1>1, <1>6 DEF StaffTablesOK
<1>8. row.fields = old.fields /\ row.status = to /\ DOMAIN row = DOMAIN old
  BY <1>1, <1>7 DEF IsPersonRow
<1>9. IsPersonRow(row)  BY <1>7, <1>8 DEF IsPersonRow
<1>10. IsTables(u.db) /\ u.db.log = db.log /\ Rewritten(db, u.db, p, row)
  <2>1. IsTables(db)  BY DEF StaffTablesOK
  <2>2. u.error = "none"  BY <1>6
  <2> QED BY <1>2, <2>1, <2>2, PersonUpdated
<1>11. Alike(u.db, w.db)
  <2>1. CASE w = P!Deactivated(u.db, p, day)
    <3>1. PICK d : d = u.db  OBVIOUS
    <3>2. IsTables(d) /\ w = P!Deactivated(d, p, day)  BY <1>10, <2>1, <3>1
    <3>3. Alike(d, w.db)  BY <3>2, DayClosed
    <3> QED BY <3>1, <3>3
  <2>2. CASE w = P!Goes(u.db)  BY <1>10, <2>2 DEF P!Goes, Alike
  <2> QED BY <1>3, <2>1, <2>2
<1>12. IsTables(w.db) /\ w.db.log = db.log /\ Rewritten(db, w.db, p, row)
  BY <1>10, <1>11 DEF Alike, Rewritten
<1>13. PICK v, y : /\ v = P!Change("status_change", "status", old.status, to)
                   /\ y = P!Change("status_change", "reason", old.reason, reason)
  OBVIOUS
<1>14. es = <<v>> \/ es = <<v, y>>  BY <1>4, <1>13, StatusTold
<1>15. /\ AnySeq(es) /\ 1 \in DOMAIN es /\ es[1] = v
       /\ \A i \in DOMAIN es : i # 1 => es[i] = y
  <2>1. CASE es = <<v>>  BY <2>1, One
  <2>2. CASE es = <<v, y>>  BY <2>2, Two
  <2> QED BY <1>14, <2>1, <2>2
<1>16. PICK added : /\ AnySeq(added) /\ DOMAIN added = DOMAIN es
                    /\ \A i \in DOMAIN es : added[i] = P!Logged(p, es[i])
                    /\ IsTables(c.db) /\ c.db.persons = w.db.persons /\ c.db.log = w.db.log \o added
  <2>1. PICK d : d = w.db  OBVIOUS
  <2>2. AnySeq(es) /\ IsTables(d) /\ c = P!InsertChanges(d, p, operator, es) /\ c.error = "none"
    BY <1>4, <1>6, <1>12, <1>15, <2>1
  <2>3. Wrote(d, p, es, c.db)  BY <2>2, EntriesLogged
  <2> QED BY <2>1, <2>3 DEF Wrote
<1>17. /\ 1 \in DOMAIN added /\ added[1].old = old.status /\ added[1].new = to /\ added[1].field = "status"
       /\ \A i \in DOMAIN added : /\ added[i].person = p /\ added[i].action = "status_change"
                                  /\ i # 1 => added[i].field = "reason"
  BY <1>13, <1>15, <1>16 DEF P!Logged, P!Change
<1>18. AnySeq(db.log) /\ c.db.log = db.log \o added  BY <1>12, <1>16 DEF StaffTablesOK, IsTables
<1>19. P!Told(c.db.log, p, {"create", "status_change"}, {"person", "status"}, row.status)
  <2>1. P!Told(db.log, p, {"create", "status_change"}, {"person", "status"}, added[1].old)
    BY <1>1, <1>6, <1>17 DEF StaffTablesOK, P!Chains
  <2>2. P!About(added[1], p, {"create", "status_change"}, {"person", "status"})  BY <1>17 DEF P!About
  <2>3. \A j \in DOMAIN added : P!About(added[j], p, {"create", "status_change"}, {"person", "status"}) => j = 1
    BY <1>17 DEF P!About
  <2>4. added[1].new = row.status /\ 1 \in DOMAIN added /\ AnySeq(added)  BY <1>8, <1>16, <1>17
  <2> QED BY <1>18, <2>1, <2>2, <2>3, <2>4, ToldOn
<1>20. ASSUME NEW f \in P!FieldNames PROVE P!Told(c.db.log, p, {"update"}, {f}, row.fields[f])
  <2>1. P!Told(db.log, p, {"update"}, {f}, row.fields[f])  BY <1>1, <1>6, <1>8 DEF StaffTablesOK, P!Chains
  <2>2. \A j \in DOMAIN added : ~P!About(added[j], p, {"update"}, {f})  BY <1>17 DEF P!About
  <2> QED BY <1>16, <1>18, <2>1, <2>2, ToldStill
<1>21. IsTables(c.db) /\ AnySeq(added) /\ Rewritten(db, c.db, p, row)  BY <1>12, <1>16 DEF Rewritten
<1>22. c.db.log = db.log \o added /\ \A i \in DOMAIN added : added[i].person = p  BY <1>17, <1>18
<1>23. p \in P!Persons(db)  BY <1>6
<1> QED BY <1>9, <1>19, <1>20, <1>21, <1>22, <1>23, RowMoves

\* A set of numbers that is not empty has a least one.
LEMMA LeastNumber == ASSUME NEW T \in SUBSET Nat, T # {} PROVE \E n \in T : \A m \in T : n <= m
<1>1. \E x \in T : \A y \in T : ~ (<<y, x>> \in OpToRel(<, Nat))
  BY NatLessThanWellFounded, WFMin
<1>2. PICK x \in T : \A y \in T : ~ (<<y, x>> \in OpToRel(<, Nat))  BY <1>1
<1>3. \A y \in T : ~(y < x)  BY <1>2 DEF OpToRel
<1> QED BY <1>3

AppliedUpTo(due, n, f) ==
  f = [k \in 0..n |-> IF k = 0 THEN P!Goes(db) ELSE P!ThenApply(f[k - 1], due[k])]

\* What is due is applied one after the other.
LEMMA AppliedFollows ==
  ASSUME NEW due, NEW n \in Nat, NEW results, results = P!Applied(due, n)
  PROVE  /\ results[0] = P!Goes(db)
         /\ \A k \in 1..n : results[k] = P!ThenApply(results[k - 1], due[k])
<1> DEFINE Lacking == {m \in Nat : ~ \E f : AppliedUpTo(due, m, f)}
<1>1. Lacking = {}
  <2> SUFFICES ASSUME Lacking # {} PROVE FALSE  OBVIOUS
  <2>1. PICK m \in Lacking : \A k \in Lacking : m <= k  BY LeastNumber
  <2>2. m \in Nat /\ ~ \E f : AppliedUpTo(due, m, f)  BY <2>1
  <2>3. CASE m = 0
    <3>1. PICK f : f = [k \in 0..0 |-> P!Goes(db)]  OBVIOUS
    <3>2. f = [k \in 0..0 |-> IF k = 0 THEN P!Goes(db) ELSE P!ThenApply(f[k - 1], due[k])]  BY <3>1
    <3> QED BY <2>2, <2>3, <3>2 DEF AppliedUpTo
  <2>4. CASE m # 0
    <3>1. m - 1 \in Nat /\ m - 1 \notin Lacking
      <4>1. m - 1 \in Nat /\ ~(m <= m - 1)  BY <2>2, <2>4
      <4> QED BY <2>1, <4>1
    <3>2. PICK f : AppliedUpTo(due, m - 1, f)  BY <3>1
    <3>3. PICK g : g = [k \in 0..m |-> IF k = 0 THEN P!Goes(db) ELSE P!ThenApply(f[k - 1], due[k])]  OBVIOUS
    <3>4. \A k \in 0..(m - 1) : f[k] = g[k]
      <4>1. \A k \in 0..(m - 1) : f[k] = IF k = 0 THEN P!Goes(db) ELSE P!ThenApply(f[k - 1], due[k])
        BY <3>2 DEF AppliedUpTo
      <4>2. \A k \in 0..(m - 1) : k \in 0..m  BY <2>2
      <4> QED BY <3>3, <4>1, <4>2
    <3>5. \A k \in 0..m : k # 0 => k - 1 \in 0..(m - 1)  BY <2>2
    <3>6. g = [k \in 0..m |-> IF k = 0 THEN P!Goes(db) ELSE P!ThenApply(g[k - 1], due[k])]
      BY <3>3, <3>4, <3>5
    <3> QED BY <2>2, <3>6 DEF AppliedUpTo
  <2> QED BY <2>3, <2>4
<1>2. \E f : AppliedUpTo(due, n, f)  BY <1>1
<1>3. results = CHOOSE f : f = [k \in 0..n |-> IF k = 0 THEN P!Goes(db) ELSE P!ThenApply(f[k - 1], due[k])]
  BY Zenon DEF P!Applied
<1>4. results = [k \in 0..n |-> IF k = 0 THEN P!Goes(db) ELSE P!ThenApply(results[k - 1], due[k])]
  BY <1>2, <1>3, Zenon DEF AppliedUpTo
<1>5. 0 \in 0..n /\ \A k \in 1..n : k \in 0..n /\ k # 0  OBVIOUS
<1> QED BY <1>4, <1>5

\* All that is due, up to any number of them, keeps the stories.
LEMMA DueKeeps ==
  ASSUME StaffTablesOK(db), NEW due, NEW n \in Nat, NEW r, r = P!Transaction(db, P!Applied(due, n)[n])
  PROVE  StaffTablesOK(r.db)
<1>1. PICK results : results = P!Applied(due, n)  OBVIOUS
<1>2. /\ results[0] = P!Goes(db)
      /\ \A k \in 1..n : results[k] = P!ThenApply(results[k - 1], due[k])
  BY <1>1, AppliedFollows
<1>3. \A k \in 0..n : StaffTablesOK(results[k].db)
  <2> DEFINE Broken == {k \in 0..n : ~StaffTablesOK(results[k].db)}
  <2> SUFFICES ASSUME Broken # {} PROVE FALSE  OBVIOUS
  <2>1. PICK k \in Broken : \A m \in Broken : k <= m
    <3>1. Broken \in SUBSET Nat  OBVIOUS
    <3> QED BY <3>1, LeastNumber
  <2>2. CASE k = 0
    <3>1. StaffTablesOK(results[0].db)  BY <1>2 DEF P!Goes
    <3> QED BY <2>1, <2>2, <3>1
  <2>3. CASE k # 0
    <3>1. k \in 1..n /\ k - 1 \in 0..n /\ ~(k <= k - 1)  BY <2>1, <2>3
    <3>2. k - 1 \notin Broken  BY <2>1, <3>1
    <3>3. PICK d, i, x : d = results[k - 1] /\ i = due[k] /\ x = results[k]  OBVIOUS
    <3>4. StaffTablesOK(d.db) /\ x = P!ThenApply(d, i)  BY <1>2, <3>1, <3>2, <3>3
    <3>5. x = d \/ x = P!Apply(d.db, i)  BY <3>4 DEF P!ThenApply, P!Then
    <3>6. StaffTablesOK(x.db)
      <4>1. PICK t : t = d.db  OBVIOUS
      <4>2. CASE x = d  BY <3>4, <4>2
      <4>3. CASE x = P!Apply(d.db, i)
        <5>1. StaffTablesOK(t) /\ x = P!Apply(t, i)  BY <3>4, <4>1, <4>3
        <5> QED BY <5>1, ApplyKeeps
      <4> QED BY <3>5, <4>2, <4>3
    <3> QED BY <2>1, <3>3, <3>6
  <2> QED BY <2>2, <2>3
<1>4. n \in 0..n  OBVIOUS
<1>5. r = results[n] \/ r.db = db  BY <1>1 DEF P!Transaction, P!Fails
<1> QED BY <1>3, <1>4, <1>5


\* A request changes the tables to what one of its outcomes leaves, if at all
\* (handlePersonnelRequest).
LEMMA HandleKeeps ==
  ASSUME NEW resource, NEW ok, NEW results, StaffTablesOK(db),
         \A operator \in P!Operators : StaffTablesOK(results[operator].db),
         P!Handle(resource, ok, results)
  PROVE  StaffTablesOK(db')
<1>1. \/ db' = db \/ \E operator \in P!Operators : db' = results[operator].db
  BY Zenon DEF P!Handle
<1> QED BY <1>1

\* There are finitely many assignments that are due.
LEMMA DueInSequence ==
  ASSUME IsTables(db)
  PROVE  P!Cardinality(P!Due) \in Nat
<1>1. PICK S : db.assignments \in Seq(S)  BY DEF IsTables, AnySeq
<1>2. IsFiniteSet(DOMAIN db.assignments)
  <2>1. Len(db.assignments) \in Nat /\ DOMAIN db.assignments = 1..Len(db.assignments)  BY <1>1, LenProperties
  <2> QED BY <2>1, FS_Interval
<1>3. P!Due \subseteq DOMAIN db.assignments  BY DEF P!Due
<1>4. IsFiniteSet(P!Due)  BY <1>2, <1>3, FS_Subset
<1>5. Cardinality(P!Due) \in Nat  BY <1>4, FS_CardinalityType
<1> QED BY <1>5, SameNumber

\* Every route, and the day that passes.
LEMMA PersonnelKeeps ==
  ASSUME StaffTablesOK(db), P!Next
  PROVE  StaffTablesOK(db')
<1>1. CASE P!PostPerson
  <2>1. PICK body \in StaffBodies :
          P!Handle("collection", 201, [operator \in P!Operators |-> P!CreatePerson(body)])
    BY <1>1, Zenon DEF P!PostPerson
  <2>2. StaffTablesOK(P!CreatePerson(body).db)  BY PersonCreateKeeps
  <2>3. PICK results : results = [operator \in P!Operators |-> P!CreatePerson(body)]  OBVIOUS
  <2>4. \A operator \in P!Operators : StaffTablesOK(results[operator].db)  BY <2>2, <2>3
  <2>5. P!Handle("collection", 201, results)  BY <2>1, <2>3
  <2> QED BY <2>4, <2>5, HandleKeeps
<1>2. CASE P!PatchPerson
  <2>1. PICK p \in P!Named, body \in StaffUpdates :
          P!Handle("person", 200, [operator \in P!Operators |-> P!ChangePerson(p, body)])
    BY <1>2, Zenon DEF P!PatchPerson
  <2>2. StaffTablesOK(P!ChangePerson(p, body).db)  BY ChangeKeeps
  <2>3. PICK results : results = [operator \in P!Operators |-> P!ChangePerson(p, body)]  OBVIOUS
  <2>4. \A operator \in P!Operators : StaffTablesOK(results[operator].db)  BY <2>2, <2>3
  <2>5. P!Handle("person", 200, results)  BY <2>1, <2>3
  <2> QED BY <2>4, <2>5, HandleKeeps
<1>3. CASE P!PostTransition
  <2>1. PICK p \in P!Named, to \in {"draft", "active", "inactive"}, at1 \in P!Days,
             reason \in {P!Null, "left"} :
          P!Handle("person", 200, [operator \in P!Operators |-> P!ChangeStatus(p, to, at1, reason, operator)])
    BY <1>3, Zenon DEF P!PostTransition
  <2>2. \A operator \in P!Operators : StaffTablesOK(P!ChangeStatus(p, to, at1, reason, operator).db)
    BY StatusKeeps
  <2>3. PICK results : results = [operator \in P!Operators |-> P!ChangeStatus(p, to, at1, reason, operator)]
    OBVIOUS
  <2>4. \A operator \in P!Operators : StaffTablesOK(results[operator].db)  BY <2>2, <2>3
  <2>5. P!Handle("person", 200, results)  BY <2>1, <2>3
  <2> QED BY <2>4, <2>5, HandleKeeps
<1>4. CASE P!PostAssignment
  <2>1. PICK p \in P!Named, manager \in Managers \cup {P!Unknown}, from \in P!Days,
             to \in P!Days \cup {P!NoDate} :
          P!Handle("person", 201, [operator \in P!Operators |-> P!Assign(p, manager, from, to, operator)])
    BY <1>4, Zenon DEF P!PostAssignment
  <2>2. \A operator \in P!Operators : StaffTablesOK(P!Assign(p, manager, from, to, operator).db)
    BY AssignKeeps
  <2>3. PICK results : results = [operator \in P!Operators |-> P!Assign(p, manager, from, to, operator)]
    OBVIOUS
  <2>4. \A operator \in P!Operators : StaffTablesOK(results[operator].db)  BY <2>2, <2>3
  <2>5. P!Handle("person", 201, results)  BY <2>1, <2>3
  <2> QED BY <2>4, <2>5, HandleKeeps
<1>5. CASE P!PostRetract
  <2>1. PICK p \in P!Named, i \in DOMAIN db.assignments \cup {P!Unknown} :
          P!Handle("person", 200, [operator \in P!Operators |-> P!Retract(p, i, operator)])
    BY <1>5, Zenon DEF P!PostRetract
  <2>2. \A operator \in P!Operators : StaffTablesOK(P!Retract(p, i, operator).db)  BY RetractKeeps
  <2>3. PICK results : results = [operator \in P!Operators |-> P!Retract(p, i, operator)]  OBVIOUS
  <2>4. \A operator \in P!Operators : StaffTablesOK(results[operator].db)  BY <2>2, <2>3
  <2>5. P!Handle("person", 200, results)  BY <2>1, <2>3
  <2> QED BY <2>4, <2>5, HandleKeeps
<1>6. CASE P!DeleteRequest
  <2>1. PICK p \in P!Named, authorized, referenced \in BOOLEAN :
          P!Handle("person", 204, [operator \in P!Operators |-> P!Removal(p, authorized, referenced, operator)])
    BY <1>6, Zenon DEF P!DeleteRequest
  <2>2. \A operator \in P!Operators : StaffTablesOK(P!Removal(p, authorized, referenced, operator).db)
    BY RemovalKeeps
  <2>3. PICK results : results = [operator \in P!Operators |-> P!Removal(p, authorized, referenced, operator)]
    OBVIOUS
  <2>4. \A operator \in P!Operators : StaffTablesOK(results[operator].db)  BY <2>2, <2>3
  <2>5. P!Handle("person", 204, results)  BY <2>1, <2>3
  <2> QED BY <2>4, <2>5, HandleKeeps
<1>7. CASE P!GetRoster
  <2>1. PICK fine \in BOOLEAN :
          P!Handle("collection", 200, [operator \in P!Operators |-> [db |-> db, error |-> P!PageError(fine)]])
    BY <1>7, Zenon DEF P!GetRoster
  <2>2. PICK results : results = [operator \in P!Operators |-> [db |-> db, error |-> P!PageError(fine)]]
    OBVIOUS
  <2>3. \A operator \in P!Operators : StaffTablesOK(results[operator].db)  BY <2>2
  <2>4. P!Handle("collection", 200, results)  BY <2>1, <2>2
  <2> QED BY <2>3, <2>4, HandleKeeps
<1>8. CASE P!GetPerson
  <2>1. PICK p \in P!Named :
          P!Handle("person", 200, [operator \in P!Operators |->
            IF p \in P!Persons(db) THEN P!Goes(db) ELSE P!Fails(db, "not_found")])
    BY <1>8, Zenon DEF P!GetPerson
  <2>2. PICK results : results = [operator \in P!Operators |->
            IF p \in P!Persons(db) THEN P!Goes(db) ELSE P!Fails(db, "not_found")]
    OBVIOUS
  <2>3. P!Goes(db).db = db /\ P!Fails(db, "not_found").db = db  BY DEF P!Goes, P!Fails
  <2>4. \A operator \in P!Operators : results[operator] \in {P!Goes(db), P!Fails(db, "not_found")}
    BY <2>2
  <2>5. \A operator \in P!Operators : StaffTablesOK(results[operator].db)  BY <2>3, <2>4
  <2>6. P!Handle("person", 200, results)  BY <2>1, <2>2
  <2> QED BY <2>5, <2>6, HandleKeeps
<1>9. CASE P!GetHistory
  <2>1. PICK p \in P!Named, fine \in BOOLEAN :
          P!Handle("person", 200, [operator \in P!Operators |->
            IF p \in P!Persons(db) THEN [db |-> db, error |-> P!PageError(fine)]
            ELSE P!Fails(db, "not_found")])
    BY <1>9, Zenon DEF P!GetHistory
  <2>2. PICK results : results = [operator \in P!Operators |->
            IF p \in P!Persons(db) THEN [db |-> db, error |-> P!PageError(fine)]
            ELSE P!Fails(db, "not_found")]
    OBVIOUS
  <2>3. [db |-> db, error |-> P!PageError(fine)].db = db /\ P!Fails(db, "not_found").db = db
    BY DEF P!Fails
  <2>4. \A operator \in P!Operators :
          results[operator] \in {[db |-> db, error |-> P!PageError(fine)], P!Fails(db, "not_found")}
    BY <2>2
  <2>5. \A operator \in P!Operators : StaffTablesOK(results[operator].db)  BY <2>3, <2>4
  <2>6. P!Handle("person", 200, results)  BY <2>1, <2>2
  <2> QED BY <2>5, <2>6, HandleKeeps
<1>10. CASE P!ApplyDue
  <2>1. PICK n : n = P!Cardinality(P!Due)  OBVIOUS
  <2>2. PICK due : due = P!SetToSortSeq(P!Due, P!DueBefore)  OBVIOUS
  <2>3. PICK r : r = P!Transaction(db, P!Applied(due, n)[n])  OBVIOUS
  <2>4. db' = r.db  BY <1>10, <2>1, <2>2, <2>3, Zenon DEF P!ApplyDue
  <2>5. n \in Nat  BY <2>1, DueInSequence DEF StaffTablesOK
  <2>6. StaffTablesOK(r.db)  BY <2>3, <2>5, DueKeeps
  <2> QED BY <2>4, <2>6
<1>11. CASE P!NextDay
  <2>1. db' = db  BY <1>11, Zenon DEF P!NextDay
  <2> QED BY <2>1
<1> QED BY <1>1, <1>2, <1>3, <1>4, <1>5, <1>6, <1>7, <1>8, <1>9, <1>10, <1>11, Zenon DEF P!Next

StaffInv == service = "personnel" => StaffTablesOK(db)

\* Empty tables tell nothing.
LEMMA EmptyTables == ASSUME NEW d, d = P!Tables(<<>>, <<>>, <<>>) PROVE StaffTablesOK(d)
<1>1. /\ d.persons = <<>> /\ d.assignments = <<>> /\ d.log = <<>>
      /\ DOMAIN d = {"persons", "assignments", "log"}
  BY DEF P!Tables
<1>2. AnySeq(<<>>)
  <2>1. <<>> \in Seq({})  OBVIOUS
  <2> QED BY <2>1 DEF AnySeq
<1>3. IsTables(d)  BY <1>1, <1>2 DEF IsTables
<1>4. DOMAIN d.persons = {} /\ DOMAIN d.log = {}  BY <1>1
<1>5. P!Persons(d) = {}  BY <1>4 DEF P!Persons
<1> QED BY <1>3, <1>4, <1>5 DEF StaffTablesOK, P!Chains

\* The inductive invariant of personnel: the tables are well formed, entries
\* name persons that were created, and the stories lead to what is stored.
LEMMA StaffInvariance == ServicesSpec => []StaffInv
<1>1. ServicesInit => StaffInv
  <2> SUFFICES ASSUME ServicesInit, service = "personnel" PROVE StaffTablesOK(db)  BY DEF StaffInv
  <2>1. P!Init  BY Zenon DEF ServicesInit
  <2>2. db = P!Tables(<<>>, <<>>, <<>>)  BY <2>1, Zenon DEF P!Init
  <2> QED BY <2>2, EmptyTables
<1>2. StaffInv /\ [ServicesNext]_services => StaffInv'
  <2> SUFFICES ASSUME StaffInv, [ServicesNext]_services, service' = "personnel" PROVE StaffTablesOK(db')
    BY DEF StaffInv, StaffTablesOK, IsTables, IsPersonRow
  <2>1. CASE service = "personnel" /\ P!Next /\ UNCHANGED <<service, customers>>
    BY <2>1, PersonnelKeeps DEF StaffInv
  <2>2. CASE UNCHANGED <<service, staff>>
    <3>1. db' = db /\ service' = service  BY <2>2 DEF staff
    <3>2. StaffTablesOK(db)  BY <3>1 DEF StaffInv
    <3> QED BY <3>1, <3>2
  <2>3. CASE UNCHANGED services  BY <2>2, <2>3 DEF services
  <2> QED BY <2>1, <2>2, <2>3, Zenon DEF ServicesNext
<1> QED BY <1>1, <1>2, PTL DEF ServicesSpec

\* The log of a person tells how it became what it is: the entries of the
\* status and of each field lead from one value to the next and to the stored
\* one, for any bodies, days and number of requests (recordChanges, transaction).
THEOREM LogChainsHolds == ServicesSpec => []LogChains
<1>1. StaffInv => LogChains  BY DEF StaffInv, LogChains, StaffTablesOK, P!LogChains
<1> QED BY <1>1, StaffInvariance, PTL
-----------------------------------------------------------------------------
\* Rows refer to persons; everybody has an assignment and a number of their
\* own.
IsAssignmentRow(a) == DOMAIN a = {"person", "manager", "from", "to", "status"} /\ a.from \in Nat
SameEnds(a, b) == IsAssignmentRow(b) /\ b.person = a.person /\ b.manager = a.manager
RefsOK(d) ==
  /\ IsTables(d)
  /\ \A p \in DOMAIN d.persons : /\ IsPersonRow(d.persons[p])
                                 /\ \E i \in DOMAIN d.assignments : d.assignments[i].person = p
  /\ \A p, q \in DOMAIN d.persons : d.persons[p].number = d.persons[q].number => p = q
  /\ \A i \in DOMAIN d.assignments : /\ IsAssignmentRow(d.assignments[i])
                                     /\ d.assignments[i].person \in DOMAIN d.persons
                                     /\ d.assignments[i].manager \in DOMAIN d.persons \cup {0}
\* Nobody and no assignment is new, and numbers and ends are as they were, ...
Still(d, x) ==
  /\ IsTables(x) /\ DOMAIN x.persons = DOMAIN d.persons /\ DOMAIN x.assignments = DOMAIN d.assignments
  /\ \A p \in DOMAIN d.persons : IsPersonRow(x.persons[p]) /\ x.persons[p].number = d.persons[p].number
  /\ \A i \in DOMAIN d.assignments : SameEnds(d.assignments[i], x.assignments[i])

\* Nobody is ever deleted: everybody has an assignment, and whoever has one
\* is referenced by it (deletePerson).
LEMMA EveryoneStays == ASSUME NEW d, RefsOK(d) PROVE P!Persons(d) = DOMAIN d.persons
<1>1. ASSUME NEW row, IsPersonRow(row) PROVE row # P!Deleted
  <2>1. DOMAIN P!Deleted = {"gone"}  BY DEF P!Deleted
  <2> QED BY <1>1, <2>1 DEF IsPersonRow
<1> QED BY <1>1 DEF P!Persons, RefsOK

\* ... which leaves them well formed, ...
LEMMA StillRefs == ASSUME NEW d, NEW x, RefsOK(d), Still(d, x) PROVE RefsOK(x)
<1>1. IsTables(x)  BY DEF Still
<1>2. ASSUME NEW p \in DOMAIN x.persons
      PROVE  IsPersonRow(x.persons[p]) /\ \E i \in DOMAIN x.assignments : x.assignments[i].person = p
  <2>1. p \in DOMAIN d.persons  BY DEF Still
  <2>2. PICK i \in DOMAIN d.assignments : d.assignments[i].person = p  BY <2>1 DEF RefsOK
  <2>3. x.assignments[i].person = p /\ i \in DOMAIN x.assignments  BY <2>2 DEF Still, SameEnds
  <2> QED BY <2>1, <2>3 DEF Still
<1>3. ASSUME NEW p \in DOMAIN x.persons, NEW q \in DOMAIN x.persons, x.persons[p].number = x.persons[q].number
      PROVE  p = q
  <2>1. p \in DOMAIN d.persons /\ q \in DOMAIN d.persons  BY DEF Still
  <2>2. d.persons[p].number = d.persons[q].number  BY <1>3, <2>1 DEF Still
  <2> QED BY <2>1, <2>2 DEF RefsOK
<1>4. ASSUME NEW i \in DOMAIN x.assignments
      PROVE  /\ IsAssignmentRow(x.assignments[i]) /\ x.assignments[i].person \in DOMAIN x.persons
             /\ x.assignments[i].manager \in DOMAIN x.persons \cup {0}
  <2>1. i \in DOMAIN d.assignments /\ DOMAIN x.persons = DOMAIN d.persons  BY DEF Still
  <2>2. SameEnds(d.assignments[i], x.assignments[i])  BY <2>1 DEF Still
  <2> QED BY <2>1, <2>2 DEF RefsOK, SameEnds
<1> QED BY <1>1, <1>2, <1>3, <1>4 DEF RefsOK

\* ... and goes on.
LEMMA StillStill == ASSUME NEW d, NEW x, NEW y, Still(d, x), Still(x, y) PROVE Still(d, y)
<1>1. IsTables(y) /\ DOMAIN y.persons = DOMAIN d.persons /\ DOMAIN y.assignments = DOMAIN d.assignments
  BY DEF Still
<1>2. \A p \in DOMAIN d.persons : IsPersonRow(y.persons[p]) /\ y.persons[p].number = d.persons[p].number
  BY DEF Still
<1>3. \A i \in DOMAIN d.assignments : SameEnds(d.assignments[i], y.assignments[i])
  BY DEF Still, SameEnds
<1> QED BY <1>1, <1>2, <1>3 DEF Still

\* Tables with the same persons and assignments.
LEMMA SamePlaces ==
  ASSUME NEW d, NEW x, RefsOK(d), IsTables(x), x.persons = d.persons, x.assignments = d.assignments
  PROVE  Still(d, x)
BY DEF Still, RefsOK, SameEnds

\* An assignment that is written keeps its ends (updateAssignment).
LEMMA UpdateStill ==
  ASSUME NEW d, RefsOK(d), NEW i, NEW row,
         i \in DOMAIN d.assignments => SameEnds(d.assignments[i], row),
         NEW r, r = P!UpdateAssignment(d, i, row)
  PROVE  Still(d, r.db)
<1>1. PICK new, x : new = [d.assignments EXCEPT ![i] = row] /\ x = [d EXCEPT !.assignments = new]
  OBVIOUS
<1>2. IsTables(d)  BY DEF RefsOK
<1>3. AnySeq(new) /\ DOMAIN new = DOMAIN d.assignments  BY <1>1, <1>2, Replaced DEF IsTables
<1>4. x.assignments = new /\ x.persons = d.persons /\ x.log = d.log /\ DOMAIN x = DOMAIN d
  BY <1>1, <1>2 DEF IsTables
<1>5. IsTables(x)  BY <1>2, <1>3, <1>4 DEF IsTables
<1>6. \A j \in DOMAIN d.assignments : SameEnds(d.assignments[j], new[j])
  <2>1. \A j \in DOMAIN d.assignments : new[j] = IF j = i THEN row ELSE d.assignments[j]  BY <1>1
  <2> QED BY <2>1 DEF SameEnds, RefsOK
<1>7. Still(d, x)  BY <1>3, <1>4, <1>5, <1>6 DEF Still, RefsOK
<1>8. Still(d, d)  BY <1>2, SamePlaces
<1>9. r.db = x \/ r.db = d  BY <1>1 DEF P!UpdateAssignment, P!Goes, P!Fails
<1> QED BY <1>7, <1>8, <1>9

\* The log is neither (insertChangeRecord).
LEMMA LogStill ==
  ASSUME NEW d, RefsOK(d), NEW p, NEW operator, NEW entries, AnySeq(entries),
         NEW r, r = P!InsertChanges(d, p, operator, entries)
  PROVE  Still(d, r.db)
<1>1. IsTables(d)  BY DEF RefsOK
<1>2. /\ r.error = "none" => IsTables(r.db) /\ r.db.persons = d.persons
      /\ r.error # "none" => r.db = d
  BY <1>1, ChangesAppended
<1>3. PICK log, x : log = d.log \o [i \in DOMAIN entries |-> P!Logged(p, entries[i])] /\ x = [d EXCEPT !.log = log]
  OBVIOUS
<1>4. x.assignments = d.assignments  BY <1>1, <1>3 DEF IsTables
<1>5. r.db = x \/ r.db = d  BY <1>3 DEF P!InsertChanges, P!Goes, P!Fails
<1>6. IsTables(r.db) /\ r.db.persons = d.persons /\ r.db.assignments = d.assignments
  BY <1>1, <1>2, <1>4, <1>5
<1> QED BY <1>6, SamePlaces

\* What is closed keeps its ends, too: the current assignment ...
LEMMA CloseStill ==
  ASSUME NEW d, RefsOK(d), NEW p, NEW day, NEW r, r = P!CloseCurrent(d, p, day)
  PROVE  Still(d, r.db)
<1>1. CASE P!Closable(d, p, day) = {}
  <2>1. r.db = d  BY <1>1 DEF P!CloseCurrent, P!Goes
  <2> QED BY <2>1, SamePlaces DEF RefsOK
<1>2. CASE P!Closable(d, p, day) # {}
  <2>1. PICK i, row : /\ r = P!UpdateAssignment(d, i, row)
                      /\ row = [d.assignments[i] EXCEPT !.to = day, !.status = "closed"]
    BY <1>2 DEF P!CloseCurrent
  <2>2. i \in DOMAIN d.assignments => SameEnds(d.assignments[i], row)
    BY <2>1 DEF RefsOK, SameEnds, IsAssignmentRow
  <2> QED BY <2>1, <2>2, UpdateStill
<1> QED BY <1>1, <1>2

\* ... and the one in force on a day.
LEMMA DayStill ==
  ASSUME NEW d, RefsOK(d), NEW p, NEW day, NEW r, r = P!Deactivated(d, p, day)
  PROVE  Still(d, r.db)
<1>1. CASE P!EffectiveAt(d, p, day) = P!None
  <2>1. r.db = d  BY <1>1 DEF P!Deactivated, P!Goes
  <2> QED BY <2>1, SamePlaces DEF RefsOK
<1>2. CASE P!EffectiveAt(d, p, day) # P!None
  <2>1. PICK i, row : /\ r = P!UpdateAssignment(d, i, row)
                      /\ row = [d.assignments[i] EXCEPT !.to = day, !.status = "closed"]
    BY <1>2 DEF P!Deactivated
  <2>2. i \in DOMAIN d.assignments => SameEnds(d.assignments[i], row)
    BY <2>1 DEF RefsOK, SameEnds, IsAssignmentRow
  <2> QED BY <2>1, <2>2, UpdateStill
<1> QED BY <1>1, <1>2

\* A person that is written keeps the number (updatePerson).
LEMMA PersonStill ==
  ASSUME NEW d, RefsOK(d), NEW p, NEW row, IsPersonRow(row),
         p \in DOMAIN d.persons => row.number = d.persons[p].number,
         NEW r, r = P!UpdatePerson(d, p, row)
  PROVE  Still(d, r.db)
<1>1. PICK new, x : new = [d.persons EXCEPT ![p] = row] /\ x = [d EXCEPT !.persons = new]
  OBVIOUS
<1>2. IsTables(d)  BY DEF RefsOK
<1>3. AnySeq(new) /\ DOMAIN new = DOMAIN d.persons  BY <1>1, <1>2, Replaced DEF IsTables
<1>4. x.persons = new /\ x.assignments = d.assignments /\ x.log = d.log /\ DOMAIN x = DOMAIN d
  BY <1>1, <1>2 DEF IsTables
<1>5. IsTables(x)  BY <1>2, <1>3, <1>4 DEF IsTables
<1>6. \A q \in DOMAIN d.persons : new[q] = IF q = p THEN row ELSE d.persons[q]  BY <1>1
<1>7. \A q \in DOMAIN d.persons : IsPersonRow(new[q]) /\ new[q].number = d.persons[q].number
  BY <1>6 DEF RefsOK
<1>8. Still(d, x)  BY <1>3, <1>4, <1>5, <1>7 DEF Still, RefsOK, SameEnds
<1>9. Still(d, d)  BY <1>2, SamePlaces
<1>10. r.db = x \/ r.db = d  BY <1>1 DEF P!UpdatePerson, P!Goes, P!Fails
<1> QED BY <1>8, <1>9, <1>10

\* What NumbersStay, LeadsUp and ChangesNothing say, of two tables.
NumbersKept(d, x) ==
  \A p \in P!Persons(d) : /\ p \in P!Persons(x)
                          /\ x.persons[p].number = d.persons[p].number
                          /\ \A q \in P!Persons(x) \ {p} : x.persons[q].number # d.persons[p].number
Met(above) == {above[k] : k \in DOMAIN above}
LeadsNoLoop(x, a) == a.person \notin Met(P!Above(x, a.manager, a.from))
NewLeads(d, x) == \A i \in DOMAIN x.assignments \ DOMAIN d.assignments : LeadsNoLoop(x, x.assignments[i])
InVain(d, r) ==
  r.error # "none" =>
    /\ r.db.persons = d.persons /\ r.db.assignments = d.assignments
    /\ \A k \in (Len(d.log) + 1)..Len(r.db.log) : r.db.log[k].action = "delete_attempt"
Sound(r) == RefsOK(r.db) /\ NumbersKept(db, r.db) /\ NewLeads(db, r.db) /\ InVain(db, r)

\* Where nobody and no assignment is new, numbers stay and no loop begins.
LEMMA StillSound ==
  ASSUME NEW d, NEW x, RefsOK(d), Still(d, x)
  PROVE  RefsOK(x) /\ NumbersKept(d, x) /\ NewLeads(d, x)
<1>1. RefsOK(x)  BY StillRefs
<1>2. P!Persons(x) = DOMAIN x.persons /\ P!Persons(d) = DOMAIN d.persons  BY <1>1, EveryoneStays
<1>3. NumbersKept(d, x)
  <2> SUFFICES ASSUME NEW p \in DOMAIN d.persons
               PROVE  /\ p \in DOMAIN x.persons /\ x.persons[p].number = d.persons[p].number
                      /\ \A q \in DOMAIN x.persons \ {p} : x.persons[q].number # d.persons[p].number
    BY <1>2 DEF NumbersKept
  <2>1. p \in DOMAIN x.persons /\ x.persons[p].number = d.persons[p].number  BY DEF Still
  <2>2. \A q \in DOMAIN x.persons : x.persons[q].number = x.persons[p].number => q = p
    BY <1>1, <2>1 DEF RefsOK
  <2> QED BY <2>1, <2>2
<1>4. NewLeads(d, x)  BY DEF NewLeads, Still
<1> QED BY <1>1, <1>3, <1>4

\* Tables that are as they were have no new entries.
LEMMA NothingInVain ==
  ASSUME NEW d, IsTables(d), NEW r, r.error # "none" => r.db = d
  PROVE  InVain(d, r)
<1>1. PICK S : d.log \in Seq(S)  BY DEF IsTables, AnySeq
<1>2. Len(d.log) \in Nat  BY <1>1, LenProperties
<1>3. (Len(d.log) + 1)..Len(d.log) = {}  BY <1>2
<1> QED BY <1>3 DEF InVain

\* A transaction that fails leaves the tables as they were.
LEMMA Undone ==
  ASSUME NEW d, NEW s, NEW r, r = P!Transaction(d, s)
  PROVE  /\ r.error # "none" => r.db = d
         /\ r.db = d \/ r = s
BY DEF P!Transaction, P!Fails

\* A use case with no new row is sound.
LEMMA SoundIfStill ==
  ASSUME RefsOK(db), NEW r, Still(db, r.db), r.error # "none" => r.db = db
  PROVE  Sound(r)
<1>1. InVain(db, r)  BY NothingInVain DEF RefsOK
<1>2. PICK x : x = r.db  OBVIOUS
<1>3. RefsOK(x) /\ NumbersKept(db, x) /\ NewLeads(db, x)  BY <1>2, StillSound
<1> QED BY <1>1, <1>2, <1>3 DEF Sound

\* retractAssignment
LEMMA RetractSound ==
  ASSUME RefsOK(db), NEW p, NEW i, NEW operator, NEW r, r = P!Retract(p, i, operator)
  PROVE  Sound(r)
<1>1. PICK row, u : /\ row = [db.assignments[i] EXCEPT !.status = "retracted"]
                    /\ u = P!UpdateAssignment(db, i, row)
  OBVIOUS
<1>2. PICK v : v = P!Change("assignment_retract", "assignment", "pending", "retracted")  OBVIOUS
<1>3. PICK c : c = P!InsertChanges(u.db, p, operator, <<v>>)  OBVIOUS
<1>4. (r.db = db \/ r.db = c.db) /\ (r.error # "none" => r.db = db)
  BY <1>1, <1>2, <1>3 DEF P!Retract, P!Transaction, P!Then, P!Fails
<1>5. PICK d : d = u.db  OBVIOUS
<1>6. Still(db, d)
  <2>1. i \in DOMAIN db.assignments => SameEnds(db.assignments[i], row)
    BY <1>1 DEF RefsOK, SameEnds, IsAssignmentRow
  <2> QED BY <1>1, <1>5, <2>1, UpdateStill
<1>7. Still(d, c.db)
  <2>1. RefsOK(d) /\ AnySeq(<<v>>)  BY <1>6, One, StillRefs
  <2> QED BY <1>3, <1>5, <2>1, LogStill
<1>8. Still(db, c.db) /\ Still(db, db)  BY <1>6, <1>7, StillStill, SamePlaces DEF RefsOK
<1>9. Still(db, r.db)  BY <1>4, <1>8
<1> QED BY <1>4, <1>9, SoundIfStill

\* updatePerson
LEMMA ChangeSound ==
  ASSUME RefsOK(db), NEW p, NEW body, NEW r, r = P!ChangePerson(p, body)
  PROVE  Sound(r)
<1>1. PICK old, row : /\ old = db.persons[p]
                      /\ row = [old EXCEPT !.fields = P!NextFields(@, body)]
  OBVIOUS
<1>2. PICK u : u = P!UpdatePerson(db, p, row)  OBVIOUS
<1>3. PICK es, c : /\ es = P!FieldChanges(old.fields, row.fields)
                   /\ c = P!InsertChanges(u.db, p, "personnel-service", es)
  OBVIOUS
<1>4. /\ \/ r.db = db
         \/ r.db = c.db /\ p \in P!Persons(db)
      /\ r.error # "none" => r.db = db
  BY <1>1, <1>2, <1>3 DEF P!ChangePerson, P!Transaction, P!Then, P!Fails
<1>5. ASSUME p \in P!Persons(db) PROVE Still(db, c.db)
  <2>1. p \in DOMAIN db.persons /\ IsPersonRow(old)  BY <1>1, <1>5, EveryoneStays DEF RefsOK
  <2>2. row.fields = P!NextFields(old.fields, body) /\ row.number = old.number /\ DOMAIN row = DOMAIN old
    BY <1>1, <2>1 DEF IsPersonRow
  <2>3. IsPersonRow(row)  BY <2>1, <2>2 DEF IsPersonRow, P!NextFields
  <2>4. PICK d : d = u.db  OBVIOUS
  <2>5. Still(db, d)  BY <1>1, <1>2, <2>2, <2>3, <2>4, PersonStill
  <2>6. RefsOK(d)  BY <2>5, StillRefs
  <2>7. AnySeq(es)  BY <1>3, FieldEntries
  <2>8. Still(d, c.db)  BY <1>3, <2>4, <2>6, <2>7, LogStill
  <2> QED BY <2>5, <2>8, StillStill
<1>6. Still(db, db)  BY SamePlaces DEF RefsOK
<1>7. Still(db, r.db)  BY <1>4, <1>5, <1>6
<1> QED BY <1>4, <1>7, SoundIfStill

\* transitionPersonStatus
LEMMA StatusSound ==
  ASSUME RefsOK(db), NEW p, NEW to, NEW day, NEW reason, NEW operator,
         NEW r, r = P!ChangeStatus(p, to, day, reason, operator)
  PROVE  Sound(r)
<1>1. PICK old, row : /\ old = db.persons[p]
                      /\ row = [old EXCEPT !.status = to, !.reason = IF to = "inactive" THEN reason ELSE P!Null]
  OBVIOUS
<1>2. PICK u : u = P!UpdatePerson(db, p, row)  OBVIOUS
<1>3. PICK w : w = IF to = "inactive" THEN P!Deactivated(u.db, p, day) ELSE P!Goes(u.db)  OBVIOUS
<1>4. PICK es, c : /\ es = P!StatusChanges(old, to, reason)
                   /\ c = P!InsertChanges(w.db, p, operator, es)
  OBVIOUS
<1>5. /\ \/ r.db = db
         \/ r.db = c.db /\ p \in P!Persons(db)
      /\ r.error # "none" => r.db = db
  BY <1>1, <1>2, <1>3, <1>4 DEF P!ChangeStatus, P!Transaction, P!Then, P!Fails
<1>6. ASSUME p \in P!Persons(db) PROVE Still(db, c.db)
  <2>1. p \in DOMAIN db.persons /\ IsPersonRow(old)  BY <1>1, <1>6, EveryoneStays DEF RefsOK
  <2>2. row.fields = old.fields /\ row.number = old.number /\ DOMAIN row = DOMAIN old
    BY <1>1, <2>1 DEF IsPersonRow
  <2>3. IsPersonRow(row)  BY <2>1, <2>2 DEF IsPersonRow
  <2>4. PICK d, e : d = u.db /\ e = w.db  OBVIOUS
  <2>5. Still(db, d)  BY <1>1, <1>2, <2>2, <2>3, <2>4, PersonStill
  <2>6. RefsOK(d)  BY <2>5, StillRefs
  <2>7. Still(d, e)
    <3>1. CASE to = "inactive"
      <4>1. w = P!Deactivated(d, p, day)  BY <1>3, <2>4, <3>1
      <4>2. Still(d, w.db)  BY <2>6, <4>1, DayStill
      <4> QED BY <2>4, <4>2
    <3>2. CASE to # "inactive"
      <4>1. e = d  BY <1>3, <2>4, <3>2 DEF P!Goes
      <4> QED BY <2>6, <4>1, SamePlaces DEF RefsOK
    <3> QED BY <3>1, <3>2
  <2>8. RefsOK(e)  BY <2>6, <2>7, StillRefs
  <2>9. AnySeq(es)
    <3>1. PICK v, y : /\ v = P!Change("status_change", "status", old.status, to)
                      /\ y = P!Change("status_change", "reason", old.reason, reason)
      OBVIOUS
    <3>2. es = <<v>> \/ es = <<v, y>>  BY <1>4, <3>1, StatusTold
    <3> QED BY <3>2, One, Two
  <2>10. Still(e, c.db)  BY <1>4, <2>4, <2>8, <2>9, LogStill
  <2>11. Still(db, e)  BY <2>5, <2>7, StillStill
  <2> QED BY <2>10, <2>11, StillStill
<1>7. Still(db, db)  BY SamePlaces DEF RefsOK
<1>8. Still(db, r.db)  BY <1>5, <1>6, <1>7
<1> QED BY <1>5, <1>8, SoundIfStill

\* applyDueAssignments: one that is due, ...
LEMMA ApplyStill ==
  ASSUME RefsOK(db), NEW d, Still(db, d), NEW i, NEW r, r = P!Apply(d, i)
  PROVE  Still(db, r.db)
<1>1. PICK row, previous : /\ row = db.assignments[i]
                           /\ previous = P!EffectiveAt(d, row.person, row.from)
  OBVIOUS
<1>2. PICK u : u = P!CloseCurrent(d, row.person, row.from)  OBVIOUS
<1>3. PICK next, w : next = [row EXCEPT !.status = "current"] /\ w = P!UpdateAssignment(u.db, i, next)  OBVIOUS
<1>4. PICK v : v = P!Change("assignment_change", "assignment", "pending", "current")  OBVIOUS
<1>5. PICK entries : entries = IF previous \in {P!None, i} THEN <<>> ELSE <<v>>  OBVIOUS
<1>6. PICK c : c = P!InsertChanges(w.db, row.person, "hr", entries)  OBVIOUS
<1>7. r = u \/ r = w \/ r = c
  BY <1>1, <1>2, <1>3, <1>4, <1>5, <1>6 DEF P!Apply, P!Then
<1>8. PICK e, f : e = u.db /\ f = w.db  OBVIOUS
<1>9. Still(db, e) /\ RefsOK(e)
  <2>1. RefsOK(d)  BY StillRefs
  <2>2. Still(d, u.db)  BY <1>2, <2>1, CloseStill
  <2>3. Still(db, e)  BY <1>8, <2>2, StillStill
  <2> QED BY <2>3, StillRefs
<1>10. Still(db, f) /\ RefsOK(f)
  <2>1. i \in DOMAIN e.assignments => SameEnds(e.assignments[i], next)
    <3> SUFFICES ASSUME i \in DOMAIN e.assignments PROVE SameEnds(e.assignments[i], next)  OBVIOUS
    <3>1. i \in DOMAIN db.assignments  BY <1>9 DEF Still
    <3>2. IsAssignmentRow(row) /\ SameEnds(row, e.assignments[i])  BY <1>1, <1>9, <3>1 DEF Still, RefsOK
    <3> QED BY <1>3, <3>2 DEF SameEnds, IsAssignmentRow
  <2>2. Still(e, w.db)  BY <1>3, <1>8, <1>9, <2>1, UpdateStill
  <2>3. Still(db, f)  BY <1>8, <1>9, <2>2, StillStill
  <2> QED BY <2>3, StillRefs
<1>11. AnySeq(entries)
  <2>1. CASE entries = <<>>
    <3>1. entries \in Seq({})  BY <2>1
    <3> QED BY <3>1 DEF AnySeq
  <2>2. CASE entries = <<v>>  BY <2>2, One
  <2> QED BY <1>5, <2>1, <2>2
<1>12. Still(f, c.db)  BY <1>6, <1>8, <1>10, <1>11, LogStill
<1>13. Still(db, c.db)  BY <1>10, <1>12, StillStill
<1> QED BY <1>7, <1>8, <1>9, <1>10, <1>13

\* ... and all of them.
LEMMA DueStill ==
  ASSUME RefsOK(db), NEW due, NEW n \in Nat, NEW r, r = P!Transaction(db, P!Applied(due, n)[n])
  PROVE  Still(db, r.db)
<1>1. PICK results : results = P!Applied(due, n)  OBVIOUS
<1>2. /\ results[0] = P!Goes(db)
      /\ \A k \in 1..n : results[k] = P!ThenApply(results[k - 1], due[k])
  BY <1>1, AppliedFollows
<1> HIDE DEF Still
<1>3. Still(db, db)  BY SamePlaces DEF RefsOK
<1>4. \A k \in 0..n : Still(db, results[k].db)
  <2> DEFINE Broken == {k \in 0..n : ~Still(db, results[k].db)}
  <2> SUFFICES ASSUME Broken # {} PROVE FALSE  OBVIOUS
  <2>1. PICK k \in Broken : \A m \in Broken : k <= m
    <3>1. Broken \in SUBSET Nat  OBVIOUS
    <3> QED BY <3>1, LeastNumber
  <2>2. CASE k = 0
    <3>1. Still(db, results[0].db)  BY <1>2, <1>3 DEF P!Goes
    <3> QED BY <2>1, <2>2, <3>1
  <2>3. CASE k # 0
    <3>1. k \in 1..n /\ k - 1 \in 0..n /\ ~(k <= k - 1)  BY <2>1, <2>3
    <3>2. k - 1 \notin Broken  BY <2>1, <3>1
    <3>3. PICK d, i, x : d = results[k - 1] /\ i = due[k] /\ x = results[k]  OBVIOUS
    <3>4. Still(db, d.db) /\ x = P!ThenApply(d, i)  BY <1>2, <3>1, <3>2, <3>3
    <3>5. x = d \/ x = P!Apply(d.db, i)  BY <3>4 DEF P!ThenApply, P!Then
    <3>6. Still(db, x.db)
      <4>1. PICK t : t = d.db  OBVIOUS
      <4>2. CASE x = d  BY <3>4, <4>2
      <4>3. CASE x = P!Apply(d.db, i)
        <5>1. Still(db, t) /\ x = P!Apply(t, i)  BY <3>4, <4>1, <4>3
        <5> QED BY <5>1, ApplyStill
      <4> QED BY <3>5, <4>2, <4>3
    <3> QED BY <2>1, <3>3, <3>6
  <2> QED BY <2>2, <2>3
<1>5. n \in 0..n  OBVIOUS
<1>6. r = results[n] \/ r.db = db  BY <1>1 DEF P!Transaction, P!Fails
<1> QED BY <1>3, <1>4, <1>5, <1>6

\* deletePerson: what it logs is the attempt.
LEMMA RemovalSound ==
  ASSUME RefsOK(db), NEW p, NEW authorized, NEW referenced, NEW operator,
         NEW r, r = P!Removal(p, authorized, referenced, operator)
  PROVE  Sound(r)
<1>1. PICK v : v = P!Change("delete_attempt", "person", db.persons[p].status, P!Null)  OBVIOUS
<1>2. PICK c : c = P!InsertChanges(db, p, operator, <<v>>)  OBVIOUS
<1>3. p \in P!Persons(db) => P!Of(db, p) # {}
  BY EveryoneStays DEF RefsOK, P!Of
<1>4. r.db = db \/ (r.db = c.db /\ c.error = "none")
  <2>1. \/ r.db = db
        \/ c.error = "none" /\ r = P!Fails(c.db, "referenced_by_business")
        \/ c.error # "none" /\ r = c
    BY <1>1, <1>2, <1>3 DEF P!Removal, P!Fails
  <2>2. c.error # "none" => c.db = db  BY <1>2 DEF P!InsertChanges, P!Goes, P!Fails
  <2> QED BY <2>1, <2>2 DEF P!Fails
<1>5. AnySeq(<<v>>)  BY One
<1>6. Still(db, c.db) /\ Still(db, db)  BY <1>2, <1>5, LogStill, SamePlaces DEF RefsOK
<1>7. PICK x : x = r.db  OBVIOUS
<1>8. Still(db, x)  BY <1>4, <1>6, <1>7
<1>9. RefsOK(x) /\ NumbersKept(db, x) /\ NewLeads(db, x)  BY <1>8, StillSound
<1>10. CASE r.db = db
  <2>1. InVain(db, r)  BY <1>10, NothingInVain DEF RefsOK
  <2> QED BY <1>7, <1>9, <2>1 DEF Sound
<1>11. CASE r.db = c.db /\ c.error = "none"
  <2>1. IsTables(db)  BY DEF RefsOK
  <2>2. Wrote(db, p, <<v>>, c.db)  BY <1>2, <1>5, <1>11, <2>1, EntriesLogged
  <2>3. PICK added : /\ AnySeq(added) /\ DOMAIN added = DOMAIN <<v>>
                     /\ \A i \in DOMAIN <<v>> : added[i] = P!Logged(p, <<v>>[i])
                     /\ c.db.persons = db.persons /\ c.db.log = db.log \o added
    BY <2>2 DEF Wrote
  <2>4. DOMAIN added = {1} /\ added[1] = P!Logged(p, v)  BY <2>3, One
  <2>5. added[1].action = "delete_attempt"  BY <1>1, <2>4 DEF P!Logged, P!Change
  <2>6. c.db.assignments = db.assignments
    <3>1. PICK log, y : log = db.log \o [i \in DOMAIN <<v>> |-> P!Logged(p, <<v>>[i])] /\ y = [db EXCEPT !.log = log]
      OBVIOUS
    <3>2. y.assignments = db.assignments  BY <2>1, <3>1 DEF IsTables
    <3>3. c.db = y \/ c.db = db  BY <1>2, <3>1 DEF P!InsertChanges, P!Goes, P!Fails
    <3> QED BY <3>2, <3>3
  <2>7. PICK log : log = db.log \o added  OBVIOUS
  <2>8. /\ Len(db.log) \in Nat /\ Len(added) \in Nat /\ Len(log) = Len(db.log) + Len(added)
        /\ DOMAIN added = 1..Len(added)
        /\ \A k \in 1..Len(added) : log[Len(db.log) + k] = added[k]
    BY <2>1, <2>3, <2>7, Joined DEF IsTables
  <2>9. Len(added) = 1  BY <2>4, <2>8
  <2>10. log[Len(db.log) + 1] = added[1] /\ Len(log) = Len(db.log) + 1  BY <2>8, <2>9
  <2>11. \A k \in (Len(db.log) + 1)..Len(log) : log[k].action = "delete_attempt"  BY <2>5, <2>8, <2>10
  <2>12. x.persons = db.persons /\ x.assignments = db.assignments /\ x.log = log
    BY <1>7, <1>11, <2>3, <2>6, <2>7
  <2>13. InVain(db, r)  BY <1>7, <2>11, <2>12 DEF InVain
  <2> QED BY <1>7, <1>9, <2>13 DEF Sound
<1> QED BY <1>4, <1>10, <1>11

\* Of assignments that are in force one is the latest (effectiveAssignmentAt).
LEMMA LatestIsOne ==
  ASSUME NEW live, NEW n \in Nat, DOMAIN live \subseteq 1..n, DOMAIN live # {},
         \A i \in DOMAIN live : live[i].from \in Nat
  PROVE  P!Latest(live) \in DOMAIN live
<1> DEFINE Upto(k) == {i \in DOMAIN live : i <= k}
           Top(k) == \E m \in Upto(k) : \A j \in Upto(k) : live[j].from <= live[m].from
           Broken == {k \in 0..n : Upto(k) # {} /\ ~Top(k)}
<1>0. \A i \in DOMAIN live : i \in Nat /\ 1 <= i /\ i <= n  OBVIOUS
<1>1. Broken = {}
  <2> SUFFICES ASSUME Broken # {} PROVE FALSE  OBVIOUS
  <2>1. PICK k \in Broken : \A m \in Broken : k <= m
    <3>1. Broken \in SUBSET Nat  OBVIOUS
    <3> QED BY <3>1, LeastNumber
  <2>2. k # 0  BY <1>0, <2>1
  <2>3. k - 1 \in 0..n /\ ~(k <= k - 1)  BY <2>1, <2>2
  <2>4. Upto(k - 1) = {} \/ Top(k - 1)  BY <2>1, <2>3
  <2>5. \A i \in Upto(k) : i = k \/ i \in Upto(k - 1)
    <3>1. k \in Nat  BY <2>1
    <3>2. \A i \in Nat : i <= k => i = k \/ i <= k - 1  BY <3>1
    <3> QED BY <1>0, <3>2
  <2>6. \A i \in Upto(k - 1) : i \in Upto(k)
    <3>1. k \in Nat  BY <2>1
    <3>2. \A i \in Nat : i <= k - 1 => i <= k  BY <3>1
    <3> QED BY <1>0, <3>2
  <2>7. \A i \in Upto(k) : live[i].from \in Nat  OBVIOUS
  <2>8. CASE k \notin Upto(k)
    <3>1. \A i \in Upto(k) : i \in Upto(k - 1)  BY <2>5, <2>8
    <3>2. Upto(k) # {}  BY <2>1
    <3>3. Top(k)  BY <2>4, <2>6, <3>1, <3>2
    <3> QED BY <2>1, <3>3
  <2>9. CASE k \in Upto(k) /\ Upto(k - 1) = {}
    <3>1. \A i \in Upto(k) : i = k  BY <2>5, <2>9
    <3>2. Top(k)  BY <2>7, <2>9, <3>1
    <3> QED BY <2>1, <3>2
  <2>10. CASE k \in Upto(k) /\ Top(k - 1)
    <3>1. PICK m \in Upto(k - 1) : \A j \in Upto(k - 1) : live[j].from <= live[m].from  BY <2>10
    <3>2. m \in Upto(k)  BY <2>6, <3>1
    <3>3. CASE live[k].from <= live[m].from
      <4>1. \A j \in Upto(k) : live[j].from <= live[m].from  BY <2>5, <3>1, <3>3
      <4> QED BY <2>1, <3>2, <4>1
    <3>4. CASE ~(live[k].from <= live[m].from)
      <4>1. ASSUME NEW j \in Upto(k) PROVE live[j].from <= live[k].from
        <5>1. live[k].from \in Nat /\ live[m].from \in Nat  BY <2>7, <2>10, <3>2
        <5>2. CASE j = k  BY <5>1, <5>2
        <5>3. CASE j \in Upto(k - 1)
          <6>1. live[j].from \in Nat /\ live[j].from <= live[m].from  BY <2>6, <2>7, <3>1, <5>3
          <6> QED BY <3>4, <5>1, <6>1
        <5> QED BY <2>5, <5>2, <5>3
      <4> QED BY <2>1, <2>10, <4>1
    <3> QED BY <3>3, <3>4
  <2> QED BY <2>4, <2>8, <2>9, <2>10
<1>2. Upto(n) = DOMAIN live  BY <1>0
<1>3. Top(n)
  <2>1. n \in 0..n  OBVIOUS
  <2>2. n \notin Broken  BY <1>1, Zenon
  <2>3. Upto(n) # {}  BY <1>2
  <2>4. n \in 0..n /\ Upto(n) # {} /\ ~Top(n) => n \in Broken  BY Zenon
  <2> QED BY <2>1, <2>2, <2>3, <2>4, Zenon
<1>4. \E i \in DOMAIN live : \A j \in DOMAIN live : live[j].from <= live[i].from  BY <1>2, <1>3
<1> QED BY <1>4 DEF P!Latest

\* Whom somebody reports to is the manager of one of their assignments.
LEMMA ManagerInForce ==
  ASSUME NEW x, RefsOK(x), NEW q, NEW day
  PROVE  \/ P!ManagerAt(x, q, day) = 0
         \/ \E i \in DOMAIN x.assignments : /\ x.assignments[i].person = q
                                            /\ P!ManagerAt(x, q, day) = x.assignments[i].manager
<1>1. PICK live : live = P!InForce(x, q, day)  OBVIOUS
<1>2. PICK n : n = Len(x.assignments)  OBVIOUS
<1>3. n \in Nat /\ DOMAIN x.assignments = 1..n
  <2>1. PICK S : x.assignments \in Seq(S)  BY DEF RefsOK, IsTables, AnySeq
  <2> QED BY <1>2, <2>1, LenProperties
<1>4. /\ \A i \in DOMAIN live : live[i] = x.assignments[i]
      /\ \A i \in DOMAIN live : i \in DOMAIN x.assignments /\ x.assignments[i].person = q
  BY <1>1 DEF P!InForce, P!Live, P!Of
<1>5. CASE DOMAIN live = {}  BY <1>1, <1>5 DEF P!ManagerAt, P!NoPerson
<1>6. CASE DOMAIN live # {}
  <2>1. \A i \in DOMAIN live : live[i].from \in Nat  BY <1>4 DEF RefsOK, IsAssignmentRow
  <2>2. DOMAIN live \subseteq 1..n  BY <1>3, <1>4
  <2>3. P!Latest(live) \in DOMAIN live  BY <1>3, <1>6, <2>1, <2>2, LatestIsOne
  <2>4. P!ManagerAt(x, q, day) = live[P!Latest(live)].manager  BY <1>1, <1>6, Zenon DEF P!ManagerAt
  <2> QED BY <1>4, <2>3, <2>4
<1> QED BY <1>5, <1>6

\* Whoever keeps the assignments keeps the managers.
LEMMA SameManager ==
  ASSUME NEW d, NEW x, NEW q, NEW day, P!Of(x, q) = P!Of(d, q),
         \A i \in P!Of(d, q) : x.assignments[i] = d.assignments[i]
  PROVE  P!ManagerAt(x, q, day) = P!ManagerAt(d, q, day)
<1>1. P!Live(x, q) = P!Live(d, q) /\ \A i \in P!Live(d, q) : x.assignments[i] = d.assignments[i]
  BY DEF P!Live
<1>2. P!InForce(x, q, day) = P!InForce(d, q, day)  BY <1>1 DEF P!InForce
<1> QED BY <1>2, Zenon DEF P!ManagerAt

\* The walk, as far as it has come.
WalkUpTo(d, m, day, n, f) ==
  f = [k \in 0..n |-> IF k = 0 THEN m
                      ELSE IF f[k - 1] = P!NoPerson THEN P!NoPerson ELSE P!ManagerAt(d, f[k - 1], day)]

\* The walk upwards goes from each to the manager on that day.
LEMMA WalkFollows ==
  ASSUME NEW d, NEW m, NEW day, NEW n \in Nat, NEW w, w = P!Walk(d, m, day, n)
  PROVE  /\ w[0] = m
         /\ \A k \in 1..n : w[k] = IF w[k - 1] = 0 THEN 0 ELSE P!ManagerAt(d, w[k - 1], day)
<1> DEFINE Up(v) == IF v = P!NoPerson THEN P!NoPerson ELSE P!ManagerAt(d, v, day)
<1> DEFINE Lacking == {l \in Nat : ~ \E f : WalkUpTo(d, m, day, l, f)}
<1>1. Lacking = {}
  <2> SUFFICES ASSUME Lacking # {} PROVE FALSE  OBVIOUS
  <2>1. PICK l \in Lacking : \A k \in Lacking : l <= k
    <3>1. Lacking \in SUBSET Nat  OBVIOUS
    <3> QED BY <3>1, LeastNumber
  <2>2. l \in Nat /\ ~ \E f : WalkUpTo(d, m, day, l, f)  BY <2>1
  <2>3. CASE l = 0
    <3>1. PICK f : f = [k \in 0..0 |-> m]  OBVIOUS
    <3>2. f = [k \in 0..0 |-> IF k = 0 THEN m
                              ELSE IF f[k - 1] = P!NoPerson THEN P!NoPerson ELSE P!ManagerAt(d, f[k - 1], day)]
      BY <3>1
    <3> QED BY <2>2, <2>3, <3>2 DEF WalkUpTo
  <2>4. CASE l # 0
    <3>1. l - 1 \in Nat /\ l - 1 \notin Lacking
      <4>1. l - 1 \in Nat /\ ~(l <= l - 1)  BY <2>2, <2>4
      <4> QED BY <2>1, <4>1
    <3>2. PICK f : WalkUpTo(d, m, day, l - 1, f)  BY <3>1
    <3>3. PICK g : g = [k \in 0..l |-> IF k = 0 THEN m ELSE Up(f[k - 1])]  OBVIOUS
    <3>4. \A k \in 0..(l - 1) : f[k] = g[k]
      <4>1. \A k \in 0..(l - 1) : f[k] = IF k = 0 THEN m ELSE Up(f[k - 1])
        BY <3>2 DEF WalkUpTo
      <4>2. \A k \in 0..(l - 1) : k \in 0..l  BY <2>2
      <4> HIDE DEF Up
      <4> QED BY <3>3, <4>1, <4>2
    <3>5. \A k \in 0..l : k # 0 => k - 1 \in 0..(l - 1)  BY <2>2
    <3>6. g = [k \in 0..l |-> IF k = 0 THEN m ELSE Up(g[k - 1])]
      <4> HIDE DEF Up
      <4> QED BY <3>3, <3>4, <3>5
    <3> QED BY <2>2, <3>6 DEF WalkUpTo
  <2> QED BY <2>3, <2>4
<1>2. \E f : WalkUpTo(d, m, day, n, f)  BY <1>1
<1>3. w = CHOOSE f : f = [k \in 0..n |-> IF k = 0 THEN m ELSE IF f[k - 1] = P!NoPerson THEN P!NoPerson
                                                   ELSE P!ManagerAt(d, f[k - 1], day)]
  BY Zenon DEF P!Walk
<1>4. w = [k \in 0..n |-> IF k = 0 THEN m
                          ELSE IF w[k - 1] = P!NoPerson THEN P!NoPerson ELSE P!ManagerAt(d, w[k - 1], day)]
  BY <1>2, <1>3, Zenon DEF WalkUpTo
<1>5. 0 \in 0..n /\ \A k \in 1..n : k \in 0..n /\ k # 0  OBVIOUS
<1> QED BY <1>4, <1>5 DEF P!NoPerson

\* Who is above, but for one person.
ManagersSame(d, x, p, day) == \A q : q # p => P!ManagerAt(x, q, day) = P!ManagerAt(d, q, day)
Avoids(v, n, p) == \A k \in 0..n : v[k] # p
NobodyUnder(x, p, day) == \A q : q # p => P!ManagerAt(x, q, day) # p

\* A walk that does not meet a person does not depend on who is above it.
LEMMA WalkSame ==
  ASSUME NEW d, NEW x, NEW p, NEW m, NEW day, NEW n \in Nat, ManagersSame(d, x, p, day),
         NEW v, v = P!Walk(d, m, day, n), Avoids(v, n, p),
         NEW w, w = P!Walk(x, m, day, n)
  PROVE  \A k \in 0..n : w[k] = v[k]
<1>1. /\ v[0] = m
      /\ \A k \in 1..n : v[k] = IF v[k - 1] = 0 THEN 0 ELSE P!ManagerAt(d, v[k - 1], day)
  BY WalkFollows
<1>2. /\ w[0] = m
      /\ \A k \in 1..n : w[k] = IF w[k - 1] = 0 THEN 0 ELSE P!ManagerAt(x, w[k - 1], day)
  BY WalkFollows
<1> DEFINE Broken == {k \in 0..n : w[k] # v[k]}
<1> SUFFICES ASSUME Broken # {} PROVE FALSE  OBVIOUS
<1>3. PICK k \in Broken : \A l \in Broken : k <= l
  <2>1. Broken \in SUBSET Nat  OBVIOUS
  <2> QED BY <2>1, LeastNumber
<1>4. k # 0  BY <1>1, <1>2, <1>3
<1>5. k \in 1..n /\ k - 1 \in 0..n /\ ~(k <= k - 1)  BY <1>3, <1>4
<1>6. w[k - 1] = v[k - 1] /\ v[k - 1] # p  BY <1>3, <1>5 DEF Avoids
<1>7. PICK u : u = v[k - 1]  OBVIOUS
<1>8. P!ManagerAt(x, u, day) = P!ManagerAt(d, u, day)  BY <1>6, <1>7 DEF ManagersSame
<1>9. w[k] = v[k]  BY <1>1, <1>2, <1>5, <1>6, <1>7, <1>8
<1> QED BY <1>3, <1>9

\* Nobody reports to a person: no walk that begins elsewhere meets it.
LEMMA WalkAvoids ==
  ASSUME NEW x, NEW p, p # 0, NEW m, m # p, NEW day, NEW n \in Nat, NobodyUnder(x, p, day),
         NEW w, w = P!Walk(x, m, day, n)
  PROVE  \A k \in 0..n : w[k] # p
<1>1. /\ w[0] = m
      /\ \A k \in 1..n : w[k] = IF w[k - 1] = 0 THEN 0 ELSE P!ManagerAt(x, w[k - 1], day)
  BY WalkFollows
<1> DEFINE Broken == {k \in 0..n : w[k] = p}
<1> SUFFICES ASSUME Broken # {} PROVE FALSE  OBVIOUS
<1>2. PICK k \in Broken : \A l \in Broken : k <= l
  <2>1. Broken \in SUBSET Nat  OBVIOUS
  <2> QED BY <2>1, LeastNumber
<1>3. k # 0  BY <1>1, <1>2
<1>4. k \in 1..n /\ k - 1 \in 0..n /\ ~(k <= k - 1)  BY <1>2, <1>3
<1>5. w[k - 1] # p  BY <1>2, <1>4
<1>6. w[k] # p  BY <1>1, <1>4, <1>5 DEF NobodyUnder
<1> QED BY <1>2, <1>6

\* Who is above is whom the walk meets (assertReportLine).
LEMMA AboveIs ==
  ASSUME NEW x, IsTables(x), NEW m, NEW day, NEW n, n = Len(x.persons),
         NEW above, above = P!Above(x, m, day), NEW w, w = P!Walk(x, m, day, n)
  PROVE  /\ n \in Nat
         /\ \A v : v \in Met(above) <=> \E k \in 0..n : v = w[k]
<1>1. n \in Nat
  <2>1. PICK S : x.persons \in Seq(S)  BY DEF IsTables, AnySeq
  <2> QED BY <2>1, LenProperties
<1>2. above = [k \in 1..(n + 1) |-> w[k - 1]]  BY Zenon DEF P!Above
<1>3. \A v : v \in Met(above) => \E k \in 0..n : v = w[k]
  <2> SUFFICES ASSUME NEW k \in 1..(n + 1) PROVE \E l \in 0..n : above[k] = w[l]  BY <1>2 DEF Met
  <2>1. k - 1 \in 0..n /\ above[k] = w[k - 1]  BY <1>1, <1>2
  <2> QED BY <2>1
<1>4. \A k \in 0..n : w[k] \in Met(above)
  <2> SUFFICES ASSUME NEW k \in 0..n PROVE \E l \in DOMAIN above : w[k] = above[l]  BY DEF Met
  <2>1. k + 1 \in 1..(n + 1) /\ (k + 1) - 1 = k  BY <1>1
  <2>2. above[k + 1] = w[k] /\ k + 1 \in DOMAIN above  BY <1>2, <2>1
  <2> QED BY <2>2
<1> QED BY <1>1, <1>3, <1>4

\* The assignment that is closed is one of that person.
LEMMA OthersStay ==
  ASSUME NEW d, RefsOK(d), NEW p, NEW day, NEW r, r = P!CloseCurrent(d, p, day),
         NEW i \in DOMAIN d.assignments, d.assignments[i].person # p
  PROVE  r.db.assignments[i] = d.assignments[i]
<1>1. CASE P!Closable(d, p, day) = {}  BY <1>1 DEF P!CloseCurrent, P!Goes
<1>2. CASE P!Closable(d, p, day) # {}
  <2>1. PICK T : T = P!Closable(d, p, day)  OBVIOUS
  <2>2. T \subseteq DOMAIN d.assignments /\ \A j \in T : d.assignments[j].person = p
    BY <2>1 DEF P!Closable, P!Of
  <2>3. T \in SUBSET Nat
    <3>1. PICK S : d.assignments \in Seq(S)  BY DEF RefsOK, IsTables, AnySeq
    <3>2. DOMAIN d.assignments = 1..Len(d.assignments) /\ Len(d.assignments) \in Nat  BY <3>1, LenProperties
    <3> QED BY <2>2, <3>2
  <2>4. \E j \in T : \A k \in T : j <= k  BY <1>2, <2>1, <2>3, LeastNumber
  <2>5. PICK j : j = P!Min(T)  OBVIOUS
  <2>6. j \in T  BY <2>4, <2>5 DEF P!Min
  <2>7. PICK row, new, x : /\ row = [d.assignments[j] EXCEPT !.to = day, !.status = "closed"]
                           /\ new = [d.assignments EXCEPT ![j] = row]
                           /\ x = [d EXCEPT !.assignments = new]
    OBVIOUS
  <2>8. r = P!UpdateAssignment(d, j, row)  BY <1>2, <2>1, <2>5, <2>7, Zenon DEF P!CloseCurrent
  <2>9. r.db = x \/ r.db = d  BY <2>7, <2>8 DEF P!UpdateAssignment, P!Goes, P!Fails
  <2>10. x.assignments = new  BY <2>7 DEF RefsOK, IsTables
  <2>11. i # j  BY <2>2, <2>6
  <2>12. new[i] = d.assignments[i]  BY <2>7, <2>11
  <2> QED BY <2>9, <2>10, <2>12
<1> QED BY <1>1, <1>2

\* One more assignment, of one person.
LEMMA RowInserted ==
  ASSUME NEW d, IsTables(d), NEW row, NEW r, r = P!InsertAssignment(d, row), r.error = "none"
  PROVE  /\ Len(d.assignments) \in Nat /\ DOMAIN d.assignments = 1..Len(d.assignments)
         /\ DOMAIN r.db.assignments = 1..(Len(d.assignments) + 1)
         /\ r.db.assignments[Len(d.assignments) + 1] = row
         /\ \A i \in DOMAIN d.assignments : r.db.assignments[i] = d.assignments[i]
         /\ row.person \in P!Persons(d) \cup {0} /\ row.manager \in P!Persons(d) \cup {0}
         /\ row.manager # row.person
<1>1. PICK new, x : new = Append(d.assignments, row) /\ x = [d EXCEPT !.assignments = new]
  OBVIOUS
<1>2. x.assignments = new  BY <1>1 DEF IsTables
<1>3. /\ r.db = x /\ {row.person, row.manager} \subseteq P!Persons(d) \cup {0}
      /\ row.manager # row.person
  BY <1>1 DEF P!InsertAssignment, P!Goes, P!Fails, P!NoPerson, P!AssignmentRowOk
<1>4. /\ Len(d.assignments) \in Nat /\ DOMAIN d.assignments = 1..Len(d.assignments)
      /\ DOMAIN new = 1..(Len(d.assignments) + 1) /\ new[Len(d.assignments) + 1] = row
      /\ \A k \in 1..Len(d.assignments) : new[k] = d.assignments[k]
  BY <1>1, Appended DEF IsTables
<1> QED BY <1>2, <1>3, <1>4

\* createAssignment: the walk was made before the current assignment was closed
\* and the new one begun, and neither changes it.
LEMMA AssignSound ==
  ASSUME RefsOK(db), NEW p, NEW manager, NEW from \in Nat, NEW to, NEW operator,
         NEW r, r = P!Assign(p, manager, from, to, operator)
  PROVE  Sound(r)
<1>1. PICK row : row = [person |-> p, manager |-> manager, from |-> from, to |-> to,
                        status |-> IF from <= today THEN "current" ELSE "pending"]
  OBVIOUS
<1>2. PICK u : u = IF row.status = "current" THEN P!CloseCurrent(db, p, from) ELSE P!Goes(db)  OBVIOUS
<1>3. PICK w : w = P!InsertAssignment(u.db, row)  OBVIOUS
<1>4. PICK v : v = P!Change("assignment_change", "manager", P!ManagerAt(db, p, from), manager)  OBVIOUS
<1>5. PICK c : c = P!InsertChanges(w.db, p, operator, <<v>>)  OBVIOUS
<1>6. /\ \/ r.db = db
         \/ /\ r.db = c.db /\ w.error = "none" /\ p \in P!Persons(db) /\ r.error = "none"
            /\ P!ReportLineOk(p, manager, from)
      /\ r.error # "none" => r.db = db
  BY <1>1, <1>2, <1>3, <1>4, <1>5 DEF P!Assign, P!Transaction, P!Then, P!Fails
<1>7. CASE r.db = db
  <2>1. Still(db, r.db)  BY <1>7, SamePlaces DEF RefsOK
  <2> QED BY <1>6, <2>1, SoundIfStill
<1>8. CASE /\ r.db = c.db /\ w.error = "none" /\ p \in P!Persons(db) /\ r.error = "none"
           /\ P!ReportLineOk(p, manager, from)
  <2>1. PICK d, e, x : d = u.db /\ e = w.db /\ x = c.db  OBVIOUS
  <2>2. Still(db, d) /\ \A i \in DOMAIN db.assignments :
          db.assignments[i].person # p => d.assignments[i] = db.assignments[i]
    <3>1. CASE u = P!CloseCurrent(db, p, from)
      <4>1. Still(db, u.db)  BY <3>1, CloseStill
      <4>2. \A i \in DOMAIN db.assignments :
              db.assignments[i].person # p => u.db.assignments[i] = db.assignments[i]
        BY <3>1, OthersStay
      <4> QED BY <2>1, <4>1, <4>2
    <3>2. CASE u = P!Goes(db)
      <4>1. d = db  BY <2>1, <3>2 DEF P!Goes
      <4> QED BY <4>1, SamePlaces DEF RefsOK
    <3> QED BY <1>2, <3>1, <3>2
  <2>3. RefsOK(d) /\ IsTables(d)  BY <2>2, StillRefs DEF Still
  <2>4. Alike(d, e)  BY <1>3, <2>1, <2>3, AssignmentInserted
  <2>5. PICK n : n = Len(d.assignments)  OBVIOUS
  <2>6. /\ n \in Nat /\ DOMAIN d.assignments = 1..n /\ DOMAIN e.assignments = 1..(n + 1)
        /\ e.assignments[n + 1] = row
        /\ \A i \in DOMAIN d.assignments : e.assignments[i] = d.assignments[i]
        /\ row.person \in P!Persons(d) \cup {0} /\ row.manager \in P!Persons(d) \cup {0}
    <3>1. w = P!InsertAssignment(d, row) /\ w.error = "none" /\ IsTables(d)  BY <1>3, <1>8, <2>1, <2>3
    <3>2. PICK b : b = w.db  OBVIOUS
    <3>3. /\ n \in Nat /\ DOMAIN d.assignments = 1..n /\ DOMAIN b.assignments = 1..(n + 1)
          /\ b.assignments[n + 1] = row
          /\ \A i \in DOMAIN d.assignments : b.assignments[i] = d.assignments[i]
          /\ row.person \in P!Persons(d) \cup {0} /\ row.manager \in P!Persons(d) \cup {0}
      BY <2>5, <3>1, <3>2, RowInserted
    <3> QED BY <2>1, <3>2, <3>3
  <2>7. /\ IsTables(e) /\ e.persons = d.persons
        /\ P!Persons(d) = DOMAIN d.persons /\ P!Persons(db) = DOMAIN db.persons
        /\ DOMAIN d.persons = DOMAIN db.persons
    BY <2>2, <2>3, <2>4, EveryoneStays DEF Alike, Still
  <2>8. p \in DOMAIN d.persons /\ row.person = p /\ row.manager = manager /\ IsAssignmentRow(row) /\ row.from = from
    BY <1>1, <1>8, <2>7 DEF IsAssignmentRow
  <2>9. RefsOK(e)
    <3>1. ASSUME NEW i \in DOMAIN e.assignments
          PROVE  /\ IsAssignmentRow(e.assignments[i]) /\ e.assignments[i].person \in DOMAIN e.persons
                 /\ e.assignments[i].manager \in DOMAIN e.persons \cup {0}
      <4>1. CASE i = n + 1  BY <2>6, <2>7, <2>8, <4>1
      <4>2. CASE i # n + 1
        <5>1. i \in DOMAIN d.assignments  BY <2>6, <4>2
        <5>2. e.assignments[i] = d.assignments[i]  BY <2>6, <5>1
        <5> QED BY <2>3, <2>7, <5>1, <5>2 DEF RefsOK
      <4> QED BY <4>1, <4>2
    <3>2. ASSUME NEW q \in DOMAIN e.persons
          PROVE  IsPersonRow(e.persons[q]) /\ \E i \in DOMAIN e.assignments : e.assignments[i].person = q
      <4>1. PICK i \in DOMAIN d.assignments : d.assignments[i].person = q  BY <2>3, <2>7 DEF RefsOK
      <4>2. i \in DOMAIN e.assignments /\ e.assignments[i].person = q  BY <2>6, <4>1
      <4> QED BY <2>3, <2>7, <4>2 DEF RefsOK
    <3>3. \A q, s \in DOMAIN e.persons : e.persons[q].number = e.persons[s].number => q = s
      BY <2>3, <2>7 DEF RefsOK
    <3> QED BY <2>7, <3>1, <3>2, <3>3 DEF RefsOK
  <2>10. Still(e, x) /\ x.persons = e.persons /\ x.assignments = e.assignments
    <3>1. AnySeq(<<v>>)  BY One
    <3>2. c = P!InsertChanges(e, p, operator, <<v>>)  BY <1>5, <2>1
    <3>3. Still(e, c.db)  BY <2>9, <3>1, <3>2, LogStill
    <3>4. PICK log, y : /\ log = e.log \o [i \in DOMAIN <<v>> |-> P!Logged(p, <<v>>[i])]
                        /\ y = [e EXCEPT !.log = log]
      OBVIOUS
    <3>5. y.assignments = e.assignments /\ y.persons = e.persons  BY <2>7, <3>4 DEF IsTables
    <3>6. c.db = y \/ c.db = e  BY <3>2, <3>4 DEF P!InsertChanges, P!Goes, P!Fails
    <3> QED BY <2>1, <3>3, <3>5, <3>6
  <2>11. RefsOK(x)  BY <2>9, <2>10, StillRefs
  <2>12. NumbersKept(db, x)
    <3>1. NumbersKept(db, d)  BY <2>2, StillSound
    <3>2. P!Persons(x) = P!Persons(d) /\ x.persons = d.persons  BY <2>7, <2>10 DEF P!Persons
    <3> QED BY <3>1, <3>2 DEF NumbersKept
  <2>13. LeadsNoLoop(x, row)
    <3>1. PICK above, old : above = P!Above(x, manager, from) /\ old = P!Above(db, manager, from)  OBVIOUS
    <3>2. PICK m, walk, was : /\ m = Len(db.persons) /\ walk = P!Walk(x, manager, from, m)
                              /\ was = P!Walk(db, manager, from, m)
      OBVIOUS
    <3>3. m = Len(x.persons)
      <4>1. PICK s, t : s = db.persons /\ t = x.persons  OBVIOUS
      <4>2. AnySeq(s) /\ AnySeq(t) /\ DOMAIN s = DOMAIN t
        BY <2>7, <2>10, <2>11, <4>1 DEF RefsOK, IsTables
      <4>3. Len(s) = Len(t)
        <5>1. PICK S, T : s \in Seq(S) /\ t \in Seq(T)  BY <4>2 DEF AnySeq
        <5>2. /\ Len(s) \in Nat /\ DOMAIN s = 1..Len(s)
              /\ Len(t) \in Nat /\ DOMAIN t = 1..Len(t)
          BY <5>1, LenProperties
        <5>3. PICK a, b : a = Len(s) /\ b = Len(t)  OBVIOUS
        <5>4. a \in Nat /\ b \in Nat /\ 1..a = 1..b  BY <4>2, <5>2, <5>3
        <5>5. ~(a < b)
          <6>1. a < b => b \in 1..b /\ b \notin 1..a  BY <5>4
          <6> QED BY <5>4, <6>1
        <5>6. ~(b < a)
          <6>1. b < a => a \in 1..a /\ a \notin 1..b  BY <5>4
          <6> QED BY <5>4, <6>1
        <5> QED BY <5>3, <5>4, <5>5, <5>6
      <4> QED BY <3>2, <4>1, <4>3
    <3>4. IsTables(x) /\ IsTables(db)  BY <2>11 DEF RefsOK
    <3>5. m \in Nat /\ \A z : z \in Met(above) <=> \E k \in 0..m : z = walk[k]
      BY <3>1, <3>2, <3>3, <3>4, AboveIs
    <3>6. \A z : z \in Met(old) <=> \E k \in 0..m : z = was[k]
      BY <3>1, <3>2, <3>4, AboveIs
    <3>7. \A q : q # p => P!ManagerAt(x, q, from) = P!ManagerAt(db, q, from)
      <4> SUFFICES ASSUME NEW q, q # p PROVE P!ManagerAt(x, q, from) = P!ManagerAt(db, q, from)  OBVIOUS
      <4>1. DOMAIN x.assignments = 1..(n + 1) /\ x.assignments[n + 1].person = p
        BY <2>6, <2>8, <2>10
      <4>2. DOMAIN db.assignments = 1..n /\ n \in Nat  BY <2>2, <2>6 DEF Still
      <4>3. \A i \in 1..n : x.assignments[i] = d.assignments[i]  BY <2>6, <2>10
      <4>4. \A i \in 1..n : d.assignments[i].person = db.assignments[i].person
        BY <2>2, <4>2 DEF Still, SameEnds
      <4>5. \A i \in DOMAIN x.assignments : x.assignments[i].person = q => i \in 1..n
        BY <4>1, <4>2
      <4>6. \A i \in 1..n : i \in DOMAIN x.assignments  BY <4>1, <4>2
      <4>7. P!Of(x, q) = P!Of(db, q)  BY <4>2, <4>3, <4>4, <4>5, <4>6 DEF P!Of
      <4>8. \A i \in P!Of(db, q) : x.assignments[i] = db.assignments[i]
        BY <2>2, <4>2, <4>3 DEF P!Of
      <4> QED BY <4>7, <4>8, SameManager
    <3>8. CASE manager = 0
      <4>1. /\ walk[0] = 0
            /\ \A k \in 1..m : walk[k] = IF walk[k - 1] = 0 THEN 0 ELSE P!ManagerAt(x, walk[k - 1], from)
        BY <3>2, <3>5, <3>8, WalkFollows
      <4>2. p # 0
        <5>1. PICK S : db.persons \in Seq(S)  BY <3>4 DEF IsTables, AnySeq
        <5>2. DOMAIN db.persons = 1..Len(db.persons)  BY <5>1, LenProperties
        <5> QED BY <2>7, <2>8, <5>2
      <4>3. \A k \in 0..m : walk[k] = 0
        <5> DEFINE Broken == {k \in 0..m : walk[k] # 0}
        <5> SUFFICES ASSUME Broken # {} PROVE FALSE  OBVIOUS
        <5>1. PICK k \in Broken : \A l \in Broken : k <= l
          <6>1. Broken \in SUBSET Nat  OBVIOUS
          <6> QED BY <6>1, LeastNumber
        <5>2. k \in 0..m /\ walk[k] # 0  BY <5>1
        <5>3. k # 0  BY <4>1, <5>2
        <5>4. k \in 1..m /\ k - 1 \in 0..m /\ ~(k <= k - 1)  BY <3>5, <5>2, <5>3
        <5>5. k - 1 \notin Broken  BY <5>1, <5>4
        <5>6. walk[k - 1] = 0  BY <5>4, <5>5
        <5> QED BY <4>1, <5>2, <5>4, <5>6
      <4>4. p \notin Met(above)  BY <3>5, <4>2, <4>3
      <4> QED BY <2>8, <3>1, <4>4, Zenon DEF LeadsNoLoop
    <3>9. CASE manager # 0
      <4>1. ~P!Loops(db, p, manager, from)  BY <1>8, <3>9 DEF P!ReportLineOk, P!NoPerson
      <4>2. p \notin Met(old)  BY <3>1, <4>1, Zenon DEF P!Loops, Met
      <4>3. \A k \in 0..m : was[k] # p  BY <3>6, <4>2
      <4>4. \A k \in 0..m : walk[k] = was[k]
        <5>1. ManagersSame(db, x, p, from) /\ Avoids(was, m, p)  BY <3>7, <4>3 DEF ManagersSame, Avoids
        <5>2. walk = P!Walk(x, manager, from, m) /\ was = P!Walk(db, manager, from, m)  BY <3>2
        <5>3. m \in Nat  BY <3>5
        <5> QED BY <5>1, <5>2, <5>3, WalkSame
      <4>5. p \notin Met(above)  BY <3>5, <4>3, <4>4
      <4> QED BY <2>8, <3>1, <4>5, Zenon DEF LeadsNoLoop
    <3> QED BY <3>8, <3>9
  <2>14. NewLeads(db, x)
    <3> SUFFICES ASSUME NEW i \in DOMAIN x.assignments \ DOMAIN db.assignments
                 PROVE  LeadsNoLoop(x, x.assignments[i])
      BY DEF NewLeads
    <3>1. DOMAIN x.assignments = 1..(n + 1) /\ DOMAIN db.assignments = 1..n /\ x.assignments[n + 1] = row
      BY <2>2, <2>6, <2>10 DEF Still
    <3>2. i = n + 1  BY <2>6, <3>1
    <3> QED BY <2>13, <3>1, <3>2
  <2>15. InVain(db, r)  BY <1>8 DEF InVain
  <2> QED BY <1>8, <2>1, <2>11, <2>12, <2>14, <2>15 DEF Sound
<1> QED BY <1>6, <1>7, <1>8

\* createPerson: the number is new, and nobody reports to somebody new.
LEMMA CreateSound ==
  ASSUME RefsOK(db), NEW body \in StaffBodies, NEW r, r = P!CreatePerson(body)
  PROVE  Sound(r)
<1>1. PICK p, row : p = Len(db.persons) + 1 /\ row = P!NewPerson(body)  OBVIOUS
<1>2. PICK first : first = [person |-> p, manager |-> P!Given(body, "manager", P!NoPerson),
                            from |-> body.given["from"], to |-> P!NoDate, status |-> "current"]
  OBVIOUS
<1>3. PICK v, y : /\ v = P!Change("create", "person", P!Null, "active")
                  /\ y = P!Change("assignment_change", "manager", P!NoPerson, first.manager)
  OBVIOUS
<1>4. PICK u : u = P!InsertPerson(db, row)  OBVIOUS
<1>5. PICK w : w = P!InsertAssignment(u.db, first)  OBVIOUS
<1>6. PICK es, c : es = <<v, y>> /\ c = P!InsertChanges(w.db, p, "personnel-service", es)  OBVIOUS
<1>7. /\ \/ r.db = db
         \/ r.db = c.db /\ u.error = "none" /\ w.error = "none" /\ r.error = "none" /\ P!ValidCreate(body)
      /\ r.error # "none" => r.db = db
  BY <1>1, <1>2, <1>3, <1>4, <1>5, <1>6 DEF P!CreatePerson, P!Transaction, P!Then, P!Fails
<1>8. CASE r.db = db
  <2>1. Still(db, r.db)  BY <1>8, SamePlaces DEF RefsOK
  <2> QED BY <1>7, <2>1, SoundIfStill
<1>9. CASE r.db = c.db /\ u.error = "none" /\ w.error = "none" /\ r.error = "none" /\ P!ValidCreate(body)
  <2>1. PICK d, e, x : d = u.db /\ e = w.db /\ x = c.db  OBVIOUS
  <2>2. PICK new : new = Append(db.persons, row)  OBVIOUS
  <2>3. /\ AnySeq(new) /\ Len(db.persons) \in Nat /\ DOMAIN db.persons = 1..Len(db.persons)
        /\ DOMAIN new = 1..p /\ new[p] = row /\ \A k \in 1..Len(db.persons) : new[k] = db.persons[k]
    BY <1>1, <2>2, Appended DEF RefsOK, IsTables
  <2>4. d = [db EXCEPT !.persons = new] /\ ~P!NumberTaken(db, row.number)
    BY <1>4, <1>9, <2>1, <2>2 DEF P!InsertPerson, P!Fails, P!Goes
  <2>5. /\ d.persons = new /\ d.assignments = db.assignments /\ d.log = db.log /\ DOMAIN d = DOMAIN db
    BY <2>4 DEF RefsOK, IsTables
  <2>6. IsTables(d)  BY <2>3, <2>5 DEF RefsOK, IsTables
  <2>7. P!Persons(db) = DOMAIN db.persons  BY EveryoneStays
  <2>8. p \notin DOMAIN db.persons /\ p # 0 /\ DOMAIN new = DOMAIN db.persons \cup {p}
        /\ \A q \in DOMAIN db.persons : new[q] = db.persons[q]
    BY <1>1, <2>3
  <2>9. \A q \in DOMAIN db.persons : db.persons[q].number # row.number
    BY <2>4, <2>7 DEF P!NumberTaken
  <2>10. IsPersonRow(row)  BY <1>1 DEF P!NewPerson, IsPersonRow, P!FieldNames
  <2>11. Alike(d, e)  BY <1>5, <2>1, <2>6, AssignmentInserted
  <2>12. PICK n : n = Len(d.assignments)  OBVIOUS
  <2>13. /\ n \in Nat /\ DOMAIN d.assignments = 1..n /\ DOMAIN e.assignments = 1..(n + 1)
         /\ e.assignments[n + 1] = first
         /\ \A i \in DOMAIN d.assignments : e.assignments[i] = d.assignments[i]
         /\ first.manager \in P!Persons(d) \cup {0} /\ first.manager # first.person
    <3>1. w = P!InsertAssignment(d, first) /\ w.error = "none" /\ IsTables(d)  BY <1>5, <1>9, <2>1, <2>6
    <3>2. PICK b : b = w.db  OBVIOUS
    <3>3. /\ n \in Nat /\ DOMAIN d.assignments = 1..n /\ DOMAIN b.assignments = 1..(n + 1)
          /\ b.assignments[n + 1] = first
          /\ \A i \in DOMAIN d.assignments : b.assignments[i] = d.assignments[i]
          /\ first.manager \in P!Persons(d) \cup {0} /\ first.manager # first.person
      BY <2>12, <3>1, <3>2, RowInserted
    <3> QED BY <2>1, <3>2, <3>3
  <2>14. IsTables(e) /\ e.persons = new  BY <2>5, <2>11 DEF Alike
  <2>15. /\ first.person = p /\ IsAssignmentRow(first)
         /\ first.manager \in DOMAIN db.persons \cup {0}
    <3>1. body.bad = {} /\ "from" \in DOMAIN body.given
      BY <1>9, Zenon DEF P!ValidCreate, P!Required
    <3>2. first.from \in Nat  BY <1>2, <3>1, DatesAreNumbers
    <3>3. first.person = p /\ IsAssignmentRow(first)  BY <1>2, <3>2 DEF IsAssignmentRow
    <3>4. P!Persons(d) \subseteq DOMAIN new  BY <2>5 DEF P!Persons
    <3> QED BY <2>8, <2>13, <3>3, <3>4
  <2>16. \A i \in DOMAIN e.assignments : i # n + 1 =>
           i \in DOMAIN db.assignments /\ e.assignments[i] = db.assignments[i]
    BY <2>5, <2>13
  <2>17. RefsOK(e)
    <3>1. ASSUME NEW i \in DOMAIN e.assignments
          PROVE  /\ IsAssignmentRow(e.assignments[i]) /\ e.assignments[i].person \in DOMAIN e.persons
                 /\ e.assignments[i].manager \in DOMAIN e.persons \cup {0}
      <4>1. CASE i = n + 1  BY <2>8, <2>13, <2>14, <2>15, <4>1
      <4>2. CASE i # n + 1
        <5>1. i \in DOMAIN db.assignments /\ e.assignments[i] = db.assignments[i]  BY <2>16, <4>2
        <5> QED BY <2>8, <2>14, <5>1 DEF RefsOK
      <4> QED BY <4>1, <4>2
    <3>2. ASSUME NEW q \in DOMAIN e.persons
          PROVE  IsPersonRow(e.persons[q]) /\ \E i \in DOMAIN e.assignments : e.assignments[i].person = q
      <4>1. CASE q = p
        <5>1. n + 1 \in DOMAIN e.assignments  BY <2>13
        <5> QED BY <2>3, <2>10, <2>13, <2>14, <2>15, <4>1, <5>1
      <4>2. CASE q # p
        <5>1. q \in DOMAIN db.persons /\ e.persons[q] = db.persons[q]  BY <2>8, <2>14, <4>2
        <5>2. PICK i \in DOMAIN db.assignments : db.assignments[i].person = q  BY <5>1 DEF RefsOK
        <5>3. i \in DOMAIN d.assignments /\ d.assignments[i] = db.assignments[i]  BY <2>5
        <5>4. i \in DOMAIN e.assignments /\ e.assignments[i].person = q  BY <2>13, <5>2, <5>3
        <5> QED BY <5>1, <5>4 DEF RefsOK
      <4> QED BY <4>1, <4>2
    <3>3. ASSUME NEW q \in DOMAIN e.persons, NEW s \in DOMAIN e.persons, e.persons[q].number = e.persons[s].number
          PROVE  q = s
      <4>1. \A a \in DOMAIN e.persons : a # p => a \in DOMAIN db.persons /\ e.persons[a] = db.persons[a]
        BY <2>8, <2>14
      <4>3. e.persons[p] = row  BY <2>3, <2>14
      <4>2. \A a, b \in DOMAIN db.persons : db.persons[a].number = db.persons[b].number => a = b
        BY DEF RefsOK
      <4>4. CASE q = p /\ s # p  BY <2>9, <3>3, <4>1, <4>3, <4>4
      <4>5. CASE q # p /\ s = p  BY <2>9, <3>3, <4>1, <4>3, <4>5
      <4>6. CASE q # p /\ s # p  BY <3>3, <4>1, <4>2, <4>6
      <4> QED BY <4>4, <4>5, <4>6
    <3> QED BY <2>14, <3>1, <3>2, <3>3 DEF RefsOK
  <2>18. Still(e, x) /\ x.persons = e.persons /\ x.assignments = e.assignments
    <3>1. AnySeq(es)  BY <1>6, Two
    <3>2. c = P!InsertChanges(e, p, "personnel-service", es)  BY <1>6, <2>1
    <3>3. Still(e, c.db)  BY <2>17, <3>1, <3>2, LogStill
    <3>4. PICK log, z : /\ log = e.log \o [i \in DOMAIN es |-> P!Logged(p, es[i])]
                        /\ z = [e EXCEPT !.log = log]
      OBVIOUS
    <3>5. z.assignments = e.assignments /\ z.persons = e.persons  BY <2>14, <3>4 DEF IsTables
    <3>6. c.db = z \/ c.db = e  BY <3>2, <3>4 DEF P!InsertChanges, P!Goes, P!Fails
    <3> QED BY <2>1, <3>3, <3>5, <3>6
  <2>19. RefsOK(x)  BY <2>17, <2>18, StillRefs
  <2>20. NumbersKept(db, x)
    <3>1. P!Persons(x) = DOMAIN new /\ x.persons = new  BY <2>14, <2>18, <2>19, EveryoneStays
    <3>2. \A q \in DOMAIN db.persons : q \in DOMAIN new /\ new[q] = db.persons[q]  BY <2>8
    <3>3. \A a, b \in DOMAIN new : new[a].number = new[b].number => a = b
      BY <2>19, <3>1 DEF RefsOK
    <3> QED BY <2>7, <3>1, <3>2, <3>3 DEF NumbersKept
  <2>21. LeadsNoLoop(x, first)
    <3>1. PICK above, m, walk : /\ above = P!Above(x, first.manager, first.from) /\ m = Len(x.persons)
                                /\ walk = P!Walk(x, first.manager, first.from, m)
      OBVIOUS
    <3>2. IsTables(x)  BY <2>19 DEF RefsOK
    <3>3. m \in Nat /\ \A z : z \in Met(above) <=> \E k \in 0..m : z = walk[k]
      BY <3>1, <3>2, AboveIs
    <3>4. \A q : q # p => P!ManagerAt(x, q, first.from) # p
      <4> SUFFICES ASSUME NEW q, q # p PROVE P!ManagerAt(x, q, first.from) # p  OBVIOUS
      <4>1. PICK g : g = P!ManagerAt(x, q, first.from)  OBVIOUS
      <4>2. g = 0 \/ \E i \in DOMAIN x.assignments : x.assignments[i].person = q /\ g = x.assignments[i].manager
        BY <2>19, <4>1, ManagerInForce
      <4>3. ASSUME NEW i \in DOMAIN x.assignments, x.assignments[i].person = q, g = x.assignments[i].manager
            PROVE  g # p
        <5>1. i # n + 1  BY <2>13, <2>15, <2>18, <4>3
        <5>2. i \in DOMAIN db.assignments /\ x.assignments[i] = db.assignments[i]  BY <2>16, <2>18, <5>1
        <5>3. g \in DOMAIN db.persons \cup {0}  BY <4>3, <5>2 DEF RefsOK
        <5> QED BY <2>8, <5>3
      <4> QED BY <2>8, <4>1, <4>2, <4>3
    <3>5. first.manager # p  BY <2>8, <2>15
    <3>6. \A k \in 0..m : walk[k] # p
      <4>1. PICK a, b : a = first.manager /\ b = first.from  OBVIOUS
      <4>2. walk = P!Walk(x, a, b, m) /\ a # p /\ NobodyUnder(x, p, b)
        BY <3>1, <3>4, <3>5, <4>1 DEF NobodyUnder
      <4> QED BY <2>8, <3>3, <4>2, WalkAvoids
    <3>7. p \notin Met(above)  BY <3>3, <3>6
    <3> QED BY <2>15, <3>1, <3>7, Zenon DEF LeadsNoLoop
  <2>22. NewLeads(db, x)
    <3> SUFFICES ASSUME NEW i \in DOMAIN x.assignments \ DOMAIN db.assignments
                 PROVE  LeadsNoLoop(x, x.assignments[i])
      BY DEF NewLeads
    <3>1. i = n + 1  BY <2>16, <2>18
    <3> QED BY <2>13, <2>18, <2>21, <3>1
  <2>23. InVain(db, r)  BY <1>9 DEF InVain
  <2> QED BY <1>9, <2>1, <2>19, <2>20, <2>22, <2>23 DEF Sound
<1> QED BY <1>7, <1>8, <1>9

\* What holds of the tables holds of the step.
LEMMA StepSound ==
  ASSUME RefsOK(db'), NumbersKept(db, db'), NewLeads(db, db')
  PROVE  P!LeadsUp /\ P!NumbersStay
<1>1. PICK x : x = db'  OBVIOUS
<1>2. P!NumbersStay  BY Zenon DEF P!NumbersStay, NumbersKept
<1>3. P!LeadsUp  BY Zenon DEF P!LeadsUp, NewLeads, LeadsNoLoop, Met
<1> QED BY <1>2, <1>3

\* A request is as sound as its outcomes, and one that is answered with an
\* error changes nothing (handlePersonnelRequest).
LEMMA HandleSound ==
  ASSUME NEW resource, NEW ok \in {200, 201, 204}, NEW results, RefsOK(db),
         \A operator \in P!Operators : Sound(results[operator]),
         P!Handle(resource, ok, results)
  PROVE  RefsOK(db') /\ P!ChangesNothing /\ P!LeadsUp /\ P!NumbersStay
<1>1. CASE db' = db
  <2>1. PICK x : x = db'  OBVIOUS
  <2>2. Still(db, x)  BY <1>1, <2>1, SamePlaces DEF RefsOK
  <2>3. RefsOK(x) /\ NumbersKept(db, x) /\ NewLeads(db, x)  BY <2>2, StillSound
  <2>4. P!LeadsUp /\ P!NumbersStay  BY <2>1, <2>3, StepSound
  <2>5. P!ChangesNothing
    <3>1. PICK S : db.log \in Seq(S)  BY DEF RefsOK, IsTables, AnySeq
    <3>2. Len(db.log) \in Nat  BY <3>1, LenProperties
    <3>3. (Len(db.log) + 1)..Len(db.log) = {}  BY <3>2
    <3>4. (Len(db.log) + 1)..Len(db'.log) = {}  BY <1>1, <3>3
    <3> QED BY <1>1, <3>4 DEF P!ChangesNothing
  <2> QED BY <2>1, <2>3, <2>4, <2>5
<1>2. ASSUME NEW operator \in P!Operators, db' = results[operator].db,
             answer' = [status |-> IF results[operator].error = "none" THEN ok
                                   ELSE P!StatusOf(results[operator].error)]
      PROVE  RefsOK(db') /\ P!ChangesNothing /\ P!LeadsUp /\ P!NumbersStay
  <2>1. PICK r : r = results[operator]  OBVIOUS
  <2>2. Sound(r)  BY <2>1
  <2>3. RefsOK(db') /\ NumbersKept(db, db') /\ NewLeads(db, db')  BY <1>2, <2>1, <2>2 DEF Sound
  <2>4. P!LeadsUp /\ P!NumbersStay  BY <2>3, StepSound
  <2>5. P!ChangesNothing
    <3> SUFFICES ASSUME answer'.status >= 400
                 PROVE  /\ db'.persons = db.persons /\ db'.assignments = db.assignments
                        /\ \A k \in (Len(db.log) + 1)..Len(db'.log) : db'.log[k].action = "delete_attempt"
      BY DEF P!ChangesNothing
    <3>1. r.error # "none"
      <4>1. r.error = "none" => answer'.status = ok  BY <1>2, <2>1
      <4> QED BY <4>1
    <3> QED BY <1>2, <2>1, <2>2, <3>1 DEF Sound, InVain
  <2> QED BY <2>3, <2>4, <2>5
<1>3. \/ db' = db
      \/ \E operator \in P!Operators :
           /\ db' = results[operator].db
           /\ answer' = [status |-> IF results[operator].error = "none" THEN ok
                                    ELSE P!StatusOf(results[operator].error)]
  BY Zenon DEF P!Handle
<1> QED BY <1>1, <1>2, <1>3

\* So is a step that serves nobody.
LEMMA ServedIsQuiet ==
  ASSUME RefsOK(db), served' = served, NEW x, Still(db, x), db' = x
  PROVE  RefsOK(db') /\ P!ChangesNothing /\ P!LeadsUp /\ P!NumbersStay
<1>1. RefsOK(x) /\ NumbersKept(db, x) /\ NewLeads(db, x)  BY StillSound
<1>2. P!LeadsUp /\ P!NumbersStay  BY <1>1, StepSound
<1>3. P!ChangesNothing  BY DEF P!ChangesNothing
<1> QED BY <1>1, <1>2, <1>3

\* Every route, and the day that passes.
LEMMA PersonnelSound ==
  ASSUME RefsOK(db), P!Next
  PROVE  RefsOK(db') /\ P!ChangesNothing /\ P!LeadsUp /\ P!NumbersStay
<1> DEFINE Goal == RefsOK(db') /\ P!ChangesNothing /\ P!LeadsUp /\ P!NumbersStay
<1> SUFFICES Goal  OBVIOUS
<1>0. ASSUME NEW x, x.db = db, RefsOK(db) PROVE Sound(x)
  <2>1. Still(db, x.db)  BY <1>0, SamePlaces DEF RefsOK
  <2> QED BY <1>0, <2>1, SoundIfStill
<1>1. CASE P!PostPerson
  <2>1. PICK body \in StaffBodies :
          P!Handle("collection", 201, [operator \in P!Operators |-> P!CreatePerson(body)])
    BY <1>1, Zenon DEF P!PostPerson
  <2>2. \A operator \in P!Operators : Sound(P!CreatePerson(body))  BY CreateSound
  <2>3. PICK results : results = [operator \in P!Operators |-> P!CreatePerson(body)]
    OBVIOUS
  <2>4. \A operator \in P!Operators : Sound(results[operator])  BY <2>2, <2>3
  <2>5. P!Handle("collection", 201, results)  BY <2>1, <2>3
  <2> QED BY <2>4, <2>5, HandleSound
<1>2. CASE P!PatchPerson
  <2>1. PICK p \in P!Named, body \in StaffUpdates :
          P!Handle("person", 200, [operator \in P!Operators |-> P!ChangePerson(p, body)])
    BY <1>2, Zenon DEF P!PatchPerson
  <2>2. \A operator \in P!Operators : Sound(P!ChangePerson(p, body))  BY ChangeSound
  <2>3. PICK results : results = [operator \in P!Operators |-> P!ChangePerson(p, body)]
    OBVIOUS
  <2>4. \A operator \in P!Operators : Sound(results[operator])  BY <2>2, <2>3
  <2>5. P!Handle("person", 200, results)  BY <2>1, <2>3
  <2> QED BY <2>4, <2>5, HandleSound
<1>3. CASE P!PostTransition
  <2>1. PICK p \in P!Named, to \in {"draft", "active", "inactive"}, day \in P!Days,
             reason \in {P!Null, "left"} :
          P!Handle("person", 200, [operator \in P!Operators |-> P!ChangeStatus(p, to, day, reason, operator)])
    BY <1>3, Zenon DEF P!PostTransition
  <2>2. \A operator \in P!Operators : Sound(P!ChangeStatus(p, to, day, reason, operator))  BY StatusSound
  <2>3. PICK results : results = [operator \in P!Operators |-> P!ChangeStatus(p, to, day, reason, operator)]
    OBVIOUS
  <2>4. \A operator \in P!Operators : Sound(results[operator])  BY <2>2, <2>3
  <2>5. P!Handle("person", 200, results)  BY <2>1, <2>3
  <2> QED BY <2>4, <2>5, HandleSound
<1>4. CASE P!PostAssignment
  <2>1. PICK p \in P!Named, manager \in Managers \cup {P!Unknown}, from \in P!Days,
             to \in P!Days \cup {P!NoDate} :
          P!Handle("person", 201, [operator \in P!Operators |-> P!Assign(p, manager, from, to, operator)])
    BY <1>4, Zenon DEF P!PostAssignment
  <2>0. from \in Nat  BY <2>1 DEF P!Days
  <2>2. \A operator \in P!Operators : Sound(P!Assign(p, manager, from, to, operator))  BY <2>0, AssignSound
  <2>3. PICK results : results = [operator \in P!Operators |-> P!Assign(p, manager, from, to, operator)]
    OBVIOUS
  <2>4. \A operator \in P!Operators : Sound(results[operator])  BY <2>2, <2>3
  <2>5. P!Handle("person", 201, results)  BY <2>1, <2>3
  <2> QED BY <2>4, <2>5, HandleSound
<1>5. CASE P!PostRetract
  <2>1. PICK p \in P!Named, i \in DOMAIN db.assignments \cup {P!Unknown} :
          P!Handle("person", 200, [operator \in P!Operators |-> P!Retract(p, i, operator)])
    BY <1>5, Zenon DEF P!PostRetract
  <2>2. \A operator \in P!Operators : Sound(P!Retract(p, i, operator))  BY RetractSound
  <2>3. PICK results : results = [operator \in P!Operators |-> P!Retract(p, i, operator)]
    OBVIOUS
  <2>4. \A operator \in P!Operators : Sound(results[operator])  BY <2>2, <2>3
  <2>5. P!Handle("person", 200, results)  BY <2>1, <2>3
  <2> QED BY <2>4, <2>5, HandleSound
<1>6. CASE P!DeleteRequest
  <2>1. PICK p \in P!Named, authorized, referenced \in BOOLEAN :
          P!Handle("person", 204, [operator \in P!Operators |-> P!Removal(p, authorized, referenced, operator)])
    BY <1>6, Zenon DEF P!DeleteRequest
  <2>2. \A operator \in P!Operators : Sound(P!Removal(p, authorized, referenced, operator))  BY RemovalSound
  <2>3. PICK results : results = [operator \in P!Operators |-> P!Removal(p, authorized, referenced, operator)]
    OBVIOUS
  <2>4. \A operator \in P!Operators : Sound(results[operator])  BY <2>2, <2>3
  <2>5. P!Handle("person", 204, results)  BY <2>1, <2>3
  <2> QED BY <2>4, <2>5, HandleSound
<1>7. CASE P!GetRoster
  <2>1. PICK fine \in BOOLEAN :
          P!Handle("collection", 200, [operator \in P!Operators |-> [db |-> db, error |-> P!PageError(fine)]])
    BY <1>7, Zenon DEF P!GetRoster
  <2>2. PICK result : result = [db |-> db, error |-> P!PageError(fine)]  OBVIOUS
  <2>3. result.db = db  BY <2>2 DEF P!Goes, P!Fails
  <2>4. Sound(result)  BY <1>0, <2>3
  <2>5. PICK results : results = [operator \in P!Operators |-> [db |-> db, error |-> P!PageError(fine)]]
    OBVIOUS
  <2>6. \A operator \in P!Operators : Sound(results[operator])  BY <2>2, <2>4, <2>5
  <2>7. P!Handle("collection", 200, results)  BY <2>1, <2>5
  <2> QED BY <2>6, <2>7, HandleSound
<1>8. CASE P!GetPerson
  <2>1. PICK p \in P!Named :
          P!Handle("person", 200, [operator \in P!Operators |-> IF p \in P!Persons(db) THEN P!Goes(db) ELSE P!Fails(db, "not_found")])
    BY <1>8, Zenon DEF P!GetPerson
  <2>2. PICK result : result = IF p \in P!Persons(db) THEN P!Goes(db) ELSE P!Fails(db, "not_found")  OBVIOUS
  <2>3. result.db = db  BY <2>2 DEF P!Goes, P!Fails
  <2>4. Sound(result)  BY <1>0, <2>3
  <2>5. PICK results : results = [operator \in P!Operators |-> IF p \in P!Persons(db) THEN P!Goes(db) ELSE P!Fails(db, "not_found")]
    OBVIOUS
  <2>6. \A operator \in P!Operators : Sound(results[operator])  BY <2>2, <2>4, <2>5
  <2>7. P!Handle("person", 200, results)  BY <2>1, <2>5
  <2> QED BY <2>6, <2>7, HandleSound
<1>9. CASE P!GetHistory
  <2>1. PICK p \in P!Named, fine \in BOOLEAN :
          P!Handle("person", 200, [operator \in P!Operators |-> IF p \in P!Persons(db) THEN [db |-> db, error |-> P!PageError(fine)]
              ELSE P!Fails(db, "not_found")])
    BY <1>9, Zenon DEF P!GetHistory
  <2>2. PICK result : result = IF p \in P!Persons(db) THEN [db |-> db, error |-> P!PageError(fine)]
              ELSE P!Fails(db, "not_found")  OBVIOUS
  <2>3. result.db = db  BY <2>2 DEF P!Goes, P!Fails
  <2>4. Sound(result)  BY <1>0, <2>3
  <2>5. PICK results : results = [operator \in P!Operators |-> IF p \in P!Persons(db) THEN [db |-> db, error |-> P!PageError(fine)]
              ELSE P!Fails(db, "not_found")]
    OBVIOUS
  <2>6. \A operator \in P!Operators : Sound(results[operator])  BY <2>2, <2>4, <2>5
  <2>7. P!Handle("person", 200, results)  BY <2>1, <2>5
  <2> QED BY <2>6, <2>7, HandleSound
<1>10. CASE P!ApplyDue
  <2>1. PICK n : n = P!Cardinality(P!Due)  OBVIOUS
  <2>2. PICK due : due = P!SetToSortSeq(P!Due, P!DueBefore)  OBVIOUS
  <2>3. PICK r : r = P!Transaction(db, P!Applied(due, n)[n])  OBVIOUS
  <2>4. db' = r.db /\ served' = served  BY <1>10, <2>1, <2>2, <2>3, Zenon DEF P!ApplyDue
  <2>5. n \in Nat
    <3>1. IsTables(db)  BY DEF RefsOK
    <3> QED BY <2>1, <3>1, DueInSequence
  <2>6. PICK x : x = r.db  OBVIOUS
  <2>7. Still(db, x)  BY <2>3, <2>5, <2>6, DueStill
  <2> QED BY <2>4, <2>6, <2>7, ServedIsQuiet
<1>11. CASE P!NextDay
  <2>1. db' = db /\ served' = served  BY <1>11, Zenon DEF P!NextDay
  <2>2. Still(db, db)  BY SamePlaces DEF RefsOK
  <2> QED BY <2>1, <2>2, ServedIsQuiet
<1> HIDE DEF Goal
<1> QED BY <1>1, <1>2, <1>3, <1>4, <1>5, <1>6, <1>7, <1>8, <1>9, <1>10, <1>11, Zenon DEF P!Next

RefsInv == service = "personnel" => RefsOK(db)

\* Empty tables refer to nothing.
LEMMA EmptyRefs == ASSUME NEW d, d = P!Tables(<<>>, <<>>, <<>>) PROVE RefsOK(d)
<1>1. /\ d.persons = <<>> /\ d.assignments = <<>> /\ d.log = <<>>
      /\ DOMAIN d = {"persons", "assignments", "log"}
  BY DEF P!Tables
<1>2. AnySeq(<<>>)
  <2>1. <<>> \in Seq({})  OBVIOUS
  <2> QED BY <2>1 DEF AnySeq
<1>3. IsTables(d)  BY <1>1, <1>2 DEF IsTables
<1>4. DOMAIN d.persons = {} /\ DOMAIN d.assignments = {}  BY <1>1
<1> QED BY <1>3, <1>4 DEF RefsOK

\* The inductive invariant of the references.
LEMMA RefsInvariance == ServicesSpec => []RefsInv
<1>1. ServicesInit => RefsInv
  <2> SUFFICES ASSUME ServicesInit, service = "personnel" PROVE RefsOK(db)  BY DEF RefsInv
  <2>1. P!Init  BY Zenon DEF ServicesInit
  <2>2. db = P!Tables(<<>>, <<>>, <<>>)  BY <2>1, Zenon DEF P!Init
  <2> QED BY <2>2, EmptyRefs
<1>2. RefsInv /\ [ServicesNext]_services => RefsInv'
  <2> SUFFICES ASSUME RefsInv, [ServicesNext]_services, service' = "personnel" PROVE RefsOK(db')
    BY DEF RefsInv, RefsOK, IsTables, IsPersonRow, IsAssignmentRow
  <2>1. CASE service = "personnel" /\ P!Next /\ UNCHANGED <<service, customers>>
    BY <2>1, PersonnelSound DEF RefsInv
  <2>2. CASE UNCHANGED <<service, staff>>
    <3>1. db' = db /\ service' = service  BY <2>2 DEF staff
    <3>2. RefsOK(db)  BY <3>1 DEF RefsInv
    <3> QED BY <3>1, <3>2
  <2>3. CASE UNCHANGED services  BY <2>2, <2>3 DEF services
  <2> QED BY <2>1, <2>2, <2>3, Zenon DEF ServicesNext
<1> QED BY <1>1, <1>2, PTL DEF ServicesSpec

\* A request that is answered with an error changes no person and no assignment
\* and logs nothing but an attempt to delete; a new assignment closes no loop; a
\* number stays with its person: for any bodies, days and number of requests
\* (transaction, assertReportLine, deletePerson).
THEOREM StaffRequestsAreSoundHolds == ServicesSpec => StaffRequestsAreSound
<1>1. RefsInv /\ [ServicesNext]_services =>
        [service = "personnel" => P!ChangesNothing /\ P!LeadsUp /\ P!NumbersStay]_services
  <2> SUFFICES ASSUME RefsInv, ServicesNext, service = "personnel"
               PROVE  P!ChangesNothing /\ P!LeadsUp /\ P!NumbersStay
    OBVIOUS
  <2>1. RefsOK(db)  BY DEF RefsInv
  <2>2. CASE P!Next  BY <2>1, <2>2, PersonnelSound
  <2>3. CASE service = "customers"  BY <2>3
  <2> QED BY <2>2, <2>3, Zenon DEF ServicesNext
<1> QED BY <1>1, RefsInvariance, PTL DEF ServicesSpec, StaffRequestsAreSound
=============================================================================

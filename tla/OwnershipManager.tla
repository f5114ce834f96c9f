-------------------------- MODULE OwnershipManager --------------------------
(***************************************************************************)
(* The workspace's path leases (packages/agent-team/src/ownership-manager  *)
(* and path-overlap).  Every lease is a file of its own below              *)
(* .backend-team/locks/ownership, named by a random nonce.  A manager has  *)
(* no memory it trusts: each operation takes the directory's mutex, reads  *)
(* all the files again (recover), and only then works.  Several processes  *)
(* run a manager over one directory, and a process may die anywhere.       *)
(*                                                                         *)
(* A path is the sequence of its segments, so that "foo" and "foobar" are  *)
(* distinct.  Refused requests and the read-only operations (snapshot,     *)
(* verifyWrite) leave no trace but the mutex they took: action Refuse.     *)
(***************************************************************************)
EXTENDS Naturals, Sequences, SequencesExt

CONSTANTS Procs,         \* processes that run a manager over the directory
          Tasks,         \* task identifiers
          PathSets,      \* the path lists that tasks declare; a path is the
                         \* sequence of its segments
          Nonces,        \* the random lease nonces, ordered as their file names
          AdvisoryLock,  \* TRUE: O_EXLOCK (Darwin); FALSE: an O_EXCL marker file
          Delegation     \* TRUE: callers may pass delegatedFrom

ASSUME NoncesAreOrdered == Nonces \subseteq Nat \ {0}
ASSUME SegmentsAreStrings == \A paths \in PathSets : paths \subseteq Seq(STRING)

VARIABLES disk,     \* the complete lease files
          torn,     \* nonces of files that exist but have no content yet
          mutex,    \* who holds the directory's mutex
          pending,  \* per process, the lease it is about to record
          up,       \* processes whose manager was constructed
          held      \* per process, the lease objects its callers hold

vars == <<disk, torn, mutex, pending, up, held>>

Modes   == {"read", "write"}
Free    == "free"      \* nobody holds the mutex
Stale   == "stale"     \* the marker of a dead owner
NoTask  == "no task"
NoNonce == 0
NoLease == [nonce |-> NoNonce, parent |-> NoNonce]

Lease == [task : Tasks, nonce : Nonces, paths : PathSets, mode : Modes,
          parent : Nonces \cup {NoNonce}, parentTask : Tasks \cup {NoTask}]

ASSUME NullsAreNotValues ==
  Free \notin Procs /\ Stale \notin Procs /\ NoTask \notin Tasks

----------------------------------------------------------------------------
(* Paths and conflicts: comparing segments is what makes foo and foobar      *)
(* distinct (path-overlap.ts).                                             *)

\* isPathWithin: the scope itself or below it.
Within(path, scope) == IsPrefix(scope, path)

\* pathsOverlap: one contains the other.
Overlap(p, q) == Within(p, q) \/ Within(q, p)

\* acquire's test of a request against a lease, and recover's of two leases.
Conflicts(mode, paths, lease) ==
  /\ ~(mode = "read" /\ lease.mode = "read")
  /\ \E p \in paths, q \in lease.paths : Overlap(p, q)

\* Every path of the one lies within a path of the other.
Inside(paths, scopes) == \A p \in paths : \E s \in scopes : Within(p, s)

\* delegatedOverlap: recover forgives a conflicting path of c with an earlier
\* file only between a child and its parent, and only if it is contained.
DelegatedOverlap(c, path, earlier) ==
  IF c.parent = earlier.nonce \/ c.parentTask = earlier.task
    THEN \E q \in earlier.paths : Within(path, q)
  ELSE IF earlier.parent = c.nonce \/ earlier.parentTask = c.task
    THEN \E q \in earlier.paths : Within(q, path)
  ELSE FALSE

\* recover() returns; otherwise it throws, and so does whatever called it.
Recoverable ==
  /\ torn = {}
  /\ \A l, c \in disk : l.nonce < c.nonce /\ l.task # c.task =>
       \A p \in c.paths : Conflicts(c.mode, {p}, l) => DelegatedOverlap(c, p, l)
  /\ \A c \in disk : c.parent # NoNonce =>
       \E l \in disk : /\ l.nonce = c.parent /\ l.task = c.parentTask
                       /\ l.task # c.task /\ Inside(c.paths, l.paths)

----------------------------------------------------------------------------
Init ==
  /\ disk = {} /\ torn = {} /\ mutex = Free
  /\ pending = [p \in Procs |-> NoLease] /\ up = {} /\ held = [p \in Procs |-> {}]

\* The constructor reads the directory WITHOUT the mutex; it throws on a
\* directory recover() cannot read, and there is no manager.
Construct(p) ==
  /\ p \notin up /\ Recoverable
  /\ up' = up \cup {p}
  /\ UNCHANGED <<disk, torn, mutex, pending, held>>

\* A bug: the mutex file is opened without O_EXCL or O_EXLOCK.
EnterBarging(p) ==
  /\ p \in up /\ mutex # p
  /\ mutex' = p
  /\ UNCHANGED <<disk, torn, pending, up, held>>

\* withOwnershipMutex; it does not wait: with the mutex taken the call throws.
Enter(p) ==
  /\ p \in up /\ mutex = Free
  /\ mutex' = p
  /\ UNCHANGED <<disk, torn, pending, up, held>>

\* An operation that throws in its body, or that only reads.
Refuse(p) ==
  /\ mutex = p /\ pending[p] = NoLease
  /\ mutex' = Free
  /\ UNCHANGED <<disk, torn, pending, up, held>>

\* acquire's checks.  from is the parent's lease, or NoLease.
Permitted(task, paths, mode, from) ==
  /\ from # NoLease =>
       /\ from.task # task /\ from \in disk /\ Inside(paths, from.paths)
  /\ \A l \in disk : \/ l.task = task
                     \/ from # NoLease /\ l.task = from.task
                     \/ ~Conflicts(mode, paths, l)

\* randomBytes(24): no file, and no lease in anybody's hands, has that nonce or
\* was delegated from it.
Fresh(n) ==
  /\ n \notin torn
  /\ \A q \in Procs : n \notin {pending[q].nonce, pending[q].parent}
  /\ \A l \in disk \cup UNION {held[q] : q \in Procs} : n \notin {l.nonce, l.parent}

NewLease(task, paths, mode, from, n) ==
  [task |-> task, nonce |-> n, paths |-> paths, mode |-> mode,
   parent     |-> IF from = NoLease THEN NoNonce ELSE from.nonce,
   parentTask |-> IF from = NoLease THEN NoTask ELSE from.task]

\* acquire up to the choice of the new lease.
AcquireCheck(p, task, paths, mode, from, n) ==
  /\ mutex = p /\ pending[p] = NoLease
  /\ Recoverable /\ Permitted(task, paths, mode, from)
  /\ Fresh(n)
  /\ pending' = [pending EXCEPT ![p] = NewLease(task, paths, mode, from, n)]
  /\ UNCHANGED <<disk, torn, mutex, up, held>>

\* persist creates the file, empty; that it has the mutex is not asked again.
AcquireCreate(p) ==
  /\ pending[p] # NoLease /\ pending[p].nonce \notin torn
  /\ torn' = torn \cup {pending[p].nonce}
  /\ UNCHANGED <<disk, mutex, pending, up, held>>

\* The content is written and synced, the mutex is freed, the lease returned.
AcquireWrite(p) ==
  /\ pending[p] # NoLease /\ pending[p].nonce \in torn
  /\ disk' = disk \cup {pending[p]}
  /\ torn' = torn \ {pending[p].nonce}
  /\ held' = [held EXCEPT ![p] = @ \cup {pending[p]}]
  /\ pending' = [pending EXCEPT ![p] = NoLease]
  /\ mutex' = IF mutex = p THEN Free ELSE mutex
  /\ UNCHANGED up

\* release: unlinks the file of that nonce if it still records that lease.
Release(p, l) ==
  /\ mutex = p /\ pending[p] = NoLease /\ l \in held[p]
  /\ Recoverable
  /\ disk' = disk \ {l}
  /\ held' = [held EXCEPT ![p] = @ \ {l}]
  /\ mutex' = Free
  /\ UNCHANGED <<torn, pending, up>>

\* release throws, the mutex being taken or recover() failing.  Every caller
\* releases in a finally and tries only once: the file stays.
ReleaseThrows(p, l) ==
  /\ p \in up /\ l \in held[p]
  /\ \/ mutex \notin {Free, p} /\ UNCHANGED mutex
     \/ mutex = p /\ pending[p] = NoLease /\ ~Recoverable /\ mutex' = Free
  /\ held' = [held EXCEPT ![p] = @ \ {l}]
  /\ UNCHANGED <<disk, torn, pending, up>>

\* releaseRecovered: all leases of the task with exactly these paths.
ReleaseRecovered(p, task, paths) ==
  /\ mutex = p /\ pending[p] = NoLease
  /\ Recoverable
  /\ disk' = {l \in disk : ~(l.task = task /\ l.paths = paths)}
  /\ mutex' = Free
  /\ UNCHANGED <<torn, pending, up, held>>

\* The process dies.  The kernel drops an advisory lock; a marker file stays.
Crash(p) ==
  /\ p \in up
  /\ up' = up \ {p}
  /\ held' = [held EXCEPT ![p] = {}]
  /\ pending' = [pending EXCEPT ![p] = NoLease]
  /\ mutex' = IF mutex # p THEN mutex ELSE IF AdvisoryLock THEN Free ELSE Stale
  /\ UNCHANGED <<disk, torn>>

Acquire(p) ==
  \E task \in Tasks, paths \in PathSets, mode \in Modes, n \in Nonces :
    \/ AcquireCheck(p, task, paths, mode, NoLease, n)
    \/ /\ Delegation
       /\ \E from \in held[p] : AcquireCheck(p, task, paths, mode, from, n)

\* What a manager and its callers do while their process lives.
Operate(p) ==
  \/ Construct(p) \/ Enter(p) \/ Refuse(p) \/ Acquire(p)
  \/ AcquireCreate(p) \/ AcquireWrite(p)
  \/ \E l \in held[p] : Release(p, l) \/ ReleaseThrows(p, l)

\* The operator's releaseRecovered, with the coordinator's token.
Repair(p) == \E l \in disk : ReleaseRecovered(p, l.task, l.paths)

Next == \E p \in Procs : Operate(p) \/ Repair(p) \/ Crash(p)

Spec == Init /\ [][Next]_vars

----------------------------------------------------------------------------
TypeOK ==
  /\ disk \subseteq Lease /\ torn \subseteq Nonces
  /\ mutex \in Procs \cup {Free, Stale}
  /\ pending \in [Procs -> Lease \cup {NoLease}]
  /\ up \subseteq Procs /\ held \in [Procs -> SUBSET Lease]

\* A lease's task was given its overlap by the other one's task.
DelegatedBy(c, l) == c.parent # NoNonce /\ c.parentTask = l.task

\* Any write lease conflicts with another lease unless both belong to the same
\* task, or one was delegated by the other's task: whatever the processes
\* interleave, and wherever they die, the files never record a second writer.
WriterExclusion ==
  \A l, c \in disk : l.task # c.task /\ Conflicts(c.mode, c.paths, l) =>
    DelegatedBy(c, l) \/ DelegatedBy(l, c)

\* Two lease files never share a nonce, not even a torn file and a whole one:
\* release(nonce) can remove only the lease it was given.
NonceIsIdentity ==
  /\ \A l, c \in disk : l.nonce = c.nonce => l = c
  /\ \A l \in disk : l.nonce \notin torn

\* What acquire grants, recover() accepts: a directory without a torn file can
\* be read by every process that comes later, as long as the leases that others
\* were delegated from are there, each the only one of its task, and no lease
\* has two paths one within the other.
GrantsReadable ==
  /\ torn = {}
  /\ \A c \in disk : c.parent # NoNonce => \E l \in disk : l.nonce = c.parent
  /\ \A l, c \in disk : l.task = c.task => l = c
  /\ \A l \in disk : \A p, q \in l.paths : Overlap(p, q) => p = q
  => Recoverable

=============================================================================

-------------------------- MODULE OwnershipProofs --------------------------
(***************************************************************************)
(* For any number of processes, tasks and paths: the lease files never     *)
(* record a second writer over a path, and a nonce names one file.         *)
(* WriterExclusion is not inductive by itself: it needs that a lease being *)
(* written still has the right its checks gave it when its file appears    *)
(* (PendingClear), which holds because only the mutex holder has such a    *)
(* lease (HolderWrites), and that its nonce is its own (PendingFresh).      *)
(* The second part is about the scheduler of one process.                  *)
(***************************************************************************)
EXTENDS OwnershipManager, MCScheduler, FiniteSetTheorems, SequenceTheorems,
        WellFoundedInduction, NaturalsInduction, TLAPS

HolderWrites == \A p \in Procs : pending[p] # NoLease => mutex = p

\* Two leases may stand beside each other in the directory.
Compatible(c, l) ==
  l.task # c.task /\ Conflicts(c.mode, c.paths, l) =>
    DelegatedBy(c, l) \/ DelegatedBy(l, c)

PendingClear ==
  \A p \in Procs : pending[p] # NoLease => \A l \in disk : Compatible(pending[p], l)

PendingFresh ==
  \A p \in Procs : pending[p] # NoLease => \A l \in disk : l.nonce # pending[p].nonce

Exclusion == \A l, c \in disk : Compatible(c, l)

IInv == /\ TypeOK /\ HolderWrites /\ PendingFresh /\ NonceIsIdentity
        /\ PendingClear /\ Exclusion

\* Conflicts does not depend on which of two leases is asked about.
LEMMA ConflictsSymmetric ==
  ASSUME NEW l, NEW c, Compatible(c, l)
  PROVE  Compatible(l, c)
BY DEF Compatible, Conflicts, Overlap

\* A lease is never the null lease: its nonce is a nonce.
LEMMA LeaseIsNotNull == ASSUME NEW l \in Lease PROVE l # NoLease /\ l.nonce # NoNonce
BY NoncesAreOrdered DEF Lease, NoLease, NoNonce

\* acquire's checks give the lease it will write the right to stand beside
\* every file of the directory.
LEMMA PermittedIsClear ==
  ASSUME TypeOK, NEW task \in Tasks, NEW paths \in PathSets, NEW mode \in Modes,
         NEW from, from = NoLease \/ from \in Lease, NEW n \in Nonces,
         Permitted(task, paths, mode, from), NEW l \in disk
  PROVE  Compatible(NewLease(task, paths, mode, from, n), l)
<1>. USE DEF NewLease
<1>1. CASE from = NoLease
  BY <1>1 DEF Permitted, Compatible, Conflicts
<1>2. CASE from # NoLease
  <2>1. from.nonce # NoNonce  BY <1>2, LeaseIsNotNull
  <2>2. \/ l.task = task
        \/ l.task = from.task
        \/ ~Conflicts(mode, paths, l)
    BY <1>2 DEF Permitted
  <2>. QED BY <1>2, <2>1, <2>2 DEF Compatible, Conflicts, DelegatedBy
<1>. QED BY <1>1, <1>2

\* The invariant holds at the start.
LEMMA Initially == Init => IInv
<1>. SUFFICES ASSUME Init PROVE IInv  OBVIOUS
<1>. USE DEF Init
<1>1. TypeOK  BY DEF TypeOK
<1>2. HolderWrites /\ PendingFresh /\ PendingClear
  BY DEF HolderWrites, PendingFresh, PendingClear
<1>3. NonceIsIdentity /\ Exclusion  BY DEF NonceIsIdentity, Exclusion
<1>. QED BY <1>1, <1>2, <1>3 DEF IInv

\* Steps that touch no file and write no lease.
LEMMA QuietStep ==
  ASSUME IInv, TypeOK', UNCHANGED <<disk, torn>>,
         \A p \in Procs : pending'[p] # NoLease =>
           pending'[p] = pending[p] /\ mutex' = p
  PROVE  IInv'
<1>1. HolderWrites'  BY DEF HolderWrites
<1>2. PendingFresh'  BY DEF IInv, PendingFresh
<1>3. PendingClear'  BY DEF IInv, PendingClear, Compatible, Conflicts, DelegatedBy
<1>4. NonceIsIdentity' /\ Exclusion'
  BY DEF IInv, NonceIsIdentity, Exclusion, Compatible, Conflicts, DelegatedBy
<1>. QED BY <1>1, <1>2, <1>3, <1>4 DEF IInv

\* Steps that only remove files.
LEMMA RemovalStep ==
  ASSUME IInv, TypeOK', disk' \subseteq disk, UNCHANGED <<torn, pending>>,
         NEW p \in Procs, mutex = p, pending[p] = NoLease
  PROVE  IInv'
<1>1. \A q \in Procs : pending[q] = NoLease  BY DEF IInv, HolderWrites
<1>2. HolderWrites' /\ PendingFresh' /\ PendingClear'
  BY <1>1 DEF HolderWrites, PendingFresh, PendingClear
<1>3. NonceIsIdentity'  BY DEF IInv, NonceIsIdentity
<1>4. Exclusion'  BY DEF IInv, Exclusion, Compatible, Conflicts, DelegatedBy
<1>. QED BY <1>1, <1>2, <1>3, <1>4 DEF IInv

\* A lease that passed the checks may stand beside every file.
LEMMA CheckStep ==
  ASSUME IInv, NEW p \in Procs, NEW task \in Tasks, NEW paths \in PathSets,
         NEW mode \in Modes, NEW from, from = NoLease \/ from \in Lease,
         NEW n \in Nonces, AcquireCheck(p, task, paths, mode, from, n)
  PROVE  IInv'
<1>. DEFINE new == NewLease(task, paths, mode, from, n)
<1>. USE DEF AcquireCheck
<1>1. new \in Lease  BY LeaseIsNotNull DEF Lease, NewLease
<1>2. pending' = [pending EXCEPT ![p] = new] /\ pending \in [Procs -> Lease \cup {NoLease}]
  BY DEF IInv, TypeOK
<1>3. TypeOK'  BY <1>1, <1>2 DEF IInv, TypeOK
<1>4. \A q \in Procs : q # p => pending'[q] = NoLease
  BY <1>2 DEF IInv, HolderWrites
<1>5. pending'[p] = new  BY <1>2
<1>6. HolderWrites'  BY <1>4 DEF HolderWrites
<1>7. PendingFresh'  BY <1>4, <1>5 DEF PendingFresh, NewLease, Fresh
<1>8. NonceIsIdentity'  BY DEF IInv, NonceIsIdentity
<1>9. \A l \in disk : Compatible(new, l)  BY PermittedIsClear DEF IInv
<1>10. PendingClear'
  BY <1>4, <1>5, <1>9 DEF PendingClear, Compatible, Conflicts, DelegatedBy
<1>11. Exclusion'  BY DEF IInv, Exclusion, Compatible, Conflicts, DelegatedBy
<1>. QED BY <1>3, <1>6, <1>7, <1>8, <1>10, <1>11 DEF IInv

\* Creating the file of a lease keeps the invariant.
LEMMA CreateStep == ASSUME IInv, NEW p \in Procs, AcquireCreate(p) PROVE IInv'
<1>. USE DEF AcquireCreate
<1>1. pending[p] \in Lease  BY DEF IInv, TypeOK
<1>2. TypeOK'  BY <1>1 DEF IInv, TypeOK, Lease
<1>3. NonceIsIdentity'  BY DEF IInv, NonceIsIdentity, PendingFresh
<1>4. HolderWrites' /\ PendingFresh'
  BY DEF IInv, HolderWrites, PendingFresh
<1>5. PendingClear' /\ Exclusion'
  BY DEF IInv, PendingClear, Exclusion, Compatible, Conflicts, DelegatedBy
<1>. QED BY <1>2, <1>3, <1>4, <1>5 DEF IInv

\* Writing the file of a lease keeps the invariant.
LEMMA WriteStep == ASSUME IInv, NEW p \in Procs, AcquireWrite(p) PROVE IInv'
<1>. DEFINE new == pending[p]
<1>. USE DEF AcquireWrite
<1>1. new \in Lease /\ pending \in [Procs -> Lease \cup {NoLease}]
  BY DEF IInv, TypeOK
<1>2. TypeOK'  BY <1>1 DEF IInv, TypeOK
<1>3. \A q \in Procs : pending'[q] = NoLease
  BY <1>1 DEF IInv, HolderWrites
<1>4. HolderWrites' /\ PendingFresh' /\ PendingClear'
  BY <1>3 DEF HolderWrites, PendingFresh, PendingClear
<1>5. \A l \in disk : l.nonce # new.nonce  BY DEF IInv, PendingFresh
<1>6. NonceIsIdentity'  BY <1>5 DEF IInv, NonceIsIdentity
<1>7. \A l \in disk : Compatible(new, l) /\ Compatible(l, new)
  BY ConflictsSymmetric DEF IInv, PendingClear
<1>8. Compatible(new, new)  BY DEF Compatible
<1>9. \A l, c \in disk \cup {new} : Compatible(c, l)
  BY <1>7, <1>8 DEF IInv, Exclusion
<1>10. Exclusion'  BY <1>9 DEF Exclusion, Compatible, Conflicts, DelegatedBy
<1>. QED BY <1>2, <1>4, <1>6, <1>10 DEF IInv

\* Every step keeps the invariant.
LEMMA Preserved == IInv /\ [Next]_vars => IInv'
<1>. SUFFICES ASSUME IInv, [Next]_vars PROVE IInv'  OBVIOUS
<1>1. ASSUME NEW p \in Procs, Construct(p) PROVE IInv'
  <2>1. TypeOK'  BY <1>1 DEF IInv, TypeOK, Construct
  <2>. QED BY <1>1, <2>1, QuietStep DEF IInv, HolderWrites, Construct
<1>2. ASSUME NEW p \in Procs, Enter(p) PROVE IInv'
  <2>1. TypeOK'  BY <1>2 DEF IInv, TypeOK, Enter
  <2>2. \A q \in Procs : pending'[q] = NoLease
    BY <1>2, NullsAreNotValues DEF IInv, HolderWrites, Enter
  <2>. QED BY <1>2, <2>1, <2>2, QuietStep DEF Enter
<1>3. ASSUME NEW p \in Procs, Refuse(p) PROVE IInv'
  <2>1. TypeOK'  BY <1>3 DEF IInv, TypeOK, Refuse
  <2>2. \A q \in Procs : pending'[q] = NoLease
    BY <1>3 DEF IInv, HolderWrites, Refuse
  <2>. QED BY <1>3, <2>1, <2>2, QuietStep DEF Refuse
<1>4. ASSUME NEW p \in Procs, Acquire(p) PROVE IInv'
  <2>1. held[p] \subseteq Lease  BY DEF IInv, TypeOK
  <2>2. PICK task \in Tasks, paths \in PathSets, mode \in Modes, n \in Nonces,
             from \in {NoLease} \cup held[p] :
          AcquireCheck(p, task, paths, mode, from, n)
    BY <1>4 DEF Acquire
  <2>. QED BY <2>1, <2>2, CheckStep
<1>5. ASSUME NEW p \in Procs, AcquireCreate(p) \/ AcquireWrite(p) PROVE IInv'
  BY <1>5, CreateStep, WriteStep
<1>6. ASSUME NEW p \in Procs, NEW l \in held[p], Release(p, l) PROVE IInv'
  <2>1. TypeOK'  BY <1>6 DEF IInv, TypeOK, Release
  <2>. QED BY <1>6, <2>1, RemovalStep DEF Release
<1>7. ASSUME NEW p \in Procs, NEW l \in held[p], ReleaseThrows(p, l) PROVE IInv'
  <2>1. TypeOK'  BY <1>7 DEF IInv, TypeOK, ReleaseThrows
  <2>2. \A q \in Procs : pending'[q] # NoLease => pending'[q] = pending[q] /\ mutex' = q
    BY <1>7 DEF IInv, HolderWrites, ReleaseThrows
  <2>. QED BY <1>7, <2>1, <2>2, QuietStep DEF ReleaseThrows
<1>8. ASSUME NEW p \in Procs, NEW l \in disk, ReleaseRecovered(p, l.task, l.paths)
      PROVE IInv'
  <2>1. TypeOK'  BY <1>8 DEF IInv, TypeOK, ReleaseRecovered
  <2>. QED BY <1>8, <2>1, RemovalStep DEF ReleaseRecovered
<1>9. ASSUME NEW p \in Procs, Crash(p) PROVE IInv'
  <2>1. TypeOK'  BY <1>9 DEF IInv, TypeOK, Crash
  <2>2. \A q \in Procs : pending'[q] # NoLease => pending'[q] = pending[q] /\ mutex' = q
    BY <1>9 DEF IInv, TypeOK, HolderWrites, Crash
  <2>. QED BY <1>9, <2>1, <2>2, QuietStep DEF Crash
<1>10. ASSUME UNCHANGED vars PROVE IInv'
  BY <1>10 DEF vars, IInv, TypeOK, HolderWrites, PendingFresh, NonceIsIdentity,
     PendingClear, Exclusion, Compatible, Conflicts, DelegatedBy
<1>. QED
  BY <1>1, <1>2, <1>3, <1>4, <1>5, <1>6, <1>7, <1>8, <1>9, <1>10
  DEF Next, Operate, Repair

\* The invariant holds in every state of the directory.
LEMMA Invariance == Spec => []IInv
BY Initially, Preserved, PTL DEF Spec

\* The variables keep their types: in particular nobody but a process ever
\* holds the mutex and every file records a lease.
THEOREM TypeCorrect == Spec => []TypeOK
<1>1. IInv => TypeOK  BY DEF IInv
<1>. QED BY Invariance, <1>1, PTL

\* Whatever the processes interleave and wherever they die, two conflicting
\* leases of different tasks are a parent's and its delegate's.
THEOREM WriterExclusionHolds == Spec => []WriterExclusion
<1>1. IInv => WriterExclusion  BY DEF IInv, Exclusion, Compatible, WriterExclusion
<1>. QED BY Invariance, <1>1, PTL

\* A nonce names one lease file.
THEOREM NonceIsIdentityHolds == Spec => []NonceIsIdentity
<1>1. IInv => NonceIsIdentity  BY DEF IInv
<1>. QED BY Invariance, <1>1, PTL

\* What a lease says of its parent is so if the other lease is its parent.
Granted(c, l) ==
  /\ c.parent = NoNonce => c.parentTask = NoTask
  /\ c.parent # NoNonce /\ l.nonce = c.parent =>
       l.task = c.parentTask /\ l.task # c.task /\ Inside(c.paths, l.paths)

\* What a lease says of its parent is true of every lease with that nonce: a
\* nonce is not given again while somebody was delegated from it.
Grants ==
  /\ \A c, l \in disk : Granted(c, l)
  /\ \A p \in Procs : pending[p] # NoLease =>
       /\ \A l \in disk : Granted(pending[p], l) /\ Granted(l, pending[p])
       /\ Granted(pending[p], pending[p])

GrantInv == IInv /\ Grants

\* Steps that bring no lease keep the grants.
LEMMA GrantsStay ==
  ASSUME Grants, disk' \subseteq disk,
         \A p \in Procs : pending'[p] # NoLease => pending'[p] = pending[p]
  PROVE  Grants'
<1>1. \A c, l \in disk' : Granted(c, l)  BY DEF Grants
<1>2. ASSUME NEW p \in Procs, pending'[p] # NoLease
      PROVE  /\ \A l \in disk' : Granted(pending'[p], l) /\ Granted(l, pending'[p])
             /\ Granted(pending'[p], pending'[p])
  BY <1>2 DEF Grants
<1>. QED BY <1>1, <1>2 DEF Grants, Granted

\* The checks of acquire: the new lease's parent is the one it is given, and
\* nobody was delegated from its nonce.
LEMMA GrantsOfCheck ==
  ASSUME GrantInv, NEW p \in Procs, NEW task \in Tasks, NEW paths \in PathSets,
         NEW mode \in Modes, NEW from, from = NoLease \/ from \in Lease,
         NEW n \in Nonces, AcquireCheck(p, task, paths, mode, from, n)
  PROVE  Grants'
<1>. DEFINE new == NewLease(task, paths, mode, from, n)
<1>. USE DEF AcquireCheck, GrantInv
<1>1. pending' = [pending EXCEPT ![p] = new] /\ pending \in [Procs -> Lease \cup {NoLease}]
  BY DEF IInv, TypeOK
<1>2. \A q \in Procs : q # p => pending'[q] = NoLease  BY <1>1 DEF IInv, HolderWrites
<1>3. pending'[p] = new /\ disk' = disk  BY <1>1
<1>4. \A l \in disk : l.parent # n /\ l.nonce # n  BY DEF Fresh
<1>5. new.nonce = n /\ n # NoNonce  BY NoncesAreOrdered DEF NewLease, NoNonce
<1>6. \A l \in disk : Granted(l, new)  BY <1>4, <1>5 DEF Granted, Grants
<1>7. ASSUME new.parent # NoNonce
      PROVE  /\ from \in disk /\ new.parent = from.nonce /\ new.parentTask = from.task
             /\ from.task # task /\ Inside(paths, from.paths)
  <2>1. from # NoLease  BY <1>7 DEF NewLease
  <2>. QED BY <2>1 DEF NewLease, Permitted
<1>8. new.parent = NoNonce => new.parentTask = NoTask  BY LeaseIsNotNull DEF NewLease
<1>9. ASSUME NEW l \in disk PROVE Granted(new, l)
  <2>1. SUFFICES ASSUME new.parent # NoNonce, l.nonce = new.parent
                 PROVE  /\ l.task = new.parentTask /\ l.task # new.task
                        /\ Inside(new.paths, l.paths)
    BY <1>8 DEF Granted
  <2>2. l = from  BY <1>7, <2>1 DEF IInv, NonceIsIdentity
  <2>. QED BY <1>7, <2>1, <2>2 DEF NewLease
<1>10. Granted(new, new)
  <2>1. new.parent # NoNonce => new.parent # new.nonce  BY <1>4, <1>5, <1>7
  <2>. QED BY <1>8, <2>1 DEF Granted
<1>11. \A c, l \in disk : Granted(c, l)  BY DEF Grants
<1>12. ASSUME NEW q \in Procs, pending'[q] # NoLease PROVE pending'[q] = new
  BY <1>2, <1>3, <1>12
<1>. HIDE DEF new
<1>. QED BY <1>3, <1>6, <1>9, <1>10, <1>11, <1>12 DEF Grants, Granted

\* The new file's grants are those of the lease it was checked for.
LEMMA GrantsOfWrite == ASSUME GrantInv, NEW p \in Procs, AcquireWrite(p) PROVE Grants'
<1>. DEFINE new == pending[p]
<1>. USE DEF AcquireWrite, GrantInv
<1>1. new \in Lease /\ pending \in [Procs -> Lease \cup {NoLease}]  BY DEF IInv, TypeOK
<1>2. \A q \in Procs : pending'[q] = NoLease  BY <1>1 DEF IInv, HolderWrites
<1>3. /\ \A l \in disk : Granted(new, l) /\ Granted(l, new)
      /\ Granted(new, new)
  BY DEF Grants
<1>4. \A c, l \in disk : Granted(c, l)  BY DEF Grants
<1>5. \A c, l \in disk \cup {new} : Granted(c, l)  BY <1>3, <1>4
<1>. QED BY <1>2, <1>5 DEF Grants, Granted

\* Every step keeps the grants.
LEMMA GrantsKept == GrantInv /\ [Next]_vars => GrantInv'
<1>. SUFFICES ASSUME GrantInv, [Next]_vars PROVE Grants'
  BY Preserved DEF GrantInv
<1>. USE DEF GrantInv
<1>1. ASSUME NEW p \in Procs, NEW task \in Tasks, NEW paths \in PathSets, NEW mode \in Modes,
             NEW n \in Nonces, NEW from \in {NoLease} \cup held[p],
             AcquireCheck(p, task, paths, mode, from, n)
      PROVE  Grants'
  <2>1. held[p] \subseteq Lease  BY DEF IInv, TypeOK
  <2>. QED BY <1>1, <2>1, GrantsOfCheck
<1>2. ASSUME NEW p \in Procs, AcquireWrite(p) PROVE Grants'
  BY <1>2, GrantsOfWrite
<1>3. ASSUME NEW p \in Procs,
             \/ Construct(p) \/ Enter(p) \/ Refuse(p) \/ AcquireCreate(p)
             \/ \E l \in held[p] : Release(p, l) \/ ReleaseThrows(p, l)
             \/ Repair(p)
      PROVE  Grants'
  <2>1. disk' \subseteq disk /\ UNCHANGED pending
    BY <1>3 DEF Construct, Enter, Refuse, AcquireCreate, Release, ReleaseThrows,
       Repair, ReleaseRecovered
  <2>. QED BY <2>1, GrantsStay
<1>4. ASSUME NEW p \in Procs, Crash(p) PROVE Grants'
  <2>1. disk' \subseteq disk
        /\ \A q \in Procs : pending'[q] # NoLease => pending'[q] = pending[q]
    BY <1>4 DEF Crash, IInv, TypeOK
  <2>. QED BY <2>1, GrantsStay
<1>5. CASE UNCHANGED vars
  <2>1. disk' \subseteq disk /\ UNCHANGED pending  BY <1>5 DEF vars
  <2>. QED BY <2>1, GrantsStay
<1>. QED BY <1>1, <1>2, <1>3, <1>4, <1>5 DEF Next, Operate, Acquire

\* Grants hold at the start, where there is no lease.
LEMMA GrantsAtFirst == Init => GrantInv
BY Initially DEF Init, GrantInv, Grants

\* The scope of a scope is a scope.
LEMMA WithinIsTransitive ==
  ASSUME NEW p \in Seq(STRING), NEW q \in Seq(STRING), NEW r \in Seq(STRING),
         Within(p, q), Within(q, r)
  PROVE  Within(p, r)
<1>1. /\ Len(q) <= Len(p) /\ SubSeq(q, 1, Len(q)) = SubSeq(p, 1, Len(q))
      /\ Len(r) <= Len(q) /\ SubSeq(r, 1, Len(r)) = SubSeq(q, 1, Len(r))
  BY DEF Within, IsPrefix
<1>2. Len(p) \in Nat /\ Len(q) \in Nat /\ Len(r) \in Nat  OBVIOUS
<1>3. \A i \in 1..Len(q) : q[i] = p[i]
  <2>1. \A i \in 1..Len(q) : SubSeq(q, 1, Len(q))[i] = q[i] /\ SubSeq(p, 1, Len(q))[i] = p[i]
    BY <1>1, <1>2
  <2>. QED BY <1>1, <2>1
<1>4. SubSeq(q, 1, Len(r)) = SubSeq(p, 1, Len(r))
  <2>1. SubSeq(q, 1, Len(r)) = [i \in 1..Len(r) |-> q[i]]  BY <1>1, <1>2
  <2>2. SubSeq(p, 1, Len(r)) = [i \in 1..Len(r) |-> p[i]]  BY <1>1, <1>2
  <2>3. \A i \in 1..Len(r) : i \in 1..Len(q)  BY <1>1, <1>2
  <2>. QED BY <1>3, <2>1, <2>2, <2>3
<1>5. Len(r) <= Len(p)  BY <1>1, <1>2
<1>. QED BY <1>1, <1>4, <1>5 DEF Within, IsPrefix

\* recover accepts a path that a lease has below its parent's, and one that its
\* parent has over it.
LEMMA GrantIsForgiven ==
  ASSUME NEW l \in Lease, NEW c \in Lease, Compatible(c, l), Granted(c, l), Granted(l, c),
         c.parent # NoNonce /\ l.task = c.parentTask => l.nonce = c.parent,
         l.parent # NoNonce /\ c.task = l.parentTask => c.nonce = l.parent,
         \A p, q \in c.paths : Overlap(p, q) => p = q,
         l.task # c.task, NEW p \in c.paths, Conflicts(c.mode, {p}, l)
  PROVE  DelegatedOverlap(c, p, l)
<1>1. c.paths \subseteq Seq(STRING) /\ l.paths \subseteq Seq(STRING)
  BY SegmentsAreStrings DEF Lease
<1>2. l.nonce # NoNonce /\ c.nonce # NoNonce /\ l.task # NoTask
  BY LeaseIsNotNull, NullsAreNotValues DEF Lease
<1>3. PICK q \in l.paths : Overlap(p, q)  BY DEF Conflicts
<1>4. CASE c.parent = l.nonce \/ c.parentTask = l.task
  <2>1. c.parent # NoNonce /\ l.nonce = c.parent  BY <1>2, <1>4 DEF Granted
  <2>2. \E s \in l.paths : Within(p, s)  BY <2>1 DEF Granted, Inside
  <2>. QED BY <1>4, <2>2 DEF DelegatedOverlap
<1>5. CASE ~(c.parent = l.nonce \/ c.parentTask = l.task)
  <2>1. Conflicts(c.mode, c.paths, l)  BY DEF Conflicts
  <2>2. l.parent # NoNonce /\ c.task = l.parentTask
    BY <1>5, <2>1 DEF Compatible, DelegatedBy
  <2>3. \E s \in l.paths : Within(s, p)
    <3>1. CASE Within(q, p)  BY <3>1
    <3>2. CASE Within(p, q)
      <4>1. PICK s \in c.paths : Within(q, s)  BY <2>2 DEF Granted, Inside
      <4>2. Within(p, s)  BY <1>1, <3>2, <4>1, WithinIsTransitive
      <4>3. p = s  BY <4>2 DEF Overlap
      <4>. QED BY <4>1, <4>3
    <3>. QED BY <1>3, <3>1, <3>2 DEF Overlap
  <2>. QED BY <1>5, <2>2, <2>3 DEF DelegatedOverlap
<1>. QED BY <1>4, <1>5

\* What acquire grants, recover() accepts, in whatever order the random nonces
\* have it read the files.
THEOREM GrantsReadableHolds == Spec => []GrantsReadable
<1>1. ASSUME GrantInv, torn = {},
             \A c \in disk : c.parent # NoNonce => \E l \in disk : l.nonce = c.parent,
             \A l, c \in disk : l.task = c.task => l = c,
             \A l \in disk : \A p, q \in l.paths : Overlap(p, q) => p = q
      PROVE  Recoverable
  <2>1. disk \subseteq Lease /\ \A l, c \in disk : Compatible(c, l) /\ Granted(c, l)
    BY <1>1 DEF GrantInv, IInv, TypeOK, Exclusion, Grants
  <2>2. ASSUME NEW c \in disk, c.parent # NoNonce
        PROVE  \E l \in disk : /\ l.nonce = c.parent /\ l.task = c.parentTask
                               /\ l.task # c.task /\ Inside(c.paths, l.paths)
    <3>1. PICK l \in disk : l.nonce = c.parent  BY <1>1, <2>2
    <3>. QED BY <2>1, <2>2, <3>1 DEF Granted
  <2>3. ASSUME NEW l \in disk, NEW c \in disk, c.parent # NoNonce, l.task = c.parentTask
        PROVE  l.nonce = c.parent
    BY <1>1, <2>2, <2>3
  <2>4. ASSUME NEW l \in disk, NEW c \in disk, l.task # c.task, NEW p \in c.paths,
               Conflicts(c.mode, {p}, l)
        PROVE  DelegatedOverlap(c, p, l)
    <3>1. l \in Lease /\ c \in Lease /\ Compatible(c, l) /\ Granted(c, l) /\ Granted(l, c)
      BY <2>1
    <3>2. /\ c.parent # NoNonce /\ l.task = c.parentTask => l.nonce = c.parent
          /\ l.parent # NoNonce /\ c.task = l.parentTask => c.nonce = l.parent
      BY <2>3
    <3>. QED BY <1>1, <2>4, <3>1, <3>2, GrantIsForgiven
  <2>. QED BY <1>1, <2>2, <2>4 DEF Recoverable
<1>2. GrantInv => GrantsReadable  BY <1>1 DEF GrantsReadable
<1>. QED BY <1>2, GrantsAtFirst, GrantsKept, PTL DEF Spec

----------------------------------------------------------------------------
(***************************************************************************)
(* The scheduler (TaskScheduler).  Its invariant SchedulerInv says where   *)
(* each task is: in one queue, once, or in a slot, with a reservation at   *)
(* its owner's account, or over and counted there.  A handler is taken     *)
(* apart as the code is: a task moves (TaskMoves), its slot is taken or    *)
(* freed (SlotTaken, SlotFreed), and the drain starts what can start, one  *)
(* entry a turn (StartOneKeeps, DrainKeeps), until nothing can.            *)
(***************************************************************************)

Phases == {"idle", "queued", "spawning", "running", "stopping", "done", "leaked"}
Holding == {"spawning", "running", "stopping", "leaked"}
Over == {"done", "leaked"}
Outcomes == {"none", "value", "undefined", "rejected"}
Classes == {"blocking", "normal"}

IsState(s) == /\ DOMAIN s = {"queue", "phase", "out", "experts", "writers", "ledger"}
              /\ s.phase \in [Family -> Phases] /\ s.out \in [Family -> Outcomes]
              /\ s.ledger = [e \in Experts |-> s.ledger[e]]

\* What waits is queued, in the lane of its kind, and waits there once.
InQueue(s, l, p, i, t) == i \in 1..Len(s.queue[l][p]) /\ s.queue[l][p][i] = t
QueueTyped(s) ==
  /\ DOMAIN s.queue = Lanes
  /\ \A l \in Lanes : DOMAIN s.queue[l] = Classes /\ \A p \in Classes : s.queue[l][p] \in Seq(Family)
QueueOK(s) ==
  /\ QueueTyped(s)
  /\ \A l \in Lanes, p \in Classes, i \in Nat, t \in Family :
       InQueue(s, l, p, i, t) => s.phase[t] = "queued" /\ Lane(t) = l
  /\ \A l \in Lanes, p, q \in Classes, i, j \in Nat, t \in Family :
       InQueue(s, l, p, i, t) /\ InQueue(s, l, q, j, t) => p = q /\ i = j

\* Slots are counted, and writers are apart.
CapsOK(s) ==
  /\ s.experts = Cardinality(Active(s) \cap Experts) /\ s.experts <= MaxExperts
  /\ s.writers = Cardinality({t \in Active(s) : Writer(t)}) /\ s.writers <= MaxWriters
ApartOK(s) ==
  \A t, u \in Active(s) : t # u /\ Overlapping(t, u) => MayOverlap(t, u) \/ MayOverlap(u, t)

\* An expert has an account from its start on, which holds a budget for each of
\* its workers that runs and has counted those that are over.
Account(r) == /\ DOMAIN r = {"budget", "consumed", "reserved", "blocked"}
              /\ DOMAIN r.consumed = Dims /\ r.consumed["children"] \in Nat
Owner(t) == IF t \in Workers THEN Parent[t] ELSE t
Mine(e) == {w \in Workers : Parent[w] = e}
Valued(s, e) == {w \in Mine(e) : s.out[w] = "value"}
Ended(s, e) == {w \in Mine(e) : s.phase[w] \in Over}
Children(r) == r.consumed["children"]
LedgerOK(s) ==
  /\ \A e \in Experts : /\ s.ledger[e] # NoRecord => Account(s.ledger[e])
                        /\ s.phase[e] \in {"idle", "queued"} => s.ledger[e] = NoRecord
                        /\ s.phase[e] \in Holding => s.ledger[e] # NoRecord
  /\ \A w \in Workers : s.phase[w] # "idle" => s.ledger[Parent[w]] # NoRecord
  /\ \A w \in Workers : s.phase[w] # "leaked" /\ s.ledger[Parent[w]] # NoRecord =>
       (w \in DOMAIN s.ledger[Parent[w]].reserved <=> s.phase[w] \in Holding)
  /\ \A e \in Experts : s.ledger[e] # NoRecord =>
       /\ Cardinality(Valued(s, e)) <= Children(s.ledger[e])
       /\ Children(s.ledger[e]) <= Cardinality(Ended(s, e))
OutOK(s) == \A t \in Family : s.phase[t] \notin Over => s.out[t] = "none"

SlotsOK(s) == IsState(s) /\ QueueOK(s) /\ CapsOK(s) /\ ApartOK(s) /\ LedgerOK(s) /\ OutOK(s)

\* Of numbers there is a least.
LEMMA LeastNumber == ASSUME NEW T \in SUBSET Nat, T # {} PROVE \E n \in T : \A m \in T : n <= m
<1>1. \E x \in T : \A y \in T : ~ (<<y, x>> \in OpToRel(<, Nat))
  BY NatLessThanWellFounded, WFMin
<1>2. PICK x \in T : \A y \in T : ~ (<<y, x>> \in OpToRel(<, Nat))  BY <1>1
<1>3. \A y \in T : ~(y < x)  BY <1>2 DEF OpToRel
<1> QED BY <1>3

Steps == Cardinality(Family)
\* The bound of the drain is a number.
LEMMA StepsAreCounted == Steps \in Nat
BY FamilyIsFinite, FS_CardinalityType DEF Steps

\* What one more turn can lead to.
After(ys) == UNION {StartOne(y) : y \in ys}

UpTo(s, m, f) == f = [n \in 0..m |-> IF n = 0 THEN {s} ELSE After(f[n - 1])]

\* The turns of drain, one after the other: a function from 0 to m exists for
\* each m, or there were a least m without one.
LEMMA TurnsFollow ==
  ASSUME NEW s, NEW turns, turns = Turns(s)
  PROVE  /\ DOMAIN turns = 0..Steps /\ turns[0] = {s}
         /\ \A n \in 1..Steps : turns[n] = After(turns[n - 1])
<1> DEFINE Missing == {m \in Nat : ~ \E f : UpTo(s, m, f)}
<1>1. Missing = {}
  <2> SUFFICES ASSUME Missing # {} PROVE FALSE  OBVIOUS
  <2>1. PICK m \in Missing : \A k \in Missing : m <= k  BY LeastNumber
  <2>2. m \in Nat /\ ~ \E f : UpTo(s, m, f)  BY <2>1
  <2>3. CASE m = 0
    <3>1. PICK f : f = [n \in 0..0 |-> {s}]  OBVIOUS
    <3>2. f = [n \in 0..0 |-> IF n = 0 THEN {s} ELSE After(f[n - 1])]  BY <3>1
    <3> QED BY <2>2, <2>3, <3>2 DEF UpTo
  <2>4. CASE m # 0
    <3>1. m - 1 \in Nat /\ m - 1 \notin Missing
      <4>1. m - 1 \in Nat /\ ~(m <= m - 1)  BY <2>2, <2>4
      <4> QED BY <2>1, <4>1
    <3>2. PICK f : UpTo(s, m - 1, f)  BY <3>1
    <3>3. PICK g : g = [n \in 0..m |-> IF n = 0 THEN {s} ELSE After(f[n - 1])]  OBVIOUS
    <3>4. \A n \in 0..(m - 1) : f[n] = g[n]
      <4>1. \A n \in 0..(m - 1) : f[n] = IF n = 0 THEN {s} ELSE After(f[n - 1])  BY <3>2 DEF UpTo
      <4>2. \A n \in 0..(m - 1) : n \in 0..m  BY <2>2
      <4> QED BY <3>3, <4>1, <4>2
    <3>5. \A n \in 0..m : n # 0 => n - 1 \in 0..(m - 1)  BY <2>2
    <3>6. g = [n \in 0..m |-> IF n = 0 THEN {s} ELSE After(g[n - 1])]
      BY <3>3, <3>4, <3>5
    <3> QED BY <2>2, <3>6 DEF UpTo
  <2> QED BY <2>3, <2>4
<1>2. \E f : UpTo(s, Steps, f)  BY <1>1, StepsAreCounted
<1>3. turns = CHOOSE f : f = [n \in 0..Steps |-> IF n = 0 THEN {s} ELSE After(f[n - 1])]
  BY Zenon DEF Turns, Steps, After
<1>4. turns = [n \in 0..Steps |-> IF n = 0 THEN {s} ELSE After(turns[n - 1])]
  BY <1>2, <1>3, Zenon DEF UpTo
<1>5. 0 \in 0..Steps /\ \A n \in 1..Steps : n \in 0..Steps /\ n # 0  BY StepsAreCounted
<1> QED BY <1>4, <1>5

\* takeNext finds a lane that can start, if there is one.
LEMMA NextLaneStarts ==
  ASSUME NEW s, Startable(s) # {}
  PROVE  NextLane(s) \in Startable(s)
<1>1. /\ Startable(s) \subseteq {"expert", "writer", "read"}
      /\ \A l \in Lanes : PeekPriority(s, l) \in {"blocking", "normal"}
  BY DEF Startable, Lanes, PeekPriority
<1>2. PICK prio : prio = [l \in Lanes |-> PeekPriority(s, l)]  OBVIOUS
<1>3. \A l \in Lanes : prio[l] \in {"blocking", "normal"} /\ PeekPriority(s, l) = prio[l]
  BY <1>1, <1>2
<1>4. \A l, m \in Lanes : Before(s, l, m) <=>
        \/ prio[l] = "blocking" /\ prio[m] = "normal"
        \/ prio[l] = prio[m] /\ (l = m \/ l = "expert" \/ (l = "writer" /\ m = "read"))
  <2> SUFFICES ASSUME NEW l \in Lanes, NEW m \in Lanes
               PROVE  (\E i, j \in 1..3 : i <= j /\ Order[i] = l /\ Order[j] = m) <=>
                        (l = m \/ l = "expert" \/ (l = "writer" /\ m = "read"))
    BY <1>3 DEF Before
  <2>1. Order[1] = "expert" /\ Order[2] = "writer" /\ Order[3] = "read"  BY DEF Order
  <2>2. 1..3 = {1, 2, 3}  OBVIOUS
  <2> QED BY <2>1, <2>2 DEF Lanes
<1>5. \E l \in Startable(s) : \A m \in Startable(s) : Before(s, l, m)
  BY <1>1, <1>3, <1>4, SMTT(30) DEF Lanes
<1> QED BY <1>5 DEF NextLane

\* Where an entry was before one at k was taken out.
Source(k, i) == IF i < k THEN i ELSE i + 1

\* Entries keep their order when one is taken out.
LEMMA SourcesDiffer ==
  ASSUME NEW k \in Nat, NEW i \in Nat, NEW j \in Nat
  PROVE  /\ Source(k, i) \in Nat /\ Source(k, i) # k
         /\ Source(k, i) = Source(k, j) => i = j
BY DEF Source

\* Of each queue one entry, at the cut, is taken out, and the task there is no
\* longer queued; a cut behind the last entry takes none out.
LEMMA QueueShrinks ==
  ASSUME NEW s, NEW x, QueueOK(s), QueueTyped(x), NEW t0 \in Family, NEW ph,
         DOMAIN s.phase = Family, x.phase = [s.phase EXCEPT ![t0] = ph],
         NEW cut \in [Lanes -> [Classes -> Nat]],
         \A l \in Lanes, p \in Classes, i \in Nat, t \in Family :
           InQueue(x, l, p, i, t) => InQueue(s, l, p, Source(cut[l][p], i), t),
         \A l \in Lanes, p \in Classes, i \in Nat : InQueue(s, l, p, i, t0) => cut[l][p] = i
  PROVE  QueueOK(x)
<1>1. \A l \in Lanes, p \in Classes : cut[l][p] \in Nat  OBVIOUS
<1>2. ASSUME NEW l \in Lanes, NEW p \in Classes, NEW i \in Nat, NEW t \in Family, InQueue(x, l, p, i, t)
      PROVE  x.phase[t] = "queued" /\ Lane(t) = l
  <2>0. PICK k \in Nat : k = cut[l][p]  BY <1>1
  <2>1. PICK j \in Nat : j = Source(k, i) /\ j # k  BY SourcesDiffer
  <2>2. InQueue(s, l, p, j, t)  BY <1>2, <2>0, <2>1
  <2>3. t # t0  BY <2>0, <2>1, <2>2
  <2>4. s.phase[t] = "queued" /\ Lane(t) = l  BY <2>2 DEF QueueOK
  <2> QED BY <2>3, <2>4
<1>3. ASSUME NEW l \in Lanes, NEW p \in Classes, NEW q \in Classes, NEW i \in Nat, NEW j \in Nat,
             NEW t \in Family, InQueue(x, l, p, i, t), InQueue(x, l, q, j, t)
      PROVE  p = q /\ i = j
  <2>0. PICK k \in Nat, m \in Nat : k = cut[l][p] /\ m = cut[l][q]  BY <1>1
  <2>1. PICK a \in Nat, b \in Nat : a = Source(k, i) /\ b = Source(m, j)
    BY SourcesDiffer
  <2>2. InQueue(s, l, p, a, t) /\ InQueue(s, l, q, b, t)  BY <1>3, <2>0, <2>1
  <2>3. p = q /\ a = b  BY <2>2 DEF QueueOK
  <2>4. k = m  BY <2>0, <2>3
  <2> QED BY <2>1, <2>3, <2>4, SourcesDiffer
<1> QED BY <1>2, <1>3 DEF QueueOK

\* A task that is not queued may move on.
LEMMA QueueStays ==
  ASSUME NEW s, NEW x, QueueOK(s), x.queue = s.queue, NEW t0 \in Family, NEW ph,
         DOMAIN s.phase = Family, x.phase = [s.phase EXCEPT ![t0] = ph], s.phase[t0] # "queued"
  PROVE  QueueOK(x)
<1>1. \A l \in Lanes, p \in Classes, i \in Nat, t \in Family :
        InQueue(x, l, p, i, t) => InQueue(s, l, p, i, t) /\ t # t0
  BY DEF QueueOK, InQueue
<1>2. QueueTyped(x)  BY DEF QueueOK, QueueTyped
<1> QED BY <1>1, <1>2 DEF QueueOK

\* A task is queued at the end of a queue of its lane.
LEMMA QueueGrows ==
  ASSUME NEW s, NEW x, QueueOK(s), NEW t0 \in Family, NEW p0 \in Classes, s.phase[t0] = "idle",
         DOMAIN s.phase = Family, x.phase = [s.phase EXCEPT ![t0] = "queued"],
         x.queue = [s.queue EXCEPT ![Lane(t0)][p0] = Append(s.queue[Lane(t0)][p0], t0)]
  PROVE  QueueOK(x)
<1>1. PICK l0 \in Lanes : l0 = Lane(t0)  BY DEF Lane, Lanes
<1>2. PICK old \in Seq(Family) : old = s.queue[l0][p0]  BY DEF QueueOK, QueueTyped
<1>3. /\ Append(old, t0) \in Seq(Family) /\ Len(Append(old, t0)) = Len(old) + 1 /\ Len(old) \in Nat
      /\ \A i \in 1..Len(old) : Append(old, t0)[i] = old[i]
      /\ Append(old, t0)[Len(old) + 1] = t0
  BY AppendProperties, LenProperties
<1>4. QueueTyped(s)  BY DEF QueueOK
<1>5. /\ DOMAIN x.queue = Lanes /\ \A l \in Lanes : DOMAIN x.queue[l] = Classes
      /\ x.queue[l0][p0] = Append(old, t0)
      /\ \A l \in Lanes, p \in Classes : l # l0 \/ p # p0 => x.queue[l][p] = s.queue[l][p]
  BY <1>1, <1>2, <1>4 DEF QueueTyped
<1>6. QueueTyped(x)
  <2>1. ASSUME NEW l \in Lanes, NEW p \in Classes PROVE x.queue[l][p] \in Seq(Family)
    <3>1. CASE l = l0 /\ p = p0  BY <1>3, <1>5, <3>1
    <3>2. CASE l # l0 \/ p # p0  BY <1>4, <1>5, <3>2 DEF QueueTyped
    <3> QED BY <3>1, <3>2
  <2> QED BY <1>5, <2>1 DEF QueueTyped
<1>7. ASSUME NEW l \in Lanes, NEW p \in Classes, NEW i \in Nat, NEW t \in Family, InQueue(x, l, p, i, t)
      PROVE  \/ InQueue(s, l, p, i, t) /\ t # t0
             \/ l = l0 /\ p = p0 /\ i = Len(old) + 1 /\ t = t0
  <2>1. CASE l = l0 /\ p = p0
    <3>1. i \in 1..(Len(old) + 1) /\ Append(old, t0)[i] = t  BY <1>3, <1>5, <1>7, <2>1 DEF InQueue
    <3>2. CASE i = Len(old) + 1  BY <1>3, <2>1, <3>1, <3>2
    <3>3. CASE i # Len(old) + 1
      <4>1. i \in 1..Len(old) /\ old[i] = t  BY <1>3, <3>1, <3>3
      <4>2. InQueue(s, l, p, i, t)  BY <1>2, <2>1, <4>1 DEF InQueue
      <4> QED BY <4>2 DEF QueueOK
    <3> QED BY <3>2, <3>3
  <2>2. CASE l # l0 \/ p # p0
    <3>0. x.queue[l][p] = s.queue[l][p]  BY <1>5, <2>2
    <3>1. InQueue(s, l, p, i, t)  BY <1>7, <3>0 DEF InQueue
    <3> QED BY <3>1 DEF QueueOK
  <2> QED BY <2>1, <2>2
<1>8. ASSUME NEW l \in Lanes, NEW p \in Classes, NEW i \in Nat, NEW t \in Family, InQueue(x, l, p, i, t)
      PROVE  x.phase[t] = "queued" /\ Lane(t) = l
  BY <1>1, <1>7, <1>8 DEF QueueOK
<1>9. ASSUME NEW l \in Lanes, NEW p \in Classes, NEW q \in Classes, NEW i \in Nat, NEW j \in Nat,
             NEW t \in Family, InQueue(x, l, p, i, t), InQueue(x, l, q, j, t)
      PROVE  p = q /\ i = j
  <2>1. CASE t = t0  BY <1>7, <1>9, <2>1
  <2>2. CASE t # t0
    <3>1. InQueue(s, l, p, i, t) /\ InQueue(s, l, q, j, t)  BY <1>7, <1>9, <2>2
    <3> QED BY <3>1 DEF QueueOK
  <2> QED BY <2>1, <2>2
<1> QED BY <1>6, <1>8, <1>9 DEF QueueOK

\* The head of a lane is taken.
LEMMA HeadIsQueued ==
  ASSUME NEW s, QueueOK(s), NEW l \in Startable(s), NEW p, NEW t,
         p = PeekPriority(s, l), t = LaneHead(s, l)
  PROVE  /\ l \in Lanes /\ p \in Classes /\ s.queue[l][p] \in Seq(Family) /\ s.queue[l][p] # <<>>
         /\ t \in Family /\ InQueue(s, l, p, 1, t) /\ s.phase[t] = "queued" /\ Lane(t) = l
         /\ CanStart(s, t)
<1>1. /\ l \in Lanes /\ p \in Classes /\ CanStart(s, t)
  BY DEF Startable, PeekPriority, Classes
<1>2. PICK q \in Seq(Family) : q = s.queue[l][p]  BY <1>1 DEF QueueOK, QueueTyped
<1>3. q # <<>> /\ t = Head(q)  BY <1>2 DEF Startable, Waiting, LaneHead
<1>4. Head(q) \in Family /\ Head(q) = q[1] /\ Len(q) \in Nat /\ Len(q) # 0
  <2>1. q # <<>>  BY <1>3
  <2>2. Len(q) \in Nat /\ Len(q) # 0  BY <2>1, EmptySeq, LenProperties
  <2>3. Head(q) \in Family  BY <2>1, HeadTailProperties
  <2>4. Head(q) = q[1]  BY <2>1
  <2> QED BY <2>2, <2>3, <2>4, Zenon
<1>5. InQueue(s, l, p, 1, t)
  <2>1. 1 \in 1..Len(q)  BY <1>4
  <2>2. q[1] = t  BY <1>3, <1>4, Zenon
  <2> QED BY <1>2, <2>1, <2>2, Zenon DEF InQueue
<1>6. t \in Family  BY <1>3, <1>4, Zenon
<1>7. s.phase[t] = "queued" /\ Lane(t) = l
  <2>1. 1 \in Nat  OBVIOUS
  <2> QED BY <1>1, <1>5, <1>6, <2>1 DEF QueueOK
<1> QED BY <1>1, <1>2, <1>3, <1>5, <1>6, <1>7, Zenon

Takes(s, x, l, p, t, ph) ==
  /\ l \in Startable(s) /\ p = PeekPriority(s, l) /\ t = LaneHead(s, l)
  /\ DOMAIN s.phase = Family /\ x.phase = [s.phase EXCEPT ![t] = ph]
  /\ x.queue = [s.queue EXCEPT ![l][p] = Tail(s.queue[l][p])]

\* takeNext takes the head of the lane it found.
LEMMA QueueTakes ==
  ASSUME NEW s, NEW x, QueueOK(s), NEW l, NEW p, NEW t0, NEW ph, Takes(s, x, l, p, t0, ph)
  PROVE  QueueOK(x)
<1>0. /\ l \in Startable(s) /\ p = PeekPriority(s, l) /\ t0 = LaneHead(s, l)
      /\ DOMAIN s.phase = Family /\ x.phase = [s.phase EXCEPT ![t0] = ph]
      /\ x.queue = [s.queue EXCEPT ![l][p] = Tail(s.queue[l][p])]
  BY DEF Takes
<1>1. /\ l \in Lanes /\ p \in Classes /\ s.queue[l][p] \in Seq(Family) /\ s.queue[l][p] # <<>>
      /\ t0 \in Family /\ InQueue(s, l, p, 1, t0)
  BY <1>0, HeadIsQueued
<1>2. PICK old \in Seq(Family) : old = s.queue[l][p] /\ old # <<>>  BY <1>1
<1>3. /\ Tail(old) \in Seq(Family) /\ Len(Tail(old)) = Len(old) - 1 /\ Len(old) \in Nat
      /\ \A i \in 1..Len(Tail(old)) : Tail(old)[i] = old[i + 1]
  BY <1>2, HeadTailProperties, LenProperties
<1>4. QueueTyped(s)  BY DEF QueueOK
<1>5. /\ DOMAIN x.queue = Lanes /\ \A m \in Lanes : DOMAIN x.queue[m] = Classes
      /\ x.queue[l][p] = Tail(old)
      /\ \A m \in Lanes, q \in Classes : m # l \/ q # p => x.queue[m][q] = s.queue[m][q]
  BY <1>0, <1>1, <1>2, <1>4 DEF QueueTyped
<1>6. QueueTyped(x)
  <2>1. ASSUME NEW m \in Lanes, NEW q \in Classes PROVE x.queue[m][q] \in Seq(Family)
    <3>1. CASE m = l /\ q = p  BY <1>3, <1>5, <3>1
    <3>2. CASE m # l \/ q # p  BY <1>4, <1>5, <3>2 DEF QueueTyped
    <3> QED BY <3>1, <3>2
  <2> QED BY <1>5, <2>1 DEF QueueTyped
<1>7. PICK cut : cut = [m \in Lanes |-> [q \in Classes |->
                         IF m = l /\ q = p THEN 1 ELSE Len(s.queue[m][q]) + 1]]
  OBVIOUS
<1>8. \A m \in Lanes, q \in Classes : Len(s.queue[m][q]) \in Nat
  BY <1>4, LenProperties DEF QueueTyped
<1>9. /\ cut \in [Lanes -> [Classes -> Nat]] /\ cut[l][p] = 1
      /\ \A m \in Lanes, q \in Classes : m # l \/ q # p => cut[m][q] = Len(s.queue[m][q]) + 1
  BY <1>1, <1>7, <1>8
<1>10. ASSUME NEW m \in Lanes, NEW q \in Classes, NEW i \in Nat, NEW t \in Family, InQueue(x, m, q, i, t)
       PROVE  InQueue(s, m, q, Source(cut[m][q], i), t)
  <2>1. CASE m = l /\ q = p
    <3>1. i \in 1..Len(Tail(old)) /\ Tail(old)[i] = t  BY <1>5, <1>10, <2>1 DEF InQueue
    <3>2. Source(cut[m][q], i) = i + 1  BY <1>9, <2>1, <3>1 DEF Source
    <3>3. i + 1 \in 1..Len(old) /\ old[i + 1] = t  BY <1>3, <3>1
    <3> QED BY <1>2, <2>1, <3>2, <3>3 DEF InQueue
  <2>2. CASE m # l \/ q # p
    <3>1. InQueue(s, m, q, i, t)  BY <1>5, <1>10, <2>2 DEF InQueue
    <3>2. i < cut[m][q]  BY <1>8, <1>9, <2>2, <3>1 DEF InQueue
    <3> QED BY <3>1, <3>2 DEF Source
  <2> QED BY <2>1, <2>2
<1>11. \A m \in Lanes, q \in Classes, i \in Nat : InQueue(s, m, q, i, t0) => cut[m][q] = i
  <2> SUFFICES ASSUME NEW m \in Lanes, NEW q \in Classes, NEW i \in Nat, InQueue(s, m, q, i, t0)
               PROVE  cut[m][q] = i
    OBVIOUS
  <2>1. m = l  BY <1>1 DEF QueueOK
  <2>2. q = p /\ i = 1  BY <1>1, <2>1 DEF QueueOK
  <2> QED BY <1>9, <2>1, <2>2
<1> QED BY <1>0, <1>1, <1>6, <1>9, <1>10, <1>11, QueueShrinks

\* What remains of a queue that a task is removed from.
LEMMA RemoveFirstIs ==
  ASSUME NEW old \in Seq(Family), NEW t
  PROVE  \E k \in Nat :
           /\ RemoveFirst(old, t) \in Seq(Family)
           /\ \A i \in 1..Len(RemoveFirst(old, t)) :
                Source(k, i) \in 1..Len(old) /\ RemoveFirst(old, t)[i] = old[Source(k, i)]
           /\ (\E j \in 1..Len(old) : old[j] = t) => k \in 1..Len(old) /\ old[k] = t
<1>1. PICK n \in Nat : n = Len(old)  BY LenProperties
<1>2. CASE ~ \E j \in 1..Len(old) : old[j] = t
  <2>1. RemoveFirst(old, t) = old  BY <1>2 DEF RemoveFirst
  <2>2. PICK k \in Nat : k = n + 1  OBVIOUS
  <2>3. \A i \in 1..Len(old) : Source(k, i) \in 1..Len(old) /\ old[i] = old[Source(k, i)]
    BY <1>1, <2>2 DEF Source
  <2>4. /\ RemoveFirst(old, t) \in Seq(Family)
        /\ \A i \in 1..Len(RemoveFirst(old, t)) :
             Source(k, i) \in 1..Len(old) /\ RemoveFirst(old, t)[i] = old[Source(k, i)]
    BY <2>1, <2>3
  <2> QED BY <1>2, <2>4
<1>3. CASE \E j \in 1..Len(old) : old[j] = t
  <2>1. PICK I : I = {i \in 1..n : old[i] = t}  OBVIOUS
  <2>2. I \in SUBSET Nat /\ I # {}  BY <1>1, <1>3, <2>1
  <2>3. \E k \in I : \A i \in I : k <= i  BY <2>2, LeastNumber
  <2>4. PICK k : k = Min(I)  OBVIOUS
  <2>5. k \in I  BY <2>3, <2>4, Zenon DEF Min
  <2>6. k \in 1..n /\ old[k] = t  BY <2>1, <2>5
  <2>7. RemoveFirst(old, t) = SubSeq(old, 1, k - 1) \o SubSeq(old, k + 1, n)
    <3>1. SelectInSeq(old, LAMBDA v : v = t) = k
      BY <1>1, <2>1, <2>2, <2>4, Zenon DEF SelectInSeq
    <3> QED BY <1>1, <1>3, <3>1, Zenon DEF RemoveFirst, RemoveAt
  <2>8. /\ SubSeq(old, 1, k - 1) \in Seq(Family) /\ Len(SubSeq(old, 1, k - 1)) = k - 1
        /\ \A i \in 1..(k - 1) : SubSeq(old, 1, k - 1)[i] = old[i]
    <3>1. \A i \in 1..(k - 1) : old[i] \in Family  BY <1>1, <2>6
    <3> QED BY <2>6, <3>1, SubSeqProperties
  <2>9. /\ SubSeq(old, k + 1, n) \in Seq(Family) /\ Len(SubSeq(old, k + 1, n)) = n - k
        /\ \A i \in 1..(n - k) : SubSeq(old, k + 1, n)[i] = old[k + i]
    <3>1. \A i \in (k + 1)..n : old[i] \in Family  BY <1>1, <2>6
    <3>2. k + 1 \in Int /\ n \in Int /\ (k + 1 <= n => n - (k + 1) + 1 = n - k)
          /\ (~(k + 1 <= n) => 0 = n - k) /\ n - (k + 1) + 1 = n - k
      BY <2>6
    <3>3. /\ SubSeq(old, k + 1, n) \in Seq(Family)
          /\ Len(SubSeq(old, k + 1, n)) = IF k + 1 <= n THEN n - (k + 1) + 1 ELSE 0
          /\ \A i \in 1..(n - (k + 1) + 1) : SubSeq(old, k + 1, n)[i] = old[(k + 1) + i - 1]
      BY <3>1, <3>2, SubSeqProperties
    <3>4. \A i \in 1..(n - k) : (k + 1) + i - 1 = k + i  BY <2>6
    <3> QED BY <3>2, <3>3, <3>4
  <2>10. PICK left, right, rest :
           /\ left = SubSeq(old, 1, k - 1) /\ right = SubSeq(old, k + 1, n)
           /\ rest = left \o right
    OBVIOUS
  <2>11. /\ rest \in Seq(Family) /\ Len(rest) = (k - 1) + (n - k)
         /\ \A i \in 1..((k - 1) + (n - k)) : rest[i] = IF i <= k - 1 THEN left[i] ELSE right[i - (k - 1)]
    <3>1. left \in Seq(Family) /\ right \in Seq(Family) /\ Len(left) = k - 1 /\ Len(right) = n - k
      BY <2>8, <2>9, <2>10
    <3>2. /\ rest \in Seq(Family) /\ Len(rest) = Len(left) + Len(right)
          /\ \A i \in 1..(Len(left) + Len(right)) :
               rest[i] = IF i <= Len(left) THEN left[i] ELSE right[i - Len(left)]
      BY <2>10, <3>1, ConcatProperties
    <3> QED BY <3>1, <3>2
  <2>12. ASSUME NEW i \in 1..Len(rest)
         PROVE  Source(k, i) \in 1..n /\ rest[i] = old[Source(k, i)]
    <3>0. i \in 1..((k - 1) + (n - k))  BY <2>11
    <3>1. CASE i < k
      <4>1. i <= k - 1 /\ i \in 1..(k - 1)  BY <2>6, <3>0, <3>1
      <4> QED BY <2>6, <2>8, <2>10, <2>11, <3>0, <3>1, <4>1 DEF Source
    <3>2. CASE ~(i < k)
      <4>1. ~(i <= k - 1) /\ i - (k - 1) \in 1..(n - k) /\ k + (i - (k - 1)) = i + 1 /\ i + 1 \in 1..n
        BY <2>6, <3>0, <3>2
      <4>2. rest[i] = old[i + 1]  BY <2>9, <2>10, <2>11, <3>0, <4>1
      <4> QED BY <3>2, <4>1, <4>2 DEF Source
    <3> QED BY <3>1, <3>2
  <2>13. RemoveFirst(old, t) = rest /\ k \in Nat  BY <2>6, <2>7, <2>10
  <2>14. /\ RemoveFirst(old, t) \in Seq(Family)
         /\ \A i \in 1..Len(RemoveFirst(old, t)) :
              Source(k, i) \in 1..Len(old) /\ RemoveFirst(old, t)[i] = old[Source(k, i)]
    BY <1>1, <2>11, <2>12, <2>13
  <2> QED BY <1>1, <2>6, <2>13, <2>14
<1> QED BY <1>2, <1>3

\* A task is removed from the queues of its lane.
LEMMA QueueRemoves ==
  ASSUME NEW s, NEW x, QueueOK(s), NEW t0 \in Family, NEW ph,
         DOMAIN s.phase = Family, x.phase = [s.phase EXCEPT ![t0] = ph],
         x.queue = [s.queue EXCEPT ![Lane(t0)] =
                      [p \in DOMAIN s.queue[Lane(t0)] |-> RemoveFirst(s.queue[Lane(t0)][p], t0)]]
  PROVE  QueueOK(x)
<1>1. PICK l0 \in Lanes : l0 = Lane(t0)  BY DEF Lane, Lanes
<1>2. QueueTyped(s)  BY DEF QueueOK
<1>3. /\ DOMAIN x.queue = Lanes /\ \A l \in Lanes : DOMAIN x.queue[l] = Classes
      /\ \A p \in Classes : x.queue[l0][p] = RemoveFirst(s.queue[l0][p], t0)
      /\ \A l \in Lanes, p \in Classes : l # l0 => x.queue[l][p] = s.queue[l][p]
  BY <1>1, <1>2 DEF QueueTyped
<1>4. ASSUME NEW l \in Lanes, NEW p \in Classes
      PROVE  \E k \in Nat :
               /\ x.queue[l][p] \in Seq(Family)
               /\ \A i \in 1..Len(x.queue[l][p]) :
                    /\ Source(k, i) \in 1..Len(s.queue[l][p])
                    /\ x.queue[l][p][i] = s.queue[l][p][Source(k, i)]
               /\ \A j \in Nat : InQueue(s, l, p, j, t0) => k = j
  <2>1. PICK old \in Seq(Family) : old = s.queue[l][p]  BY <1>2 DEF QueueTyped
  <2>2. CASE l = l0
    <3>0. PICK new : new = RemoveFirst(old, t0)  OBVIOUS
    <3>1. PICK k \in Nat :
             /\ new \in Seq(Family)
             /\ \A i \in 1..Len(new) : Source(k, i) \in 1..Len(old) /\ new[i] = old[Source(k, i)]
             /\ (\E j \in 1..Len(old) : old[j] = t0) => k \in 1..Len(old) /\ old[k] = t0
      <4>1. \E k \in Nat :
              /\ RemoveFirst(old, t0) \in Seq(Family)
              /\ \A i \in 1..Len(RemoveFirst(old, t0)) :
                   Source(k, i) \in 1..Len(old) /\ RemoveFirst(old, t0)[i] = old[Source(k, i)]
              /\ (\E j \in 1..Len(old) : old[j] = t0) => k \in 1..Len(old) /\ old[k] = t0
        BY RemoveFirstIs
      <4> QED BY <3>0, <4>1, Zenon
    <3>2. ASSUME NEW j \in Nat, InQueue(s, l, p, j, t0) PROVE k = j
      <4>1. InQueue(s, l, p, k, t0)  BY <2>1, <3>1, <3>2 DEF InQueue
      <4> QED BY <3>2, <4>1 DEF QueueOK
    <3>3. x.queue[l][p] = new  BY <1>3, <2>1, <2>2, <3>0
    <3> QED BY <2>1, <3>1, <3>2, <3>3
  <2>3. CASE l # l0
    <3>1. PICK n \in Nat, k \in Nat : n = Len(old) /\ k = n + 1  BY LenProperties
    <3>2. \A i \in 1..Len(old) : Source(k, i) \in 1..Len(old) /\ old[i] = old[Source(k, i)]
      BY <3>1 DEF Source
    <3>3. \A j \in Nat : ~InQueue(s, l, p, j, t0)  BY <1>1, <2>3 DEF QueueOK
    <3>4. x.queue[l][p] = old  BY <1>3, <2>1, <2>3
    <3>5. \A j \in Nat : InQueue(s, l, p, j, t0) => k = j  BY <3>3
    <3>6. /\ x.queue[l][p] \in Seq(Family)
          /\ \A i \in 1..Len(x.queue[l][p]) :
               /\ Source(k, i) \in 1..Len(s.queue[l][p])
               /\ x.queue[l][p][i] = s.queue[l][p][Source(k, i)]
      BY <2>1, <3>2, <3>4
    <3> QED BY <3>5, <3>6
  <2> QED BY <2>2, <2>3
<1>5. PICK cut : cut = [l \in Lanes |-> [p \in Classes |-> CHOOSE k \in Nat :
               /\ x.queue[l][p] \in Seq(Family)
               /\ \A i \in 1..Len(x.queue[l][p]) :
                    /\ Source(k, i) \in 1..Len(s.queue[l][p])
                    /\ x.queue[l][p][i] = s.queue[l][p][Source(k, i)]
               /\ \A j \in Nat : InQueue(s, l, p, j, t0) => k = j]]
  OBVIOUS
<1>6. \A l \in Lanes, p \in Classes :
        /\ cut[l][p] \in Nat /\ x.queue[l][p] \in Seq(Family)
        /\ \A i \in 1..Len(x.queue[l][p]) :
             /\ Source(cut[l][p], i) \in 1..Len(s.queue[l][p])
             /\ x.queue[l][p][i] = s.queue[l][p][Source(cut[l][p], i)]
        /\ \A j \in Nat : InQueue(s, l, p, j, t0) => cut[l][p] = j
  BY <1>4, <1>5, Zenon
<1>7. cut \in [Lanes -> [Classes -> Nat]]  BY <1>5, <1>6
<1>8. QueueTyped(x)  BY <1>3, <1>6 DEF QueueTyped
<1>9. \A l \in Lanes, p \in Classes, i \in Nat, t \in Family :
        InQueue(x, l, p, i, t) => InQueue(s, l, p, Source(cut[l][p], i), t)
  <2> SUFFICES ASSUME NEW l \in Lanes, NEW p \in Classes, NEW i \in Nat, NEW t \in Family,
                      InQueue(x, l, p, i, t)
               PROVE  InQueue(s, l, p, Source(cut[l][p], i), t)
    OBVIOUS
  <2>1. i \in 1..Len(x.queue[l][p]) /\ x.queue[l][p][i] = t  BY DEF InQueue
  <2>2. /\ Source(cut[l][p], i) \in 1..Len(s.queue[l][p])
        /\ x.queue[l][p][i] = s.queue[l][p][Source(cut[l][p], i)]
    <3>1. \A j \in 1..Len(x.queue[l][p]) :
            /\ Source(cut[l][p], j) \in 1..Len(s.queue[l][p])
            /\ x.queue[l][p][j] = s.queue[l][p][Source(cut[l][p], j)]
      BY <1>6, Zenon
    <3> QED BY <2>1, <3>1, Zenon
  <2> QED BY <2>1, <2>2 DEF InQueue
<1> QED BY <1>6, <1>7, <1>8, <1>9, QueueShrinks

\* Accounts, and what is done to them.
LEMMA AccountIsRecord == ASSUME NEW r, Account(r) PROVE r # NoRecord
<1>1. DOMAIN NoRecord = {"blocked"}  BY DEF NoRecord
<1>2. "budget" \in DOMAIN r  BY DEF Account
<1> QED BY <1>1, <1>2

\* register: nothing is held or counted yet.
LEMMA NewAccount ==
  ASSUME NEW b, NEW r, r = NewRecord(b)
  PROVE  Account(r) /\ Children(r) = 0 /\ DOMAIN r.reserved = {}
<1>1. /\ DOMAIN r = {"budget", "consumed", "reserved", "blocked"}
      /\ r.consumed = [d \in Dims |-> 0] /\ DOMAIN r.reserved = {}
  BY DEF NewRecord, Zero
<1> QED BY <1>1, ChildrenAreMetered DEF Account, Children

LEMMA AccountReserves ==
  ASSUME NEW r, Account(r), NEW c, NEW b, NEW x, x = Reserved(r, c, b)
  PROVE  Account(x) /\ Children(x) = Children(r) /\ DOMAIN x.reserved = DOMAIN r.reserved \cup {c}
BY DEF Account, Children, Reserved

LEMMA AccountFrees ==
  ASSUME NEW r, Account(r), NEW c, NEW x, x = Unreserved(r, c)
  PROVE  Account(x) /\ Children(x) = Children(r) /\ DOMAIN x.reserved = DOMAIN r.reserved \ {c}
BY DEF Account, Children, Unreserved

LEMMA AccountBlocks ==
  ASSUME NEW r, Account(r), NEW x, x = Blocked(r)
  PROVE  Account(x) /\ Children(x) = Children(r) /\ x.reserved = r.reserved
BY DEF Account, Children, Blocked

LEMMA AccountConsumes ==
  ASSUME NEW r, Account(r), NEW c, NEW u \in Amounts, NEW x, x = Consumed(r, c, u)
  PROVE  Account(x) /\ Children(x) = Children(r) + 1 /\ DOMAIN x.reserved = DOMAIN r.reserved \ {c}
<1>1. PICK y : y = Unreserved(r, c)  OBVIOUS
<1>2. Account(y) /\ Children(y) = Children(r) /\ DOMAIN y.reserved = DOMAIN r.reserved \ {c}
  BY <1>1, AccountFrees
<1>3. PICK v, sum : v = [u EXCEPT !["children"] = 1] /\ sum = Add(y.consumed, v)  OBVIOUS
<1>4. v["children"] = 1  BY <1>3, ChildrenAreMetered DEF Amounts
<1>5. DOMAIN sum = Dims /\ sum["children"] = y.consumed["children"] + 1
  BY <1>3, <1>4, ChildrenAreMetered DEF Add
<1>6. x = [y EXCEPT !.consumed = sum]  BY <1>1, <1>3 DEF Consumed
<1>7. x.consumed = sum /\ x.reserved = y.reserved /\ DOMAIN x = DOMAIN y  BY <1>2, <1>6 DEF Account
<1> QED BY <1>2, <1>5, <1>7 DEF Account, Children

LEMMA AccountRecords ==
  ASSUME NEW r, Account(r), NEW u \in Amounts, NEW x, x = Recorded(r, [u EXCEPT !["children"] = 0])
  PROVE  Account(x) /\ Children(x) = Children(r) /\ x.reserved = r.reserved
<1>1. PICK v, sum, b : /\ v = [u EXCEPT !["children"] = 0] /\ sum = Add(r.consumed, v)
                       /\ b = (r.blocked \/ ~AtMost(v, Remaining(r)))
  OBVIOUS
<1>2. v["children"] = 0  BY <1>1, ChildrenAreMetered DEF Amounts
<1>3. DOMAIN sum = Dims /\ sum["children"] = r.consumed["children"] + 0
  BY <1>1, <1>2, ChildrenAreMetered DEF Add
<1>4. x = [r EXCEPT !.consumed = sum, !.blocked = b]  BY <1>1 DEF Recorded
<1>5. x.consumed = sum /\ x.reserved = r.reserved /\ DOMAIN x = DOMAIN r  BY <1>4 DEF Account
<1> QED BY <1>3, <1>5 DEF Account, Children

\* Who is whose.
LEMMA Families ==
  /\ \A t \in Workers : Parent[t] \in Experts /\ t \in Family /\ t \notin Experts
  /\ \A t \in Experts : t \in Family /\ t \notin Workers
  /\ \A t \in Family : t \in Workers \/ t \in Experts
  /\ \A t \in Family : Owner(t) \in Experts
  /\ \A e \in Experts : IsFiniteSet(Mine(e))
<1>1. \A e \in Experts : Mine(e) \subseteq Family  BY DEF Mine, Family
<1>2. \A e \in Experts : IsFiniteSet(Mine(e))  BY <1>1, FamilyIsFinite, FS_Subset
<1> QED BY <1>2, FamiliesAreDisjoint DEF Family, Owner

\* A step moves one task, and its owner's account.
Moves(s, x, t, ph, o, r) ==
  /\ DOMAIN x = DOMAIN s /\ x.phase = [s.phase EXCEPT ![t] = ph] /\ x.out = [s.out EXCEPT ![t] = o]
  /\ x.ledger = [s.ledger EXCEPT ![Owner(t)] = r]

\* What happens to its owner's account when a task moves on: an expert's begins
\* with it, a worker's hold comes and goes with its slot, and one child may be
\* charged when a worker is over.
Pays(t, old, r, ph, o) ==
  /\ r # NoRecord => Account(r)
  /\ old # NoRecord => r # NoRecord
  /\ t \in Experts =>
       /\ ph \in {"idle", "queued"} => r = NoRecord
       /\ ph \in Holding => r # NoRecord
       /\ r # NoRecord =>
            IF old = NoRecord THEN Children(r) = 0 /\ DOMAIN r.reserved = {}
            ELSE Children(r) = Children(old) /\ DOMAIN r.reserved = DOMAIN old.reserved
  /\ t \in Workers =>
       /\ old # NoRecord
       /\ DOMAIN r.reserved \ {t} = DOMAIN old.reserved \ {t}
       /\ ph # "leaked" => (t \in DOMAIN r.reserved <=> ph \in Holding)
       /\ \/ Children(r) = Children(old) /\ o # "value"
          \/ Children(r) = Children(old) + 1 /\ ph \in Over

\* A task that is not over moves on, and its owner's account with it.
LEMMA TaskMoves ==
  ASSUME NEW s, NEW x, IsState(s), LedgerOK(s), OutOK(s),
         NEW t \in Family, NEW ph \in Phases, NEW o, NEW r, NEW old, old = s.ledger[Owner(t)],
         Moves(s, x, t, ph, o, r), Pays(t, old, r, ph, o),
         s.phase[t] \notin Over, ph \notin Over => o = "none"
  PROVE  LedgerOK(x) /\ OutOK(x)
<1>0. /\ x.phase = [s.phase EXCEPT ![t] = ph] /\ x.out = [s.out EXCEPT ![t] = o]
      /\ x.ledger = [s.ledger EXCEPT ![Owner(t)] = r]
      /\ r # NoRecord => Account(r)
      /\ old # NoRecord => r # NoRecord
      /\ t \in Experts =>
           /\ ph \in {"idle", "queued"} => r = NoRecord
           /\ ph \in Holding => r # NoRecord
           /\ r # NoRecord =>
                IF old = NoRecord THEN Children(r) = 0 /\ DOMAIN r.reserved = {}
                ELSE Children(r) = Children(old) /\ DOMAIN r.reserved = DOMAIN old.reserved
      /\ t \in Workers =>
           /\ old # NoRecord
           /\ DOMAIN r.reserved \ {t} = DOMAIN old.reserved \ {t}
           /\ ph # "leaked" => (t \in DOMAIN r.reserved <=> ph \in Holding)
           /\ \/ Children(r) = Children(old) /\ o # "value"
              \/ Children(r) = Children(old) + 1 /\ ph \in Over
  BY DEF Moves, Pays
<1> USE <1>0
<1>1. /\ x.phase[t] = ph /\ x.out[t] = o /\ x.ledger[Owner(t)] = r
      /\ \A u \in Family : u # t => x.phase[u] = s.phase[u] /\ x.out[u] = s.out[u]
      /\ \A e \in Experts : e # Owner(t) => x.ledger[e] = s.ledger[e]
  BY Families DEF IsState
<1>2. OutOK(x)  BY <1>1 DEF OutOK
<1>3. s.out[t] = "none"  BY DEF OutOK
<1>4. \A e \in Experts : /\ x.ledger[e] # NoRecord => Account(x.ledger[e])
                         /\ x.phase[e] \in {"idle", "queued"} => x.ledger[e] = NoRecord
                         /\ x.phase[e] \in Holding => x.ledger[e] # NoRecord
                         /\ s.ledger[e] # NoRecord => x.ledger[e] # NoRecord
  <2> SUFFICES ASSUME NEW e \in Experts
               PROVE  /\ x.ledger[e] # NoRecord => Account(x.ledger[e])
                      /\ x.phase[e] \in {"idle", "queued"} => x.ledger[e] = NoRecord
                      /\ x.phase[e] \in Holding => x.ledger[e] # NoRecord
                      /\ s.ledger[e] # NoRecord => x.ledger[e] # NoRecord
    OBVIOUS
  <2>1. /\ s.ledger[e] # NoRecord => Account(s.ledger[e])
        /\ s.phase[e] \in {"idle", "queued"} => s.ledger[e] = NoRecord
        /\ s.phase[e] \in Holding => s.ledger[e] # NoRecord
    BY DEF LedgerOK
  <2>2. CASE e # Owner(t)
    <3>1. e # t  BY <2>2, Families DEF Owner
    <3> QED BY <1>1, <2>1, <2>2, <3>1, Families
  <2>3. CASE e = Owner(t) /\ t \in Workers
    <3>1. e # t  BY <2>3, Families
    <3> QED BY <1>1, <2>1, <2>3, <3>1, Families
  <2>4. CASE e = Owner(t) /\ t \in Experts
    <3>1. e = t  BY <2>4, Families DEF Owner
    <3> QED BY <1>1, <2>1, <2>4, <3>1
  <2> QED BY <2>2, <2>3, <2>4, Families
<1>5. ASSUME NEW w \in Workers, x.phase[w] # "idle" PROVE x.ledger[Parent[w]] # NoRecord
  <2>1. CASE w = t  BY <1>1, <2>1 DEF Owner
  <2>2. CASE w # t
    <3>1. s.phase[w] # "idle"  BY <1>1, <1>5, <2>2, Families
    <3>2. s.ledger[Parent[w]] # NoRecord  BY <3>1 DEF LedgerOK
    <3> QED BY <1>4, <3>2, Families
  <2> QED BY <2>1, <2>2
<1>6. ASSUME NEW w \in Workers, x.phase[w] # "leaked", x.ledger[Parent[w]] # NoRecord
      PROVE  w \in DOMAIN x.ledger[Parent[w]].reserved <=> x.phase[w] \in Holding
  <2>1. CASE w = t  BY <1>1, <1>6, <2>1 DEF Owner
  <2>2. CASE w # t
    <3>1. x.phase[w] = s.phase[w]  BY <1>1, <2>2, Families
    <3>2. s.ledger[Parent[w]] # NoRecord =>
            (w \in DOMAIN s.ledger[Parent[w]].reserved <=> s.phase[w] \in Holding)
      BY <1>6, <3>1 DEF LedgerOK
    <3>3. CASE Parent[w] # Owner(t)  BY <1>1, <1>6, <3>1, <3>2, <3>3, Families
    <3>4. CASE Parent[w] = Owner(t) /\ t \in Workers  BY <1>1, <2>2, <3>1, <3>2, <3>4
    <3>5. CASE Parent[w] = Owner(t) /\ t \in Experts
      <4>1. CASE old = NoRecord
        <5>1. s.phase[w] = "idle"  BY <3>5, <4>1 DEF LedgerOK
        <5>2. DOMAIN r.reserved = {}  BY <1>1, <1>6, <3>5, <4>1
        <5> QED BY <1>1, <3>1, <3>5, <5>1, <5>2 DEF Holding
      <4>2. CASE old # NoRecord  BY <1>1, <3>1, <3>2, <3>5, <4>2
      <4> QED BY <4>1, <4>2
    <3> QED BY <3>3, <3>4, <3>5, Families
  <2> QED BY <2>1, <2>2
<1>7. ASSUME NEW e \in Experts, x.ledger[e] # NoRecord
      PROVE  /\ Cardinality(Valued(x, e)) <= Children(x.ledger[e])
             /\ Children(x.ledger[e]) <= Cardinality(Ended(x, e))
  <2>1. s.ledger[e] # NoRecord => /\ Cardinality(Valued(s, e)) <= Children(s.ledger[e])
                                  /\ Children(s.ledger[e]) <= Cardinality(Ended(s, e))
    BY DEF LedgerOK
  <2>2. \A w \in Mine(e) : w \in Workers /\ w \in Family /\ Parent[w] = e  BY Families DEF Mine
  <2>3. CASE t \notin Mine(e)
    <3>1. Valued(x, e) = Valued(s, e) /\ Ended(x, e) = Ended(s, e)
      BY <1>1, <2>2, <2>3 DEF Valued, Ended
    <3>2. CASE e # Owner(t)  BY <1>1, <1>7, <2>1, <3>1, <3>2
    <3>3. CASE e = Owner(t)
      <4>1. t \in Experts  BY <2>3, <3>3, Families DEF Mine, Owner
      <4>2. CASE old # NoRecord
        <5>1. s.ledger[e] = old /\ x.ledger[e] = r  BY <1>1, <3>3
        <5>2. r # NoRecord  BY <1>7, <5>1
        <5>3. Children(r) = Children(old)  BY <4>1, <4>2, <5>2
        <5> QED BY <2>1, <3>1, <4>2, <5>1, <5>3
      <4>3. CASE old = NoRecord
        <5>0. \A w \in Workers : s.phase[w] # "idle" => s.ledger[Parent[w]] # NoRecord
          BY Zenon DEF LedgerOK
        <5>1. \A w \in Mine(e) : s.phase[w] = "idle"
          <6> HIDE <1>0
          <6> QED BY <2>2, <3>3, <4>3, <5>0
        <5>2. \A w \in Mine(e) : s.out[w] = "none"  BY <2>2, <5>1 DEF OutOK, Over
        <5>3. Valued(s, e) = {} /\ Ended(s, e) = {}  BY <5>1, <5>2 DEF Valued, Ended, Over
        <5>4. Cardinality({}) = 0  BY FS_EmptySet
        <5>5. Children(x.ledger[e]) = 0  BY <1>1, <1>7, <3>3, <4>1, <4>3
        <5> QED BY <3>1, <5>3, <5>4, <5>5
      <4> QED BY <4>2, <4>3
    <3> QED BY <3>2, <3>3
  <2>4. CASE t \in Mine(e)
    <3>1. t \in Workers /\ e = Owner(t) /\ old # NoRecord /\ s.ledger[e] = old /\ x.ledger[e] = r
      BY <1>1, <2>2, <2>4 DEF Owner
    <3>2. t \notin Valued(s, e) /\ t \notin Ended(s, e)  BY <1>3 DEF Valued, Ended
    <3>3. PICK V, E, k : V = Valued(s, e) /\ E = Ended(s, e) /\ k = Children(old)  OBVIOUS
    <3>4. /\ Valued(x, e) = (IF o = "value" THEN V \cup {t} ELSE V)
          /\ Ended(x, e) = (IF ph \in Over THEN E \cup {t} ELSE E)
      <4>1. \A w \in Mine(e) : w # t => (x.out[w] = s.out[w] /\ x.phase[w] = s.phase[w])  BY <1>1, <2>2
      <4> QED BY <1>1, <2>4, <3>2, <3>3, <4>1 DEF Valued, Ended
    <3>5. /\ IsFiniteSet(V) /\ IsFiniteSet(E)
          /\ Cardinality(V) \in Nat /\ Cardinality(E) \in Nat
          /\ Cardinality(V \cup {t}) = Cardinality(V) + 1 /\ Cardinality(E \cup {t}) = Cardinality(E) + 1
      <4>1. V \subseteq Mine(e) /\ E \subseteq Mine(e)  BY <3>3 DEF Valued, Ended
      <4>2. IsFiniteSet(V) /\ IsFiniteSet(E)  BY <4>1, Families, FS_Subset
      <4> QED BY <3>2, <3>3, <4>2, FS_AddElement, FS_CardinalityType
    <3>6. Account(old) /\ k \in Nat /\ Cardinality(V) <= k /\ k <= Cardinality(E)
      <4>1. Account(old)  BY <3>1 DEF LedgerOK
      <4> QED BY <2>1, <3>1, <3>3, <4>1 DEF Account, Children
    <3>7. \/ Children(r) = k /\ o # "value"
          \/ Children(r) = k + 1 /\ ph \in Over
      BY <3>1, <3>3
    <3>8. /\ Cardinality(Valued(x, e)) <= Children(r)
          /\ Children(r) <= Cardinality(Ended(x, e))
      <4>1. CASE Children(r) = k /\ o # "value"
        <5>1. Valued(x, e) = V /\ (Ended(x, e) = E \/ Ended(x, e) = E \cup {t})  BY <3>4, <4>1
        <5>2. \/ Cardinality(Ended(x, e)) = Cardinality(E)
              \/ Cardinality(Ended(x, e)) = Cardinality(E) + 1
          BY <3>5, <5>1
        <5> QED BY <3>5, <3>6, <4>1, <5>1, <5>2
      <4>2. CASE Children(r) = k + 1 /\ ph \in Over
        <5>1. Ended(x, e) = E \cup {t} /\ (Valued(x, e) = V \/ Valued(x, e) = V \cup {t})  BY <3>4, <4>2
        <5>2. \/ Cardinality(Valued(x, e)) = Cardinality(V)
              \/ Cardinality(Valued(x, e)) = Cardinality(V) + 1
          BY <3>5, <5>1
        <5>3. Cardinality(Ended(x, e)) = Cardinality(E) + 1  BY <3>5, <5>1
        <5> QED BY <3>5, <3>6, <4>2, <5>2, <5>3
      <4> QED BY <3>7, <4>1, <4>2
    <3> QED BY <3>1, <3>8
  <2> QED BY <2>3, <2>4
<1> QED BY <1>2, <1>4, <1>5, <1>6, <1>7 DEF LedgerOK

\* Slots that are held.
LEMMA ActiveHold == ASSUME NEW s PROVE Active(s) = {t \in Family : s.phase[t] \in Holding}
BY DEF Active, Holding

\* No slot is taken or freed.
LEMMA SlotsStay ==
  ASSUME NEW s, NEW x, CapsOK(s), ApartOK(s), Active(x) = Active(s),
         x.experts = s.experts, x.writers = s.writers
  PROVE  CapsOK(x) /\ ApartOK(x)
BY DEF CapsOK, ApartOK

\* A task that may start takes a slot: canStart keeps the limits and the
\* writers apart.
LEMMA SlotTaken ==
  ASSUME NEW s, NEW x, CapsOK(s), ApartOK(s), NEW t \in Family, t \notin Active(s), CanStart(s, t),
         Active(x) = Active(s) \cup {t},
         x.experts = IF t \in Experts THEN s.experts + 1 ELSE s.experts,
         x.writers = IF Writer(t) THEN s.writers + 1 ELSE s.writers
  PROVE  CapsOK(x) /\ ApartOK(x)
<1>1. PICK A, E, W : A = Active(s) /\ E = A \cap Experts /\ W = {u \in A : Writer(u)}  OBVIOUS
<1>2. IsFiniteSet(E) /\ IsFiniteSet(W)
  <2>1. E \subseteq Family /\ W \subseteq Family  BY <1>1 DEF Active
  <2> QED BY <2>1, FamilyIsFinite, FS_Subset
<1>3. /\ Cardinality(E) \in Nat /\ Cardinality(W) \in Nat
      /\ Cardinality(E \cup {t}) = Cardinality(E) + 1 /\ Cardinality(W \cup {t}) = Cardinality(W) + 1
  BY <1>1, <1>2, FS_AddElement, FS_CardinalityType
<1>4. /\ s.experts = Cardinality(E) /\ s.experts <= MaxExperts
      /\ s.writers = Cardinality(W) /\ s.writers <= MaxWriters
  BY <1>1 DEF CapsOK
<1>5. /\ Active(x) \cap Experts = (IF t \in Experts THEN E \cup {t} ELSE E)
      /\ {u \in Active(x) : Writer(u)} = (IF Writer(t) THEN W \cup {t} ELSE W)
  BY <1>1
<1>6. (t \in Experts => s.experts < MaxExperts) /\ (Writer(t) => s.writers < MaxWriters)
  BY DEF CanStart
<1>7. x.experts = Cardinality(Active(x) \cap Experts) /\ x.experts <= MaxExperts
  <2>1. CASE t \in Experts
    <3>1. x.experts = s.experts + 1 /\ Active(x) \cap Experts = E \cup {t} /\ s.experts < MaxExperts
      BY <1>5, <1>6, <2>1
    <3>2. s.experts \in Nat /\ MaxExperts \in Nat /\ s.experts <= MaxExperts  BY <1>3, <1>4, LimitsAreNumbers
    <3>3. x.experts <= MaxExperts  BY <3>1, <3>2
    <3>4. Cardinality(E \cup {t}) = x.experts  BY <1>3, <1>4, <3>1
    <3> QED BY <3>1, <3>3, <3>4
  <2>2. CASE t \notin Experts  BY <1>4, <1>5, <2>2
  <2> QED BY <2>1, <2>2
<1>8. x.writers = Cardinality({u \in Active(x) : Writer(u)}) /\ x.writers <= MaxWriters
  <2>1. CASE Writer(t)
    <3>1. x.writers = s.writers + 1 /\ {u \in Active(x) : Writer(u)} = W \cup {t} /\ s.writers < MaxWriters
      BY <1>5, <1>6, <2>1
    <3>2. s.writers \in Nat /\ MaxWriters \in Nat /\ s.writers <= MaxWriters  BY <1>3, <1>4, LimitsAreNumbers
    <3>3. x.writers <= MaxWriters  BY <3>1, <3>2
    <3>4. Cardinality(W \cup {t}) = x.writers  BY <1>3, <1>4, <3>1
    <3> QED BY <3>1, <3>3, <3>4
  <2>2. CASE ~Writer(t)  BY <1>4, <1>5, <2>2
  <2> QED BY <2>1, <2>2
<1>9. ApartOK(x)
  <2> SUFFICES ASSUME NEW u \in Active(x), NEW v \in Active(x), u # v, Overlapping(u, v)
               PROVE  MayOverlap(u, v) \/ MayOverlap(v, u)
    BY DEF ApartOK
  <2>1. Overlapping(v, u)  BY DEF Overlapping
  <2>2. \A owner \in Active(s) : Overlapping(t, owner) => MayOverlap(t, owner)  BY DEF CanStart
  <2>3. CASE u = t  BY <2>2, <2>3
  <2>4. CASE v = t  BY <2>1, <2>2, <2>4
  <2>5. CASE u # t /\ v # t  BY <2>5 DEF ApartOK
  <2> QED BY <2>3, <2>4, <2>5
<1> QED BY <1>7, <1>8, <1>9 DEF CapsOK

\* A task gives its slot back.
LEMMA SlotFreed ==
  ASSUME NEW s, NEW x, CapsOK(s), ApartOK(s), NEW t \in Active(s), Active(x) = Active(s) \ {t},
         x.experts = IF t \in Experts THEN s.experts - 1 ELSE s.experts,
         x.writers = IF Writer(t) THEN s.writers - 1 ELSE s.writers
  PROVE  CapsOK(x) /\ ApartOK(x)
<1>1. PICK A, E, W : A = Active(s) /\ E = A \cap Experts /\ W = {u \in A : Writer(u)}  OBVIOUS
<1>2. IsFiniteSet(E) /\ IsFiniteSet(W)
  <2>1. E \subseteq Family /\ W \subseteq Family  BY <1>1 DEF Active
  <2> QED BY <2>1, FamilyIsFinite, FS_Subset
<1>3. /\ Cardinality(E) \in Nat /\ Cardinality(W) \in Nat
      /\ t \in E => Cardinality(E \ {t}) = Cardinality(E) - 1
      /\ t \in W => Cardinality(W \ {t}) = Cardinality(W) - 1
  BY <1>1, <1>2, FS_RemoveElement, FS_CardinalityType
<1>4. /\ s.experts = Cardinality(E) /\ s.experts <= MaxExperts
      /\ s.writers = Cardinality(W) /\ s.writers <= MaxWriters
  BY <1>1 DEF CapsOK
<1>5. /\ Active(x) \cap Experts = (IF t \in Experts THEN E \ {t} ELSE E)
      /\ {u \in Active(x) : Writer(u)} = (IF Writer(t) THEN W \ {t} ELSE W)
      /\ (t \in Experts => t \in E) /\ (Writer(t) => t \in W)
  BY <1>1
<1>6. x.experts = Cardinality(Active(x) \cap Experts) /\ x.experts <= MaxExperts
  <2>1. CASE t \in Experts
    <3>1. x.experts = s.experts - 1 /\ Active(x) \cap Experts = E \ {t} /\ t \in E
      BY <1>5, <2>1
    <3>2. s.experts \in Nat /\ MaxExperts \in Nat /\ s.experts <= MaxExperts  BY <1>3, <1>4, LimitsAreNumbers
    <3>3. x.experts <= MaxExperts  BY <3>1, <3>2
    <3>4. Cardinality(E \ {t}) = x.experts  BY <1>3, <1>4, <3>1
    <3> QED BY <3>1, <3>3, <3>4
  <2>2. CASE t \notin Experts  BY <1>4, <1>5, <2>2
  <2> QED BY <2>1, <2>2
<1>7. x.writers = Cardinality({u \in Active(x) : Writer(u)}) /\ x.writers <= MaxWriters
  <2>1. CASE Writer(t)
    <3>1. x.writers = s.writers - 1 /\ {u \in Active(x) : Writer(u)} = W \ {t} /\ t \in W
      BY <1>5, <2>1
    <3>2. s.writers \in Nat /\ MaxWriters \in Nat /\ s.writers <= MaxWriters  BY <1>3, <1>4, LimitsAreNumbers
    <3>3. x.writers <= MaxWriters  BY <3>1, <3>2
    <3>4. Cardinality(W \ {t}) = x.writers  BY <1>3, <1>4, <3>1
    <3> QED BY <3>1, <3>3, <3>4
  <2>2. CASE ~Writer(t)  BY <1>4, <1>5, <2>2
  <2> QED BY <2>1, <2>2
<1>8. ApartOK(x)  BY DEF ApartOK
<1> QED BY <1>6, <1>7, <1>8 DEF CapsOK

\* What such a step leaves where it was.
LEMMA StateMoves ==
  ASSUME NEW s, NEW x, IsState(s), NEW t \in Family, NEW ph \in Phases, NEW o \in Outcomes, NEW r,
         Moves(s, x, t, ph, o, r)
  PROVE  /\ IsState(x)
         /\ x.phase[t] = ph /\ \A u \in Family : u # t => x.phase[u] = s.phase[u]
         /\ x.out[t] = o /\ \A u \in Family : u # t => x.out[u] = s.out[u]
         /\ x.ledger[Owner(t)] = r /\ \A e \in Experts : e # Owner(t) => x.ledger[e] = s.ledger[e]
<1>1. PICK e0 \in Experts : e0 = Owner(t)  BY Families
<1>2. x.ledger = [e \in Experts |-> IF e = e0 THEN r ELSE s.ledger[e]]  BY <1>1 DEF Moves, IsState
<1>3. /\ x.phase = [u \in Family |-> IF u = t THEN ph ELSE s.phase[u]]
      /\ x.out = [u \in Family |-> IF u = t THEN o ELSE s.out[u]]
      /\ DOMAIN x = {"queue", "phase", "out", "experts", "writers", "ledger"}
  BY DEF Moves, IsState
<1>4. x.phase \in [Family -> Phases] /\ x.out \in [Family -> Outcomes]
  <2>1. \A u \in Family : s.phase[u] \in Phases /\ s.out[u] \in Outcomes  BY DEF IsState
  <2> QED BY <1>3, <2>1
<1>5. x.ledger = [e \in Experts |-> x.ledger[e]]  BY <1>2
<1> QED BY <1>1, <1>2, <1>3, <1>4, <1>5 DEF IsState

\* A turn of drain leaves what is not queued, and every account, where it is.
Moved(s, x) ==
  /\ \A t \in Family : \/ x.phase[t] = s.phase[t]
                       \/ s.phase[t] = "queued" /\ x.phase[t] \in {"spawning", "done"}
  /\ \A e \in Experts : s.ledger[e] # NoRecord => x.ledger[e] # NoRecord
Queued(s) == {t \in Family : s.phase[t] = "queued"}

\* Who is not over has not been told.
LEMMA OutStays ==
  ASSUME NEW s, IsState(s), OutOK(s), NEW t \in Family, s.phase[t] \notin Over
  PROVE  s.out[t] = "none" /\ s.out = [s.out EXCEPT ![t] = "none"]
         /\ s.ledger = [s.ledger EXCEPT ![Owner(t)] = s.ledger[Owner(t)]]
<1>1. s.out[t] = "none"  BY DEF OutOK
<1> QED BY <1>1, Families DEF IsState

\* One turn of drain: the head of a lane starts, or is rejected, over its
\* parent's budget or because the ledger is busy.
LEMMA StartOneKeeps ==
  ASSUME NEW s, NEW x, SlotsOK(s), Startable(s) # {}, x \in StartOne(s)
  PROVE  /\ SlotsOK(x) /\ Moved(s, x)
         /\ \E t \in Queued(s) : Queued(x) = Queued(s) \ {t}
<1>1. PICK l, p, t : /\ l \in Startable(s) /\ l = NextLane(s) /\ p = PeekPriority(s, l)
                     /\ t = LaneHead(s, l)
  BY NextLaneStarts, Zenon
<1>2. /\ IsState(s) /\ QueueOK(s) /\ CapsOK(s) /\ ApartOK(s) /\ LedgerOK(s) /\ OutOK(s)
  BY DEF SlotsOK
<1>3. /\ l \in Lanes /\ p \in Classes /\ t \in Family /\ s.phase[t] = "queued" /\ CanStart(s, t)
  BY <1>1, <1>2, HeadIsQueued
<1>4. PICK y : y = Dequeued(s, l)  OBVIOUS
<1>5. x = Start(y, t) \/ x = Refused(y, t)  BY <1>1, <1>4 DEF StartOne
<1>6. /\ DOMAIN y = DOMAIN s /\ y.queue = [s.queue EXCEPT ![l][p] = Tail(s.queue[l][p])]
      /\ y.phase = s.phase /\ y.out = s.out /\ y.ledger = s.ledger
      /\ y.experts = s.experts /\ y.writers = s.writers
  BY <1>1, <1>2, <1>4 DEF Dequeued, IsState
<1>7. s.out[t] = "none" /\ s.phase[t] \notin Over /\ t \notin Active(s)
  BY <1>2, <1>3 DEF OutOK, Over, Active
<1>8. s.out = [s.out EXCEPT ![t] = "none"]  BY <1>2, <1>3, <1>7 DEF IsState
<1>9. PICK old : old = s.ledger[Owner(t)]  OBVIOUS
<1>10. ASSUME NEW ph \in {"spawning", "done"}, NEW o \in Outcomes, NEW r, Moves(s, x, t, ph, o, r),
              x.queue = y.queue, ph = "spawning" => o = "none",
              IF ph = "done" THEN x.experts = s.experts /\ x.writers = s.writers
              ELSE /\ x.experts = IF t \in Experts THEN s.experts + 1 ELSE s.experts
                   /\ x.writers = IF Writer(t) THEN s.writers + 1 ELSE s.writers,
              r # NoRecord \/ r = old, LedgerOK(x), OutOK(x)
       PROVE  /\ SlotsOK(x) /\ Moved(s, x)
              /\ \E u \in Queued(s) : Queued(x) = Queued(s) \ {u}
  <2>0. ph \in Phases  BY DEF Phases
  <2>1. /\ IsState(x)
        /\ x.phase[t] = ph /\ \A u \in Family : u # t => x.phase[u] = s.phase[u]
        /\ x.ledger[Owner(t)] = r /\ \A e \in Experts : e # Owner(t) => x.ledger[e] = s.ledger[e]
    BY <1>2, <1>3, <1>10, <2>0, StateMoves
  <2>2. QueueOK(x)
    <3>1. x.phase = [s.phase EXCEPT ![t] = ph] /\ DOMAIN s.phase = Family
      BY <1>2, <1>10 DEF Moves, IsState
    <3>2. x.queue = [s.queue EXCEPT ![l][p] = Tail(s.queue[l][p])]  BY <1>6, <1>10
    <3>3. Takes(s, x, l, p, t, ph)  BY <1>1, <3>1, <3>2 DEF Takes
    <3> QED BY <1>2, <3>3, QueueTakes
  <2>3. CapsOK(x) /\ ApartOK(x)
    <3>1. CASE ph = "done"
      <4>1. Active(x) = Active(s)  BY <1>3, <2>1, <3>1 DEF Active
      <4> QED BY <1>2, <1>10, <3>1, <4>1, SlotsStay
    <3>2. CASE ph = "spawning"
      <4>1. Active(x) = Active(s) \cup {t}  BY <1>3, <2>1, <3>2 DEF Active
      <4> QED BY <1>2, <1>3, <1>7, <1>10, <3>2, <4>1, SlotTaken
    <3> QED BY <3>1, <3>2
  <2>4. Moved(s, x)  BY <1>3, <1>9, <1>10, <2>1 DEF Moved
  <2>5. Queued(x) = Queued(s) \ {t} /\ t \in Queued(s)  BY <1>3, <2>1 DEF Queued
  <2> QED BY <1>10, <2>1, <2>2, <2>3, <2>4, <2>5 DEF SlotsOK
<1>11. CASE t \in Experts /\ x = Start(y, t)
  <2>1. PICK r : r = NewRecord(Ceiling[t])  OBVIOUS
  <2>2. Owner(t) = t /\ old = NoRecord
    <3>1. Owner(t) = t  BY <1>11, Families DEF Owner
    <3> QED BY <1>2, <1>3, <1>9, <1>11, <3>1 DEF LedgerOK
  <2>3. /\ x.queue = y.queue
        /\ x.experts = s.experts + 1 /\ x.writers = IF Writer(t) THEN s.writers + 1 ELSE s.writers
        /\ Moves(s, x, t, "spawning", "none", r)
    BY <1>2, <1>6, <1>8, <1>11, <2>1, <2>2 DEF Start, Occupy, Moves, IsState
  <2>4. Account(r) /\ Children(r) = 0 /\ DOMAIN r.reserved = {} /\ r # NoRecord
    BY <2>1, NewAccount, AccountIsRecord
  <2>5. LedgerOK(x) /\ OutOK(x)
    <3>1. t \notin Workers /\ "spawning" \in Phases /\ "spawning" \notin Over
      BY <1>11, Families DEF Phases, Over
    <3>2. Pays(t, old, r, "spawning", "none")  BY <2>2, <2>4, <3>1 DEF Pays
    <3> QED BY <1>2, <1>3, <1>7, <1>9, <2>3, <3>1, <3>2, TaskMoves
  <2> QED BY <1>10, <1>11, <2>3, <2>4, <2>5 DEF Outcomes
<1>12. CASE t \in Workers /\ x = Start(y, t)
  <2>1. Owner(t) = Parent[t] /\ t \notin Experts /\ old # NoRecord /\ Account(old)
    <3>1. Owner(t) = Parent[t] /\ t \notin Experts /\ Parent[t] \in Experts  BY <1>12, Families DEF Owner
    <3> QED BY <1>2, <1>3, <1>9, <1>12, <3>1 DEF LedgerOK
  <2>2. t \notin DOMAIN old.reserved
    BY <1>2, <1>3, <1>9, <1>12, <2>1 DEF LedgerOK, Holding
  <2>3. CASE Fits(old, Ceiling[t])
    <3>1. PICK r : r = Reserved(old, t, Ceiling[t])  OBVIOUS
    <3>2. /\ x.queue = y.queue
          /\ x.experts = s.experts /\ x.writers = IF Writer(t) THEN s.writers + 1 ELSE s.writers
          /\ Moves(s, x, t, "spawning", "none", r)
      <4>1. x = Occupy([y EXCEPT !.ledger[Parent[t]] = Reserved(@, t, Ceiling[t])], t)
        BY <1>6, <1>9, <1>12, <2>1, <2>3 DEF Start
      <4> HIDE DEF Occupy
      <4>2. PICK z : z = [y EXCEPT !.ledger[Parent[t]] = Reserved(@, t, Ceiling[t])]  OBVIOUS
      <4>3. /\ z.ledger = [s.ledger EXCEPT ![Parent[t]] = r]
            /\ DOMAIN z = DOMAIN s /\ z.queue = y.queue
            /\ z.phase = s.phase /\ z.out = s.out
            /\ z.experts = s.experts /\ z.writers = s.writers
        BY <1>2, <1>6, <1>9, <2>1, <3>1, <4>2 DEF IsState
      <4> QED BY <1>2, <1>8, <2>1, <4>1, <4>2, <4>3 DEF Occupy, Moves, IsState
    <3>3. /\ Account(r) /\ Children(r) = Children(old) /\ DOMAIN r.reserved = DOMAIN old.reserved \cup {t}
          /\ r # NoRecord
      BY <2>1, <3>1, AccountReserves, AccountIsRecord
    <3>4. LedgerOK(x) /\ OutOK(x)
      <4>1. "spawning" \in Phases /\ "spawning" \notin Over /\ "spawning" \in Holding
        BY DEF Phases, Over, Holding
      <4>2. Pays(t, old, r, "spawning", "none")  BY <2>1, <2>2, <3>3, <4>1 DEF Pays
      <4> QED BY <1>2, <1>3, <1>7, <1>9, <3>2, <4>1, <4>2, TaskMoves
    <3> QED BY <1>10, <2>1, <3>2, <3>3, <3>4 DEF Outcomes
  <2>4. CASE ~Fits(old, Ceiling[t])
    <3>1. PICK r : r = Blocked(old)  OBVIOUS
    <3>2. /\ x.queue = y.queue
          /\ x.experts = s.experts /\ x.writers = s.writers
          /\ Moves(s, x, t, "done", "rejected", r)
      <4>1. x = Refused([y EXCEPT !.ledger[Parent[t]] = Blocked(@)], t)
        BY <1>6, <1>9, <1>12, <2>1, <2>4 DEF Start
      <4>2. DOMAIN y = {"queue", "phase", "out", "experts", "writers", "ledger"}  BY <1>2, <1>6 DEF IsState
      <4>3. /\ DOMAIN x = DOMAIN y /\ x.queue = y.queue
            /\ x.experts = y.experts /\ x.writers = y.writers
            /\ x.phase = [y.phase EXCEPT ![t] = "done"] /\ x.out = [y.out EXCEPT ![t] = "rejected"]
            /\ x.ledger = [y.ledger EXCEPT ![Parent[t]] = Blocked(y.ledger[Parent[t]])]
        BY <4>1, <4>2 DEF Refused
      <4> QED BY <1>6, <1>9, <2>1, <3>1, <4>3 DEF Moves
    <3>3. Account(r) /\ Children(r) = Children(old) /\ r.reserved = old.reserved /\ r # NoRecord
      BY <2>1, <3>1, AccountBlocks, AccountIsRecord
    <3>4. LedgerOK(x) /\ OutOK(x)
      <4>1. "done" \in Phases /\ "done" \in Over /\ "done" \notin Holding
        BY DEF Phases, Over, Holding
      <4>2. Pays(t, old, r, "done", "rejected")  BY <2>1, <2>2, <3>3, <4>1 DEF Pays
      <4> QED BY <1>2, <1>3, <1>7, <1>9, <3>2, <4>1, <4>2, TaskMoves
    <3> QED BY <1>10, <3>2, <3>3, <3>4 DEF Outcomes
  <2> QED BY <2>3, <2>4
<1>13. CASE x = Refused(y, t)
  <2>1. PICK r, ph, o : r = old /\ ph = "done" /\ o = "rejected"  OBVIOUS
  <2>2. x.queue = y.queue /\ x.experts = s.experts /\ x.writers = s.writers /\ Moves(s, x, t, ph, o, r)
    <3>1. s.ledger = [s.ledger EXCEPT ![Owner(t)] = r]  BY <1>2, <1>3, <1>7, <1>9, <2>1, OutStays
    <3> QED BY <1>2, <1>6, <1>13, <2>1, <3>1 DEF Refused, Moves, IsState
  <2>3. ph \in Phases /\ ph \in Over /\ ph \notin Holding /\ ph \notin {"idle", "queued"}
        /\ o \in Outcomes /\ o # "value"
    BY <2>1 DEF Phases, Over, Holding, Outcomes
  <2>4. Pays(t, old, r, ph, o)
    <3>1. Owner(t) \in Experts /\ (t \in Workers => Owner(t) = Parent[t] /\ t \notin Experts)
          /\ (t \in Experts => Owner(t) = t)
      BY <1>3, Families DEF Owner
    <3>2. (old # NoRecord => Account(old)) /\ (t \in Experts => old = NoRecord)
      BY <1>2, <1>3, <1>9, <3>1 DEF LedgerOK
    <3>3. t \in Workers => old # NoRecord /\ t \notin DOMAIN old.reserved
      BY <1>2, <1>3, <1>9, <3>1 DEF LedgerOK, Holding
    <3> QED BY <2>1, <2>3, <3>2, <3>3 DEF Pays
  <2>5. LedgerOK(x) /\ OutOK(x)
    BY <1>2, <1>3, <1>7, <1>9, <2>2, <2>3, <2>4, TaskMoves
  <2> QED BY <1>10, <2>1, <2>2, <2>3, <2>5
<1> QED BY <1>3, <1>5, <1>11, <1>12, <1>13, Families

\* Turns add up.
LEMMA MovedOn ==
  ASSUME NEW s, NEW y, NEW x, Moved(s, y), Moved(y, x)
  PROVE  Moved(s, x)
<1>1. ASSUME NEW t \in Family
      PROVE  \/ x.phase[t] = s.phase[t]
             \/ s.phase[t] = "queued" /\ x.phase[t] \in {"spawning", "done"}
  BY DEF Moved
<1> QED BY <1>1 DEF Moved

\* Fewer tasks are queued than the drain has turns.
LEMMA QueuedAreCounted ==
  ASSUME NEW s, NEW q, q = Queued(s)
  PROVE  /\ IsFiniteSet(q) /\ Cardinality(q) \in Nat /\ Cardinality(q) <= Steps
         /\ \A t \in q : Cardinality(q \ {t}) = Cardinality(q) - 1
<1>1. q \subseteq Family  BY DEF Queued
<1>2. IsFiniteSet(q) /\ Cardinality(q) <= Steps  BY <1>1, FamilyIsFinite, FS_Subset DEF Steps
<1> QED BY <1>2, FS_CardinalityType, FS_RemoveElement

\* What drain has kept after n turns: each one takes an entry from the queues,
\* unless nothing can start any more.
Kept(s, y, n) ==
  /\ SlotsOK(y) /\ Moved(s, y)
  /\ Startable(y) = {} \/ Cardinality(Queued(y)) <= Steps - n

\* Each turn keeps that.
LEMMA TurnKeeps ==
  ASSUME NEW s, NEW n \in Nat, NEW y, Kept(s, y, n), NEW x, x \in StartOne(y)
  PROVE  Kept(s, x, n + 1)
<1>1. CASE Startable(y) = {}
  <2>1. x = y  BY <1>1 DEF StartOne
  <2> QED BY <1>1, <2>1 DEF Kept
<1>2. CASE Startable(y) # {}
  <2>1. SlotsOK(y) /\ Moved(s, y) /\ Cardinality(Queued(y)) <= Steps - n  BY <1>2 DEF Kept
  <2>2. /\ SlotsOK(x) /\ Moved(y, x)
        /\ \E t \in Queued(y) : Queued(x) = Queued(y) \ {t}
    BY <1>2, <2>1, StartOneKeeps
  <2>3. Moved(s, x)  BY <2>1, <2>2, MovedOn
  <2>4. PICK q : q = Queued(y)  OBVIOUS
  <2>5. Cardinality(q) \in Nat /\ Cardinality(Queued(x)) = Cardinality(q) - 1
    BY <2>2, <2>4, QueuedAreCounted
  <2>6. Cardinality(Queued(x)) <= Steps - (n + 1)  BY <2>1, <2>4, <2>5, StepsAreCounted
  <2> QED BY <2>2, <2>3, <2>6 DEF Kept
<1> QED BY <1>1, <1>2

\* drain ends with nothing that could start, and every task in its place.
LEMMA DrainKeeps ==
  ASSUME NEW s, SlotsOK(s), NEW x, x \in Drains(s)
  PROVE  SlotsOK(x) /\ Moved(s, x) /\ Startable(x) = {}
<1>1. PICK turn : turn = Turns(s)  OBVIOUS
<1>2. x \in turn[Steps]  BY <1>1 DEF Drains, Steps
<1>3. turn[0] = {s} /\ \A n \in 1..Steps : turn[n] = After(turn[n - 1])  BY <1>1, TurnsFollow
<1>4. \A n \in 0..Steps : \A y \in turn[n] : Kept(s, y, n)
  <2> DEFINE Broken == {n \in 0..Steps : \E y \in turn[n] : ~Kept(s, y, n)}
  <2> SUFFICES ASSUME Broken # {} PROVE FALSE  OBVIOUS
  <2>1. Broken \in SUBSET Nat  BY StepsAreCounted
  <2>2. PICK n \in Broken : \A m \in Broken : n <= m  BY <2>1, LeastNumber
  <2>3. CASE n = 0
    <3>1. Moved(s, s)  BY DEF Moved
    <3>2. Cardinality(Queued(s)) <= Steps - 0  BY QueuedAreCounted, StepsAreCounted
    <3>3. Kept(s, s, 0)  BY <3>1, <3>2 DEF Kept
    <3> QED BY <1>3, <2>2, <2>3, <3>3
  <2>4. CASE n # 0
    <3>1. n \in 1..Steps /\ n - 1 \in 0..Steps /\ n - 1 \in Nat /\ ~(n <= n - 1)
      BY <2>2, <2>4, StepsAreCounted
    <3>2. n - 1 \notin Broken  BY <2>2, <3>1
    <3>3. PICK z : z \in turn[n] /\ ~Kept(s, z, n)  BY <2>2
    <3>4. PICK y : y \in turn[n - 1] /\ z \in StartOne(y)  BY <1>3, <3>1, <3>3 DEF After
    <3>5. PICK m : m \in Nat /\ m = n - 1 /\ n = m + 1  BY <2>2, <3>1, StepsAreCounted
    <3>6. Kept(s, y, m)  BY <3>1, <3>2, <3>4, <3>5
    <3>7. Kept(s, z, m + 1)  BY <3>4, <3>5, <3>6, TurnKeeps
    <3> QED BY <3>3, <3>5, <3>7
  <2> QED BY <2>3, <2>4
<1>5. Kept(s, x, Steps)
  <2>1. Steps \in 0..Steps  BY StepsAreCounted
  <2> QED BY <1>2, <1>4, <2>1
<1>6. Startable(x) = {}
  <2> SUFFICES ASSUME Startable(x) # {} PROVE FALSE  OBVIOUS
  <2>1. PICK l, p, t : l \in Startable(x) /\ p = PeekPriority(x, l) /\ t = LaneHead(x, l)
    OBVIOUS
  <2>2. SlotsOK(x) /\ Cardinality(Queued(x)) <= Steps - Steps  BY <1>5 DEF Kept
  <2>3. t \in Queued(x)
    <3>1. QueueOK(x)  BY <2>2 DEF SlotsOK
    <3>2. t \in Family /\ x.phase[t] = "queued"  BY <2>1, <3>1, HeadIsQueued
    <3> QED BY <3>2 DEF Queued
  <2>4. PICK q, k : q = Queued(x) /\ k = Cardinality(q)  OBVIOUS
  <2>5. k \in Nat /\ Cardinality(q \ {t}) = k - 1  BY <2>3, <2>4, QueuedAreCounted
  <2>6. k <= 0  BY <2>2, <2>4, StepsAreCounted
  <2>7. q \ {t} = Queued(x) \ {t} /\ IsFiniteSet(q \ {t})
    <3>1. IsFiniteSet(q)  BY <2>4, QueuedAreCounted
    <3> QED BY <2>4, <3>1, FS_Subset
  <2>8. Cardinality(q \ {t}) \in Nat  BY <2>7, FS_CardinalityType
  <2> QED BY <2>5, <2>6, <2>8
<1> QED BY <1>5, <1>6 DEF Kept

\* What Startable looks at is as it was.
LEMMA StartableStays ==
  ASSUME NEW s, NEW x, x.queue = s.queue, Active(x) = Active(s),
         x.experts = s.experts, x.writers = s.writers
  PROVE  Startable(x) = Startable(s)
<1>1. \A l \in Lanes : PeekPriority(x, l) = PeekPriority(s, l)  BY DEF PeekPriority
<1>2. \A l \in Lanes : (Waiting(x, l) <=> Waiting(s, l)) /\ LaneHead(x, l) = LaneHead(s, l)
  BY <1>1 DEF Waiting, LaneHead
<1>3. \A t : CanStart(x, t) <=> CanStart(s, t)  BY DEF CanStart
<1> QED BY <1>2, <1>3, Zenon DEF Startable

\* An account is charged for a task of its owner's: with k children.
Billed(s, z, t, r, k) ==
  /\ DOMAIN z = DOMAIN s /\ z.queue = s.queue /\ z.phase = s.phase /\ z.out = s.out
  /\ z.experts = s.experts /\ z.writers = s.writers
  /\ z.ledger = [s.ledger EXCEPT ![Owner(t)] = r]
  /\ Account(r) /\ Children(r) = Children(s.ledger[Owner(t)]) + k
  /\ DOMAIN r.reserved \ {t} = DOMAIN s.ledger[Owner(t)].reserved \ {t}
  /\ t \in Experts => DOMAIN r.reserved = DOMAIN s.ledger[Owner(t)].reserved
Share(t) == IF t \in Workers THEN 1 ELSE 0

\* The owner of a task that holds a slot has an account.
LEMMA OwnersAccount ==
  ASSUME NEW s, SlotsOK(s), NEW t \in Family, s.phase[t] \in Holding
  PROVE  Account(s.ledger[Owner(t)]) /\ s.ledger[Owner(t)] # NoRecord
<1>1. LedgerOK(s)  BY DEF SlotsOK
<1>2. Owner(t) \in Experts  BY Families
<1>3. s.ledger[Owner(t)] # NoRecord  BY <1>1, Families DEF LedgerOK, Owner, Holding
<1> QED BY <1>1, <1>2, <1>3 DEF LedgerOK

\* A run that ends without a usage charges nothing.
LEMMA NothingBilled ==
  ASSUME NEW s, SlotsOK(s), NEW t \in Family, s.phase[t] \in Holding, NEW r, r = s.ledger[Owner(t)]
  PROVE  Billed(s, s, t, r, 0)
<1>1. IsState(s)  BY DEF SlotsOK
<1>2. s.ledger = [s.ledger EXCEPT ![Owner(t)] = r]  BY <1>1, Families DEF IsState
<1>3. Account(r)  BY OwnersAccount
<1>4. Children(r) = Children(r) + 0  BY <1>3 DEF Account, Children
<1> QED BY <1>2, <1>3, <1>4 DEF Billed

\* consume and record charge the owner's account, one child for a worker.
LEMMA ChargeBills ==
  ASSUME NEW s, SlotsOK(s), NEW t \in Family, s.phase[t] \in Holding, NEW u \in Amounts,
         NEW z, z = Charged(s, t, u)
  PROVE  \E r : Billed(s, z, t, r, Share(t))
<1>1. IsState(s)  BY DEF SlotsOK
<1>2. PICK old : old = s.ledger[Owner(t)] /\ Account(old)  BY OwnersAccount
<1>3. CASE t \in Workers
  <2>1. Owner(t) = Parent[t] /\ Parent[t] \in Experts /\ t \notin Experts /\ Share(t) = 1
    BY <1>3, Families DEF Owner, Share
  <2>2. PICK r : r = Consumed(old, t, u)  OBVIOUS
  <2>3. /\ Account(r) /\ Children(r) = Children(old) + 1
        /\ DOMAIN r.reserved = DOMAIN old.reserved \ {t}
    BY <1>2, <2>2, AccountConsumes
  <2>4. /\ z.ledger = [s.ledger EXCEPT ![Parent[t]] = r]
        /\ DOMAIN z = DOMAIN s /\ z.queue = s.queue /\ z.phase = s.phase /\ z.out = s.out
        /\ z.experts = s.experts /\ z.writers = s.writers
    BY <1>1, <1>2, <1>3, <2>1, <2>2 DEF Charged, IsState
  <2>5. Billed(s, z, t, r, 1)  BY <1>2, <2>1, <2>3, <2>4 DEF Billed
  <2> QED BY <2>1, <2>5
<1>4. CASE t \in Experts
  <2>1. Owner(t) = t /\ t \notin Workers /\ Share(t) = 0  BY <1>4, Families DEF Owner, Share
  <2>2. PICK r : r = Recorded(old, [u EXCEPT !["children"] = 0])  OBVIOUS
  <2>3. Account(r) /\ Children(r) = Children(old) /\ r.reserved = old.reserved
    BY <1>2, <2>2, AccountRecords
  <2>4. /\ z.ledger = [s.ledger EXCEPT ![t] = r]
        /\ DOMAIN z = DOMAIN s /\ z.queue = s.queue /\ z.phase = s.phase /\ z.out = s.out
        /\ z.experts = s.experts /\ z.writers = s.writers
    BY <1>1, <1>2, <1>4, <2>1, <2>2 DEF Charged, IsState
  <2>5. Children(r) = Children(old) + 0  BY <1>2, <2>3 DEF Account, Children
  <2>6. Billed(s, z, t, r, 0)  BY <1>2, <2>1, <2>3, <2>4, <2>5 DEF Billed
  <2> QED BY <2>1, <2>6
<1> QED BY <1>3, <1>4, Families

\* So does a timeout, which may also block the account.
LEMMA TimeoutBills ==
  ASSUME NEW s, SlotsOK(s), NEW t \in Family, s.phase[t] \in Holding, NEW z, z = TimedOut(s, t)
  PROVE  \E r : Billed(s, z, t, r, Share(t))
<1>1. PICK w : w = [Zero EXCEPT !["wallMs"] = Ceiling[t]["wallMs"]]  OBVIOUS
<1>2. w \in Amounts
  <2>1. Ceiling[t] \in [Dims -> Nat]  BY BudgetsAreAmounts DEF Amounts
  <2> QED BY <1>1, <2>1, WallIsMetered DEF Amounts, Zero
<1>3. PICK y, owner : y = Charged(s, t, w) /\ owner = Owner(t)  OBVIOUS
<1>4. PICK r : Billed(s, y, t, r, Share(t))  BY <1>2, <1>3, ChargeBills
<1>5. z = y \/ z = [y EXCEPT !.ledger[owner] = Blocked(@)]
  BY <1>1, <1>3 DEF TimedOut, Owner
<1>6. CASE z = y  BY <1>4, <1>6
<1>7. CASE z = [y EXCEPT !.ledger[owner] = Blocked(@)]
  <2>1. /\ DOMAIN y = DOMAIN s /\ y.queue = s.queue /\ y.phase = s.phase /\ y.out = s.out
        /\ y.experts = s.experts /\ y.writers = s.writers
        /\ y.ledger = [s.ledger EXCEPT ![Owner(t)] = r]
        /\ Account(r) /\ Children(r) = Children(s.ledger[Owner(t)]) + Share(t)
        /\ DOMAIN r.reserved \ {t} = DOMAIN s.ledger[Owner(t)].reserved \ {t}
        /\ t \in Experts => DOMAIN r.reserved = DOMAIN s.ledger[Owner(t)].reserved
    BY <1>4 DEF Billed
  <2>2. PICK b : b = Blocked(r)  OBVIOUS
  <2>3. Account(b) /\ Children(b) = Children(r) /\ b.reserved = r.reserved
    BY <2>1, <2>2, AccountBlocks
  <2>4. IsState(s) /\ owner \in Experts  BY <1>3, Families DEF SlotsOK
  <2>5. y.ledger[owner] = r  BY <1>3, <2>1, <2>4 DEF IsState
  <2>6. DOMAIN y = {"queue", "phase", "out", "experts", "writers", "ledger"}  BY <2>1, <2>4 DEF IsState
  <2>7. /\ DOMAIN z = DOMAIN y /\ z.queue = y.queue /\ z.phase = y.phase /\ z.out = y.out
        /\ z.experts = y.experts /\ z.writers = y.writers
        /\ z.ledger = [y.ledger EXCEPT ![owner] = b]
    BY <1>7, <2>2, <2>5, <2>6
  <2>8. z.ledger = [s.ledger EXCEPT ![Owner(t)] = b]  BY <1>3, <2>1, <2>4, <2>7 DEF IsState
  <2>9. Billed(s, z, t, b, Share(t))  BY <2>1, <2>3, <2>7, <2>8 DEF Billed
  <2> QED BY <2>9
<1> QED BY <1>5, <1>6, <1>7

\* A task moves, and then what can start does.
Follows(s, x, t, P) ==
  \E y : /\ y.phase[t] \in P /\ \A u \in Family : u # t => y.phase[u] = s.phase[u]
         /\ \A e \in Experts : s.ledger[e] # NoRecord => y.ledger[e] # NoRecord
         /\ Moved(y, x)

\* What each step of the scheduler keeps, before and after its disposal.
Keeps(d, s, x) ==
  /\ SlotsOK(x)
  /\ d \/ Startable(x) = {}
  /\ d => Active(x) \subseteq Active(s)

\* After a task has moved, the drain starts what can start, unless disposed.
LEMMA DrainedKeeps ==
  ASSUME NEW d, NEW s, NEW y, SlotsOK(y), Active(y) \subseteq Active(s),
         NEW t, NEW P, y.phase[t] \in P, \A u \in Family : u # t => y.phase[u] = s.phase[u],
         \A e \in Experts : s.ledger[e] # NoRecord => y.ledger[e] # NoRecord,
         NEW x, x \in IF d THEN {y} ELSE Drains(y)
  PROVE  Keeps(d, s, x) /\ Follows(s, x, t, P)
<1>1. CASE d
  <2>1. x = y  BY <1>1
  <2>2. Moved(y, y)  BY DEF Moved
  <2> QED BY <1>1, <2>1, <2>2 DEF Keeps, Follows
<1>2. CASE ~d
  <2>1. x \in Drains(y)  BY <1>2
  <2>2. SlotsOK(x) /\ Moved(y, x) /\ Startable(x) = {}  BY <2>1, DrainKeeps
  <2> QED BY <1>2, <2>2 DEF Keeps, Follows
<1> QED BY <1>1, <1>2

\* The caller is told once.
LEMMA SettledMoves ==
  ASSUME NEW s, SlotsOK(s), NEW t \in Family, s.phase[t] \in Holding \ Over,
         NEW z, NEW r, NEW k, Billed(s, z, t, r, k), NEW o \in Outcomes, NEW y, y = Settled(z, t, o)
  PROVE  /\ DOMAIN y = DOMAIN s /\ y.queue = s.queue /\ y.phase = s.phase
         /\ y.out = [s.out EXCEPT ![t] = o]
         /\ y.experts = s.experts /\ y.writers = s.writers
         /\ y.ledger = [s.ledger EXCEPT ![Owner(t)] = r]
<1>1. IsState(s) /\ OutOK(s)  BY DEF SlotsOK
<1>2. s.out[t] = "none"  BY <1>1 DEF OutOK
<1>3. z.out = s.out /\ DOMAIN z = DOMAIN s  BY DEF Billed
<1>4. y = [z EXCEPT !.out = [z.out EXCEPT ![t] = o]]  BY <1>2, <1>3 DEF Settled
<1> QED BY <1>1, <1>3, <1>4 DEF Billed, IsState

\* release: the slot and the reservation are given back.
LEMMA VacatedKeeps ==
  ASSUME NEW s, SlotsOK(s), NEW t \in Family, s.phase[t] \in Holding \ Over,
         NEW z, NEW r, NEW k, Billed(s, z, t, r, k), k = 0 \/ k = Share(t),
         NEW o \in Outcomes, t \in Workers /\ k = 0 => o # "value",
         NEW y, y = Vacated(Settled(z, t, o), t)
  PROVE  /\ SlotsOK(y) /\ Active(y) \subseteq Active(s)
         /\ y.phase[t] \in Over /\ \A u \in Family : u # t => y.phase[u] = s.phase[u]
         /\ \A e \in Experts : s.ledger[e] # NoRecord => y.ledger[e] # NoRecord
<1>0. IsState(s) /\ QueueOK(s) /\ CapsOK(s) /\ ApartOK(s) /\ LedgerOK(s) /\ OutOK(s)
  BY DEF SlotsOK
<1>1. PICK v : v = Settled(z, t, o)  OBVIOUS
<1>2. /\ DOMAIN v = DOMAIN s /\ v.queue = s.queue /\ v.phase = s.phase
      /\ v.out = [s.out EXCEPT ![t] = o]
      /\ v.experts = s.experts /\ v.writers = s.writers
      /\ v.ledger = [s.ledger EXCEPT ![Owner(t)] = r]
  BY <1>1, SettledMoves
<1>3. PICK old : old = s.ledger[Owner(t)] /\ Account(old) /\ old # NoRecord
  BY OwnersAccount
<1>4. /\ Account(r) /\ Children(r) = Children(old) + k
      /\ DOMAIN r.reserved \ {t} = DOMAIN old.reserved \ {t}
      /\ t \in Experts => DOMAIN r.reserved = DOMAIN old.reserved
  BY <1>3 DEF Billed
<1>5. PICK b : b = IF t \in Workers THEN Unreserved(r, t) ELSE r  OBVIOUS
<1>6. /\ Account(b) /\ Children(b) = Children(r) /\ b # NoRecord
      /\ t \in Workers => DOMAIN b.reserved = DOMAIN r.reserved \ {t}
      /\ t \in Experts => DOMAIN b.reserved = DOMAIN r.reserved
  <2>1. CASE t \in Workers
    <3>1. t \notin Experts /\ b = Unreserved(r, t)  BY <1>5, <2>1, Families
    <3> QED BY <1>4, <2>1, <3>1, AccountFrees, AccountIsRecord
  <2>2. CASE t \notin Workers  BY <1>4, <1>5, <2>2, AccountIsRecord
  <2> QED BY <2>1, <2>2
<1>7. v.ledger[Owner(t)] = r  BY <1>0, <1>2, Families DEF IsState
<1>8. /\ y.queue = s.queue /\ Moves(s, y, t, "done", o, b)
      /\ y.experts = IF t \in Experts THEN s.experts - 1 ELSE s.experts
      /\ y.writers = IF Writer(t) THEN s.writers - 1 ELSE s.writers
  <2>1. y = Vacated(v, t)  BY <1>1
  <2>2. DOMAIN v = {"queue", "phase", "out", "experts", "writers", "ledger"}  BY <1>0, <1>2 DEF IsState
  <2>3. /\ DOMAIN y = DOMAIN v /\ y.queue = v.queue /\ y.out = v.out
        /\ y.phase = [v.phase EXCEPT ![t] = "done"]
        /\ y.experts = IF t \in Experts THEN v.experts - 1 ELSE v.experts
        /\ y.writers = IF Writer(t) THEN v.writers - 1 ELSE v.writers
        /\ y.ledger = IF t \in Workers
                      THEN [v.ledger EXCEPT ![Parent[t]] = Unreserved(v.ledger[Parent[t]], t)] ELSE v.ledger
    <3>1. PICK f, g, h : /\ f = IF t \in Workers
                                  THEN [v.ledger EXCEPT ![Parent[t]] = Unreserved(v.ledger[Parent[t]], t)]
                                  ELSE v.ledger
                         /\ g = IF t \in Experts THEN v.experts - 1 ELSE v.experts
                         /\ h = IF Writer(t) THEN v.writers - 1 ELSE v.writers
      OBVIOUS
    <3>2. DOMAIN y = DOMAIN v /\ y.queue = v.queue /\ y.out = v.out  BY <2>1, <2>2 DEF Vacated
    <3>3. y.phase = [v.phase EXCEPT ![t] = "done"]  BY <2>1, <2>2 DEF Vacated
    <3>4. y.experts = g /\ y.writers = h  BY <2>1, <2>2, <3>1 DEF Vacated
    <3>5. y.ledger = f
      <4>1. CASE t \in Workers  BY <2>1, <2>2, <3>1, <4>1 DEF Vacated
      <4>2. CASE t \notin Workers  BY <2>1, <2>2, <3>1, <4>2 DEF Vacated
      <4> QED BY <4>1, <4>2
    <3> QED BY <3>1, <3>2, <3>3, <3>4, <3>5, Zenon
  <2>4. y.ledger = [s.ledger EXCEPT ![Owner(t)] = b]
    <3>1. CASE t \in Workers
      <4>1. Owner(t) = Parent[t]  BY <3>1 DEF Owner
      <4>2. y.ledger = [v.ledger EXCEPT ![Owner(t)] = b]  BY <1>5, <1>7, <2>3, <3>1, <4>1
      <4> QED BY <1>0, <1>2, <4>2 DEF IsState
    <3>2. CASE t \notin Workers  BY <1>2, <1>5, <2>3, <3>2
    <3> QED BY <3>1, <3>2
  <2> QED BY <1>2, <2>3, <2>4 DEF Moves
<1>9. /\ IsState(y)
      /\ y.phase[t] = "done" /\ \A u \in Family : u # t => y.phase[u] = s.phase[u]
      /\ y.ledger[Owner(t)] = b /\ \A e \in Experts : e # Owner(t) => y.ledger[e] = s.ledger[e]
  BY <1>0, <1>8, StateMoves DEF Phases
<1>10. t \in Active(s) /\ Active(y) = Active(s) \ {t}  BY <1>9 DEF Active, Holding
<1>11. CapsOK(y) /\ ApartOK(y)  BY <1>0, <1>8, <1>10, SlotFreed
<1>12. QueueOK(y)
  <2>1. y.phase = [s.phase EXCEPT ![t] = "done"] /\ DOMAIN s.phase = Family /\ s.phase[t] # "queued"
    BY <1>0, <1>8 DEF Moves, IsState, Holding
  <2> QED BY <1>0, <1>8, <2>1, QueueStays
<1>13. LedgerOK(y) /\ OutOK(y)
  <2>1. "done" \in Phases /\ "done" \in Over /\ "done" \notin Holding /\ s.phase[t] \notin Over
    BY DEF Phases, Over, Holding
  <2>2. t \in Experts =>
           /\ b # NoRecord
           /\ Children(b) = Children(old) /\ DOMAIN b.reserved = DOMAIN old.reserved
    <3> SUFFICES ASSUME t \in Experts PROVE Children(b) = Children(old) /\ DOMAIN b.reserved = DOMAIN old.reserved
      BY <1>6
    <3>1. k = 0  BY Families DEF Share
    <3>2. Children(old) + 0 = Children(old)  BY <1>3 DEF Account, Children
    <3> QED BY <1>4, <1>6, <3>1, <3>2
  <2>3. t \in Workers =>
           /\ DOMAIN b.reserved \ {t} = DOMAIN old.reserved \ {t} /\ t \notin DOMAIN b.reserved
           /\ \/ Children(b) = Children(old) /\ o # "value"
              \/ Children(b) = Children(old) + 1
    <3> SUFFICES ASSUME t \in Workers
                 PROVE  /\ DOMAIN b.reserved \ {t} = DOMAIN old.reserved \ {t} /\ t \notin DOMAIN b.reserved
                        /\ \/ Children(b) = Children(old) /\ o # "value"
                           \/ Children(b) = Children(old) + 1
      OBVIOUS
    <3>1. k = 0 \/ k = 1  BY DEF Share
    <3>2. Children(old) + 0 = Children(old)  BY <1>3 DEF Account, Children
    <3> QED BY <1>4, <1>6, <3>1, <3>2
  <2>4. t \in Workers => t \notin Experts  BY Families
  <2>5. /\ IsState(s) /\ LedgerOK(s) /\ OutOK(s) /\ old = s.ledger[Owner(t)] /\ old # NoRecord
        /\ Account(b) /\ b # NoRecord /\ Moves(s, y, t, "done", o, b)
    BY <1>0, <1>3, <1>6, <1>8
  <2>6. Pays(t, old, b, "done", o)  BY <2>1, <2>2, <2>3, <2>4, <2>5 DEF Pays
  <2> QED BY <2>1, <2>5, <2>6, TaskMoves
<1>14. \A e \in Experts : s.ledger[e] # NoRecord => y.ledger[e] # NoRecord  BY <1>6, <1>9
<1>15. y.phase[t] \in Over  BY <1>9 DEF Over
<1> QED BY <1>9, <1>10, <1>11, <1>12, <1>13, <1>14, <1>15 DEF SlotsOK

\* The release of its reservation has thrown.
LeftHeld(z, t, o) == [Settled(z, t, o) EXCEPT !.phase[t] = "leaked"]

\* A release that throws leaves the slot taken, and nothing else.
LEMMA LeakedKeeps ==
  ASSUME NEW s, SlotsOK(s), NEW t \in Family, t \in Workers, s.phase[t] \in Holding \ Over,
         NEW z, NEW r, NEW k, Billed(s, z, t, r, k), k = 0 \/ k = Share(t),
         NEW o \in Outcomes, k = 0 => o # "value",
         NEW y, y = LeftHeld(z, t, o)
  PROVE  /\ SlotsOK(y) /\ Active(y) = Active(s) /\ Startable(y) = Startable(s)
         /\ y.phase[t] \in Over /\ \A u \in Family : u # t => y.phase[u] = s.phase[u]
         /\ \A e \in Experts : s.ledger[e] # NoRecord => y.ledger[e] # NoRecord
<1>0. IsState(s) /\ QueueOK(s) /\ CapsOK(s) /\ ApartOK(s) /\ LedgerOK(s) /\ OutOK(s)
  BY DEF SlotsOK
<1>1. PICK v : v = Settled(z, t, o)  OBVIOUS
<1>a. t \in Family /\ t \notin Experts  BY Families
<1>2. /\ DOMAIN v = DOMAIN s /\ v.queue = s.queue /\ v.phase = s.phase
      /\ v.out = [s.out EXCEPT ![t] = o]
      /\ v.experts = s.experts /\ v.writers = s.writers
      /\ v.ledger = [s.ledger EXCEPT ![Owner(t)] = r]
  BY <1>1, <1>a, SettledMoves
<1>3. PICK old : old = s.ledger[Owner(t)] /\ Account(old) /\ old # NoRecord
  BY <1>a, OwnersAccount
<1>4. /\ Account(r) /\ Children(r) = Children(old) + k /\ r # NoRecord
      /\ DOMAIN r.reserved \ {t} = DOMAIN old.reserved \ {t}
  BY <1>3, AccountIsRecord DEF Billed
<1>5. /\ y.queue = s.queue /\ Moves(s, y, t, "leaked", o, r)
      /\ y.experts = s.experts /\ y.writers = s.writers
  BY <1>0, <1>1, <1>2 DEF Moves, IsState, LeftHeld
<1>6. /\ IsState(y)
      /\ y.phase[t] = "leaked" /\ \A u \in Family : u # t => y.phase[u] = s.phase[u]
      /\ y.ledger[Owner(t)] = r /\ \A e \in Experts : e # Owner(t) => y.ledger[e] = s.ledger[e]
  <2>1. "leaked" \in Phases /\ IsState(s) /\ Moves(s, y, t, "leaked", o, r)  BY <1>0, <1>5 DEF Phases
  <2> QED BY <2>1, StateMoves
<1>7. Active(y) = Active(s)  BY <1>a, <1>6 DEF Active, Holding
<1>8. CapsOK(y) /\ ApartOK(y)  BY <1>0, <1>5, <1>7, SlotsStay
<1>9. QueueOK(y)
  <2>1. y.phase = [s.phase EXCEPT ![t] = "leaked"] /\ DOMAIN s.phase = Family /\ s.phase[t] # "queued"
    BY <1>0, <1>5 DEF Moves, IsState, Holding
  <2> QED BY <1>0, <1>a, <1>5, <2>1, QueueStays
<1>10. LedgerOK(y) /\ OutOK(y)
  <2>1. "leaked" \in Phases /\ "leaked" \in Over /\ s.phase[t] \notin Over
    BY DEF Phases, Over, Holding
  <2>2. \/ Children(r) = Children(old) /\ o # "value"
        \/ Children(r) = Children(old) + 1
    <3>1. k = 0 \/ k = 1  BY DEF Share
    <3>2. Children(old) + 0 = Children(old)  BY <1>3 DEF Account, Children
    <3> QED BY <1>4, <3>1, <3>2
  <2>3. /\ IsState(s) /\ LedgerOK(s) /\ OutOK(s) /\ old = s.ledger[Owner(t)] /\ old # NoRecord
        /\ Account(r) /\ r # NoRecord /\ DOMAIN r.reserved \ {t} = DOMAIN old.reserved \ {t}
        /\ Moves(s, y, t, "leaked", o, r)
    BY <1>0, <1>3, <1>4, <1>5
  <2>4. Pays(t, old, r, "leaked", o)  BY <1>a, <2>1, <2>2, <2>3 DEF Pays
  <2> QED BY <2>1, <2>3, <2>4, TaskMoves
<1>11. \A e \in Experts : s.ledger[e] # NoRecord => y.ledger[e] # NoRecord  BY <1>4, <1>6
<1>12. y.phase[t] \in Over  BY <1>6 DEF Over
<1>13. Startable(y) = Startable(s)  BY <1>5, <1>7, StartableStays
<1> QED BY <1>6, <1>7, <1>8, <1>9, <1>10, <1>11, <1>12, <1>13 DEF SlotsOK

\* An agent is there for a task that runs, and an expert with one has an account.
AgentsOK(s, a) ==
  /\ a = [t \in Family |-> a[t]]
  /\ \A t \in Family : /\ s.phase[t] \in {"idle", "queued"} => a[t] = "none"
                       /\ s.phase[t] = "spawning" => a[t] = "creating"
                       /\ a[t] = "live" => s.phase[t] \in {"running", "stopping"}
  /\ \A e \in Experts : a[e] # "none" => s.ledger[e] # NoRecord

Created(x, b) == [u \in Family |-> IF x.phase[u] = "spawning" /\ b[u] = "none" THEN "creating" ELSE b[u]]

Gets(a, c, t, v, x) == c = Created(x, [a EXCEPT ![t] = v])

\* Agents are created for the tasks that start, and for no others.
LEMMA AgentsFollow ==
  ASSUME NEW s, NEW a, AgentsOK(s, a), NEW t \in Family, NEW P, NEW x, Follows(s, x, t, P), LedgerOK(x),
         NEW v, NEW c, Gets(a, c, t, v, x),
         \A ph \in P : (ph \in {"idle", "queued"} => v = "none") /\ ph # "spawning",
         v # "live", v # "none" /\ t \in Experts => s.ledger[t] # NoRecord
  PROVE  AgentsOK(x, c)
<1>1. PICK y : /\ y.phase[t] \in P /\ \A u \in Family : u # t => y.phase[u] = s.phase[u]
               /\ \A e \in Experts : s.ledger[e] # NoRecord => y.ledger[e] # NoRecord
               /\ Moved(y, x)
  BY DEF Follows
<1>0. PICK b : b = [a EXCEPT ![t] = v]  OBVIOUS
<1>2. b[t] = v /\ \A u \in Family : u # t => b[u] = a[u]  BY <1>0 DEF AgentsOK
<1>3. c = [u \in Family |-> c[u]] /\ \A u \in Family :
        c[u] = IF x.phase[u] = "spawning" /\ b[u] = "none" THEN "creating" ELSE b[u]
  BY <1>0 DEF Created, Gets
<1>4. ASSUME NEW u \in Family
      PROVE  /\ x.phase[u] \in {"idle", "queued"} => c[u] = "none"
             /\ x.phase[u] = "spawning" => c[u] = "creating"
             /\ c[u] = "live" => x.phase[u] \in {"running", "stopping"}
  <2>1. \/ x.phase[u] = y.phase[u]
        \/ y.phase[u] = "queued" /\ x.phase[u] \in {"spawning", "done"}
    BY <1>1 DEF Moved
  <2>2. /\ y.phase[u] \in {"idle", "queued"} => b[u] = "none"
        /\ y.phase[u] = "spawning" => b[u] = "creating"
        /\ b[u] = "live" => y.phase[u] \in {"running", "stopping"}
    <3>1. CASE u = t  BY <1>1, <1>2, <3>1
    <3>2. CASE u # t  BY <1>1, <1>2, <3>2 DEF AgentsOK
    <3> QED BY <3>1, <3>2
  <2>3. c[u] = IF x.phase[u] = "spawning" /\ b[u] = "none" THEN "creating" ELSE b[u]  BY <1>3
  <2> QED BY <2>1, <2>2, <2>3
<1>5. ASSUME NEW e \in Experts, c[e] # "none" PROVE x.ledger[e] # NoRecord
  <2>1. e \in Family  BY Families
  <2>2. CASE x.phase[e] = "spawning"  BY <2>2 DEF LedgerOK, Holding
  <2>3. CASE x.phase[e] # "spawning"
    <3>1. b[e] # "none"  BY <1>3, <1>5, <2>1, <2>3
    <3>2. s.ledger[e] # NoRecord
      <4>1. CASE e = t  BY <1>2, <3>1, <4>1
      <4>2. CASE e # t  BY <1>2, <2>1, <3>1, <4>2 DEF AgentsOK
      <4> QED BY <4>1, <4>2
    <3> QED BY <1>1, <3>2 DEF Moved
  <2> QED BY <2>2, <2>3
<1> QED BY <1>3, <1>4, <1>5 DEF AgentsOK

\* The finally of run keeps it all, whatever was billed before.
LEMMA FinishKeeps ==
  ASSUME SlotsOK(sched), disposed \/ Startable(sched) = {},
         NEW t \in Family, sched.phase[t] \in Holding \ Over,
         NEW z, NEW r, NEW k, Billed(sched, z, t, r, k), k = 0 \/ k = Share(t),
         NEW o \in Outcomes, t \in Workers /\ k = 0 => o # "value",
         Finish(t, z, o)
  PROVE  Keeps(disposed, sched, sched') /\ Follows(sched, sched', t, Over)
<1>1. PICK s, x, d : s = sched /\ x = sched' /\ d = disposed  OBVIOUS
<1>2. \/ x \in IF d THEN {Vacated(Settled(z, t, o), t)} ELSE Drains(Vacated(Settled(z, t, o), t))
      \/ t \in Workers /\ x = LeftHeld(z, t, o)
  BY <1>1 DEF Finish, Drained, LeftHeld
<1>3. CASE x \in IF d THEN {Vacated(Settled(z, t, o), t)} ELSE Drains(Vacated(Settled(z, t, o), t))
  <2>1. PICK y : y = Vacated(Settled(z, t, o), t)  OBVIOUS
  <2>2. /\ SlotsOK(y) /\ Active(y) \subseteq Active(s)
        /\ y.phase[t] \in Over /\ \A u \in Family : u # t => y.phase[u] = s.phase[u]
        /\ \A e \in Experts : s.ledger[e] # NoRecord => y.ledger[e] # NoRecord
    BY <1>1, <2>1, VacatedKeeps
  <2>3. x \in IF d THEN {y} ELSE Drains(y)  BY <1>3, <2>1
  <2>4. Keeps(d, s, x) /\ Follows(s, x, t, Over)  BY <2>2, <2>3, DrainedKeeps
  <2> QED BY <1>1, <2>4
<1>4. CASE t \in Workers /\ x = LeftHeld(z, t, o)
  <2>1. /\ SlotsOK(x) /\ Active(x) = Active(s) /\ Startable(x) = Startable(s)
        /\ x.phase[t] \in Over /\ \A u \in Family : u # t => x.phase[u] = s.phase[u]
        /\ \A e \in Experts : s.ledger[e] # NoRecord => x.ledger[e] # NoRecord
    BY <1>1, <1>4, LeakedKeeps
  <2>2. Moved(x, x)  BY DEF Moved
  <2>3. Keeps(d, s, x) /\ Follows(s, x, t, Over)
    BY <1>1, <2>1, <2>2 DEF Keeps, Follows
  <2> QED BY <1>1, <2>3
<1> QED BY <1>2, <1>3, <1>4

----------------------------------------------------------------------------
SchedulerInv == /\ SlotsOK(sched) /\ AgentsOK(sched, agent)
                /\ disposed \in BOOLEAN /\ (disposed \/ Startable(sched) = {})

\* What a step keeps, together.
LEMMA StepKeeps ==
  ASSUME SchedulerInv, NEW t \in Family, NEW P, NEW v, NEW b,
         Keeps(disposed, sched, sched'), Follows(sched, sched', t, P),
         b = [agent EXCEPT ![t] = v], agent' = WithCreated(b), UNCHANGED disposed,
         \A ph \in P : (ph \in {"idle", "queued"} => v = "none") /\ ph # "spawning",
         v # "live", v # "none" /\ t \in Experts => sched.ledger[t] # NoRecord
  PROVE  SchedulerInv' /\ (disposed => Active(sched') \subseteq Active(sched))
<1>1. PICK s, x, a, c : s = sched /\ x = sched' /\ a = agent /\ c = agent'  OBVIOUS
<1>2. /\ SlotsOK(x) /\ (disposed \/ Startable(x) = {})
      /\ disposed => Active(x) \subseteq Active(s)
  BY <1>1 DEF Keeps
<1>3. c = Created(x, b)  BY <1>1 DEF WithCreated, Created
<1>4. AgentsOK(s, a) /\ Follows(s, x, t, P) /\ LedgerOK(x) /\ b = [a EXCEPT ![t] = v]
      /\ (v # "none" /\ t \in Experts => s.ledger[t] # NoRecord)
  BY <1>1, <1>2 DEF SchedulerInv, SlotsOK
<1>5. AgentsOK(x, c)
  <2>2. Gets(a, c, t, v, x)  BY <1>3, <1>4 DEF Gets
  <2>3. AgentsOK(s, a) /\ Follows(s, x, t, P) /\ LedgerOK(x)  BY <1>4
  <2>4. v # "none" /\ t \in Experts => s.ledger[t] # NoRecord  BY <1>4
  <2> QED BY <2>2, <2>3, <2>4, AgentsFollow
<1>6. SlotsOK(sched)' /\ AgentsOK(sched, agent)' /\ (disposed \/ Startable(sched) = {})'
      /\ (disposed \in BOOLEAN)'
  <2>1. SlotsOK(sched') /\ AgentsOK(sched', agent') /\ (disposed \/ Startable(sched') = {})  BY <1>1, <1>2, <1>5
  <2> QED BY <2>1 DEF SchedulerInv, SlotsOK, AgentsOK
<1> QED BY <1>1, <1>2, <1>6 DEF SchedulerInv

NothingStarts == disposed => Active(sched') \subseteq Active(sched)

\* A task's phase moves, and no account does.
LEMMA PhaseMoves ==
  ASSUME NEW s, SlotsOK(s), NEW t \in Family, s.phase[t] \notin Over,
         NEW ph \in Phases, ph # "leaked", ph \in Holding <=> s.phase[t] \in Holding,
         ph \in {"idle", "queued"} => s.phase[t] \in {"idle", "queued"},
         NEW o \in Outcomes, o # "value", ph \notin Over => o = "none",
         t \in Workers => s.ledger[Parent[t]] # NoRecord,
         NEW r, r = s.ledger[Owner(t)], NEW x, Moves(s, x, t, ph, o, r),
         x.experts = s.experts, x.writers = s.writers, QueueOK(x)
  PROVE  /\ SlotsOK(x) /\ Active(x) = Active(s)
         /\ x.phase[t] = ph /\ \A u \in Family : u # t => x.phase[u] = s.phase[u]
         /\ x.ledger = s.ledger
<1>0. IsState(s) /\ CapsOK(s) /\ ApartOK(s) /\ LedgerOK(s) /\ OutOK(s)  BY DEF SlotsOK
<1>1. /\ IsState(x)
      /\ x.phase[t] = ph /\ \A u \in Family : u # t => x.phase[u] = s.phase[u]
  BY <1>0, StateMoves
<1>2. Active(x) = Active(s)  BY <1>1, ActiveHold DEF Holding
<1>3. CapsOK(x) /\ ApartOK(x)  BY <1>0, <1>2, SlotsStay
<1>4. Owner(t) \in Experts /\ (t \in Workers => Owner(t) = Parent[t] /\ t \notin Experts)
      /\ (t \in Experts => Owner(t) = t)
  BY Families DEF Owner
<1>5. x.ledger = s.ledger  BY <1>0, <1>4 DEF Moves, IsState
<1>6. LedgerOK(x) /\ OutOK(x)
  <2>1. r # NoRecord => Account(r)  BY <1>0, <1>4 DEF LedgerOK
  <2>2. CASE t \in Workers
    <3>1. t \in DOMAIN r.reserved <=> ph \in Holding
      <4>1. s.phase[t] # "leaked"  BY DEF Over
      <4> QED BY <1>0, <1>4, <2>2, <4>1 DEF LedgerOK
    <3>2. r # NoRecord  BY <1>4, <2>2
    <3>3. Pays(t, r, r, ph, o)  BY <1>4, <2>1, <2>2, <3>1, <3>2 DEF Pays
    <3> QED BY <1>0, <3>3, TaskMoves
  <2>3. CASE t \in Experts
    <3>1. t \notin Workers  BY <2>3, Families
    <3>2. ph \in {"idle", "queued"} => r = NoRecord  BY <1>0, <1>4, <2>3 DEF LedgerOK
    <3>3. ph \in Holding => r # NoRecord  BY <1>0, <1>4, <2>3 DEF LedgerOK
    <3>4. Pays(t, r, r, ph, o)  BY <2>1, <3>1, <3>2, <3>3 DEF Pays
    <3> QED BY <1>0, <3>4, TaskMoves
  <2> QED BY <2>2, <2>3, Families
<1> QED BY <1>1, <1>2, <1>3, <1>5, <1>6 DEF SlotsOK

Enqueued(s, t, p) ==
  [s EXCEPT !.phase[t] = "queued", !.queue[Lane(t)][p] = Append(@, t)]

\* submit, before and after dispose.
LEMMA SubmitKeeps ==
  ASSUME SchedulerInv, NEW t \in Family, NEW p \in Priorities, Submit(t, p)
  PROVE  SchedulerInv' /\ NothingStarts
<1>0. PICK s, a, r : s = sched /\ a = agent /\ r = s.ledger[Owner(t)]  OBVIOUS
<1>1. /\ SlotsOK(s) /\ IsState(s) /\ QueueOK(s) /\ LedgerOK(s) /\ OutOK(s) /\ AgentsOK(s, a)
      /\ s.phase[t] = "idle" /\ s.phase[t] \notin Over /\ s.phase[t] \notin Holding /\ p \in Classes
  BY <1>0, PrioritiesOfSubmit DEF Submit, SchedulerInv, SlotsOK, Over, Holding, Classes
<1>2. /\ s.out[t] = "none" /\ s.out = [s.out EXCEPT ![t] = "none"]
      /\ s.ledger = [s.ledger EXCEPT ![Owner(t)] = r]
  BY <1>0, <1>1, OutStays
<1>3. a[t] = "none"  BY <1>1 DEF AgentsOK
<1>4. t \in Workers => s.ledger[Parent[t]] # NoRecord
  BY <1>0, <1>1, Families DEF Submit, AgentsOK
<1>5. PICK y : y = IF disposed THEN [s EXCEPT !.phase[t] = "done", !.out[t] = "rejected"]
                   ELSE Enqueued(s, t, p)
  OBVIOUS
<1>6. PICK ph : ph = IF disposed THEN "done" ELSE "queued"  OBVIOUS
<1>7. SlotsOK(y) /\ Active(y) = Active(s)
      /\ y.phase[t] = ph /\ (\A u \in Family : u # t => y.phase[u] = s.phase[u])
      /\ y.ledger = s.ledger
  <2>1. CASE disposed
    <3>1. y = [s EXCEPT !.phase[t] = "done", !.out[t] = "rejected"] /\ ph = "done"  BY <1>5, <1>6, <2>1
    <3>2. Moves(s, y, t, "done", "rejected", r) /\ y.queue = s.queue
          /\ y.experts = s.experts /\ y.writers = s.writers
      BY <1>1, <1>2, <3>1 DEF Moves, IsState
    <3>3. QueueOK(y)
      <4>1. y.phase = [s.phase EXCEPT ![t] = "done"] /\ DOMAIN s.phase = Family
        BY <1>1, <3>2 DEF Moves, IsState
      <4> QED BY <1>1, <3>2, <4>1, QueueStays
    <3>4. "done" \in Phases /\ "done" \in Over /\ "done" \notin Holding /\ "rejected" \in Outcomes
      BY DEF Phases, Over, Holding, Outcomes
    <3>5. ph = "done" /\ y.experts = s.experts /\ y.writers = s.writers  BY <3>1, <3>2
    <3>6. Moves(s, y, t, ph, "rejected", r)  BY <3>1, <3>2
    <3>7. s.phase[t] \notin Over /\ s.phase[t] \notin Holding /\ r = s.ledger[Owner(t)] /\ SlotsOK(s)
      BY <1>0, <1>1
    <3> QED BY <1>4, <3>3, <3>4, <3>5, <3>6, <3>7, PhaseMoves
  <2>2. CASE ~disposed
    <3>1. y = Enqueued(s, t, p) /\ ph = "queued"  BY <1>5, <1>6, <2>2
    <3>2. /\ DOMAIN y = DOMAIN s /\ y.phase = [s.phase EXCEPT ![t] = "queued"] /\ y.out = s.out
          /\ y.ledger = s.ledger /\ y.experts = s.experts /\ y.writers = s.writers
          /\ y.queue = [s.queue EXCEPT ![Lane(t)][p] = Append(s.queue[Lane(t)][p], t)]
      BY <1>1, <3>1 DEF Enqueued, IsState
    <3>3. Moves(s, y, t, "queued", "none", r)  BY <1>2, <3>2 DEF Moves
    <3>4. QueueOK(y)
      <4>1. DOMAIN s.phase = Family  BY <1>1 DEF IsState
      <4> QED BY <1>1, <3>2, <4>1, QueueGrows
    <3>5. "queued" \in Phases /\ "queued" \notin Over /\ "queued" \notin Holding /\ "none" \in Outcomes
      BY DEF Phases, Over, Holding, Outcomes
    <3>6. ph = "queued" /\ y.experts = s.experts /\ y.writers = s.writers  BY <3>1, <3>2
    <3>7. Moves(s, y, t, ph, "none", r)  BY <3>1, <3>3
    <3>8. s.phase[t] = "idle" /\ r = s.ledger[Owner(t)] /\ SlotsOK(s) /\ s.phase[t] \notin Over
          /\ s.phase[t] \notin Holding
      BY <1>0, <1>1
    <3> QED BY <1>4, <3>4, <3>5, <3>6, <3>7, <3>8, PhaseMoves
  <2> QED BY <2>1, <2>2
<1>8. sched' \in IF disposed THEN {y} ELSE Drains(y)  BY <1>0, <1>5 DEF Submit, Refused, Enqueued
<1>9. PICK x, d : x = sched' /\ d = disposed  OBVIOUS
<1>10. Keeps(d, s, x) /\ Follows(s, x, t, {ph})
  <2>1. x \in IF d THEN {y} ELSE Drains(y)  BY <1>8, <1>9
  <2>2. Active(y) \subseteq Active(s) /\ y.phase[t] \in {ph}
        /\ \A e \in Experts : s.ledger[e] # NoRecord => y.ledger[e] # NoRecord
    BY <1>7
  <2> QED BY <1>7, <2>1, <2>2, DrainedKeeps
<1>11. PICK v, b : v = "none" /\ b = [a EXCEPT ![t] = v]  OBVIOUS
<1>12. b = a  BY <1>1, <1>3, <1>11 DEF AgentsOK
<1>13. agent' = WithCreated(b) /\ UNCHANGED disposed /\ b = [agent EXCEPT ![t] = v]
  BY <1>0, <1>11, <1>12 DEF Submit
<1>16. PICK P : P = {ph}  OBVIOUS
<1>14. \A q \in P : (q \in {"idle", "queued"} => v = "none") /\ q # "spawning"
  BY <1>6, <1>11, <1>16
<1>15. Keeps(disposed, sched, sched') /\ Follows(sched, sched', t, P)  BY <1>0, <1>9, <1>10, <1>16
<1>17. v # "live" /\ ~(v # "none" /\ t \in Experts)  BY <1>11
<1> QED BY <1>13, <1>14, <1>15, <1>17, StepKeeps DEF NothingStarts

\* The end of a run.
LEMMA FinishedKeeps ==
  ASSUME SchedulerInv, NEW t \in Family, sched.phase[t] \in {"spawning", "running", "stopping"},
         NEW z, NEW k, \E r : Billed(sched, z, t, r, k), k = 0 \/ k = Share(t),
         NEW o \in Outcomes, t \in Workers /\ k = 0 => o # "value",
         Finish(t, z, o),
         NEW v, v # "live", agent' = WithCreated([agent EXCEPT ![t] = v]), UNCHANGED disposed
  PROVE  SchedulerInv' /\ NothingStarts
<1>1. sched.phase[t] \in Holding \ Over  BY DEF Holding, Over
<1>2. SlotsOK(sched) /\ (disposed \/ Startable(sched) = {})  BY DEF SchedulerInv
<1>3. PICK r : Billed(sched, z, t, r, k)  OBVIOUS
<1>4. Keeps(disposed, sched, sched') /\ Follows(sched, sched', t, Over)
  BY <1>1, <1>2, <1>3, FinishKeeps
<1>5. t \in Experts => sched.ledger[t] # NoRecord
  BY <1>1, <1>2 DEF SlotsOK, LedgerOK
<1>6. \A ph \in Over : (ph \in {"idle", "queued"} => v = "none") /\ ph # "spawning"  BY DEF Over
<1>7. PICK b : b = [agent EXCEPT ![t] = v]  OBVIOUS
<1>8. agent' = WithCreated(b)  BY <1>7
<1> QED BY <1>4, <1>5, <1>6, <1>7, <1>8, StepKeeps DEF NothingStarts

\* A failed run returns no value.
LEMMA FailureIs == ASSUME NEW t PROVE Failure(t) \in Outcomes /\ Failure(t) # "value"
BY DEF Failure, Outcomes

\* It ends without a usage,
LEMMA UnbilledKeeps ==
  ASSUME SchedulerInv, NEW t \in Family, sched.phase[t] \in {"spawning", "running", "stopping"},
         NEW o \in Outcomes, o # "value", Finish(t, sched, o),
         NEW v, v # "live", agent' = WithCreated([agent EXCEPT ![t] = v]), UNCHANGED disposed
  PROVE  SchedulerInv' /\ NothingStarts
<1>1. SlotsOK(sched) /\ sched.phase[t] \in Holding  BY DEF SchedulerInv, Holding
<1>2. PICK s : s = sched  OBVIOUS
<1>3. \E r : Billed(s, s, t, r, 0)  BY <1>1, <1>2, NothingBilled
<1>4. Finish(t, s, o) /\ \E r : Billed(sched, s, t, r, 0)  BY <1>2, <1>3
<1> QED BY <1>4, FinishedKeeps

\* after a timeout,
LEMMA TimedOutKeeps ==
  ASSUME SchedulerInv, NEW t \in Family, sched.phase[t] \in {"spawning", "running", "stopping"},
         Finish(t, TimedOut(sched, t), Failure(t)),
         NEW v, v # "live", agent' = WithCreated([agent EXCEPT ![t] = v]), UNCHANGED disposed
  PROVE  SchedulerInv' /\ NothingStarts
<1>1. SlotsOK(sched) /\ sched.phase[t] \in Holding  BY DEF SchedulerInv, Holding
<1>2. PICK s, z : s = sched /\ z = TimedOut(sched, t)  OBVIOUS
<1>3. \E r : Billed(s, z, t, r, Share(t))  BY <1>1, <1>2, TimeoutBills
<1>4. PICK o, k : o \in Outcomes /\ o = Failure(t) /\ k = Share(t) /\ o # "value"  BY FailureIs
<1>5. Finish(t, z, o) /\ \E r : Billed(sched, z, t, r, k)  BY <1>2, <1>3, <1>4
<1> QED BY <1>4, <1>5, FinishedKeeps

\* or with a result.
LEMMA ResultKeeps ==
  ASSUME SchedulerInv, NEW t \in Family, NEW u \in Usages, Result(t, u)
  PROVE  SchedulerInv' /\ NothingStarts
<1>1. SlotsOK(sched) /\ sched.phase[t] \in {"spawning", "running", "stopping"} /\ sched.phase[t] \in Holding
  BY DEF SchedulerInv, Holding, Result
<1>2. PICK v : v = (IF t \in cancelled THEN "gone" ELSE "answered")  OBVIOUS
<1>3. v # "live" /\ agent' = WithCreated([agent EXCEPT ![t] = v]) /\ UNCHANGED disposed
  BY <1>2 DEF Result
<1>4. \/ Finish(t, sched, "undefined")
      \/ t \in Workers /\ Finish(t, sched, "rejected")
      \/ \E o \in {"rejected", "value"} : Finish(t, Charged(sched, t, u), o)
  BY DEF Result
<1>5. CASE \E o \in {"undefined", "rejected"} : Finish(t, sched, o)
  <2>1. PICK o \in {"undefined", "rejected"} : Finish(t, sched, o)  BY <1>5
  <2>2. o \in Outcomes /\ o # "value"  BY DEF Outcomes
  <2> QED BY <1>1, <1>3, <2>1, <2>2, UnbilledKeeps
<1>6. CASE \E o \in {"rejected", "value"} : Finish(t, Charged(sched, t, u), o)
  <2>1. PICK o \in {"rejected", "value"} : Finish(t, Charged(sched, t, u), o)  BY <1>6
  <2>2. PICK s, z, k : s = sched /\ z = Charged(sched, t, u) /\ k = Share(t)  OBVIOUS
  <2>3. u \in Amounts  BY BudgetsAreAmounts
  <2>4. \E r : Billed(s, z, t, r, Share(t))  BY <1>1, <2>2, <2>3, ChargeBills
  <2>5. Finish(t, z, o) /\ \E r : Billed(sched, z, t, r, k)  BY <2>1, <2>2, <2>4
  <2>6. o \in Outcomes /\ ~(t \in Workers /\ k = 0)  BY <2>2 DEF Outcomes, Share
  <2> QED BY <1>1, <1>3, <2>2, <2>5, <2>6, FinishedKeeps
<1> QED BY <1>4, <1>5, <1>6

\* cancel takes a queued task out of its lane.
LEMMA CancelQueuedKeeps ==
  ASSUME SchedulerInv, NEW t \in Family, CancelQueued(t)
  PROVE  SchedulerInv' /\ NothingStarts
<1>0. PICK s, a, r : s = sched /\ a = agent /\ r = s.ledger[Owner(t)]  OBVIOUS
<1>1. /\ SlotsOK(s) /\ IsState(s) /\ QueueOK(s) /\ LedgerOK(s) /\ OutOK(s) /\ AgentsOK(s, a)
      /\ s.phase[t] = "queued" /\ s.phase[t] \notin Over /\ s.phase[t] \notin Holding
  BY <1>0 DEF CancelQueued, SchedulerInv, SlotsOK, Over, Holding
<1>2. /\ s.out[t] = "none" /\ s.out = [s.out EXCEPT ![t] = "none"]
      /\ s.ledger = [s.ledger EXCEPT ![Owner(t)] = r]
  BY <1>0, <1>1, OutStays
<1>3. a[t] = "none"  BY <1>1 DEF AgentsOK
<1>4. t \in Workers => s.ledger[Parent[t]] # NoRecord  BY <1>1 DEF LedgerOK
<1>5. PICK y : y = [Settled(s, t, "undefined") EXCEPT
                     !.phase[t] = "done",
                     !.queue[Lane(t)] = [p \in DOMAIN @ |-> RemoveFirst(@[p], t)]]
  OBVIOUS
<1>6. /\ DOMAIN y = DOMAIN s /\ y.phase = [s.phase EXCEPT ![t] = "done"]
      /\ y.out = [s.out EXCEPT ![t] = "undefined"]
      /\ y.ledger = s.ledger /\ y.experts = s.experts /\ y.writers = s.writers
      /\ y.queue = [s.queue EXCEPT ![Lane(t)] =
                      [p \in DOMAIN s.queue[Lane(t)] |-> RemoveFirst(s.queue[Lane(t)][p], t)]]
  <2>1. PICK z : z = Settled(s, t, "undefined")  OBVIOUS
  <2>2. /\ DOMAIN z = DOMAIN s /\ z.phase = s.phase /\ z.out = [s.out EXCEPT ![t] = "undefined"]
        /\ z.ledger = s.ledger /\ z.experts = s.experts /\ z.writers = s.writers
        /\ z.queue = s.queue
    BY <1>1, <1>2, <2>1 DEF Settled, IsState
  <2>3. y = [z EXCEPT !.phase[t] = "done",
                      !.queue[Lane(t)] = [p \in DOMAIN @ |-> RemoveFirst(@[p], t)]]
    BY <1>5, <2>1
  <2>4. DOMAIN z = {"queue", "phase", "out", "experts", "writers", "ledger"}  BY <1>1, <2>2 DEF IsState
  <2>5. /\ DOMAIN y = DOMAIN z /\ y.phase = [z.phase EXCEPT ![t] = "done"] /\ y.out = z.out
        /\ y.ledger = z.ledger /\ y.experts = z.experts /\ y.writers = z.writers
        /\ y.queue = [z.queue EXCEPT ![Lane(t)] =
                        [p \in DOMAIN z.queue[Lane(t)] |-> RemoveFirst(z.queue[Lane(t)][p], t)]]
    BY <2>3, <2>4
  <2> QED BY <2>2, <2>5
<1>7. QueueOK(y)
  <2>1. DOMAIN s.phase = Family  BY <1>1 DEF IsState
  <2> QED BY <1>1, <1>6, <2>1, QueueRemoves
<1>8. SlotsOK(y) /\ Active(y) = Active(s)
      /\ y.phase[t] = "done" /\ (\A u \in Family : u # t => y.phase[u] = s.phase[u])
      /\ y.ledger = s.ledger
  <2>1. PICK ph, o : ph = "done" /\ o = "undefined"  OBVIOUS
  <2>2. Moves(s, y, t, ph, o, r)  BY <1>2, <1>6, <2>1 DEF Moves
  <2>3. /\ ph \in Phases /\ ph # "leaked" /\ ph \in Over /\ ph \notin Holding
        /\ o \in Outcomes /\ o # "value" /\ ph \notin {"idle", "queued"}
    BY <2>1 DEF Phases, Over, Holding, Outcomes
  <2>4. SlotsOK(s) /\ s.phase[t] \notin Over /\ s.phase[t] \notin Holding /\ r = s.ledger[Owner(t)]
    BY <1>0, <1>1
  <2>5. y.experts = s.experts /\ y.writers = s.writers  BY <1>6
  <2> QED BY <1>4, <1>7, <2>1, <2>2, <2>3, <2>4, <2>5, PhaseMoves
<1>9. PICK x, d : x = sched' /\ d = disposed  OBVIOUS
<1>10. PICK P : P = {"done"}  OBVIOUS
<1>11. Keeps(d, s, x) /\ Follows(s, x, t, P)
  <2>1. x \in IF d THEN {y} ELSE Drains(y)  BY <1>0, <1>5, <1>9 DEF CancelQueued, Drained
  <2>2. Active(y) \subseteq Active(s) /\ y.phase[t] \in P
        /\ \A e \in Experts : s.ledger[e] # NoRecord => y.ledger[e] # NoRecord
    BY <1>8, <1>10
  <2> QED BY <1>8, <2>1, <2>2, DrainedKeeps
<1>12. PICK v, b : v = "none" /\ b = [a EXCEPT ![t] = v]  OBVIOUS
<1>13. b = a  BY <1>1, <1>3, <1>12 DEF AgentsOK
<1>14. agent' = WithCreated(b) /\ UNCHANGED disposed /\ b = [agent EXCEPT ![t] = v]
  BY <1>0, <1>12, <1>13 DEF CancelQueued
<1>15. \A q \in P : (q \in {"idle", "queued"} => v = "none") /\ q # "spawning"  BY <1>10
<1>16. Keeps(disposed, sched, sched') /\ Follows(sched, sched', t, P)  BY <1>0, <1>9, <1>11
<1>17. v # "live" /\ ~(v # "none" /\ t \in Experts)  BY <1>12
<1> QED BY <1>14, <1>15, <1>16, <1>17, StepKeeps DEF NothingStarts

\* The agent is there.
LEMMA SpawnReturnsKeeps ==
  ASSUME SchedulerInv, NEW t \in Family, SpawnReturns(t)
  PROVE  SchedulerInv' /\ NothingStarts
<1>0. PICK s, x, a, c : s = sched /\ x = sched' /\ a = agent /\ c = agent'  OBVIOUS
<1>1. /\ SlotsOK(s) /\ IsState(s) /\ QueueOK(s) /\ LedgerOK(s) /\ OutOK(s) /\ AgentsOK(s, a)
      /\ s.phase[t] = "spawning" /\ s.phase[t] \notin Over /\ s.phase[t] \in Holding
  BY <1>0 DEF SpawnReturns, SchedulerInv, SlotsOK, Over, Holding
<1>2. x = [s EXCEPT !.phase[t] = "running"] /\ c = [a EXCEPT ![t] = "live"] /\ UNCHANGED disposed
  BY <1>0 DEF SpawnReturns
<1>3. PICK r, ph, o : r = s.ledger[Owner(t)] /\ ph = "running" /\ o = "none"  OBVIOUS
<1>4. /\ s.out = [s.out EXCEPT ![t] = o] /\ s.ledger = [s.ledger EXCEPT ![Owner(t)] = r]
  BY <1>1, <1>3, OutStays
<1>5. /\ Moves(s, x, t, ph, o, r) /\ x.queue = s.queue /\ x.experts = s.experts /\ x.writers = s.writers
      /\ x.phase = [s.phase EXCEPT ![t] = "running"] /\ DOMAIN s.phase = Family
  BY <1>1, <1>2, <1>3, <1>4 DEF Moves, IsState
<1>6. QueueOK(x)  BY <1>1, <1>5, QueueStays
<1>7. t \in Workers => s.ledger[Parent[t]] # NoRecord  BY <1>1 DEF LedgerOK
<1>8. SlotsOK(x) /\ Active(x) = Active(s)
      /\ x.phase[t] = "running" /\ (\A u \in Family : u # t => x.phase[u] = s.phase[u])
      /\ x.ledger = s.ledger
  <2>1. /\ ph \in Phases /\ ph # "leaked" /\ ph \in Holding
        /\ o \in Outcomes /\ o # "value" /\ ph \notin {"idle", "queued"}
    BY <1>3 DEF Phases, Holding, Outcomes
  <2>2. SlotsOK(s) /\ s.phase[t] \notin Over /\ s.phase[t] \in Holding /\ Moves(s, x, t, ph, o, r)
        /\ x.experts = s.experts /\ x.writers = s.writers
    BY <1>1, <1>5
  <2> QED BY <1>3, <1>6, <1>7, <2>1, <2>2, PhaseMoves
<1>9. Startable(x) = Startable(s)  BY <1>5, <1>8, StartableStays
<1>10. AgentsOK(x, c)
  <2>1. c = [u \in Family |-> c[u]] /\ c[t] = "live" /\ \A u \in Family : u # t => c[u] = a[u]
    BY <1>1, <1>2 DEF AgentsOK
  <2>2. t \in Experts => s.ledger[t] # NoRecord  BY <1>1 DEF LedgerOK
  <2>3. \A e \in Experts : c[e] # "none" => x.ledger[e] # NoRecord
    BY <1>1, <1>8, <2>1, <2>2, Families DEF AgentsOK
  <2> QED BY <1>1, <1>8, <2>1, <2>3 DEF AgentsOK
<1> QED BY <1>0, <1>2, <1>8, <1>9, <1>10 DEF SchedulerInv, NothingStarts

\* The timer stops it.
LEMMA RunTimeoutKeeps ==
  ASSUME SchedulerInv, NEW t \in Family, RunTimeout(t)
  PROVE  SchedulerInv' /\ NothingStarts
<1>0. PICK s, x, a : s = sched /\ x = sched' /\ a = agent  OBVIOUS
<1>1. /\ SlotsOK(s) /\ IsState(s) /\ QueueOK(s) /\ LedgerOK(s) /\ OutOK(s) /\ AgentsOK(s, a)
      /\ s.phase[t] = "running" /\ s.phase[t] \notin Over /\ s.phase[t] \in Holding
  BY <1>0 DEF RunTimeout, SchedulerInv, SlotsOK, Over, Holding
<1>2. x = [s EXCEPT !.phase[t] = "stopping"] /\ UNCHANGED <<agent, disposed>>
  BY <1>0 DEF RunTimeout
<1>3. PICK r, ph, o : r = s.ledger[Owner(t)] /\ ph = "stopping" /\ o = "none"  OBVIOUS
<1>4. /\ s.out = [s.out EXCEPT ![t] = o] /\ s.ledger = [s.ledger EXCEPT ![Owner(t)] = r]
  BY <1>1, <1>3, OutStays
<1>5. /\ Moves(s, x, t, ph, o, r) /\ x.queue = s.queue /\ x.experts = s.experts /\ x.writers = s.writers
      /\ x.phase = [s.phase EXCEPT ![t] = "stopping"] /\ DOMAIN s.phase = Family
  BY <1>1, <1>2, <1>3, <1>4 DEF Moves, IsState
<1>6. QueueOK(x)  BY <1>1, <1>5, QueueStays
<1>7. t \in Workers => s.ledger[Parent[t]] # NoRecord  BY <1>1 DEF LedgerOK
<1>8. SlotsOK(x) /\ Active(x) = Active(s)
      /\ x.phase[t] = "stopping" /\ (\A u \in Family : u # t => x.phase[u] = s.phase[u])
      /\ x.ledger = s.ledger
  <2>1. /\ ph \in Phases /\ ph # "leaked" /\ ph \in Holding
        /\ o \in Outcomes /\ o # "value" /\ ph \notin {"idle", "queued"}
    BY <1>3 DEF Phases, Holding, Outcomes
  <2>2. SlotsOK(s) /\ s.phase[t] \notin Over /\ s.phase[t] \in Holding /\ Moves(s, x, t, ph, o, r)
        /\ x.experts = s.experts /\ x.writers = s.writers
    BY <1>1, <1>5
  <2> QED BY <1>3, <1>6, <1>7, <2>1, <2>2, PhaseMoves
<1>9. Startable(x) = Startable(s)  BY <1>5, <1>8, StartableStays
<1>10. AgentsOK(x, a)
  <2>1. ASSUME NEW u \in Family
        PROVE  /\ x.phase[u] \in {"idle", "queued"} => a[u] = "none"
               /\ x.phase[u] = "spawning" => a[u] = "creating"
               /\ a[u] = "live" => x.phase[u] \in {"running", "stopping"}
    <3>1. CASE u = t  BY <1>8, <3>1
    <3>2. CASE u # t  BY <1>1, <1>8, <3>2 DEF AgentsOK
    <3> QED BY <3>1, <3>2
  <2> QED BY <1>1, <1>8, <2>1 DEF AgentsOK
<1> QED BY <1>0, <1>2, <1>8, <1>9, <1>10 DEF SchedulerInv, NothingStarts

\* A creation that was given up ends.
LEMMA AbandonSpawnKeeps ==
  ASSUME SchedulerInv, NEW t \in Family, AbandonSpawn(t)
  PROVE  SchedulerInv' /\ NothingStarts
<1>0. PICK s, a, c : s = sched /\ a = agent /\ c = agent'  OBVIOUS
<1>1. AgentsOK(s, a) /\ a[t] = "creating" /\ s.phase[t] # "spawning" /\ c = [a EXCEPT ![t] = "aborted"]
      /\ UNCHANGED <<sched, disposed>>
  BY <1>0 DEF AbandonSpawn, SchedulerInv
<1>2. c = [u \in Family |-> c[u]] /\ c[t] = "aborted" /\ \A u \in Family : u # t => c[u] = a[u]
  BY <1>1 DEF AgentsOK
<1>3. AgentsOK(s, c)
  <2>1. s.phase[t] \notin {"idle", "queued"}  BY <1>1 DEF AgentsOK
  <2>2. \A e \in Experts : c[e] # "none" => s.ledger[e] # NoRecord
    BY <1>1, <1>2, Families DEF AgentsOK
  <2> QED BY <1>1, <1>2, <2>1, <2>2 DEF AgentsOK
<1> QED BY <1>0, <1>1, <1>3 DEF SchedulerInv, NothingStarts

\* dispose empties the queues and keeps what runs.
LEMMA DisposeKeeps ==
  ASSUME SchedulerInv, Dispose
  PROVE  SchedulerInv' /\ NothingStarts
<1>0. PICK s, x, a : s = sched /\ x = sched' /\ a = agent  OBVIOUS
<1>1. /\ SlotsOK(s) /\ IsState(s) /\ CapsOK(s) /\ ApartOK(s) /\ LedgerOK(s) /\ OutOK(s) /\ AgentsOK(s, a)
      /\ disposed' = TRUE /\ disposed # TRUE /\ UNCHANGED agent
  BY <1>0 DEF Dispose, SchedulerInv, SlotsOK
<1>2. /\ DOMAIN x = DOMAIN s
      /\ x.queue = [l \in Lanes |-> [p \in {"blocking", "normal"} |-> <<>>]]
      /\ x.phase = [t \in Family |-> IF s.phase[t] = "queued" THEN "done" ELSE s.phase[t]]
      /\ x.out = [t \in Family |-> IF s.phase[t] = "queued" THEN "rejected" ELSE s.out[t]]
      /\ x.ledger = s.ledger /\ x.experts = s.experts /\ x.writers = s.writers
  BY <1>0, <1>1 DEF Dispose, IsState
<1>3. IsState(x)
  <2>1. \A t \in Family : x.phase[t] \in Phases /\ x.out[t] \in Outcomes
    BY <1>1, <1>2 DEF IsState, Phases, Outcomes
  <2> QED BY <1>1, <1>2, <2>1 DEF IsState
<1>4. QueueOK(x)
  <2>1. \A l \in Lanes, p \in Classes : x.queue[l][p] = <<>>  BY <1>2 DEF Classes
  <2>2. <<>> \in Seq(Family) /\ Len(<<>>) = 0  OBVIOUS
  <2>3. QueueTyped(x)  BY <1>2, <2>1, <2>2 DEF QueueTyped, Classes
  <2>4. \A l \in Lanes, p \in Classes, i \in Nat, t \in Family : ~InQueue(x, l, p, i, t)
    BY <2>1, <2>2 DEF InQueue
  <2> QED BY <2>3, <2>4 DEF QueueOK
<1>5. Active(x) = Active(s)  BY <1>2 DEF Active
<1>6. CapsOK(x) /\ ApartOK(x)  BY <1>1, <1>2, <1>5, SlotsStay
<1>7. \A t \in Family : /\ s.phase[t] # "queued" => x.phase[t] = s.phase[t] /\ x.out[t] = s.out[t]
                        /\ s.phase[t] = "queued" => x.phase[t] = "done" /\ x.out[t] = "rejected" /\ s.out[t] = "none"
  BY <1>1, <1>2 DEF OutOK, Over
<1>8. LedgerOK(x)
  <2>1. \A e \in Experts : /\ x.ledger[e] # NoRecord => Account(x.ledger[e])
                           /\ x.phase[e] \in {"idle", "queued"} => x.ledger[e] = NoRecord
                           /\ x.phase[e] \in Holding => x.ledger[e] # NoRecord
    BY <1>1, <1>2, <1>7, Families DEF LedgerOK, Holding
  <2>2. \A w \in Workers : x.phase[w] # "idle" => x.ledger[Parent[w]] # NoRecord
    BY <1>1, <1>2, <1>7, Families DEF LedgerOK
  <2>3. \A w \in Workers : x.phase[w] # "leaked" /\ x.ledger[Parent[w]] # NoRecord =>
           (w \in DOMAIN x.ledger[Parent[w]].reserved <=> x.phase[w] \in Holding)
    <3>1. \A w \in Workers : /\ x.phase[w] # "leaked" => s.phase[w] # "leaked"
                             /\ x.phase[w] \in Holding <=> s.phase[w] \in Holding
      BY <1>7, Families DEF Holding
    <3> QED BY <1>1, <1>2, <3>1 DEF LedgerOK
  <2>4. ASSUME NEW e \in Experts, x.ledger[e] # NoRecord
        PROVE  /\ Cardinality(Valued(x, e)) <= Children(x.ledger[e])
               /\ Children(x.ledger[e]) <= Cardinality(Ended(x, e))
    <3>1. /\ Cardinality(Valued(s, e)) <= Children(s.ledger[e])
          /\ Children(s.ledger[e]) <= Cardinality(Ended(s, e)) /\ Account(s.ledger[e])
      BY <1>1, <1>2, <2>4 DEF LedgerOK
    <3>2. Mine(e) \subseteq Family  BY Families DEF Mine
    <3>3. Valued(x, e) = Valued(s, e) /\ Ended(s, e) \subseteq Ended(x, e)
      BY <1>7, <3>2 DEF Valued, Ended, Over
    <3>4. IsFiniteSet(Ended(x, e)) /\ IsFiniteSet(Ended(s, e))
      <4>1. Ended(x, e) \subseteq Mine(e) /\ Ended(s, e) \subseteq Mine(e)  BY DEF Ended
      <4> QED BY <4>1, Families, FS_Subset
    <3>5. Cardinality(Ended(s, e)) <= Cardinality(Ended(x, e)) /\ Cardinality(Ended(s, e)) \in Nat
          /\ Cardinality(Ended(x, e)) \in Nat
      BY <3>3, <3>4, FS_Subset, FS_CardinalityType
    <3>6. Children(s.ledger[e]) \in Nat /\ x.ledger[e] = s.ledger[e]  BY <1>2, <3>1 DEF Account, Children
    <3> QED BY <3>1, <3>3, <3>5, <3>6
  <2> QED BY <2>1, <2>2, <2>3, <2>4 DEF LedgerOK
<1>9. OutOK(x)  BY <1>1, <1>7 DEF OutOK, Over
<1>10. AgentsOK(x, a)
  <2>1. ASSUME NEW u \in Family
        PROVE  /\ x.phase[u] \in {"idle", "queued"} => a[u] = "none"
               /\ x.phase[u] = "spawning" => a[u] = "creating"
               /\ a[u] = "live" => x.phase[u] \in {"running", "stopping"}
    BY <1>1, <1>7 DEF AgentsOK
  <2> QED BY <1>1, <1>2, <2>1 DEF AgentsOK
<1>11. SlotsOK(x)  BY <1>3, <1>4, <1>6, <1>8, <1>9 DEF SlotsOK
<1> QED BY <1>0, <1>1, <1>5, <1>10, <1>11 DEF SchedulerInv, NothingStarts

\* At first nothing waits or runs.
LEMMA SchedulerStarts == SchedulerInit => SchedulerInv
<1> SUFFICES ASSUME SchedulerInit PROVE SchedulerInv  OBVIOUS
<1>1. PICK s, a : s = sched /\ a = agent  OBVIOUS
<1>2. /\ DOMAIN s = {"queue", "phase", "out", "experts", "writers", "ledger"}
      /\ s.queue = [l \in Lanes |-> [p \in {"blocking", "normal"} |-> <<>>]]
      /\ s.phase = [t \in Family |-> "idle"] /\ s.out = [t \in Family |-> "none"]
      /\ s.experts = 0 /\ s.writers = 0 /\ s.ledger = [e \in Experts |-> NoRecord]
      /\ a = [t \in Family |-> "none"] /\ disposed = FALSE
  BY <1>1 DEF SchedulerInit
<1>3. IsState(s)  BY <1>2 DEF IsState, Phases, Outcomes
<1>4. \A l \in Lanes, p \in Classes : s.queue[l][p] = <<>>  BY <1>2 DEF Classes
<1>5. QueueOK(s)
  <2>2. <<>> \in Seq(Family) /\ Len(<<>>) = 0  OBVIOUS
  <2>3. QueueTyped(s)  BY <1>2, <1>4, <2>2 DEF QueueTyped, Classes
  <2>4. \A l \in Lanes, p \in Classes, i \in Nat, t \in Family : ~InQueue(s, l, p, i, t)
    BY <1>4, <2>2 DEF InQueue
  <2> QED BY <2>3, <2>4 DEF QueueOK
<1>6. Active(s) = {}  BY <1>2 DEF Active
<1>7. CapsOK(s) /\ ApartOK(s)
  <2>1. Active(s) \cap Experts = {} /\ {t \in Active(s) : Writer(t)} = {}  BY <1>6
  <2>2. Cardinality({}) = 0 /\ 0 <= MaxExperts /\ 0 <= MaxWriters  BY FS_EmptySet, LimitsAreNumbers
  <2> QED BY <1>2, <1>6, <2>1, <2>2 DEF CapsOK, ApartOK
<1>8. LedgerOK(s) /\ OutOK(s)
  <2>1. \A e \in Experts : s.ledger[e] = NoRecord /\ s.phase[e] = "idle"  BY <1>2, Families
  <2>2. \A w \in Workers : s.phase[w] = "idle" /\ s.ledger[Parent[w]] = NoRecord  BY <1>2, Families
  <2>3. OutOK(s)  BY <1>2 DEF OutOK
  <2>4. "idle" \notin Holding  BY DEF Holding
  <2> QED BY <2>1, <2>2, <2>3, <2>4 DEF LedgerOK
<1>9. Startable(s) = {}
  <2>1. \A l \in Lanes : PeekPriority(s, l) \in Classes  BY DEF PeekPriority, Classes
  <2>2. \A l \in Lanes : ~Waiting(s, l)  BY <1>4, <2>1 DEF Waiting
  <2> QED BY <2>2 DEF Startable
<1>10. AgentsOK(s, a)  BY <1>2, Families DEF AgentsOK
<1> QED BY <1>1, <1>2, <1>3, <1>5, <1>7, <1>8, <1>9, <1>10 DEF SchedulerInv, SlotsOK

\* Every step keeps the invariant.
LEMMA SchedulerStep ==
  ASSUME SchedulerInv, [SchedulerNext]_slots
  PROVE  SchedulerInv' /\ NothingStarts
<1>1. CASE Dispose  BY <1>1, DisposeKeeps
<1>2. ASSUME NEW t \in Family, Run(t) PROVE SchedulerInv' /\ NothingStarts
  <2>1. CASE CancelQueued(t)  BY <2>1, CancelQueuedKeeps
  <2>2. CASE CancelActive(t)
    <3>1. UNCHANGED <<sched, agent, disposed>>  BY <2>2 DEF CancelActive
    <3> QED BY <3>1 DEF SchedulerInv, NothingStarts
  <2>3. CASE SpawnReturns(t)  BY <2>3, SpawnReturnsKeeps
  <2>4. CASE SpawnFails(t)
    <3>1. PICK o, v : o \in Outcomes /\ o = Failure(t) /\ o # "value" /\ v = "aborted"  BY FailureIs
    <3>2. /\ sched.phase[t] \in {"spawning", "running", "stopping"} /\ Finish(t, sched, o)
          /\ v # "live" /\ agent' = WithCreated([agent EXCEPT ![t] = v]) /\ UNCHANGED disposed
      BY <2>4, <3>1 DEF SpawnFails
    <3> QED BY <3>1, <3>2, UnbilledKeeps
  <2>5. CASE AbandonSpawn(t)  BY <2>5, AbandonSpawnKeeps
  <2>6. CASE AgentFails(t)
    <3>1. PICK o, v : o \in Outcomes /\ o = Failure(t) /\ o # "value" /\ v = "gone"  BY FailureIs
    <3>2. /\ sched.phase[t] \in {"spawning", "running", "stopping"} /\ Finish(t, sched, o)
          /\ v # "live" /\ agent' = WithCreated([agent EXCEPT ![t] = v]) /\ UNCHANGED disposed
      BY <2>6, <3>1 DEF AgentFails
    <3> QED BY <3>1, <3>2, UnbilledKeeps
  <2>7. CASE SpawnTimeout(t)
    <3>1. PICK v : v = agent[t]  OBVIOUS
    <3>2. v # "live" /\ agent = [agent EXCEPT ![t] = v]
      BY <2>7, <3>1 DEF SpawnTimeout, SchedulerInv, AgentsOK
    <3>3. /\ sched.phase[t] \in {"spawning", "running", "stopping"}
          /\ Finish(t, TimedOut(sched, t), Failure(t)) /\ UNCHANGED disposed
          /\ agent' = WithCreated(agent)
      BY <2>7 DEF SpawnTimeout
    <3>4. agent' = WithCreated([agent EXCEPT ![t] = v])  BY <3>2, <3>3
    <3> QED BY <3>2, <3>3, <3>4, TimedOutKeeps
  <2>8. CASE RunTimeout(t)  BY <2>8, RunTimeoutKeeps
  <2>9. CASE Stopped(t)
    <3>1. PICK v : v = "gone"  OBVIOUS
    <3>2. /\ sched.phase[t] \in {"spawning", "running", "stopping"}
          /\ Finish(t, TimedOut(sched, t), Failure(t)) /\ UNCHANGED disposed
          /\ v # "live" /\ agent' = WithCreated([agent EXCEPT ![t] = v])
      BY <2>9, <3>1 DEF Stopped
    <3> QED BY <3>2, TimedOutKeeps
  <2>10. CASE \E p \in Priorities : Submit(t, p)  BY <2>10, SubmitKeeps
  <2>11. CASE \E u \in Usages : Result(t, u)  BY <2>11, ResultKeeps
  <2> QED BY <1>2, <2>1, <2>2, <2>3, <2>4, <2>5, <2>6, <2>7, <2>8, <2>9, <2>10, <2>11 DEF Run, Timer
<1>3. CASE UNCHANGED slots  BY <1>3 DEF slots, SchedulerInv, NothingStarts
<1> QED BY <1>1, <1>2, <1>3 DEF SchedulerNext

LEMMA SchedulerInvariance == SchedulerSpec => []SchedulerInv
<1>1. SchedulerInv /\ [SchedulerNext]_slots => SchedulerInv'  BY SchedulerStep
<1> QED BY SchedulerStarts, <1>1, PTL DEF SchedulerSpec

\* Two writers run at once in overlapping paths only if one of them is the
\* other's worker and the coordinator gave both the same token: whatever is
\* queued, and in whatever order slots come free (canStart).
THEOREM WritersApartHolds == SchedulerSpec => []WritersApart
<1>1. SchedulerInv => WritersApart
  <2> SUFFICES ASSUME SchedulerInv, NEW t \in Active(sched), NEW u \in Active(sched),
                      t # u, Overlapping(t, u)
               PROVE  /\ {t, u} \subseteq Authorized
                      /\ \/ t \in Workers /\ u = Parent[t]
                         \/ u \in Workers /\ t = Parent[u]
    BY DEF WritersApart
  <2>1. MayOverlap(t, u) \/ MayOverlap(u, t)  BY DEF SchedulerInv, SlotsOK, ApartOK
  <2> QED BY <2>1 DEF MayOverlap
<1> QED BY SchedulerInvariance, <1>1, PTL

\* Slots are neither overrun, leaked nor left idle while a queued task could
\* start, agents live in slots of their own, and a child is charged to its
\* parent once: for any experts and workers, limits, budgets and usages.
THEOREM SlotsAreKeptHolds == SchedulerSpec => []SlotsAreKept
<1>1. SchedulerInv => SlotsAreKept
  <2> SUFFICES ASSUME SchedulerInv PROVE SlotsAreKept  OBVIOUS
  <2>1. PICK s : s = sched  OBVIOUS
  <2>2. IsState(s) /\ CapsOK(s) /\ LedgerOK(s) /\ OutOK(s) /\ AgentsOK(s, agent)
    BY <2>1 DEF SchedulerInv, SlotsOK
  <2>3. Caps  BY <2>1, <2>2 DEF Caps, CapsOK
  <2>4. SettledHoldsNothing
    <3>1. \A t \in Active(sched) \ Leaked : sched.out[t] = "none"
      BY <2>1, <2>2 DEF Active, Leaked, OutOK, Over
    <3>2. \A w \in Workers \ Leaked : s.ledger[Parent[w]] # NoRecord =>
            (w \in DOMAIN s.ledger[Parent[w]].reserved <=> s.phase[w] \in Holding)
      BY <2>1, <2>2, Families DEF Leaked, LedgerOK
    <3>3. \A w \in Workers : w \in Active(sched) <=> s.phase[w] \in Holding
      BY <2>1, Families, ActiveHold
    <3> QED BY <2>1, <3>1, <3>2, <3>3 DEF SettledHoldsNothing
  <2>5. NoIdleSlot  BY DEF NoIdleSlot, SchedulerInv
  <2>6. AgentsInSlots  BY <2>1, <2>2 DEF AgentsInSlots, AgentsOK, Active
  <2>7. ChildrenCountedOnce
    <3>1. \A e \in Experts : /\ {w \in {v \in Workers : Parent[v] = e} : s.out[w] = "value"} = Valued(s, e)
                             /\ {w \in {v \in Workers : Parent[v] = e} : s.phase[w] \in {"done", "leaked"}} = Ended(s, e)
                             /\ s.ledger[e].consumed["children"] = Children(s.ledger[e])
      BY DEF Valued, Ended, Mine, Over, Children
    <3>2. \A e \in Experts : s.ledger[e] # NoRecord =>
            /\ Cardinality(Valued(s, e)) <= Children(s.ledger[e])
            /\ Children(s.ledger[e]) <= Cardinality(Ended(s, e))
      BY <2>2 DEF LedgerOK
    <3> QED BY <2>1, <3>1, <3>2 DEF ChildrenCountedOnce
  <2> QED BY <2>3, <2>4, <2>5, <2>6, <2>7 DEF SlotsAreKept
<1> QED BY SchedulerInvariance, <1>1, PTL

\* After dispose no task takes a slot: neither one that waited, nor one that
\* is submitted late.
THEOREM DisposedStartsNothingHolds == SchedulerSpec => DisposedStartsNothing
<1>1. SchedulerInv /\ [SchedulerNext]_slots => [disposed => Active(sched') \subseteq Active(sched)]_sched
  BY SchedulerStep DEF NothingStarts
<1> QED BY SchedulerInvariance, <1>1, PTL DEF SchedulerSpec, DisposedStartsNothing
=============================================================================

------------------------ MODULE DurableBudgetLedger ------------------------
(***************************************************************************)
(* The budget ledger file of a workspace (durable-budget-ledger.ts): every *)
(* operation of every process loads the file under the lock, replaces its  *)
(* memory by it, works, and saves if anything changed.  What a process has *)
(* beyond the file is its reservation handles, matched by identity, and a  *)
(* latch that a failed load or save closes for good.  The save's rename    *)
(* may have happened when a save fails in the directory's fsync.  A call   *)
(* that finds the lock busy throws before it touches anything.             *)
(***************************************************************************)
EXTENDS BudgetLedger

CONSTANTS Procs,     \* processes with a ledger over the same file
          Parents,   \* tasks with a record: registered by the scheduler
          Children,  \* tasks that hold a reservation of a parent
          Ids,       \* reservation identifiers (random UUIDs)
          Budgets,   \* ceilings a task may ask for
          Usages     \* usages an agent may report

ASSUME BudgetsAreAmounts == Budgets \subseteq Amounts /\ Usages \subseteq Amounts

VARIABLES file,      \* parent -> its record in the file, or NoRecord
          ids,       \* <<parent, child>> -> the id of that reservation
          handles,   \* per process, the reservation handles it was given
          latched    \* processes whose ledger became unavailable

vars == <<file, ids, handles, latched>>

NoRecord == [blocked |-> "no record"]

Known == {p \in Parents : file[p] # NoRecord}

Record == [budget : Budgets, consumed : Amounts, blocked : BOOLEAN,
           reserved : UNION {[cs -> Budgets] : cs \in SUBSET Children}]
Handle == [parent : Parents, child : Children, id : Ids]

Init ==
  /\ file = [p \in Parents |-> NoRecord]
  /\ ids = [pc \in {} |-> 0]
  /\ handles = [p \in Procs |-> {}] /\ latched = {}

\* An operation of process p turned parent's record into r: saved, or lost
\* with the latch closed, or saved with the latch closed.
Save(p, parent, r) ==
  \/ file' = [file EXCEPT ![parent] = r] /\ UNCHANGED latched
  \/ file' = [file EXCEPT ![parent] = r] /\ latched' = latched \cup {p}

SaveLost(p) ==
  /\ p \notin latched
  /\ latched' = latched \cup {p}
  /\ UNCHANGED <<file, ids, handles>>

\* register: a second registration must name the same ceiling, and changes
\* nothing; a blocked record refuses it.
Register(p, parent, budget) ==
  /\ p \notin latched /\ parent \notin Known
  /\ Save(p, parent, NewRecord(budget))
  /\ UNCHANGED <<ids, handles>>

\* reserve that fits.  The handle is only returned if the save went through.
Reserve(p, parent, child, budget, id) ==
  /\ p \notin latched /\ parent \in Known
  /\ child \notin DOMAIN file[parent].reserved
  /\ Fits(file[parent], budget)
  /\ \A pc \in DOMAIN ids : ids[pc] # id
  /\ \A q \in Procs : \A h \in handles[q] : h.id # id
  /\ ids' = [pc \in DOMAIN ids \cup {<<parent, child>>} |->
              IF pc = <<parent, child>> THEN id ELSE ids[pc]]
  /\ Save(p, parent, Reserved(file[parent], child, budget))
  /\ handles' = IF p \in latched' THEN handles
                ELSE [handles EXCEPT ![p] = @ \cup
                       {[parent |-> parent, child |-> child, id |-> id]}]

\* reserve that does not fit blocks the parent.
ReserveRefused(p, parent, child, budget) ==
  /\ p \notin latched /\ parent \in Known
  /\ child \notin DOMAIN file[parent].reserved
  /\ ~Fits(file[parent], budget)
  /\ Save(p, parent, Blocked(file[parent]))
  /\ UNCHANGED <<ids, handles>>

\* A bug: the handle is matched by its child's name only.
OwnsByName(h) == h.child \in DOMAIN file[h.parent].reserved

\* replaceState keeps a handle's identity only for the same reservation.
Owns(h) ==
  /\ h.child \in DOMAIN file[h.parent].reserved
  /\ ids[<<h.parent, h.child>>] = h.id

\* consume: an unknown or foreign handle and a usage over the hold throw.  The
\* caller keeps its handle: it still releases it in its finally.
Consume(p, h, usage) ==
  /\ p \notin latched /\ h \in handles[p] /\ Owns(h)
  /\ UsageFits(file[h.parent].reserved[h.child], usage)
  /\ Save(p, h.parent, Consumed(file[h.parent], h.child, usage))
  /\ ids' = [pc \in DOMAIN ids \ {<<h.parent, h.child>>} |-> ids[pc]]
  /\ UNCHANGED handles

\* release: nothing is consumed.
Release(p, h) ==
  /\ p \notin latched /\ h \in handles[p] /\ Owns(h)
  /\ Save(p, h.parent, Unreserved(file[h.parent], h.child))
  /\ ids' = [pc \in DOMAIN ids \ {<<h.parent, h.child>>} |-> ids[pc]]
  /\ handles' = [handles EXCEPT ![p] = @ \ {h}]

\* release of a reservation that is gone does nothing; one that is gone and
\* made again, by another process for the same child, is refused.
ReleaseStale(p, h) ==
  /\ p \notin latched /\ h \in handles[p] /\ ~Owns(h)
  /\ handles' = [handles EXCEPT ![p] = @ \ {h}]
  /\ UNCHANGED <<file, ids, latched>>

RecordUsage(p, parent, usage) ==
  /\ p \notin latched /\ parent \in Known
  /\ Save(p, parent, Recorded(file[parent], usage))
  /\ UNCHANGED <<ids, handles>>

MarkExhausted(p, parent) ==
  /\ p \notin latched /\ parent \in Known
  /\ Save(p, parent, Blocked(file[parent]))
  /\ UNCHANGED <<ids, handles>>

\* The process dies and comes back: its handles and its latch are gone, and
\* the reservations they stood for stay in the file.
Restart(p) ==
  /\ handles' = [handles EXCEPT ![p] = {}]
  /\ latched' = latched \ {p}
  /\ UNCHANGED <<file, ids>>

Operate(p) ==
  \/ \E parent \in Parents, b \in Budgets :
       \/ Register(p, parent, b)
       \/ \E c \in Children :
            \/ \E id \in Ids : Reserve(p, parent, c, b, id)
            \/ ReserveRefused(p, parent, c, b)
  \/ \E h \in handles[p] :
       \/ Release(p, h)
       \/ ReleaseStale(p, h)
       \/ \E u \in Usages : Consume(p, h, u)
  \/ \E parent \in Parents :
       \/ MarkExhausted(p, parent)
       \/ \E u \in Usages : RecordUsage(p, parent, u)

Next == \E p \in Procs : Operate(p) \/ SaveLost(p) \/ Restart(p)

Spec == Init /\ [][Next]_vars

----------------------------------------------------------------------------
TypeOK ==
  /\ file \in [Parents -> Record \cup {NoRecord}]
  /\ DOMAIN ids \subseteq Parents \X Children
  /\ \A pc \in DOMAIN ids : ids[pc] \in Ids
  /\ handles \in [Procs -> SUBSET Handle]
  /\ latched \subseteq Procs

\* The children of a ready parent never hold or use more than its ceiling, in
\* any dimension, whichever processes reserved for them: also the condition
\* under which the next process can load the file at all.
CeilingKept ==
  \A p \in Known : ~file[p].blocked => WithinCeiling(file[p])

ConsumptionKept == \A p \in Known : AtMost(file[p].consumed, file'[p].consumed)

\* Consumption is monotone: no operation, failed save or restart gives back
\* what was consumed.
ConsumptionMonotone == [][ConsumptionKept]_file

\* At most one handle can settle a reservation: a stale one, of an earlier
\* reservation for the same child, cannot.
OneSettler ==
  \A p, q \in Procs : \A g \in handles[p], h \in handles[q] :
    Owns(g) /\ Owns(h) /\ g.parent = h.parent /\ g.child = h.child
      => p = q /\ g = h
=============================================================================

---------------------------- MODULE EdgeProofs ----------------------------
(***************************************************************************)
(* Theorems about what the team shares with others (MCEdges), for any      *)
(* processes, tasks, budgets, chats, contents and bounds: the budget, the  *)
(* Node runtime, the GUI's plugin, the initialisation of Spec Kit, the     *)
(* panel and the chat's tool, each by itself, then the whole.  A part's    *)
(* invariant strengthens its property: BudgetInv, NodeInv, GuiInv, KitInv, *)
(* PanelInv and ChatInv.  The lemmas named ...Initially and ...Step are    *)
(* that it is inductive.                                                   *)
(***************************************************************************)
EXTENDS MCEdges, SequenceTheorems, FiniteSetTheorems, TLAPS

---------------------------------------------------------------------------
(* The budget *)

\* Amounts are added dimension by dimension, and never shrink by it.
LEMMA AmountArithmetic ==
  ASSUME NEW a \in Amounts, NEW b \in Amounts
  PROVE  Add(a, b) \in Amounts /\ AtMost(a, Add(a, b)) /\ AtMost(a, a)
BY DEF Amounts, Add, AtMost

\* Counting a settled child as one child leaves an amount an amount.
LEMMA OneChild ==
  ASSUME NEW a \in Amounts
  PROVE  [a EXCEPT !["children"] = 1] \in Amounts
BY ChildrenAreMetered DEF Amounts

\* A registered task starts with a well-formed record.
LEMMA NewIsRecord ==
  ASSUME NEW budget \in Budgets
  PROVE  NewRecord(budget) \in Record
<1>1. Zero \in Amounts
  BY DEF Zero, Amounts
<1>2. [c \in {} |-> Zero] \in [{} -> Budgets]
  OBVIOUS
<1> QED
  BY <1>1, <1>2 DEF NewRecord, Record

\* reserve makes a record of a record and consumes nothing.
LEMMA ReservedIsRecord ==
  ASSUME NEW r \in Record, NEW child \in Children, NEW budget \in Budgets
  PROVE  /\ Reserved(r, child, budget) \in Record
         /\ Reserved(r, child, budget).consumed = r.consumed
<1> USE DEF Record
<1>1. PICK cs \in SUBSET Children : r.reserved \in [cs -> Budgets]
  OBVIOUS
<1> DEFINE f == [c \in DOMAIN r.reserved \cup {child} |->
                   IF c = child THEN budget ELSE r.reserved[c]]
<1>2. f \in [cs \cup {child} -> Budgets] /\ cs \cup {child} \in SUBSET Children
  BY <1>1
<1> HIDE DEF f
<1> QED
  BY <1>2 DEF Reserved, f

\* Blocking a record changes nothing else of it.
LEMMA BlockedIsRecord ==
  ASSUME NEW r \in Record
  PROVE  Blocked(r) \in Record /\ Blocked(r).consumed = r.consumed
BY DEF Record, Blocked

\* Giving a reservation back consumes nothing.
LEMMA UnreservedIsRecord ==
  ASSUME NEW r \in Record, NEW child
  PROVE  Unreserved(r, child) \in Record /\ Unreserved(r, child).consumed = r.consumed
<1> USE DEF Record
<1>1. PICK cs \in SUBSET Children : r.reserved \in [cs -> Budgets]
  OBVIOUS
<1> DEFINE f == [c \in DOMAIN r.reserved \ {child} |-> r.reserved[c]]
<1>2. f \in [cs \ {child} -> Budgets] /\ cs \ {child} \in SUBSET Children
  BY <1>1
<1> HIDE DEF f
<1> QED
  BY <1>2 DEF Unreserved, f

\* Consumption and an agent's own usage only add to what was consumed.
LEMMA ChargedIsRecord ==
  ASSUME NEW r \in Record, NEW child, NEW usage \in Usages
  PROVE  /\ Consumed(r, child, usage) \in Record
         /\ AtMost(r.consumed, Consumed(r, child, usage).consumed)
         /\ Recorded(r, usage) \in Record
         /\ AtMost(r.consumed, Recorded(r, usage).consumed)
<1> USE DEF Record
<1>1. r.consumed \in Amounts /\ usage \in Amounts /\ r.blocked \in BOOLEAN
  BY BudgetsAreAmounts
<1>2. Consumed(r, child, usage) \in Record
      /\ Consumed(r, child, usage).consumed = Add(r.consumed, [usage EXCEPT !["children"] = 1])
  <2>1. Add(r.consumed, [usage EXCEPT !["children"] = 1]) \in Amounts
    BY <1>1, AmountArithmetic, OneChild
  <2> QED
    BY <2>1, UnreservedIsRecord DEF Consumed
<1>3. AtMost(r.consumed, Consumed(r, child, usage).consumed)
  BY <1>1, <1>2, AmountArithmetic, OneChild
<1>4. Recorded(r, usage) \in Record /\ Recorded(r, usage).consumed = Add(r.consumed, usage)
  <2>1. Add(r.consumed, usage) \in Amounts
    BY <1>1, AmountArithmetic
  <2>2. (r.blocked \/ ~AtMost(usage, Remaining(r))) \in BOOLEAN
    OBVIOUS
  <2> QED
    BY <2>1, <2>2 DEF Recorded
<1>5. AtMost(r.consumed, Recorded(r, usage).consumed)
  BY <1>1, <1>4, AmountArithmetic
<1> QED
  BY <1>2, <1>3, <1>4, <1>5

\* Identifiers are not reused while a handle with them is about.
OwnIds == \A p, q \in Procs : \A g \in handles[p], h \in handles[q] :
            g.id = h.id => p = q /\ g = h

HandlesOfKnown == \A p \in Procs : \A h \in handles[p] : h.parent \in Known

BudgetInv == TypeOK /\ OwnIds /\ HandlesOfKnown

\* The file holds a record for every known task.
LEMMA KnownIsRecord ==
  ASSUME TypeOK, NEW p \in Parents
  PROVE  p \in Known => file[p] \in Record
BY DEF TypeOK, Known

\* A task without a record is told from every record.
LEMMA RecordIsSome == ASSUME NEW r \in Record PROVE r # NoRecord
<1>1. "budget" \in DOMAIN r
  BY DEF Record
<1>2. "budget" \notin DOMAIN NoRecord
  BY DEF NoRecord
<1> QED
  BY <1>1, <1>2

\* An operation that saves a record keeps the types of file and latch.
LEMMA SaveTyped ==
  ASSUME TypeOK, NEW p \in Procs, NEW parent \in Parents, NEW r \in Record,
         Save(p, parent, r)
  PROVE  /\ file' \in [Parents -> Record \cup {NoRecord}]
         /\ file' = [file EXCEPT ![parent] = r]
         /\ latched' \subseteq Procs
         /\ Known \subseteq Known' /\ parent \in Known'
BY RecordIsSome DEF TypeOK, Save, Known

\* An empty ledger satisfies the invariant.
LEMMA BudgetInitially == Init => BudgetInv
BY DEF Init, BudgetInv, TypeOK, OwnIds, HandlesOfKnown

\* Handles only disappear in these steps, and reservations lose identifiers.
LEMMA FewerHandles ==
  ASSUME BudgetInv, NEW p \in Procs, NEW hs \in SUBSET handles[p],
         handles' = [handles EXCEPT ![p] = hs], NEW gone,
         ids' = [pc \in DOMAIN ids \ gone |-> ids[pc]] \/ ids' = ids,
         file' \in [Parents -> Record \cup {NoRecord}], latched' \subseteq Procs,
         Known \subseteq Known'
  PROVE  BudgetInv'
<1>1. handles' \in [Procs -> SUBSET Handle]
  BY DEF BudgetInv, TypeOK
<1>2. TypeOK'
  BY <1>1 DEF BudgetInv, TypeOK
<1>3. \A q \in Procs : handles'[q] \subseteq handles[q]
  BY DEF BudgetInv, TypeOK
<1>4. OwnIds'
  BY <1>3 DEF BudgetInv, OwnIds
<1>5. HandlesOfKnown'
  BY <1>3 DEF BudgetInv, HandlesOfKnown
<1> QED
  BY <1>2, <1>4, <1>5 DEF BudgetInv

\* So do steps that leave the handles alone.
LEMMA SameHandles ==
  ASSUME BudgetInv, handles' = handles, NEW gone,
         ids' = [pc \in DOMAIN ids \ gone |-> ids[pc]] \/ ids' = ids,
         file' \in [Parents -> Record \cup {NoRecord}], latched' \subseteq Procs,
         Known \subseteq Known'
  PROVE  BudgetInv'
<1>1. TypeOK'
  BY DEF BudgetInv, TypeOK
<1>2. OwnIds'
  BY DEF BudgetInv, OwnIds
<1>3. HandlesOfKnown'
  BY DEF BudgetInv, HandlesOfKnown
<1> QED
  BY <1>1, <1>2, <1>3 DEF BudgetInv

\* A reservation adds a handle with an identifier of its own.
LEMMA ReserveKeeps ==
  ASSUME BudgetInv, NEW p \in Procs, NEW parent \in Parents, NEW child \in Children,
         NEW budget \in Budgets, NEW id \in Ids,
         Reserve(p, parent, child, budget, id)
  PROVE  BudgetInv' /\ file'[parent].consumed = file[parent].consumed
               /\ file' = [file EXCEPT ![parent] = file'[parent]]
<1> DEFINE r == Reserved(file[parent], child, budget)
           new == [parent |-> parent, child |-> child, id |-> id]
<1> USE DEF BudgetInv
<1>1. r \in Record /\ r.consumed = file[parent].consumed
  <2>1. file[parent] \in Record
    BY KnownIsRecord DEF Reserve
  <2> QED
    BY <2>1, ReservedIsRecord
<1>2. /\ file' \in [Parents -> Record \cup {NoRecord}]
      /\ file' = [file EXCEPT ![parent] = r] /\ latched' \subseteq Procs
      /\ Known \subseteq Known' /\ parent \in Known'
  BY <1>1, SaveTyped DEF Reserve
<1>3. /\ DOMAIN ids' \subseteq Parents \X Children
      /\ \A pc \in DOMAIN ids' : ids'[pc] \in Ids
  BY DEF Reserve, TypeOK
<1>4. handles' \in [Procs -> SUBSET Handle]
      /\ \A q \in Procs : handles'[q] \subseteq handles[q] \cup (IF q = p THEN {new} ELSE {})
  BY DEF Reserve, TypeOK, Handle
<1>5. \A q \in Procs : \A h \in handles[q] : h.id # new.id
  BY DEF Reserve
<1>6. OwnIds'
  BY <1>4, <1>5 DEF OwnIds
<1>7. HandlesOfKnown'
  BY <1>2, <1>4 DEF HandlesOfKnown
<1> QED
  BY <1>1, <1>2, <1>3, <1>4, <1>6, <1>7 DEF TypeOK

\* Each operation on a known parent keeps the invariant, and consumption.
LEMMA OperationKeeps ==
  ASSUME BudgetInv, NEW p \in Procs, Operate(p)
  PROVE  BudgetInv' /\ ConsumptionKept
<1> USE DEF BudgetInv
<1>0. \A k \in Known : k \in Parents /\ file[k] \in Record /\ file[k].consumed \in Amounts
  BY KnownIsRecord DEF Known, Record
<1>1. ASSUME NEW parent \in Parents, NEW r \in Record, Save(p, parent, r),
             parent \in Known => AtMost(file[parent].consumed, r.consumed)
      PROVE  ConsumptionKept
  <2>1. file' = [file EXCEPT ![parent] = r]
    BY <1>1, SaveTyped
  <2> SUFFICES ASSUME NEW k \in Known PROVE AtMost(file[k].consumed, file'[k].consumed)
    BY DEF ConsumptionKept
  <2>2. AtMost(file[k].consumed, file[k].consumed)
    BY <1>0, AmountArithmetic
  <2>3. file'[k] = IF k = parent THEN r ELSE file[k]
    BY <1>0, <2>1 DEF TypeOK
  <2> QED
    BY <1>1, <2>2, <2>3
<1>2. ASSUME NEW parent \in Parents, NEW budget \in Budgets, Register(p, parent, budget)
      PROVE  BudgetInv' /\ ConsumptionKept
  <2>1. NewRecord(budget) \in Record /\ Save(p, parent, NewRecord(budget))
    BY <1>2, NewIsRecord DEF Register
  <2>2. ConsumptionKept
    BY <1>1, <1>2, <2>1 DEF Register
  <2>3. handles' = handles /\ ids' = ids
    BY <1>2 DEF Register
  <2> QED
    BY <2>1, <2>2, <2>3, SaveTyped, SameHandles
<1>3. ASSUME NEW parent \in Parents, NEW child \in Children, NEW budget \in Budgets,
             NEW id \in Ids, Reserve(p, parent, child, budget, id)
      PROVE  BudgetInv' /\ ConsumptionKept
  <2> DEFINE r == Reserved(file[parent], child, budget)
  <2>1. parent \in Known /\ Save(p, parent, r)
    BY <1>3 DEF Reserve
  <2>2. r \in Record /\ r.consumed = file[parent].consumed
    BY <1>0, <2>1, ReservedIsRecord
  <2>3. ConsumptionKept
    BY <1>0, <1>1, <2>1, <2>2, AmountArithmetic
  <2> QED
    BY <1>3, <2>3, ReserveKeeps
<1>4. ASSUME NEW parent \in Known, NEW r \in Record, Save(p, parent, r),
             AtMost(file[parent].consumed, r.consumed)
      PROVE  /\ ConsumptionKept
             /\ file' \in [Parents -> Record \cup {NoRecord}] /\ latched' \subseteq Procs
             /\ Known \subseteq Known'
  BY <1>0, <1>1, <1>4, SaveTyped
<1>5. ASSUME NEW parent \in Parents, NEW child \in Children, NEW budget \in Budgets,
             ReserveRefused(p, parent, child, budget)
      PROVE  BudgetInv' /\ ConsumptionKept
  <2>1. parent \in Known /\ Save(p, parent, Blocked(file[parent]))
        /\ handles' = handles /\ ids' = ids
    BY <1>5 DEF ReserveRefused
  <2>2. AtMost(file[parent].consumed, Blocked(file[parent]).consumed)
        /\ Blocked(file[parent]) \in Record
    BY <1>0, <2>1, BlockedIsRecord, AmountArithmetic
  <2> QED
    BY <1>4, <2>1, <2>2, SameHandles
<1>6. ASSUME NEW parent \in Parents, MarkExhausted(p, parent)
      PROVE  BudgetInv' /\ ConsumptionKept
  <2>1. parent \in Known /\ Save(p, parent, Blocked(file[parent]))
        /\ handles' = handles /\ ids' = ids
    BY <1>6 DEF MarkExhausted
  <2>2. AtMost(file[parent].consumed, Blocked(file[parent]).consumed)
        /\ Blocked(file[parent]) \in Record
    BY <1>0, <2>1, BlockedIsRecord, AmountArithmetic
  <2> QED
    BY <1>4, <2>1, <2>2, SameHandles
<1>7. ASSUME NEW parent \in Parents, NEW usage \in Usages, RecordUsage(p, parent, usage)
      PROVE  BudgetInv' /\ ConsumptionKept
  <2>1. parent \in Known /\ Save(p, parent, Recorded(file[parent], usage))
        /\ handles' = handles /\ ids' = ids
    BY <1>7 DEF RecordUsage
  <2>2. AtMost(file[parent].consumed, Recorded(file[parent], usage).consumed)
        /\ Recorded(file[parent], usage) \in Record
    BY <1>0, <2>1, ChargedIsRecord
  <2> QED
    BY <1>4, <2>1, <2>2, SameHandles
<1>8. ASSUME NEW h \in handles[p], NEW usage \in Usages, Consume(p, h, usage)
      PROVE  BudgetInv' /\ ConsumptionKept
  <2>1. h.parent \in Known /\ Save(p, h.parent, Consumed(file[h.parent], h.child, usage))
        /\ handles' = handles
    BY <1>8 DEF HandlesOfKnown, Consume
  <2>2. AtMost(file[h.parent].consumed, Consumed(file[h.parent], h.child, usage).consumed)
        /\ Consumed(file[h.parent], h.child, usage) \in Record
    BY <1>0, <2>1, ChargedIsRecord
  <2>3. ids' = [pc \in DOMAIN ids \ {<<h.parent, h.child>>} |-> ids[pc]]
    BY <1>8 DEF Consume
  <2> QED
    BY <1>4, <2>1, <2>2, <2>3, SameHandles
<1>9. ASSUME NEW h \in handles[p], Release(p, h)
      PROVE  BudgetInv' /\ ConsumptionKept
  <2>1. h.parent \in Known /\ Save(p, h.parent, Unreserved(file[h.parent], h.child))
        /\ handles' = [handles EXCEPT ![p] = handles[p] \ {h}]
    BY <1>9 DEF HandlesOfKnown, Release
  <2>2. AtMost(file[h.parent].consumed, Unreserved(file[h.parent], h.child).consumed)
        /\ Unreserved(file[h.parent], h.child) \in Record
    BY <1>0, <2>1, UnreservedIsRecord, AmountArithmetic
  <2>3. ids' = [pc \in DOMAIN ids \ {<<h.parent, h.child>>} |-> ids[pc]]
    BY <1>9 DEF Release
  <2> QED
    BY <1>4, <2>1, <2>2, <2>3, FewerHandles
<1>10. ASSUME NEW h \in handles[p], ReleaseStale(p, h)
       PROVE  BudgetInv' /\ ConsumptionKept
  <2>1. /\ file' = file /\ ids' = ids /\ latched' = latched
        /\ handles' = [handles EXCEPT ![p] = handles[p] \ {h}]
    BY <1>10 DEF ReleaseStale
  <2> QED
    BY <1>0, <2>1, FewerHandles, AmountArithmetic DEF ConsumptionKept, TypeOK, Known
<1> QED
  BY <1>2, <1>3, <1>5, <1>6, <1>7, <1>8, <1>9, <1>10 DEF Operate

\* No step, a failed save or a restart included, breaks the invariant or
\* gives consumption back.
LEMMA BudgetStep ==
  ASSUME BudgetInv, [Next]_vars
  PROVE  BudgetInv' /\ ConsumptionKept
<1>1. file' = file => ConsumptionKept
  BY KnownIsRecord, AmountArithmetic DEF ConsumptionKept, BudgetInv, Known, Record
<1>2. ASSUME NEW p \in Procs, Operate(p) PROVE BudgetInv' /\ ConsumptionKept
  BY <1>2, OperationKeeps
<1>3. ASSUME NEW p \in Procs, SaveLost(p) PROVE BudgetInv' /\ ConsumptionKept
  BY <1>1, <1>3 DEF SaveLost, BudgetInv, TypeOK, OwnIds, HandlesOfKnown, Known
<1>4. ASSUME NEW p \in Procs, Restart(p) PROVE BudgetInv' /\ ConsumptionKept
  <2>1. /\ handles' = [handles EXCEPT ![p] = {}] /\ latched' \subseteq Procs
        /\ file' = file /\ ids' = ids
    BY <1>4 DEF Restart, BudgetInv, TypeOK
  <2> QED
    BY <1>1, <2>1, FewerHandles DEF BudgetInv, TypeOK, Known
<1>5. CASE UNCHANGED vars
  BY <1>1, <1>5 DEF vars, BudgetInv, TypeOK, OwnIds, HandlesOfKnown, Known
<1> QED
  BY <1>2, <1>3, <1>4, <1>5 DEF Next

\* The inductive invariant holds in every reachable state.
THEOREM BudgetInvariance == Spec => []BudgetInv
BY BudgetInitially, BudgetStep, PTL DEF Spec

\* The file and the handles have their types, whatever failed on the way.
THEOREM BudgetTypeCorrect == Spec => []TypeOK
BY BudgetInvariance, PTL DEF BudgetInv

\* A reservation is settled through the one handle it was returned as.
THEOREM OneSettlerHolds == Spec => []OneSettler
<1>1. BudgetInv => OneSettler
  BY DEF BudgetInv, OwnIds, OneSettler, Owns
<1> QED
  BY <1>1, BudgetInvariance, PTL

\* No operation, crash or failed save gives consumption back.
THEOREM ConsumptionMonotoneHolds == Spec => ConsumptionMonotone
<1>1. ASSUME BudgetInv, [Next]_vars
      PROVE  [ConsumptionKept]_file
  BY <1>1, BudgetStep
<1> QED
  BY <1>1, BudgetInvariance, PTL DEF Spec, ConsumptionMonotone

\* What is held is a number in each dimension, and what is not blocked is
\* within its ceiling.
SoundRecord(r) ==
  /\ \A d \in Dims : IsFiniteSet(HeldUnits(r, d))
  /\ ~r.blocked => WithinCeiling(r)

CeilingInv == \A p \in Known : SoundRecord(file[p])

\* The units of one hold.
LEMMA UnitsOfHold ==
  ASSUME NEW c, NEW n \in Nat
  PROVE  IsFiniteSet(Units(c, n)) /\ Cardinality(Units(c, n)) = n
<1> DEFINE f == [k \in 1..n |-> <<c, k>>]
<1>1. f \in Bijection(1..n, Units(c, n))
  <2>1. f \in [1..n -> Units(c, n)]
    BY DEF Units
  <2>2. \A j, k \in 1..n : f[j] = f[k] => j = k
    OBVIOUS
  <2>3. \A u \in Units(c, n) : \E k \in 1..n : f[k] = u
    BY DEF Units
  <2> HIDE DEF f
  <2> QED
    BY <2>1, <2>2, <2>3 DEF Bijection, Injection, Surjection, IsInjective
<1>2. ExistsBijection(1..n, Units(c, n))
  BY <1>1 DEF ExistsBijection
<1> QED
  BY <1>2, FS_NatBijection, FS_CountingElements

\* The units of a record and those of one more hold are different.
LEMMA OneHoldMore ==
  ASSUME NEW A, NEW c, NEW n \in Nat, IsFiniteSet(A), A \cap Units(c, n) = {}
  PROVE  /\ IsFiniteSet(A \cup Units(c, n))
         /\ Cardinality(A \cup Units(c, n)) = Cardinality(A) + n
<1>1. Cardinality(A) \in Nat
  BY FS_CardinalityType
<1>2. Cardinality(A \cap Units(c, n)) = 0
  BY FS_EmptySet
<1>3. IsFiniteSet(Units(c, n)) /\ Cardinality(Units(c, n)) = n
  BY UnitsOfHold
<1>4. PICK B : B = Units(c, n)
  OBVIOUS
<1>5. IsFiniteSet(A \cup B) /\ Cardinality(A \cup B) =
        Cardinality(A) + Cardinality(B) - Cardinality(A \cap B)
  BY <1>3, <1>4, FS_Union
<1> QED
  BY <1>1, <1>2, <1>3, <1>4, <1>5

\* A hold is an amount.
LEMMA HoldIsAmount ==
  ASSUME NEW budget \in Budgets, NEW d \in Dims
  PROVE  /\ HeldFor(budget)[d] \in Nat
         /\ HeldFor(budget)[d] = IF d = "children" THEN 1 ELSE budget[d]
BY BudgetsAreAmounts DEF Amounts, HeldFor

\* A reservation adds its hold to what is held.
LEMMA ReservedHolds ==
  ASSUME NEW r \in Record, NEW child \in Children, child \notin DOMAIN r.reserved,
         NEW budget \in Budgets, NEW d \in Dims, IsFiniteSet(HeldUnits(r, d))
  PROVE  /\ IsFiniteSet(HeldUnits(Reserved(r, child, budget), d))
         /\ TotalHeld(Reserved(r, child, budget))[d] = TotalHeld(r)[d] + HeldFor(budget)[d]
<1> DEFINE hold == Units(child, HeldFor(budget)[d])
<1>1. PICK s : s = Reserved(r, child, budget)
  OBVIOUS
<1>2. /\ DOMAIN s.reserved = DOMAIN r.reserved \cup {child}
      /\ \A c \in DOMAIN s.reserved :
           s.reserved[c] = IF c = child THEN budget ELSE r.reserved[c]
  BY <1>1 DEF Reserved, Record
<1>3. HeldUnits(s, d) = HeldUnits(r, d) \cup hold
  BY <1>2 DEF HeldUnits
<1>4. HeldUnits(r, d) \cap hold = {}
  BY DEF HeldUnits, Units
<1>5. IsFiniteSet(HeldUnits(s, d))
      /\ Cardinality(HeldUnits(s, d)) = Cardinality(HeldUnits(r, d)) + HeldFor(budget)[d]
  BY <1>3, <1>4, OneHoldMore, HoldIsAmount
<1> QED
  BY <1>1, <1>5 DEF TotalHeld

\* What is given back or settled is no longer held.
LEMMA UnreservedHolds ==
  ASSUME NEW r \in Record, NEW child \in DOMAIN r.reserved, NEW d \in Dims,
         IsFiniteSet(HeldUnits(r, d))
  PROVE  /\ IsFiniteSet(HeldUnits(Unreserved(r, child), d))
         /\ r.reserved[child] \in Budgets
         /\ TotalHeld(r)[d] =
              TotalHeld(Unreserved(r, child))[d] + HeldFor(r.reserved[child])[d]
<1>0. r.reserved[child] \in Budgets
  BY DEF Record
<1> DEFINE hold == Units(child, HeldFor(r.reserved[child])[d])
<1>1. PICK s : s = Unreserved(r, child)
  OBVIOUS
<1>2. /\ DOMAIN s.reserved = DOMAIN r.reserved \ {child}
      /\ \A c \in DOMAIN s.reserved : s.reserved[c] = r.reserved[c]
  BY <1>1 DEF Unreserved, Record
<1>3. HeldUnits(r, d) = HeldUnits(s, d) \cup hold
  BY <1>2 DEF HeldUnits
<1>4. HeldUnits(s, d) \cap hold = {}
  BY <1>2 DEF HeldUnits, Units
<1>5. IsFiniteSet(HeldUnits(s, d))
  BY <1>3, FS_Subset
<1>6. Cardinality(HeldUnits(r, d)) =
        Cardinality(HeldUnits(s, d)) + HeldFor(r.reserved[child])[d]
  BY <1>0, <1>3, <1>4, <1>5, OneHoldMore, HoldIsAmount
<1> QED
  BY <1>0, <1>1, <1>5, <1>6 DEF TotalHeld

\* What is held is a number.
LEMMA HeldIsNumber ==
  ASSUME NEW r, NEW d \in Dims, IsFiniteSet(HeldUnits(r, d))
  PROVE  TotalHeld(r)[d] \in Nat
BY FS_CardinalityType DEF TotalHeld

\* A ready record is within its ceiling dimension by dimension.
LEMMA CeilingByDimension ==
  ASSUME NEW r
  PROVE  WithinCeiling(r) <=>
           \A d \in Dims : r.consumed[d] + TotalHeld(r)[d] <= r.budget[d]
BY DEF WithinCeiling, AtMost, Add

\* A new record holds nothing.
LEMMA NewIsSound ==
  ASSUME NEW budget \in Budgets
  PROVE  SoundRecord(NewRecord(budget))
<1>1. PICK r : r = NewRecord(budget)
  OBVIOUS
<1>2. \A d \in Dims : HeldUnits(r, d) = {} /\ r.consumed[d] = 0 /\ r.budget[d] \in Nat
  BY <1>1, BudgetsAreAmounts DEF NewRecord, HeldUnits, Zero, Amounts
<1>3. \A d \in Dims : IsFiniteSet(HeldUnits(r, d)) /\ TotalHeld(r)[d] = 0
  BY <1>2, FS_EmptySet DEF TotalHeld
<1>4. WithinCeiling(r)
  BY <1>2, <1>3, CeilingByDimension
<1> QED
  BY <1>1, <1>3, <1>4 DEF SoundRecord

\* A reservation that fits keeps the ceiling.
LEMMA ReservedIsSound ==
  ASSUME NEW r \in Record, SoundRecord(r), NEW child \in Children,
         child \notin DOMAIN r.reserved, NEW budget \in Budgets, Fits(r, budget)
  PROVE  SoundRecord(Reserved(r, child, budget))
<1>1. PICK s : s = Reserved(r, child, budget)
  OBVIOUS
<1>2. s.consumed = r.consumed /\ s.budget = r.budget /\ s.blocked = r.blocked
  BY <1>1 DEF Reserved, Record
<1>3. ASSUME NEW d \in Dims
      PROVE  /\ IsFiniteSet(HeldUnits(s, d))
             /\ ~r.blocked => s.consumed[d] + TotalHeld(s)[d] <= s.budget[d]
  <2>1. IsFiniteSet(HeldUnits(r, d))
    BY DEF SoundRecord
  <2>2. /\ IsFiniteSet(HeldUnits(s, d))
        /\ TotalHeld(s)[d] = TotalHeld(r)[d] + HeldFor(budget)[d]
    BY <1>1, <2>1, ReservedHolds
  <2>3. HeldFor(budget)[d] <= Remaining(r)[d]
    BY DEF Fits, AtMost
  <2>4. Remaining(r)[d] = IF r.consumed[d] + TotalHeld(r)[d] >= r.budget[d] THEN 0
                          ELSE r.budget[d] - (r.consumed[d] + TotalHeld(r)[d])
    BY DEF Remaining
  <2>5. ~r.blocked => r.consumed[d] + TotalHeld(r)[d] <= r.budget[d]
    BY CeilingByDimension DEF SoundRecord
  <2>6. r.consumed[d] \in Nat /\ r.budget[d] \in Nat /\ HeldFor(budget)[d] \in Nat
        /\ TotalHeld(r)[d] \in Nat
    BY <2>1, HoldIsAmount, HeldIsNumber, BudgetsAreAmounts DEF Record, Amounts
  <2>7. ~r.blocked => r.consumed[d] + (TotalHeld(r)[d] + HeldFor(budget)[d]) <= r.budget[d]
    BY <2>3, <2>4, <2>5, <2>6
  <2> QED
    BY <1>2, <2>2, <2>7
<1>4. ~s.blocked => WithinCeiling(s)
  BY <1>2, <1>3, CeilingByDimension
<1> QED
  BY <1>1, <1>3, <1>4 DEF SoundRecord

\* What is blocked has no ceiling to keep.
LEMMA BlockedIsSound ==
  ASSUME NEW r \in Record, SoundRecord(r)
  PROVE  SoundRecord(Blocked(r))
<1>1. Blocked(r).blocked /\ Blocked(r).reserved = r.reserved
  BY DEF Blocked, Record
<1>2. \A d \in Dims : HeldUnits(Blocked(r), d) = HeldUnits(r, d)
  BY <1>1 DEF HeldUnits
<1> QED
  BY <1>1, <1>2 DEF SoundRecord

\* Giving a hold back keeps the ceiling.
LEMMA UnreservedIsSound ==
  ASSUME NEW r \in Record, SoundRecord(r), NEW child \in DOMAIN r.reserved
  PROVE  SoundRecord(Unreserved(r, child))
<1>1. PICK s : s = Unreserved(r, child)
  OBVIOUS
<1>2. s.consumed = r.consumed /\ s.budget = r.budget /\ s.blocked = r.blocked
  BY <1>1 DEF Unreserved, Record
<1>3. ASSUME NEW d \in Dims
      PROVE  /\ IsFiniteSet(HeldUnits(s, d))
             /\ ~r.blocked => s.consumed[d] + TotalHeld(s)[d] <= s.budget[d]
  <2>1. IsFiniteSet(HeldUnits(r, d))
    BY DEF SoundRecord
  <2>2. /\ IsFiniteSet(HeldUnits(s, d)) /\ r.reserved[child] \in Budgets
        /\ TotalHeld(r)[d] = TotalHeld(s)[d] + HeldFor(r.reserved[child])[d]
    BY <1>1, <2>1, UnreservedHolds
  <2>3. ~r.blocked => r.consumed[d] + TotalHeld(r)[d] <= r.budget[d]
    BY CeilingByDimension DEF SoundRecord
  <2>4. r.consumed[d] \in Nat /\ r.budget[d] \in Nat
        /\ HeldFor(r.reserved[child])[d] \in Nat /\ TotalHeld(s)[d] \in Nat
    BY <2>2, HoldIsAmount, HeldIsNumber, BudgetsAreAmounts DEF Record, Amounts
  <2>5. ~r.blocked => r.consumed[d] + TotalHeld(s)[d] <= r.budget[d]
    BY <2>2, <2>3, <2>4
  <2> QED
    BY <1>2, <2>2, <2>5
<1>4. ~s.blocked => WithinCeiling(s)
  BY <1>2, <1>3, CeilingByDimension
<1> QED
  BY <1>1, <1>3, <1>4 DEF SoundRecord

\* What is consumed of a hold was held.
LEMMA ConsumedIsSound ==
  ASSUME NEW r \in Record, SoundRecord(r), NEW child \in DOMAIN r.reserved,
         NEW usage \in Usages, UsageFits(r.reserved[child], usage)
  PROVE  SoundRecord(Consumed(r, child, usage))
<1>1. PICK s : s = Consumed(r, child, usage)
  OBVIOUS
<1>2. PICK u : u = Unreserved(r, child)
  OBVIOUS
<1>3. /\ s.budget = r.budget /\ s.blocked = r.blocked /\ s.reserved = u.reserved
      /\ s.consumed = Add(r.consumed, [usage EXCEPT !["children"] = 1])
  BY <1>1, <1>2, UnreservedIsRecord DEF Consumed, Unreserved, Record
<1>4. ASSUME NEW d \in Dims
      PROVE  /\ IsFiniteSet(HeldUnits(s, d))
             /\ ~r.blocked => s.consumed[d] + TotalHeld(s)[d] <= s.budget[d]
  <2>1. IsFiniteSet(HeldUnits(r, d))
    BY DEF SoundRecord
  <2>2. /\ IsFiniteSet(HeldUnits(u, d)) /\ r.reserved[child] \in Budgets
        /\ TotalHeld(r)[d] = TotalHeld(u)[d] + HeldFor(r.reserved[child])[d]
    BY <1>2, <2>1, UnreservedHolds
  <2>3. HeldUnits(s, d) = HeldUnits(u, d)
    BY <1>3 DEF HeldUnits
  <2>4. TotalHeld(s)[d] = TotalHeld(u)[d]
    BY <2>3 DEF TotalHeld
  <2>5. ~r.blocked => r.consumed[d] + TotalHeld(r)[d] <= r.budget[d]
    BY CeilingByDimension DEF SoundRecord
  <2>6. PICK one : one = [usage EXCEPT !["children"] = 1]
    OBVIOUS
  <2>7. one[d] \in Nat /\ one[d] <= HeldFor(r.reserved[child])[d]
    BY <2>2, <2>6, HoldIsAmount, BudgetsAreAmounts DEF UsageFits, AtMost, Amounts
  <2>8. s.consumed[d] = r.consumed[d] + one[d]
    BY <1>3, <2>6 DEF Add
  <2>9. r.consumed[d] \in Nat /\ r.budget[d] \in Nat
        /\ HeldFor(r.reserved[child])[d] \in Nat /\ TotalHeld(u)[d] \in Nat
    BY <2>2, HoldIsAmount, HeldIsNumber, BudgetsAreAmounts DEF Record, Amounts
  <2>10. ~r.blocked => (r.consumed[d] + one[d]) + TotalHeld(u)[d] <= r.budget[d]
    BY <2>2, <2>5, <2>7, <2>9
  <2> QED
    BY <1>3, <2>2, <2>3, <2>4, <2>8, <2>10
<1>5. ~s.blocked => WithinCeiling(s)
  BY <1>3, <1>4, CeilingByDimension
<1> QED
  BY <1>1, <1>4, <1>5 DEF SoundRecord

\* A usage of the task itself is charged, and blocks the record if it was not
\* within what remained.
LEMMA RecordedIsSound ==
  ASSUME NEW r \in Record, SoundRecord(r), NEW usage \in Usages
  PROVE  SoundRecord(Recorded(r, usage))
<1>1. PICK s : s = Recorded(r, usage)
  OBVIOUS
<1>2. /\ s.budget = r.budget /\ s.reserved = r.reserved
      /\ s.consumed = Add(r.consumed, usage)
      /\ s.blocked = (r.blocked \/ ~AtMost(usage, Remaining(r)))
  BY <1>1 DEF Recorded, Record
<1>3. ASSUME NEW d \in Dims
      PROVE  /\ IsFiniteSet(HeldUnits(s, d))
             /\ ~s.blocked => s.consumed[d] + TotalHeld(s)[d] <= s.budget[d]
  <2>1. HeldUnits(s, d) = HeldUnits(r, d) /\ IsFiniteSet(HeldUnits(r, d))
    BY <1>2 DEF HeldUnits, SoundRecord
  <2>2. TotalHeld(s)[d] = TotalHeld(r)[d]
    BY <2>1 DEF TotalHeld
  <2>3. ~s.blocked => ~r.blocked /\ usage[d] <= Remaining(r)[d]
    BY <1>2 DEF AtMost
  <2>4. Remaining(r)[d] = IF r.consumed[d] + TotalHeld(r)[d] >= r.budget[d] THEN 0
                          ELSE r.budget[d] - (r.consumed[d] + TotalHeld(r)[d])
    BY DEF Remaining
  <2>5. ~r.blocked => r.consumed[d] + TotalHeld(r)[d] <= r.budget[d]
    BY CeilingByDimension DEF SoundRecord
  <2>6. s.consumed[d] = r.consumed[d] + usage[d]
    BY <1>2 DEF Add
  <2>7. r.consumed[d] \in Nat /\ r.budget[d] \in Nat /\ usage[d] \in Nat
        /\ TotalHeld(r)[d] \in Nat
    BY <2>1, HeldIsNumber, BudgetsAreAmounts DEF Record, Amounts
  <2>8. ~s.blocked => (r.consumed[d] + usage[d]) + TotalHeld(r)[d] <= r.budget[d]
    BY <2>3, <2>4, <2>5, <2>7
  <2> QED
    BY <1>2, <2>1, <2>2, <2>6, <2>8
<1>4. ~s.blocked => WithinCeiling(s)
  BY <1>3, CeilingByDimension
<1> QED
  BY <1>1, <1>3, <1>4 DEF SoundRecord

\* Whoever saves a sound record keeps the ceilings.
LEMMA SaveIsSound ==
  ASSUME BudgetInv, CeilingInv, NEW p \in Procs, NEW parent \in Parents, NEW r,
         Save(p, parent, r), SoundRecord(r)
  PROVE  CeilingInv'
<1>1. file' = [file EXCEPT ![parent] = r]
  BY DEF Save
<1>2. ASSUME NEW k \in Known' PROVE SoundRecord(file'[k])
  BY <1>1, <1>2 DEF CeilingInv, Known, BudgetInv, TypeOK
<1> QED
  BY <1>2 DEF CeilingInv, SoundRecord, HeldUnits, WithinCeiling, TotalHeld, HeldFor, Add, AtMost

\* Every step keeps the ceilings.
LEMMA CeilingStep ==
  ASSUME BudgetInv, CeilingInv, [Next]_vars
  PROVE  CeilingInv'
<1>0. \A k \in Known : k \in Parents /\ file[k] \in Record /\ SoundRecord(file[k])
  BY KnownIsRecord DEF Known, BudgetInv, CeilingInv
<1>1. ASSUME file' = file PROVE CeilingInv'
  <2>1. \A k \in Known' : SoundRecord(file'[k])
    BY <1>1 DEF CeilingInv, Known
  <2> QED
    BY <2>1 DEF CeilingInv, SoundRecord, HeldUnits, WithinCeiling, TotalHeld, HeldFor, Add,
                AtMost
<1>2. ASSUME NEW p \in Procs, Operate(p) PROVE CeilingInv'
  <2>1. ASSUME NEW parent \in Parents, NEW budget \in Budgets, Register(p, parent, budget)
        PROVE  CeilingInv'
    BY <2>1, NewIsSound, SaveIsSound DEF Register
  <2>2. ASSUME NEW parent \in Parents, NEW child \in Children, NEW budget \in Budgets,
               NEW id \in Ids, Reserve(p, parent, child, budget, id)
        PROVE  CeilingInv'
    BY <1>0, <2>2, ReservedIsSound, SaveIsSound DEF Reserve
  <2>3. ASSUME NEW parent \in Parents, NEW child \in Children, NEW budget \in Budgets,
               ReserveRefused(p, parent, child, budget)
        PROVE  CeilingInv'
    BY <1>0, <2>3, BlockedIsSound, SaveIsSound DEF ReserveRefused
  <2>4. ASSUME NEW parent \in Parents, MarkExhausted(p, parent) PROVE CeilingInv'
    BY <1>0, <2>4, BlockedIsSound, SaveIsSound DEF MarkExhausted
  <2>5. ASSUME NEW parent \in Parents, NEW usage \in Usages, RecordUsage(p, parent, usage)
        PROVE  CeilingInv'
    BY <1>0, <2>5, RecordedIsSound, SaveIsSound DEF RecordUsage
  <2>6. ASSUME NEW h \in handles[p], NEW usage \in Usages, Consume(p, h, usage)
        PROVE  CeilingInv'
    <3>1. h.parent \in Known  BY DEF BudgetInv, HandlesOfKnown
    <3> QED
      BY <1>0, <2>6, <3>1, ConsumedIsSound, SaveIsSound DEF Consume, Owns
  <2>7. ASSUME NEW h \in handles[p], Release(p, h) PROVE CeilingInv'
    <3>1. h.parent \in Known  BY DEF BudgetInv, HandlesOfKnown
    <3> QED
      BY <1>0, <2>7, <3>1, UnreservedIsSound, SaveIsSound DEF Release, Owns
  <2>8. ASSUME NEW h \in handles[p], ReleaseStale(p, h) PROVE CeilingInv'
    BY <1>1, <2>8 DEF ReleaseStale
  <2> QED
    BY <1>2, <2>1, <2>2, <2>3, <2>4, <2>5, <2>6, <2>7, <2>8 DEF Operate
<1> QED
  BY <1>1, <1>2 DEF Next, SaveLost, Restart, vars

\* Whatever is reserved, consumed, released and charged by however many
\* processes, what a ready task holds and has used is within its ceiling, in
\* every dimension: budget-ledger.ts fits, durable-budget-ledger.ts.
THEOREM CeilingKeptHolds == Spec => []CeilingKept
<1>1. Init => CeilingInv
  BY DEF Init, CeilingInv, Known
<1>2. CeilingInv => CeilingKept
  BY DEF CeilingInv, CeilingKept, SoundRecord
<1> QED
  BY <1>1, <1>2, BudgetInvariance, CeilingStep, PTL DEF Spec

---------------------------------------------------------------------------
(* The Node runtime *)

NodePlaces == {"idle", "fetched", "extract", "staged", "rename", "published", "hash", "write",
               "written", "synced", "given", "compare", "compare legacy", "migrate",
               "temporary", "replace", "rename receipt", "dead"}
NodeTypeOK ==
  /\ root \in {NoTree} \cup N!Trees
  /\ at \in [Procs -> NodePlaces]
  /\ seen \in [Procs -> N!Contents]
  /\ began \in [Procs -> SUBSET N!Contents]

\* A call has noticed what the root holds, and what it has held since.
RootIsNoticed ==
  \A p \in Procs : at[p] \notin {"idle", "dead"} /\ root # NoTree => root.content \in began[p]

\* What is compared with the archive, and is the same, was there after the call
\* began; a tree with somebody's temporary file is hashed as another one.
Migrating == {"compare", "compare legacy", "migrate", "temporary", "replace", "rename receipt"}
SeenWasThere ==
  \A p \in Procs : at[p] \in Migrating /\ seen[p] = "archive" => "archive" \in began[p]

Publishing == {"published", "hash", "write", "written", "synced"}

\* Who has published the root has seen it hold the archive.
PublishedWasWhole == \A p \in Procs : at[p] \in Publishing => "archive" \in began[p]

NodeInv == /\ NodeTypeOK
           /\ RootIsNoticed
           /\ SeenWasThere
           /\ PublishedWasWhole
           /\ N!GivenIsGenuine
           /\ N!PublishedIsKept

\* What becomes of a tree when its receipt or its content is changed.
LEMMA ChangedTree ==
  ASSUME NEW t \in N!Trees, NEW r \in {NoReceipt} \cup N!Receipts, NEW c \in N!Contents
  PROVE  /\ [t EXCEPT !.receipt = r] \in N!Trees
         /\ [t EXCEPT !.receipt = r].by = t.by
         /\ [t EXCEPT !.receipt = r].content = t.content
         /\ [t EXCEPT !.content = c] \in N!Trees
         /\ [t EXCEPT !.content = c].by = t.by
         /\ [t EXCEPT !.content = c].content = c
BY DEF N!Trees

\* What becomes of a tree when a migration's temporary file comes or goes, or
\* becomes the receipt.
LEMMA TemporaryOfTree ==
  ASSUME NEW t \in N!Trees, NEW r \in N!Receipts, NEW set \in SUBSET Procs
  PROVE  /\ [t EXCEPT !.temporaries = set] \in N!Trees
         /\ [t EXCEPT !.temporaries = set].by = t.by
         /\ [t EXCEPT !.temporaries = set].content = t.content
         /\ [t EXCEPT !.receipt = r, !.temporaries = set] \in N!Trees
         /\ [t EXCEPT !.receipt = r, !.temporaries = set].by = t.by
         /\ [t EXCEPT !.receipt = r, !.temporaries = set].content = t.content
BY DEF N!Trees

\* What is hashed is a content, and the archive only of a tree that holds it.
LEMMA HashedIsContent ==
  ASSUME NEW t \in N!Trees
  PROVE  N!Hashed(t) \in N!Contents /\ (N!Hashed(t) = "archive" => t.content = "archive")
BY DEF N!Trees, N!Contents, N!Hashed

\* Trees and receipts as they are made.
LEMMA NewTree ==
  ASSUME NEW p \in Procs, NEW c \in N!Contents
  PROVE  /\ N!Tree(p, c) \in N!Trees
         /\ N!Tree(p, c).by = p
         /\ N!Tree(p, c).content = c
BY DEF N!Trees, N!Tree

\* A receipt as it is made.
LEMMA NewReceipt ==
  ASSUME NEW kind \in {"torn", "legacy", "full"}, NEW c \in N!Contents
  PROVE  N!Receipt(kind, c) \in N!Receipts
BY DEF N!Receipts, N!Receipt

\* Nothing or a former version's tree: nobody has begun.
LEMMA NodeInitially == N!NodeInit => NodeInv
<1> SUFFICES ASSUME N!NodeInit PROVE NodeInv
  OBVIOUS
<1>1. root \in {NoTree} \cup N!Trees
  <2>1. ASSUME NEW p \in Procs, NEW c \in N!Contents,
               root = [N!Tree(p, c) EXCEPT !.receipt = N!Receipt("legacy", "archive")]
        PROVE  root \in N!Trees
    <3>1. N!Receipt("legacy", "archive") \in N!Receipts
      BY NewReceipt DEF N!Contents
    <3> QED
      BY <2>1, <3>1, NewTree, ChangedTree
  <2> QED
    BY <2>1 DEF N!NodeInit
<1>2. at = [p \in Procs |-> "idle"] /\ seen = [p \in Procs |-> "archive"]
      /\ began = [p \in Procs |-> {}]
  BY DEF N!NodeInit
<1>3. NodeTypeOK
  BY <1>1, <1>2 DEF NodeTypeOK, NodePlaces, N!Contents
<1> QED
  BY <1>2, <1>3 DEF NodeInv, RootIsNoticed, SeenWasThere, Migrating, PublishedWasWhole, Publishing,
                    N!GivenIsGenuine, N!PublishedIsKept

\* Every step keeps the invariant.
LEMMA NodeStep == NodeInv /\ [N!NodeNext]_(N!node) => NodeInv'
<1> SUFFICES ASSUME NodeInv, [N!NodeNext]_(N!node) PROVE NodeInv'
  OBVIOUS
<1> USE DEF RootIsNoticed, SeenWasThere, Migrating, PublishedWasWhole, Publishing,
            N!GivenIsGenuine, N!PublishedIsKept
<1>t. NodeTypeOK
  BY DEF NodeInv
<1>i. RootIsNoticed /\ SeenWasThere /\ PublishedWasWhole /\ N!GivenIsGenuine /\ N!PublishedIsKept
  BY DEF NodeInv
<1>c. "archive" \in N!Contents /\ (root # NoTree => root \in N!Trees /\ root.content \in N!Contents)
  BY <1>t DEF NodeTypeOK, N!Contents, N!Trees
<1>n. \A t \in N!Trees : t # NoTree
  BY NoTreeIsNoTree
<1>1. ASSUME NEW p \in Procs, N!Begin(p) PROVE NodeInv'
  <2>1. /\ at' = [at EXCEPT ![p] = "fetched"] /\ UNCHANGED <<root, seen>>
        /\ began' = [began EXCEPT ![p] = IF root = NoTree THEN {} ELSE {root.content}]
    BY <1>1 DEF N!Begin, N!Go
  <2>2. NodeTypeOK'
    BY <1>t, <1>c, <2>1 DEF NodeTypeOK, NodePlaces
  <2>3. (RootIsNoticed /\ SeenWasThere /\ PublishedWasWhole /\ N!GivenIsGenuine /\ N!PublishedIsKept)'
    BY <1>t, <1>i, <2>1 DEF NodeTypeOK
  <2> QED
    BY <2>2, <2>3 DEF NodeInv
<1>2. ASSUME NEW p \in Procs, N!Look(p) PROVE NodeInv'
  <2>1. /\ at[p] = "fetched" /\ UNCHANGED <<root, began>>
        /\ \/ /\ at' = [at EXCEPT ![p] = "extract"] \/ at' = [at EXCEPT ![p] = "idle"]
              /\ UNCHANGED seen
           \/ /\ at' = [at EXCEPT ![p] = "compare legacy"] \/ at' = [at EXCEPT ![p] = "compare"]
              /\ root # NoTree /\ seen' = [seen EXCEPT ![p] = N!Hashed(root)]
    BY <1>2 DEF N!Look, N!Go, N!Fail, N!Keep
  <2>h. root # NoTree => /\ N!Hashed(root) \in N!Contents
                         /\ N!Hashed(root) = "archive" => root.content = "archive"
    BY <1>c, HashedIsContent
  <2>2. NodeTypeOK'
    BY <1>t, <2>1, <2>h DEF NodeTypeOK, NodePlaces
  <2>3. (RootIsNoticed /\ SeenWasThere /\ PublishedWasWhole /\ N!GivenIsGenuine /\ N!PublishedIsKept)'
    BY <1>t, <1>i, <2>1, <2>h, ZenonT(120) DEF NodeTypeOK
  <2> QED
    BY <2>2, <2>3 DEF NodeInv
<1>3. ASSUME NEW p \in Procs, N!Compare(p) PROVE NodeInv'
  <2>1. /\ at[p] \in {"compare", "compare legacy"} /\ UNCHANGED <<root, seen, began>>
        /\ \/ at' = [at EXCEPT ![p] = "idle"]
           \/ /\ seen[p] = "archive"
              /\ at' = [at EXCEPT ![p] = "given"] \/ at' = [at EXCEPT ![p] = "migrate"]
    BY <1>3 DEF N!Compare, N!Go, N!Fail, N!Keep, N!Genuine
  <2>2. NodeTypeOK'
    BY <1>t, <2>1 DEF NodeTypeOK, NodePlaces
  <2>3. (RootIsNoticed /\ SeenWasThere /\ PublishedWasWhole /\ N!GivenIsGenuine /\ N!PublishedIsKept)'
    BY <1>t, <1>i, <2>1, ZenonT(30) DEF NodeTypeOK
  <2> QED
    BY <2>2, <2>3 DEF NodeInv
<1>4. ASSUME NEW p \in Procs,
             N!TakeInode(p) \/ N!WriteTemporary(p) \/ N!CompareInode(p) \/ N!Migrate(p)
      PROVE  NodeInv'
  <2> DEFINE Kept(t) == t \in N!Trees /\ t.by = root.by /\ t.content = root.content
             with == [root EXCEPT !.temporaries = root.temporaries \cup {p}]
             without == [root EXCEPT !.temporaries = root.temporaries \ {p}]
             full == N!Receipt("full", seen[p])
  <2>1. root # NoTree => /\ root.temporaries \cup {p} \in SUBSET Procs
                         /\ root.temporaries \ {p} \in SUBSET Procs
                         /\ root.receipt \in {NoReceipt} \cup N!Receipts
    BY <1>c DEF N!Trees
  <2>2. full \in N!Receipts
    BY <1>t, NewReceipt DEF NodeTypeOK
  <2>3. root # NoTree => Kept(with) /\ Kept(without)
    BY <1>c, <2>1, <2>2, TemporaryOfTree
  <2>4. UNCHANGED root \/ (root # NoTree /\ Kept(root'))
    <3>1. N!GivesUp(p) => UNCHANGED root \/ (root # NoTree /\ root' = without)
      BY DEF N!GivesUp
    <3>2. CASE N!TakeInode(p)
      <4>1. CASE root # NoTree /\ root.receipt # NoReceipt /\ root' = [root EXCEPT !.receipt.known = @ \cup {p}]
        <5> DEFINE r == [root.receipt EXCEPT !.known = root.receipt.known \cup {p}]
        <5>1. root' = [root EXCEPT !.receipt = r]
          BY <4>1
        <5>2. r \in N!Receipts
          BY <2>1, <4>1 DEF N!Receipts
        <5>3. \A x \in N!Receipts : Kept([root EXCEPT !.receipt = x])
          BY <1>c, <4>1, ChangedTree
        <5> HIDE DEF r
        <5> QED
          BY <4>1, <5>1, <5>2, <5>3
      <4> QED
        BY <3>2, <4>1 DEF N!TakeInode
    <3>3. CASE N!WriteTemporary(p)
      BY <2>3, <3>3 DEF N!WriteTemporary
    <3>4. CASE N!CompareInode(p)
      BY <2>3, <3>1, <3>4 DEF N!CompareInode
    <3>5. CASE N!Migrate(p)
      <4>1. CASE root # NoTree /\ root' = [root EXCEPT !.receipt = full, !.temporaries = root.temporaries \ {p}]
        <5> DEFINE t == root.temporaries \ {p}
        <5>1. root \in N!Trees /\ full \in N!Receipts /\ t \in SUBSET Procs
          BY <1>c, <2>1, <2>2, <4>1
        <5>2. root' = [root EXCEPT !.receipt = full, !.temporaries = t]
          BY <4>1
        <5> HIDE DEF full, t
        <5>3. Kept([root EXCEPT !.receipt = full, !.temporaries = t])
          BY <5>1, TemporaryOfTree
        <5> QED
          BY <4>1, <5>2, <5>3
      <4> QED
        BY <2>3, <3>1, <3>5, <4>1 DEF N!Migrate
    <3> QED
      BY <1>4, <3>2, <3>3, <3>4, <3>5
  <2>5. /\ UNCHANGED <<seen, began>>
        /\ at[p] \in {"migrate", "temporary", "replace", "rename receipt"}
        /\ \E place_2 \in {"idle", "temporary", "replace", "rename receipt", "compare"} :
              at' = [at EXCEPT ![p] = place_2]
    BY <1>4 DEF N!TakeInode, N!WriteTemporary, N!CompareInode, N!Migrate, N!GivesUp, N!Go, N!Fail
  <2>6. NodeTypeOK'
    <3>1. root' \in {NoTree} \cup N!Trees
      BY <1>t, <2>4 DEF NodeTypeOK
    <3> QED
      BY <1>t, <2>5, <3>1 DEF NodeTypeOK, NodePlaces
  <2>7. \A q \in Procs : at'[q] = at[q] \/ (q = p /\ at'[q] \in Migrating \cup {"idle"})
    BY <1>t, <2>5 DEF NodeTypeOK
  <2>8. RootIsNoticed' /\ N!PublishedIsKept'
    BY <1>t, <1>i, <1>n, <2>4, <2>5, <2>7 DEF NodeTypeOK
  <2>9. SeenWasThere'
    BY <1>i, <2>5, <2>7
  <2>10. PublishedWasWhole' /\ N!GivenIsGenuine'
    BY <1>i, <2>5, <2>7
  <2> QED
    BY <2>6, <2>8, <2>9, <2>10 DEF NodeInv
<1>5. ASSUME NEW p \in Procs, N!Extract(p) \/ N!Absent(p) \/ N!Settle(p) \/ N!Die(p) PROVE NodeInv'
  <2>1. /\ UNCHANGED <<root, seen, began>>
        /\ \/ /\ at[p] = "extract"
              /\ at' = [at EXCEPT ![p] = "staged"] \/ at' = [at EXCEPT ![p] = "idle"]
           \/ /\ at[p] = "staged"
              /\ at' = [at EXCEPT ![p] = "rename"] \/ at' = [at EXCEPT ![p] = "idle"]
           \/ at[p] = "synced" /\ at' = [at EXCEPT ![p] = "given"]
           \/ at' = [at EXCEPT ![p] = "dead"]
    BY <1>5 DEF N!Extract, N!Absent, N!Settle, N!Die, N!Go, N!Fail, N!Keep
  <2>2. NodeTypeOK'
    BY <1>t, <2>1 DEF NodeTypeOK, NodePlaces
  <2>3. (RootIsNoticed /\ SeenWasThere /\ PublishedWasWhole /\ N!GivenIsGenuine /\ N!PublishedIsKept)'
    BY <1>t, <1>i, <2>1, ZenonT(30) DEF NodeTypeOK
  <2> QED
    BY <2>2, <2>3 DEF NodeInv
<1>6. ASSUME NEW p \in Procs, N!Publish(p) PROVE NodeInv'
  <2>1. /\ at[p] = "rename" /\ UNCHANGED seen
        /\ \/ /\ root = NoTree /\ root' \in N!Trees /\ root'.by = p /\ root'.content = "archive"
              /\ began' = [q \in Procs |-> began[q] \cup {"archive"}]
              /\ at' = [at EXCEPT ![p] = "published"]
           \/ at' = [at EXCEPT ![p] = "idle"] /\ UNCHANGED <<root, began>>
    <3>1. /\ N!Tree(p, "archive") \in N!Trees /\ N!Tree(p, "archive").by = p
          /\ N!Tree(p, "archive").content = "archive"
      BY <1>c, NewTree
    <3> QED
      BY <1>6, <3>1 DEF N!Publish, N!Go, N!Fail, N!Becomes
  <2>2. NodeTypeOK'
    <3>1. began' \in [Procs -> SUBSET N!Contents]
      BY <1>t, <1>c, <2>1 DEF NodeTypeOK
    <3>2. at' \in [Procs -> NodePlaces]
      BY <1>t, <2>1 DEF NodeTypeOK, NodePlaces
    <3> QED
      BY <1>t, <2>1, <3>1, <3>2 DEF NodeTypeOK
  <2>3. (RootIsNoticed /\ SeenWasThere /\ PublishedWasWhole /\ N!GivenIsGenuine /\ N!PublishedIsKept)'
    <3>1. CASE /\ root = NoTree /\ root' \in N!Trees /\ root'.by = p /\ root'.content = "archive"
               /\ began' = [q \in Procs |-> began[q] \cup {"archive"}]
               /\ at' = [at EXCEPT ![p] = "published"]
      <4>1. \A q \in Procs : began[q] \subseteq began'[q] /\ "archive" \in began'[q]
        BY <3>1
      <4>2. RootIsNoticed' /\ PublishedWasWhole' /\ N!GivenIsGenuine'
        BY <3>1, <4>1
      <4>3. \A q \in Procs : at'[q] = at[q] \/ (q = p /\ at'[q] = "published")
        BY <1>t, <3>1 DEF NodeTypeOK
      <4>4. SeenWasThere'
        BY <1>i, <2>1, <4>1, <4>3
      <4>5. N!PublishedIsKept'
        BY <1>i, <1>n, <3>1, <4>3
      <4> QED
        BY <4>2, <4>4, <4>5
    <3>2. CASE at' = [at EXCEPT ![p] = "idle"] /\ UNCHANGED <<root, began>>
      BY <1>t, <1>i, <2>1, <3>2 DEF NodeTypeOK
    <3> QED
      BY <2>1, <3>1, <3>2
  <2> QED
    BY <2>2, <2>3 DEF NodeInv
<1>7. ASSUME NEW p \in Procs, N!VerifyPaths(p) PROVE NodeInv'
  <2>1. /\ at[p] = "published" /\ UNCHANGED <<seen, began>>
        /\ \/ root' = NoTree /\ at' = [at EXCEPT ![p] = "idle"]
           \/ UNCHANGED root /\ at' = [at EXCEPT ![p] = "hash"]
    BY <1>7 DEF N!VerifyPaths, N!Withdraw, N!Go, N!Fail, N!Keep
  <2>2. NodeTypeOK'
    BY <1>t, <2>1 DEF NodeTypeOK, NodePlaces
  <2>3. (RootIsNoticed /\ SeenWasThere /\ PublishedWasWhole /\ N!GivenIsGenuine /\ N!PublishedIsKept)'
    BY <1>t, <1>i, <2>1 DEF NodeTypeOK
  <2> QED
    BY <2>2, <2>3 DEF NodeInv
<1>8. ASSUME NEW p \in Procs, N!Hash(p) PROVE NodeInv'
  <2>1. /\ at[p] = "hash" /\ UNCHANGED <<root, began>>
        /\ \/ at' = [at EXCEPT ![p] = "write"] /\ seen' = [seen EXCEPT ![p] = N!Hashed(root)]
           \/ at' = [at EXCEPT ![p] = "idle"] /\ UNCHANGED seen
    BY <1>8 DEF N!Hash, N!Go, N!Fail
  <2>2. root # NoTree
    BY <1>i, <2>1
  <2>3. NodeTypeOK'
    BY <1>t, <1>c, <2>1, <2>2, HashedIsContent DEF NodeTypeOK, NodePlaces
  <2>4. (RootIsNoticed /\ SeenWasThere /\ PublishedWasWhole /\ N!GivenIsGenuine /\ N!PublishedIsKept)'
    BY <1>t, <1>i, <2>1 DEF NodeTypeOK
  <2> QED
    BY <2>3, <2>4 DEF NodeInv
<1>9. ASSUME NEW p \in Procs, N!WriteReceipt(p) PROVE NodeInv'
  <2>1. /\ at[p] \in {"write", "written", "synced"} /\ UNCHANGED <<seen, began>>
        /\ \/ /\ root' = [root EXCEPT !.receipt = N!Receipt("torn", seen[p])]
              /\ at' = [at EXCEPT ![p] = "written"]
           \/ /\ root' = [root EXCEPT !.receipt = N!Receipt("full", seen[p])]
              /\ at' = [at EXCEPT ![p] = "synced"]
           \/ root' = NoTree /\ at' = [at EXCEPT ![p] = "idle"]
    BY <1>9 DEF N!WriteReceipt, N!Withdraw, N!Go, N!Fail
  <2>2. root \in N!Trees
    BY <1>i, <1>c, <2>1
  <2>3. \/ root' = NoTree /\ at' = [at EXCEPT ![p] = "idle"]
        \/ /\ root' \in N!Trees /\ root'.by = root.by /\ root'.content = root.content
           /\ at' = [at EXCEPT ![p] = "written"] \/ at' = [at EXCEPT ![p] = "synced"]
    <3>1. N!Receipt("full", seen[p]) \in N!Receipts /\ N!Receipt("torn", seen[p]) \in N!Receipts
      BY <1>t, NewReceipt DEF NodeTypeOK
    <3>2. \A r \in N!Receipts : /\ [root EXCEPT !.receipt = r] \in N!Trees
                                 /\ [root EXCEPT !.receipt = r].by = root.by
                                 /\ [root EXCEPT !.receipt = r].content = root.content
      BY <2>2, <1>c, ChangedTree
    <3>3. CASE root' = [root EXCEPT !.receipt = N!Receipt("torn", seen[p])]
               /\ at' = [at EXCEPT ![p] = "written"]
      BY <3>1, <3>2, <3>3
    <3>4. CASE root' = [root EXCEPT !.receipt = N!Receipt("full", seen[p])]
               /\ at' = [at EXCEPT ![p] = "synced"]
      BY <3>1, <3>2, <3>4
    <3> QED
      BY <2>1, <3>3, <3>4
  <2>4. NodeTypeOK'
    BY <1>t, <2>1, <2>3 DEF NodeTypeOK, NodePlaces
  <2>5. (RootIsNoticed /\ SeenWasThere /\ PublishedWasWhole /\ N!GivenIsGenuine /\ N!PublishedIsKept)'
    BY <1>t, <1>i, <1>n, <2>1, <2>2, <2>3 DEF NodeTypeOK
  <2> QED
    BY <2>4, <2>5 DEF NodeInv
<1>10. CASE N!Alter
  <2>1. PICK content_2 \in N!Contents :
          /\ root # NoTree /\ root' = [root EXCEPT !.content = content_2]
          /\ began' = [q \in Procs |-> began[q] \cup {content_2}] /\ UNCHANGED <<at, seen>>
    BY <1>10 DEF N!Alter, N!Becomes
  <2>2. root' \in N!Trees /\ root'.by = root.by /\ root'.content = content_2
    BY <1>c, <2>1, ChangedTree
  <2>3. NodeTypeOK'
    <3>1. began' \in [Procs -> SUBSET N!Contents]
      BY <1>t, <2>1 DEF NodeTypeOK
    <3> QED
      BY <1>t, <2>1, <2>2, <3>1 DEF NodeTypeOK
  <2>4. (RootIsNoticed /\ SeenWasThere /\ PublishedWasWhole /\ N!GivenIsGenuine /\ N!PublishedIsKept)'
    <3>1. \A q \in Procs : began[q] \subseteq began'[q] /\ content_2 \in began'[q]
      BY <2>1
    <3>2. RootIsNoticed'
      BY <2>2, <3>1
    <3>3. SeenWasThere' /\ PublishedWasWhole' /\ N!GivenIsGenuine'
      BY <1>i, <2>1, <3>1
    <3>4. N!PublishedIsKept'
      BY <1>i, <1>n, <2>1, <2>2
    <3> QED
      BY <3>2, <3>3, <3>4
  <2> QED
    BY <2>3, <2>4 DEF NodeInv
<1>11. CASE UNCHANGED N!node
  BY <1>11 DEF N!node, NodeInv, NodeTypeOK
<1> QED
  BY <1>1, <1>2, <1>3, <1>4, <1>5, <1>6, <1>7, <1>8, <1>9, <1>10, <1>11 DEF N!NodeNext

\* Whoever is given a Node runtime is given one that has held what the archive
\* holds since the call began, and nobody's failure removes what another process
\* has published: policy-owned-artifact-adapter.ts.
THEOREM NodeRuntimesAreKept == N!NodeSpec => []N!RuntimesAreKept
<1>1. NodeInv => N!RuntimesAreKept
  BY DEF NodeInv, N!RuntimesAreKept
<1> QED
  BY <1>1, NodeInitially, NodeStep, PTL DEF N!NodeSpec

---------------------------------------------------------------------------
(* The plugin of the design GUI *)

Copies == {NoTree, "torn", "whole"}
Resting == {"idle", "installed", "failed"}
BeforeSwap == {"read", "write", "clear", "npm", "check", "copy", "copying", "swap"}
GuiTypeOK ==
  /\ packages \in [plugin : Copies, disabled : BOOLEAN]
  /\ plugin \in Copies
  /\ spare \in [temporary : Copies, backup : Copies]
  /\ at \in Resting \cup BeforeSwap \cup {"install", "move back", "undo", "clean", "launcher", "dead"}
  /\ faults \in Nat

\* What is copied is whole, and what is moved in is a whole copy.
CopyIsWhole == /\ at \in {"check", "copy", "copying"} => packages.plugin = "whole"
               /\ at \in {"swap", "install"} => spare.temporary = "whole"

\* Where the plugin that was found is, or the one that replaces it.
PluginIsSomewhere ==
  found = "whole" =>
    /\ at \in BeforeSwap \cup {"clean", "launcher"} => plugin = "whole"
    /\ at \in {"install", "move back"} => spare.backup = "whole"
    /\ at = "move back" => faults >= 1
    /\ at \in Resting \cup {"undo"} => plugin = "whole" \/ faults >= 2
    /\ at = "dead" => "whole" \in left \cup {plugin} \/ faults >= 2

GuiInv == GuiTypeOK /\ CopyIsWhole /\ PluginIsSomewhere

\* The plugin's invariant holds at first ...
LEMMA GuiInitially == D!DbGateInit => GuiInv
<1> SUFFICES ASSUME D!DbGateInit PROVE GuiInv
  OBVIOUS
<1>1. GuiTypeOK
  BY DEF D!DbGateInit, D!NoSpare, GuiTypeOK, Copies, Resting, BeforeSwap
<1>2. CopyIsWhole /\ PluginIsSomewhere
  BY DEF D!DbGateInit, CopyIsWhole, PluginIsSomewhere, Resting, BeforeSwap
<1> QED
  BY <1>1, <1>2 DEF GuiInv

\* A step of the installer or of the user keeps the invariant.
LEMMA GuiStep == GuiInv /\ [D!DbGateNext]_(D!dbgate) => GuiInv'
<1> SUFFICES ASSUME GuiInv, [D!DbGateNext]_(D!dbgate) PROVE GuiInv'
  OBVIOUS
<1>t. GuiTypeOK
  BY DEF GuiInv
<1>i. CopyIsWhole /\ PluginIsSomewhere
  BY DEF GuiInv
<1>s. /\ packages = [plugin |-> packages.plugin, disabled |-> packages.disabled]
      /\ spare = [temporary |-> spare.temporary, backup |-> spare.backup]
      /\ packages.plugin \in Copies /\ spare.temporary \in Copies /\ spare.backup \in Copies
  BY <1>t DEF GuiTypeOK
<1>f. /\ faults \in Nat /\ faults + 1 \in Nat /\ faults + 1 >= 1
      /\ faults >= 1 => faults + 1 >= 2
  <2>1. faults \in Nat
    BY <1>t DEF GuiTypeOK
  <2> QED
    BY <2>1
<1> USE DEF CopyIsWhole, PluginIsSomewhere, Resting, BeforeSwap
<1>1. CASE D!Ensure
  <2>1. GuiTypeOK'
    BY <1>1, <1>t DEF D!Ensure, GuiTypeOK
  <2>2. CopyIsWhole' /\ PluginIsSomewhere'
    BY <1>1 DEF D!Ensure
  <2> QED
    BY <2>1, <2>2 DEF GuiInv
<1>2. CASE D!ReadManifest \/ D!WriteManifest \/ D!EditManifest \/ D!WriteLauncher
           \/ UNCHANGED D!dbgate
  <2>0. UNCHANGED <<packages, plugin, spare, left, found, faults>>
    BY <1>2 DEF D!ReadManifest, D!WriteManifest, D!EditManifest, D!WriteLauncher, D!dbgate,
                D!KeepSwap, D!Stops
  <2>1. \/ at = "read" /\ at' \in {"write", "failed"}
        \/ at = "write" /\ at' \in {"clear", "failed"}
        \/ at = "launcher" /\ at' \in {"installed", "failed"}
        \/ UNCHANGED at
    BY <1>2 DEF D!ReadManifest, D!WriteManifest, D!EditManifest, D!WriteLauncher, D!dbgate,
                D!Stops
  <2>2. GuiTypeOK'
    BY <2>0, <2>1, <1>t DEF GuiTypeOK
  <2>3. CopyIsWhole' /\ PluginIsSomewhere'
    BY <2>0, <2>1, <1>i
  <2> QED
    BY <2>2, <2>3 DEF GuiInv
<1>3. CASE D!RemoveDisabled \/ D!RunNpm \/ D!CheckPackages
  <2>0. UNCHANGED <<plugin, spare, left, found, faults>>
    BY <1>3 DEF D!RemoveDisabled, D!RunNpm, D!CheckPackages, D!KeepSwap
  <2>1. /\ packages' \in [plugin : Copies, disabled : BOOLEAN]
        /\ \/ at = "clear" /\ at' = "npm"
           \/ at = "npm" /\ at' = "failed"
           \/ at = "npm" /\ at' = "check" /\ packages'.plugin = "whole"
           \/ at = "check" /\ at' \in {"copy", "failed"} /\ packages' = packages
    <3>1. CASE D!RemoveDisabled
      BY <3>1, <1>t DEF D!RemoveDisabled, GuiTypeOK
    <3>2. CASE D!RunNpm
      BY <3>2 DEF D!RunNpm, Copies
    <3>3. CASE D!CheckPackages
      BY <3>3, <1>t DEF D!CheckPackages, GuiTypeOK, D!Stops
    <3> QED
      BY <1>3, <3>1, <3>2, <3>3
  <2>2. GuiTypeOK'
    BY <2>0, <2>1, <1>t DEF GuiTypeOK
  <2>3. CopyIsWhole' /\ PluginIsSomewhere'
    BY <2>0, <2>1, <1>i
  <2> QED
    BY <2>2, <2>3 DEF GuiInv
<1>4. CASE D!Copy
  <2>0. UNCHANGED <<packages, plugin, left, found, faults>>
    BY <1>4 DEF D!Copy, D!CopyTo, D!KeepFiles
  <2>1. /\ spare' \in [temporary : Copies, backup : Copies]
        /\ \/ at = "copy" /\ at' = "copying"
           \/ at = "copying" /\ at' = "swap" /\ spare'.temporary = packages.plugin
           \/ at = "copying" /\ at' = "failed"
    BY <1>4, <1>t, <1>s DEF D!Copy, D!CopyTo, D!Stops, GuiTypeOK, Copies
  <2>2. GuiTypeOK'
    BY <2>0, <2>1, <1>t DEF GuiTypeOK
  <2>3. CopyIsWhole' /\ PluginIsSomewhere'
    BY <2>0, <2>1, <1>i
  <2> QED
    BY <2>2, <2>3 DEF GuiInv
<1>5. CASE D!MoveAway
  <2>0. UNCHANGED <<packages, left, found>>
    BY <1>5 DEF D!MoveAway, D!KeepFiles
  <2>1. CASE at' = "install" /\ plugin' = NoTree /\ spare' = [spare EXCEPT !.backup = plugin]
             /\ faults' = faults
    <3>1. /\ spare' \in [temporary : Copies, backup : Copies]
          /\ spare'.temporary = spare.temporary /\ spare'.backup = plugin
      BY <2>1, <1>t DEF GuiTypeOK
    <3>2. GuiTypeOK'
      BY <1>t, <2>0, <2>1, <3>1 DEF GuiTypeOK, Copies
    <3>3. CopyIsWhole' /\ PluginIsSomewhere'
      BY <1>5, <1>i, <2>0, <2>1, <3>1 DEF D!MoveAway
    <3> QED
      BY <3>2, <3>3 DEF GuiInv
  <2>2. CASE at' = "undo" /\ UNCHANGED <<plugin, spare>> /\ faults' = faults + 1
    <3>1. GuiTypeOK'
      BY <1>t, <1>f, <2>0, <2>2 DEF GuiTypeOK
    <3>2. CopyIsWhole' /\ PluginIsSomewhere'
      BY <1>5, <1>i, <2>0, <2>2 DEF D!MoveAway
    <3> QED
      BY <3>1, <3>2 DEF GuiInv
  <2> QED
    BY <1>5, <2>1, <2>2 DEF D!MoveAway, D!Fault
<1>6. CASE D!MoveIn
  <2>0. UNCHANGED <<packages, left, found>> /\ at = "install"
    BY <1>6 DEF D!MoveIn, D!KeepFiles
  <2>1. CASE at' = "clean" /\ plugin' = spare.temporary /\ spare' = [spare EXCEPT !.temporary = NoTree]
             /\ faults' = faults
    <3>1. spare' \in [temporary : Copies, backup : Copies]
      BY <2>1, <1>t DEF GuiTypeOK, Copies
    <3>2. GuiTypeOK'
      BY <1>t, <1>s, <2>0, <2>1, <3>1 DEF GuiTypeOK
    <3>3. CopyIsWhole' /\ PluginIsSomewhere'
      BY <1>i, <2>0, <2>1
    <3> QED
      BY <3>2, <3>3 DEF GuiInv
  <2>2. CASE at' = "move back" /\ UNCHANGED <<plugin, spare>> /\ faults' = faults + 1
    <3>1. GuiTypeOK' /\ faults' >= 1
      BY <1>t, <1>f, <2>0, <2>2 DEF GuiTypeOK
    <3>2. CopyIsWhole' /\ PluginIsSomewhere'
      BY <1>i, <2>0, <2>2, <3>1
    <3> QED
      BY <3>1, <3>2 DEF GuiInv
  <2> QED
    BY <1>6, <2>1, <2>2 DEF D!MoveIn, D!Fault
<1>7. CASE D!MoveBack
  <2>0. UNCHANGED <<packages, left, found>> /\ at = "move back" /\ at' = "undo"
    BY <1>7 DEF D!MoveBack, D!KeepFiles
  <2>1. CASE plugin' = spare.backup /\ spare' = [spare EXCEPT !.backup = NoTree] /\ faults' = faults
    <3>1. spare' \in [temporary : Copies, backup : Copies]
      BY <2>1, <1>t DEF GuiTypeOK, Copies
    <3>2. GuiTypeOK'
      BY <1>t, <1>s, <2>0, <2>1, <3>1 DEF GuiTypeOK
    <3>3. CopyIsWhole' /\ PluginIsSomewhere'
      BY <1>i, <2>0, <2>1
    <3> QED
      BY <3>2, <3>3 DEF GuiInv
  <2>2. CASE UNCHANGED <<plugin, spare>> /\ faults' = faults + 1
    <3>1. GuiTypeOK' /\ (faults >= 1 => faults' >= 2)
      BY <1>t, <1>f, <2>0, <2>2 DEF GuiTypeOK
    <3>2. CopyIsWhole' /\ PluginIsSomewhere'
      BY <1>i, <2>0, <2>2, <3>1
    <3> QED
      BY <3>1, <3>2 DEF GuiInv
  <2> QED
    BY <1>7, <2>1, <2>2 DEF D!MoveBack, D!Fault
<1>8. CASE D!Clean
  <2>1. /\ UNCHANGED <<packages, left, found, plugin, faults>> /\ spare' = D!NoSpare
        /\ at \in {"clean", "undo"} /\ (IF at = "undo" THEN at' = "failed" ELSE at' = "launcher")
    BY <1>8 DEF D!Clean, D!KeepFiles, D!Stops
  <2>2. GuiTypeOK'
    BY <1>t, <2>1 DEF GuiTypeOK, D!NoSpare, Copies
  <2>3. CopyIsWhole' /\ PluginIsSomewhere'
    BY <1>i, <2>1
  <2> QED
    BY <2>2, <2>3 DEF GuiInv
<1>9. CASE D!Die
  <2>1. /\ at \notin {"idle", "installed", "failed", "dead"} /\ at' = "dead" /\ spare' = D!NoSpare
        /\ left' = left \cup ({spare.backup} \ {NoTree})
        /\ UNCHANGED <<packages, plugin, found, faults>>
    BY <1>9 DEF D!Die
  <2>2. GuiTypeOK'
    BY <1>t, <2>1 DEF GuiTypeOK, D!NoSpare, Copies
  <2>3. found = "whole" => "whole" \in left' \cup {plugin} \/ faults >= 2
    BY <1>i, <1>t, <2>1, NoTreeIsNoTree DEF GuiTypeOK
  <2>4. CopyIsWhole' /\ PluginIsSomewhere'
    BY <2>1, <2>3
  <2> QED
    BY <2>2, <2>4 DEF GuiInv
<1> QED
  BY <1>1, <1>2, <1>3, <1>4, <1>5, <1>6, <1>7, <1>8, <1>9 DEF D!DbGateNext

\* The invariant of the plugin is stronger than what is promised of it.
LEMMA PluginInv == GuiInv => D!PluginKept
<1> SUFFICES ASSUME GuiInv, found = "whole", faults <= 1
             PROVE  /\ at \in {"idle", "installed", "failed"} => plugin = "whole"
                    /\ at = "dead" => "whole" \in left \cup {plugin}
  BY DEF D!PluginKept
<1>t. faults \in Nat
  BY DEF GuiInv, GuiTypeOK
<1>1. ~(faults >= 2)
  BY <1>t
<1> QED
  BY <1>1 DEF GuiInv, PluginIsSomewhere, Resting

\* An install that fails or dies keeps the plugin that was there:
\* dbgate-installer.ts replaceOwnedDirectory.
THEOREM PluginIsKept == D!DbGateSpec => []D!PluginKept
BY PluginInv, GuiInitially, GuiStep, PTL DEF D!DbGateSpec

---------------------------------------------------------------------------
(* The initialisation of Spec Kit *)

Contents == {"first", "half", "generic", "edited", "unseen"}
Looks == {"prepare", "session", "callback", "command"}
OtherPlaces == {"after", "idle", "prepared", "consume", "ask", "run", "running", "verify",
                "initialized", "dead"}
KitAts == (Looks \X {1, 2, 3}) \cup (OtherPlaces \X {1})
KitTypeOK ==
  /\ tree \in [K!Trees -> Contents]
  /\ plan \in [Procs -> {NoPlan} \cup [K!Trees -> Contents]]
  /\ at \in [Procs -> KitAts]
  /\ late \in [Procs -> SUBSET K!Trees]

\* Who is past its preparation has a plan.
Planned == \A p \in Procs : at[p][1] \notin {"idle", "dead"} => plan[p] \in [K!Trees -> Contents]

\* The trees that the session of a process has seen while it looks for its command.
Checked(p) ==
  CASE at[p][1] = "run" -> K!Trees
    [] at[p] = <<"command", 3>> -> {"commands", "specify"}
    [] at[p] = <<"command", 2>> -> {"commands"}
    [] OTHER -> {}

\* Such a tree is what the plan says, unless it has changed since.
CheckedIsPlanned ==
  \A p \in Procs : \A t \in Checked(p) : t \in late[p] \/ tree[t] = plan[p][t]

KitInv == KitTypeOK /\ Planned /\ CheckedIsPlanned /\ K!InitMeetsPlan

\* Spec Kit's invariant holds at first.
LEMMA KitInitially == K!KitInit => KitInv
<1> SUFFICES ASSUME K!KitInit PROVE KitInv
  OBVIOUS
<1>1. KitTypeOK
  BY DEF K!KitInit, KitTypeOK, Contents, KitAts, OtherPlaces
<1>2. Planned /\ CheckedIsPlanned /\ K!InitMeetsPlan
  BY DEF K!KitInit, Planned, CheckedIsPlanned, Checked, K!InitMeetsPlan
<1> QED
  BY <1>1, <1>2 DEF KitInv

\* A process that goes elsewhere goes to that place only.
LEMMA Goes ==
  ASSUME NEW p \in Procs, NEW where \in Looks \cup OtherPlaces, KitTypeOK, K!Go(p, where)
  PROVE  /\ at' \in [Procs -> KitAts]
         /\ at'[p] = <<where, 1>>
         /\ \A q \in Procs \ {p} : at'[q] = at[q]
BY DEF KitTypeOK, K!Go, KitAts

\* The next tree of a look, or the place that follows.
LEMMA MovesOn ==
  ASSUME NEW p \in Procs, KitTypeOK, at[p][1] \in Looks \cup {"after"}, K!MoveOn(p)
  PROVE  /\ at' \in [Procs -> KitAts]
         /\ \A q \in Procs \ {p} : at'[q] = at[q]
         /\ at'[p][1] \notin {"idle", "dead"}
         /\ at[p][1] # "command" => at'[p][1] \notin {"command", "run"}
         /\ at[p] = <<"command", 1>> => at'[p] = <<"command", 2>> /\ K!Order("command")[1] = "commands"
         /\ at[p] = <<"command", 2>> => at'[p] = <<"command", 3>> /\ K!Order("command")[2] = "specify"
         /\ at[p] = <<"command", 3>> => at'[p] = <<"run", 1>> /\ K!Order("command")[3] = "tool"
<1>1. \A look \in Looks : Len(K!Order(look)) = 3
  BY DEF Looks, K!Order
<1>2. Len(K!Order("after")) = 1
  BY DEF K!Order
<1>3. /\ K!Order("command")[1] = "commands" /\ K!Order("command")[2] = "specify"
      /\ K!Order("command")[3] = "tool"
  BY DEF K!Order
<1>4. \A look \in Looks \cup {"after"} :
        /\ K!After(look) \in OtherPlaces \ {"idle", "dead"}
        /\ look # "command" => K!After(look) # "run"
        /\ look = "command" => K!After(look) = "run"
  BY DEF Looks, OtherPlaces, K!After
<1>5. at[p] \in KitAts
  BY DEF KitTypeOK
<1>6. CASE at[p][2] = Len(K!Order(at[p][1]))
  <2>1. K!Go(p, K!After(at[p][1]))
    BY <1>6 DEF K!MoveOn
  <2>2. /\ at' \in [Procs -> KitAts] /\ at'[p] = <<K!After(at[p][1]), 1>>
        /\ \A q \in Procs \ {p} : at'[q] = at[q]
    BY <2>1, <1>4, Goes
  <2> QED
    BY <1>1, <1>3, <1>4, <1>6, <2>2 DEF Looks, OtherPlaces
<1>7. CASE at[p][2] # Len(K!Order(at[p][1]))
  <2>1. at' = [at EXCEPT ![p] = <<at[p][1], at[p][2] + 1>>]
    BY <1>7 DEF K!MoveOn
  <2>2. at[p][1] \in Looks /\ at[p][2] \in {1, 2}
    BY <1>1, <1>2, <1>5, <1>7 DEF KitAts
  <2>3. <<at[p][1], at[p][2] + 1>> \in KitAts
    BY <2>2 DEF KitAts
  <2>4. /\ at' \in [Procs -> KitAts] /\ at'[p] = <<at[p][1], at[p][2] + 1>>
        /\ \A q \in Procs \ {p} : at'[q] = at[q]
    BY <2>1, <2>3 DEF KitTypeOK
  <2> QED
    BY <1>3, <2>2, <2>4 DEF Looks
<1> QED
  BY <1>6, <1>7

\* What is changed, and who notices it.
LEMMA Changes ==
  ASSUME NEW trees \in SUBSET K!Trees, NEW c \in Contents, KitTypeOK, K!Change(trees, c)
  PROVE  /\ tree' \in [K!Trees -> Contents] /\ late' \in [Procs -> SUBSET K!Trees]
         /\ \A p \in Procs : \A t \in Checked(p) : t \in late[p] \/ tree[t] = plan[p][t]
                => t \in late'[p] \/ tree'[t] = plan[p][t]
<1>1. tree' \in [K!Trees -> Contents] /\ late' \in [Procs -> SUBSET K!Trees]
  BY DEF KitTypeOK, K!Change
<1>2. ASSUME NEW p \in Procs, NEW t \in Checked(p), t \in late[p] \/ tree[t] = plan[p][t]
      PROVE  t \in late'[p] \/ tree'[t] = plan[p][t]
  <2>1. at[p][1] \in {"command", "run"} /\ t \in K!Trees
    BY <1>2 DEF Checked, K!Trees, K!Overwritten
  <2>2. late'[p] = late[p] \cup trees
    BY <2>1 DEF K!Change
  <2>3. tree'[t] = IF t \in trees THEN c ELSE tree[t]
    BY <2>1 DEF K!Change
  <2> QED
    BY <1>2, <2>2, <2>3
<1> QED
  BY <1>1, <1>2

\* Every step keeps Spec Kit's invariant.
LEMMA KitStep == KitInv /\ [K!KitNext]_(K!kit) => KitInv'
<1> SUFFICES ASSUME KitInv, [K!KitNext]_(K!kit) PROVE KitInv'
  OBVIOUS
<1>t. KitTypeOK /\ Planned /\ CheckedIsPlanned /\ met = {}
  BY DEF KitInv, K!InitMeetsPlan
<1>c. \A p \in Procs : at[p] \in KitAts
  BY <1>t DEF KitTypeOK
\* A process goes to a place where nothing is looked for yet; its plan is changed with it at most.
<1>m. ASSUME NEW p \in Procs, NEW where \in (Looks \cup OtherPlaces) \ {"run"}, K!Go(p, where),
             UNCHANGED <<tree, met>>, late' \in [Procs -> SUBSET K!Trees],
             \A q \in Procs \ {p} : late'[q] = late[q] /\ plan'[q] = plan[q],
             plan' \in [Procs -> {NoPlan} \cup [K!Trees -> Contents]],
             where \notin {"idle", "dead"} => plan'[p] \in [K!Trees -> Contents]
      PROVE  KitInv'
  <2>1. /\ at' \in [Procs -> KitAts] /\ at'[p] = <<where, 1>>
        /\ \A q \in Procs \ {p} : at'[q] = at[q]
    BY <1>t, <1>m, Goes
  <2>2. KitTypeOK' /\ K!InitMeetsPlan'
    BY <1>t, <1>m, <2>1 DEF KitTypeOK, K!InitMeetsPlan
  <2>3. Planned'
    BY <1>t, <1>m, <2>1 DEF Planned
  <2>4. Checked(p)' = {} /\ \A q \in Procs \ {p} : Checked(q)' = Checked(q)
    BY <1>m, <2>1 DEF Checked
  <2>5. CheckedIsPlanned'
    BY <1>t, <1>m, <2>4 DEF CheckedIsPlanned
  <2> QED
    BY <2>2, <2>3, <2>5 DEF KitInv
<1>1. ASSUME NEW p \in Procs, K!Prepare(p) PROVE KitInv'
  <2>1. K!Go(p, "prepare") /\ UNCHANGED <<tree, late, met>> /\ plan' = [plan EXCEPT ![p] = K!Unseen]
    BY <1>1 DEF K!Prepare
  <2>2. K!Unseen \in [K!Trees -> Contents]
    BY DEF K!Unseen, Contents
  <2> QED
    BY <1>t, <1>m, <2>1, <2>2 DEF KitTypeOK, Looks, OtherPlaces
<1>2. ASSUME NEW p \in Procs, K!Look(p) PROVE KitInv'
  <2>1. CASE UNCHANGED plan /\ \E where \in {"prepared", "idle"} : K!Go(p, where)
    <3>1. PICK where \in {"prepared", "idle"} : K!Go(p, where)
      BY <2>1
    <3>2. UNCHANGED <<tree, late, met>> /\ plan[p] \in [K!Trees -> Contents]
      BY <1>t, <1>2, <2>1 DEF K!Look, Planned
    <3> QED
      BY <1>t, <1>m, <2>1, <3>1, <3>2 DEF KitTypeOK, OtherPlaces
  <2>2. CASE LET t == K!Order(at[p][1])[at[p][2]] IN
             /\ at[p][1] # "prepare" => tree[t] = plan[p][t]
             /\ plan' = [plan EXCEPT ![p][t] = tree[t]]
             /\ K!MoveOn(p)
    <3> DEFINE t == K!Order(at[p][1])[at[p][2]]
    <3>1. /\ at[p][1] # "prepare" => tree[t] = plan[p][t]
          /\ plan' = [plan EXCEPT ![p] = [plan[p] EXCEPT ![t] = tree[t]]]
          /\ K!MoveOn(p)
          /\ UNCHANGED <<tree, late, met>> /\ at[p][1] \in Looks \cup {"after"}
      BY <1>2, <2>2 DEF K!Look, Looks
    <3>2. plan[p] \in [K!Trees -> Contents]
      BY <1>t, <3>1 DEF Planned, Looks
    <3>3. t \in K!Trees
      BY <1>c, <3>1, SMTT(60) DEF KitAts, Looks, OtherPlaces, K!Order, K!Trees, K!Overwritten
    <3>4. [plan[p] EXCEPT ![t] = tree[t]] \in [K!Trees -> Contents]
      BY <1>t, <3>2, <3>3 DEF KitTypeOK
    <3>5. /\ plan' \in [Procs -> {NoPlan} \cup [K!Trees -> Contents]]
          /\ plan'[p] = [plan[p] EXCEPT ![t] = tree[t]]
          /\ \A q \in Procs \ {p} : plan'[q] = plan[q]
      BY <1>t, <3>1, <3>4 DEF KitTypeOK
    <3>6. at[p][1] # "prepare" => plan'[p] = plan[p]
      BY <3>1, <3>2, <3>3, <3>5, SMTT(20)
    <3>7. /\ at' \in [Procs -> KitAts]
          /\ \A q \in Procs \ {p} : at'[q] = at[q]
          /\ at'[p][1] \notin {"idle", "dead"}
          /\ at[p][1] # "command" => at'[p][1] \notin {"command", "run"}
          /\ at[p] = <<"command", 1>> => at'[p] = <<"command", 2>> /\ t = "commands"
          /\ at[p] = <<"command", 2>> => at'[p] = <<"command", 3>> /\ t = "specify"
          /\ at[p] = <<"command", 3>> => at'[p] = <<"run", 1>> /\ t = "tool"
      BY <1>t, <3>1, MovesOn
    <3>8. KitTypeOK' /\ K!InitMeetsPlan'
      BY <1>t, <3>1, <3>5, <3>7 DEF KitTypeOK, K!InitMeetsPlan
    <3>9. Planned'
      BY <1>t, <3>4, <3>5, <3>7 DEF Planned
    <3>10. CheckedIsPlanned'
      <4>1. ASSUME NEW q \in Procs \ {p} PROVE \A u \in Checked(q)' : u \in late'[q] \/ tree'[u] = plan'[q][u]
        BY <1>t, <3>1, <3>5, <3>7, SMTT(20) DEF CheckedIsPlanned, Checked
      <4>2. Checked(p)' \subseteq Checked(p) \cup {t}
        BY <1>c, <3>1, <3>7 DEF Checked, KitAts, K!Trees, K!Overwritten
      <4>3. Checked(p)' # {} => at[p][1] = "command"
        BY <3>7 DEF Checked
      <4>4. \A u \in Checked(p)' : u \in late'[p] \/ tree'[u] = plan'[p][u]
        BY <1>t, <3>1, <3>6, <4>2, <4>3 DEF CheckedIsPlanned
      <4> QED
        BY <4>1, <4>4 DEF CheckedIsPlanned
    <3> QED
      BY <3>8, <3>9, <3>10 DEF KitInv
  <2> QED
    BY <1>2, <2>1, <2>2 DEF K!Look, K!In
<1>3. ASSUME NEW p \in Procs, K!Initialize(p) \/ K!Consume(p) \/ K!AskCommand(p) \/ K!Verify(p)
      PROVE KitInv'
  <2>1. /\ at[p][1] \in {"prepared", "consume", "ask", "verify"} /\ UNCHANGED <<tree, plan, met>>
        /\ late' = late \/ late' = [late EXCEPT ![p] = {}]
        /\ \E where \in {"session", "callback", "prepared", "command", "initialized"} : K!Go(p, where)
    BY <1>3 DEF K!Initialize, K!Consume, K!AskCommand, K!Verify, K!In
  <2>2. PICK where \in {"session", "callback", "prepared", "command", "initialized"} : K!Go(p, where)
    BY <2>1
  <2>3. late' \in [Procs -> SUBSET K!Trees] /\ \A q \in Procs \ {p} : late'[q] = late[q]
    BY <1>t, <2>1 DEF KitTypeOK
  <2>4. plan[p] \in [K!Trees -> Contents]
    BY <1>t, <2>1 DEF Planned
  <2> QED
    BY <1>t, <1>m, <2>1, <2>2, <2>3, <2>4 DEF KitTypeOK, Looks, OtherPlaces
<1>4. ASSUME NEW p \in Procs, K!Die(p) PROVE KitInv'
  <2>1. K!Go(p, "dead") /\ UNCHANGED <<tree, late, met>> /\ plan' = [plan EXCEPT ![p] = NoPlan]
    BY <1>4 DEF K!Die
  <2> QED
    BY <1>t, <1>m, <2>1 DEF KitTypeOK, Looks, OtherPlaces
<1>5. ASSUME NEW p \in Procs, K!Run(p) PROVE KitInv'
  <2>1. at[p][1] \in {"run", "running"} /\ UNCHANGED plan /\ plan[p] \in [K!Trees -> Contents]
    BY <1>t, <1>5 DEF K!Run, K!In, Planned
  <2>2. CASE K!Go(p, "prepared") /\ UNCHANGED <<tree, late, met>>
    BY <1>t, <1>m, <2>1, <2>2 DEF KitTypeOK, OtherPlaces
  <2>3. CASE \E where \in {"running", "after"}, c \in {"half", "generic"} :
                 K!Go(p, where) /\ K!Change(K!Overwritten, c)
    <3>1. PICK where \in {"running", "after"}, c \in {"half", "generic"} :
                 K!Go(p, where) /\ K!Change(K!Overwritten, c)
      BY <2>3
    <3>2. /\ at' \in [Procs -> KitAts] /\ at'[p] = <<where, 1>>
          /\ \A q \in Procs \ {p} : at'[q] = at[q]
      BY <1>t, <3>1, Goes DEF OtherPlaces
    <3>3. /\ tree' \in [K!Trees -> Contents] /\ late' \in [Procs -> SUBSET K!Trees]
          /\ \A q \in Procs : \A t \in Checked(q) : t \in late[q] \/ tree[t] = plan[q][t]
                => t \in late'[q] \/ tree'[t] = plan[q][t]
      BY <1>t, <3>1, Changes DEF K!Trees, Contents
    <3>4. KitTypeOK'
      BY <1>t, <2>1, <3>2, <3>3 DEF KitTypeOK
    <3>5. Planned'
      BY <1>t, <2>1, <3>2 DEF Planned
    <3>6. Checked(p)' = {} /\ \A q \in Procs \ {p} : Checked(q)' = Checked(q)
      BY <3>2 DEF Checked
    <3>7. CheckedIsPlanned'
      BY <1>t, <2>1, <3>3, <3>6 DEF CheckedIsPlanned
    <3>8. met' = {}
      <4>1. CASE UNCHANGED met
        BY <1>t, <4>1
      <4>2. CASE at[p][1] = "run" /\ met' = {t \in K!Trees : tree[t] # plan[p][t]} \ late[p]
        <5>1. Checked(p) = K!Trees
          BY <4>2 DEF Checked
        <5> QED
          BY <1>t, <4>2, <5>1 DEF CheckedIsPlanned
      <4> QED
        BY <1>t, <1>5, <4>1, <4>2 DEF K!Run, K!In
    <3> QED
      BY <3>4, <3>5, <3>7, <3>8 DEF KitInv, K!InitMeetsPlan
  <2> QED
    BY <1>5, <2>2, <2>3 DEF K!Run
<1>6. CASE K!Edit
  <2>1. PICK t \in K!Trees : K!Change({t}, "edited") /\ UNCHANGED <<plan, at, met>>
    BY <1>6 DEF K!Edit
  <2>2. /\ tree' \in [K!Trees -> Contents] /\ late' \in [Procs -> SUBSET K!Trees]
        /\ \A q \in Procs : \A u \in Checked(q) : u \in late[q] \/ tree[u] = plan[q][u]
              => u \in late'[q] \/ tree'[u] = plan[q][u]
    BY <1>t, <2>1, Changes DEF Contents
  <2>3. KitTypeOK' /\ Planned' /\ K!InitMeetsPlan'
    BY <1>t, <2>1, <2>2 DEF KitTypeOK, Planned, K!InitMeetsPlan
  <2>4. CheckedIsPlanned'
    BY <1>t, <2>1, <2>2 DEF CheckedIsPlanned, Checked
  <2> QED
    BY <2>3, <2>4 DEF KitInv
<1>7. CASE UNCHANGED <<tree, plan, at, late, met>>
  BY <1>t, <1>7 DEF KitInv, KitTypeOK, Planned, CheckedIsPlanned, Checked, K!InitMeetsPlan
<1> QED
  BY <1>1, <1>2, <1>3, <1>4, <1>5, <1>6, <1>7 DEF K!KitNext, K!Approve, K!kit

\* What `specify init --force` overwrites, and the tool, are what the approved
\* plan says, unless they change while the session looks for this command:
\* SpecKitAdapter, executeApprovedInstallCommand.
THEOREM InitialisationMeetsPlan == K!KitSpec => []K!InitMeetsPlan
<1>1. KitInv => K!InitMeetsPlan
  BY DEF KitInv
<1> QED
  BY <1>1, KitInitially, KitStep, PTL DEF K!KitSpec

---------------------------------------------------------------------------
(* The review service *)

\* What may be asked for, or what a client has read of it.
Asked == Hashes \cup {NoHash, "unread"}
ServedTypeOK ==
  /\ served \in [Procs -> [revision : Nat, id : Nat, hash : Asked, intact : BOOLEAN]]
  /\ wanted \in Nat

---------------------------------------------------------------------------
(* The panel *)

States == [revision : Nat, id : Nat, hash : Asked]
Clients == [session : Procs, state : States, viewed : BOOLEAN]
Screens == [client : Nat, model : States, preview : Asked, online : BOOLEAN]
Commands == [at : {"sent", "done", "read"}, kind : {"open", "decide", "clarify"},
             client : Nat \ {0}, id : Nat, hash : Asked, revision : Nat, got : States]

PanelTypeOK ==
  /\ shown \in Procs
  /\ clients \in Seq(Clients)
  /\ screen \in Screens /\ screen.client <= Len(clients)
  /\ fetching \in [client : Int, got : States]
  /\ op \in {P!NoOp} \cup Commands /\ (op.at # "none" => op.client <= Len(clients))
  /\ crossed \in BOOLEAN

\* What is read is for the screen.
ReadIsForScreen == /\ fetching.client > 0 => fetching.client = screen.client
                   /\ fetching.client = 0 => screen.client = 0

\* What is on screen is what its client has, and the command is the screen's.
OnScreen == /\ screen.client # 0 => screen.model = clients[screen.client].state
            /\ op.at # "none" => op.client = screen.client

\* What counts as looked at was on screen.
LookedAtWasSeen == \A c \in 1..Len(clients) : clients[c].viewed => P!Key(clients[c].state) \in viewed
DecidedWasSeen ==
  /\ op.at # "none" /\ op.kind = "decide" => <<op.id, op.hash, op.revision>> \in viewed
  /\ \A d \in decided : d.by = "panel" => <<d.id, d.hash, d.revision>> \in viewed

PanelInv == /\ ServedTypeOK
            /\ PanelTypeOK
            /\ ReadIsForScreen
            /\ crossed \/ (OnScreen /\ LookedAtWasSeen /\ DecidedWasSeen)

\* The panel's invariant holds at first.
LEMMA PanelInitially == P!PanelInit => PanelInv
<1> SUFFICES ASSUME P!PanelInit PROVE PanelInv
  OBVIOUS
<1>1. ServedTypeOK
  BY DEF P!PanelInit, P!ServiceInit, P!At, ServedTypeOK, Asked
<1>2. P!NoState \in States /\ P!Blank \in Screens
  BY DEF P!NoState, P!Blank, States, Screens, Asked
<1>3. PanelTypeOK
  <2>1. /\ shown \in Procs /\ clients = <<>> /\ screen = P!Blank /\ crossed = FALSE
        /\ fetching = [client |-> 0, got |-> P!NoState] /\ op = P!NoOp /\ op.at = "none"
    BY DEF P!PanelInit, P!Asking, P!NoOp
  <2>2. clients \in Seq(Clients) /\ Len(clients) = 0
    BY <2>1
  <2>3. screen.client = 0
    BY <2>1 DEF P!Blank
  <2>4. fetching \in [client : Int, got : States]
    BY <1>2, <2>1
  <2>5. crossed \in BOOLEAN
    BY <2>1
  <2> QED
    BY <1>2, <2>1, <2>2, <2>3, <2>4, <2>5 DEF PanelTypeOK
<1>4. ReadIsForScreen /\ OnScreen /\ LookedAtWasSeen /\ DecidedWasSeen
  BY DEF P!PanelInit, P!ServiceInit, P!Asking, P!Blank, P!NoOp, ReadIsForScreen, OnScreen,
         LookedAtWasSeen, DecidedWasSeen
<1> QED
  BY <1>1, <1>3, <1>4 DEF PanelInv

\* Whatever is done to what a session waits for keeps its type.
LEMMA ServedStays ==
  ASSUME NEW s \in Procs, NEW a, NEW by, ServedTypeOK,
         P!Working(s) \/ P!Approve(s, a, by) \/ P!Refuse(s, a) \/ P!Clarify(s, a)
  PROVE  /\ ServedTypeOK'
         /\ \/ UNCHANGED decided
            \/ decided' = decided \cup {[id |-> a.id, hash |-> a.hash, revision |-> a.revision, by |-> by]}
<1> DEFINE Served == [revision : Nat, id : Nat, hash : Asked, intact : BOOLEAN]
<1>1. served \in [Procs -> Served] /\ wanted \in Nat
  BY DEF ServedTypeOK
<1>2. \A n \in Nat : P!At(n) \in Served
  BY DEF P!At, Asked
<1>3. CASE P!MoveOn(s)
  BY <1>1, <1>2, <1>3 DEF P!MoveOn, ServedTypeOK
<1>4. CASE P!Withdraw(s)
  BY <1>1, <1>2, <1>4 DEF P!Withdraw, ServedTypeOK
<1>5. CASE P!Ask(s)
  <2>1. PICK hash \in Hashes : served' = [served EXCEPT ![s].id = wanted + 1, ![s].hash = hash]
    BY <1>5 DEF P!Ask
  <2>2. [served[s] EXCEPT !.id = wanted + 1, !.hash = hash] \in Served
    <3>1. served[s] \in Served /\ wanted + 1 \in Nat /\ hash \in Asked
      BY <1>1 DEF Asked
    <3> QED
      BY <3>1
  <2>3. served' = [served EXCEPT ![s] = [served[s] EXCEPT !.id = wanted + 1, !.hash = hash]]
    BY <2>1
  <2>4. served' \in [Procs -> Served]
    BY <1>1, <2>2, <2>3
  <2> QED
    BY <1>1, <1>5, <2>4 DEF P!Ask, ServedTypeOK
<1>6. CASE P!Edit(s)
  BY <1>1, <1>6 DEF P!Edit, ServedTypeOK
<1>7. CASE P!Approve(s, a, by) /\ ~P!Withdraw(s)
  <2>1. /\ served' = [served EXCEPT ![s] = P!At(served[s].revision + 1)] /\ UNCHANGED wanted
        /\ decided' = decided \cup {[id |-> a.id, hash |-> a.hash, revision |-> a.revision, by |-> by]}
    BY <1>7 DEF P!Approve
  <2> QED
    BY <1>1, <1>2, <2>1 DEF ServedTypeOK
<1>8. P!Withdraw(s) => UNCHANGED decided
  BY DEF P!Withdraw
<1> QED
  BY <1>3, <1>4, <1>5, <1>6, <1>7 DEF P!Working, P!Approve, P!Refuse, P!Clarify, P!MoveOn, P!Withdraw, P!Ask, P!Edit

\* What a client is shown has the type of a state.
LEMMA ServedIsState == ASSUME NEW s \in Procs, ServedTypeOK PROVE P!State(s) \in States
BY DEF ServedTypeOK, P!State, States

\* A client's state is replaced; it is looked at still only when it is about the same.
LEMMA AcceptedIsClient ==
  ASSUME NEW c \in Clients, NEW state \in States
  PROVE  /\ P!Accepted(c, state) \in Clients
         /\ P!Accepted(c, state).state = state
         /\ P!Accepted(c, state).viewed => c.viewed /\ P!Key(state) = P!Key(c.state)
BY DEF P!Accepted, Clients

\* Showing what a client has: what gets looked at by that has been on screen.
LEMMA Showing ==
  ASSUME NEW new \in Screens, NEW cs \in Seq(Clients), new.client <= Len(cs), P!Show(new, cs)
  PROVE  /\ clients' \in Seq(Clients) /\ Len(clients') = Len(cs)
         /\ screen' \in Screens /\ screen'.client = new.client
         /\ viewed \subseteq viewed'
         /\ (new.client # 0 => new.model = cs[new.client].state) =>
              (screen'.client # 0 => screen'.model = clients'[screen'.client].state)
         /\ (/\ new.client # 0 => new.model = cs[new.client].state
             /\ \A c \in 1..Len(cs) : cs[c].viewed => P!Key(cs[c].state) \in viewed) => LookedAtWasSeen'
<1> DEFINE marks == P!Inspects(screen, new, cs)
           final == IF marks THEN [new EXCEPT !.model = cs[new.client].state] ELSE new
<1>1. marks => new.client \in 1..Len(cs) /\ new.preview # NoHash /\ new.model.hash = new.preview
  BY DEF P!Inspects, Screens
<1>2. marks => cs[new.client] \in Clients
  BY <1>1
<1>3. final \in Screens /\ final.client = new.client /\ final.preview = new.preview
      /\ final.model = IF marks THEN cs[new.client].state ELSE new.model
  BY <1>2 DEF Screens, Clients
<1>4. [final EXCEPT !.preview = NoHash] \in Screens /\ [final EXCEPT !.preview = NoHash].client = final.client
      /\ [final EXCEPT !.preview = NoHash].model = final.model
  BY <1>3 DEF Screens, Asked
<1>5. screen' = final \/ screen' = [final EXCEPT !.preview = NoHash]
  BY DEF P!Show
<1>6. screen' \in Screens /\ screen'.client = new.client /\ screen'.model = final.model
  BY <1>3, <1>4, <1>5
<1>7. CASE ~marks
  <2>1. clients' = cs /\ viewed \subseteq viewed'
    BY <1>7 DEF P!Show
  <2> QED
    BY <1>3, <1>6, <1>7, <2>1 DEF LookedAtWasSeen
<1>8. CASE marks
  <2>1. clients' = [cs EXCEPT ![new.client] = [cs[new.client] EXCEPT !.viewed = TRUE]]
    BY <1>8 DEF P!Show
  <2>2. viewed' = viewed \cup {P!Key(new.model)}
    BY <1>1, <1>8 DEF P!Show
  <2> DEFINE c0 == [cs[new.client] EXCEPT !.viewed = TRUE]
  <2>3. c0 \in Clients /\ c0.state = cs[new.client].state
    BY <1>2, <1>8 DEF Clients
  <2> HIDE DEF c0
  <2>4. /\ clients' \in Seq(Clients) /\ Len(clients') = Len(cs)
        /\ \A c \in 1..Len(cs) : clients'[c] = IF c = new.client THEN c0 ELSE cs[c]
    BY <1>1, <1>8, <2>1, <2>3, ExceptSeq DEF c0
  <2>5. clients'[new.client].state = cs[new.client].state
    BY <1>1, <1>8, <2>3, <2>4
  <2>6. (/\ new.client # 0 => new.model = cs[new.client].state
         /\ \A c \in 1..Len(cs) : cs[c].viewed => P!Key(cs[c].state) \in viewed) => LookedAtWasSeen'
    <3> SUFFICES ASSUME new.client # 0 => new.model = cs[new.client].state,
                        \A c \in 1..Len(cs) : cs[c].viewed => P!Key(cs[c].state) \in viewed,
                        NEW c \in 1..Len(clients'), clients'[c].viewed
                 PROVE  P!Key(clients'[c].state) \in viewed'
      BY DEF LookedAtWasSeen
    <3>1. CASE c = new.client
      BY <1>1, <1>8, <2>2, <2>5, <3>1
    <3>2. CASE c # new.client
      BY <2>2, <2>4, <3>2
    <3> QED
      BY <3>1, <3>2
  <2> QED
    BY <1>3, <1>6, <1>8, <2>2, <2>4, <2>5, <2>6
<1> QED
  BY <1>7, <1>8

\* Every step keeps the panel's invariant.
LEMMA PanelStep == PanelInv /\ [P!Next]_(P!panel) => PanelInv'
<1> SUFFICES ASSUME PanelInv, [P!Next]_(P!panel) PROVE PanelInv'
  OBVIOUS
<1>t. ServedTypeOK /\ PanelTypeOK /\ ReadIsForScreen
  BY DEF PanelInv
<1>i. crossed \/ (OnScreen /\ LookedAtWasSeen /\ DecidedWasSeen)
  BY DEF PanelInv
<1>o. op.at # "none" => op \in Commands
  BY <1>t DEF PanelTypeOK, P!NoOp
\* What the team or a decision of this page's command does to the service.
<1>1. ASSUME NEW s \in Procs, P!Working(s), UNCHANGED P!page PROVE PanelInv'
  <2>1. ServedTypeOK' /\ UNCHANGED decided
    BY <1>t, <1>1, ServedStays DEF P!Working, P!Ask, P!MoveOn, P!Withdraw, P!Edit
  <2>2. PanelTypeOK' /\ ReadIsForScreen'
    BY <1>t, <1>1 DEF P!page, PanelTypeOK, ReadIsForScreen
  <2>3. (crossed \/ (OnScreen /\ LookedAtWasSeen /\ DecidedWasSeen))'
    BY <1>i, <1>1, <2>1 DEF P!page, OnScreen, LookedAtWasSeen, DecidedWasSeen
  <2> QED
    BY <2>1, <2>2, <2>3 DEF PanelInv
<1>2. ASSUME NEW s \in Procs, P!Switch(s) PROVE PanelInv'
  <2>1. /\ UNCHANGED <<served, wanted, decided, clients, op, viewed>>
        /\ shown' = s /\ screen' = P!Blank /\ fetching' = [client |-> 0, got |-> P!NoState]
        /\ crossed' = (crossed \/ op.at # "none")
    BY <1>2 DEF P!Switch, P!Asking, P!service
  <2>2. P!NoState \in States /\ P!Blank \in Screens /\ P!Blank.client = 0
    BY DEF P!NoState, P!Blank, States, Screens, Asked
  <2>3. ServedTypeOK'
    BY <1>t, <2>1 DEF ServedTypeOK
  <2>4. PanelTypeOK'
    <3>1. fetching' \in [client : Int, got : States] /\ crossed' \in BOOLEAN
      BY <2>1, <2>2
    <3> QED
      BY <1>t, <2>1, <2>2, <3>1 DEF PanelTypeOK
  <2>5. ReadIsForScreen'
    BY <2>1, <2>2 DEF ReadIsForScreen
  <2>6. ~crossed' => (OnScreen /\ LookedAtWasSeen /\ DecidedWasSeen)'
    BY <1>i, <2>1, <2>2 DEF OnScreen, LookedAtWasSeen, DecidedWasSeen
  <2> QED
    BY <2>3, <2>4, <2>5, <2>6 DEF PanelInv
\* Reads go and come.
<1>3. CASE P!Poll \/ P!Serve \/ P!Fail
  <2>1. UNCHANGED <<served, wanted, decided, shown, clients, op, viewed, crossed>>
    BY <1>3 DEF P!Poll, P!Serve, P!Fail, P!service
  <2>2. /\ fetching' \in [client : Int, got : States]
        /\ screen' \in Screens /\ screen'.client = screen.client /\ screen'.model = screen.model
        /\ fetching'.client \in {-1, fetching.client} \/ (fetching'.client = screen.client /\ screen.client # 0)
    <3>1. CASE P!Poll
      BY <1>t, <3>1 DEF P!Poll, P!Asking, P!NoState, PanelTypeOK, Screens, States, Asked
    <3>2. CASE P!Serve
      BY <1>t, <3>2, ServedIsState DEF P!Serve, PanelTypeOK
    <3>3. CASE P!Fail
      <4>1. fetching' = [client |-> -1, got |-> P!NoState] /\ screen' = [screen EXCEPT !.online = FALSE]
        BY <3>3 DEF P!Fail, P!NoRead
      <4>2. fetching' \in [client : Int, got : States] /\ fetching'.client = -1
        BY <4>1 DEF P!NoState, States, Asked
      <4>3. screen' \in Screens /\ screen'.client = screen.client /\ screen'.model = screen.model
        BY <1>t, <4>1 DEF PanelTypeOK, Screens
      <4> QED
        BY <4>2, <4>3
    <3> QED
      BY <1>3, <3>1, <3>2, <3>3
  <2>3. ServedTypeOK'
    BY <1>t, <2>1 DEF ServedTypeOK
  <2>4. PanelTypeOK'
    BY <1>t, <2>1, <2>2 DEF PanelTypeOK
  <2>5. ReadIsForScreen'
    BY <1>t, <2>2 DEF ReadIsForScreen
  <2>6. (crossed \/ (OnScreen /\ LookedAtWasSeen /\ DecidedWasSeen))'
    BY <1>i, <2>1, <2>2 DEF OnScreen, LookedAtWasSeen, DecidedWasSeen
  <2> QED
    BY <2>3, <2>4, <2>5, <2>6 DEF PanelInv

\* The first state of a chat, and a later one.
<1>4. CASE P!Connect
  <2> DEFINE c0 == [session |-> shown, state |-> fetching.got, viewed |-> FALSE]
             cs == Append(clients, c0)
             new == [screen EXCEPT !.client = Len(cs), !.model = fetching.got, !.online = TRUE]
  <2>1. /\ fetching.client = 0 /\ fetching' = P!NoRead /\ P!Show(new, cs)
        /\ UNCHANGED <<served, wanted, decided, shown, op, crossed>>
    BY <1>4 DEF P!Connect, P!service
  <2>2. fetching.got \in States /\ c0 \in Clients
    BY <1>t DEF PanelTypeOK, Clients
  <2>3. clients \in Seq(Clients)
    BY <1>t DEF PanelTypeOK
  <2> HIDE DEF c0
  <2>4. /\ cs \in Seq(Clients) /\ Len(cs) = Len(clients) + 1 /\ cs[Len(clients) + 1] = c0
        /\ \A c \in 1..Len(clients) : cs[c] = clients[c]
    BY <2>2, <2>3, AppendProperties
  <2>5. Len(clients) \in Nat
    BY <2>3
  <2> HIDE DEF cs
  <2>6. /\ new \in Screens /\ new.client = Len(cs) /\ new.model = fetching.got /\ new.client # 0
        /\ cs[new.client].state = new.model
    <3>1. Len(cs) \in Nat /\ Len(cs) # 0
      BY <2>4, <2>5
    <3>2. new \in Screens /\ new.client = Len(cs) /\ new.model = fetching.got
      BY <1>t, <2>2, <3>1 DEF PanelTypeOK, Screens
    <3>3. c0.state = fetching.got
      BY DEF c0
    <3> QED
      BY <2>4, <3>1, <3>2, <3>3
  <2> HIDE DEF new
  <2>7. /\ clients' \in Seq(Clients) /\ Len(clients') = Len(cs)
        /\ screen' \in Screens /\ screen'.client = new.client
        /\ viewed \subseteq viewed'
        /\ screen'.client # 0 => screen'.model = clients'[screen'.client].state
        /\ (\A c \in 1..Len(cs) : cs[c].viewed => P!Key(cs[c].state) \in viewed) => LookedAtWasSeen'
    BY <2>1, <2>4, <2>5, <2>6, Showing
  <2>8. ServedTypeOK'
    BY <1>t, <2>1 DEF ServedTypeOK
  <2>9. fetching' \in [client : Int, got : States] /\ fetching'.client = -1
    BY <2>1 DEF P!NoRead, P!NoState, States, Asked
  <2>10. PanelTypeOK'
    <3>1. op.at # "none" => op.client <= Len(clients')
      BY <1>t, <1>o, <2>4, <2>5, <2>7 DEF PanelTypeOK, Commands
    <3>2. screen'.client <= Len(clients')
      BY <2>4, <2>5, <2>6, <2>7
    <3> QED
      BY <1>t, <2>1, <2>7, <2>9, <3>1, <3>2 DEF PanelTypeOK
  <2>11. ReadIsForScreen'
    BY <2>9 DEF ReadIsForScreen
  <2>12. ASSUME ~crossed PROVE OnScreen' /\ LookedAtWasSeen' /\ DecidedWasSeen'
    <3>1. op.at = "none"
      BY <1>t, <1>i, <1>o, <2>1, <2>12 DEF OnScreen, ReadIsForScreen, Commands
    <3>2. OnScreen'
      BY <2>1, <2>7, <3>1 DEF OnScreen
    <3>3. \A c \in 1..Len(cs) : cs[c].viewed => P!Key(cs[c].state) \in viewed
      <4>1. ~c0.viewed
        BY DEF c0
      <4> QED
        BY <1>i, <2>4, <2>5, <2>12, <4>1 DEF LookedAtWasSeen
    <3>4. DecidedWasSeen'
      BY <1>i, <2>1, <2>7, <2>12, <3>1 DEF DecidedWasSeen
    <3> QED
      BY <2>7, <3>2, <3>3, <3>4
  <2> QED
    BY <2>1, <2>8, <2>10, <2>11, <2>12 DEF PanelInv
\* A later state of a client is shown.
<1>5. ASSUME NEW i \in 1..Len(clients), NEW state \in States, NEW new \in Screens,
             new.client = screen.client, new.model = state,
             P!Show(new, [clients EXCEPT ![i] = P!Accepted(@, state)]),
             fetching' = fetching \/ fetching' = P!NoRead, op' = op \/ op' = P!NoOp,
             UNCHANGED <<served, wanted, decided, shown, crossed>>,
             ~crossed => i = screen.client
      PROVE  PanelInv'
  <2> DEFINE c0 == P!Accepted(clients[i], state)
             cs == [clients EXCEPT ![i] = c0]
  <2>1. clients \in Seq(Clients) /\ Len(clients) \in Nat /\ screen.client <= Len(clients) /\ clients[i] \in Clients
    BY <1>t DEF PanelTypeOK
  <2>2. /\ c0 \in Clients /\ c0.state = state
        /\ c0.viewed => clients[i].viewed /\ P!Key(state) = P!Key(clients[i].state)
    BY <1>5, <2>1, AcceptedIsClient
  <2>3. P!Show(new, cs)
    BY <1>5
  <2> HIDE DEF c0
  <2>4. /\ cs \in Seq(Clients) /\ Len(cs) = Len(clients)
        /\ \A c \in 1..Len(clients) : cs[c] = IF c = i THEN c0 ELSE clients[c]
    BY <2>1, <2>2, ExceptSeq
  <2> HIDE DEF cs
  <2>5. /\ clients' \in Seq(Clients) /\ Len(clients') = Len(cs)
        /\ screen' \in Screens /\ screen'.client = new.client
        /\ viewed \subseteq viewed'
        /\ (new.client # 0 => new.model = cs[new.client].state) =>
             (screen'.client # 0 => screen'.model = clients'[screen'.client].state)
        /\ (/\ new.client # 0 => new.model = cs[new.client].state
            /\ \A c \in 1..Len(cs) : cs[c].viewed => P!Key(cs[c].state) \in viewed) => LookedAtWasSeen'
    BY <1>5, <2>1, <2>3, <2>4, Showing
  <2>6. ServedTypeOK'
    BY <1>t, <1>5 DEF ServedTypeOK
  <2>7. fetching' \in [client : Int, got : States] /\ fetching'.client \in {-1, fetching.client}
    <3>1. P!NoRead \in [client : Int, got : States] /\ P!NoRead.client = -1
      BY DEF P!NoRead, P!NoState, States, Asked
    <3> QED
      BY <1>t, <1>5, <3>1 DEF PanelTypeOK
  <2>8. PanelTypeOK'
    <3>1. op' \in {P!NoOp} \cup Commands /\ (op'.at # "none" => op'.client <= Len(clients'))
      BY <1>t, <1>5, <2>4, <2>5 DEF PanelTypeOK, P!NoOp
    <3> QED
      BY <1>t, <1>5, <2>1, <2>4, <2>5, <2>7, <3>1 DEF PanelTypeOK
  <2>9. ReadIsForScreen'
    BY <1>t, <1>5, <2>5, <2>7 DEF ReadIsForScreen
  <2>10. ASSUME ~crossed PROVE OnScreen' /\ LookedAtWasSeen' /\ DecidedWasSeen'
    <3>1. new.client = i /\ new.model = cs[new.client].state
      BY <1>5, <2>2, <2>4, <2>10
    <3>2. op' = op \/ op'.at = "none"
      BY <1>5 DEF P!NoOp
    <3>3. OnScreen'
      BY <1>i, <1>5, <2>5, <2>10, <3>1, <3>2 DEF OnScreen
    <3>4. \A c \in 1..Len(cs) : cs[c].viewed => P!Key(cs[c].state) \in viewed
      BY <1>i, <2>2, <2>4, <2>10 DEF LookedAtWasSeen
    <3>5. DecidedWasSeen'
      BY <1>i, <1>5, <2>5, <2>10, <3>2 DEF DecidedWasSeen
    <3> QED
      BY <2>5, <3>1, <3>3, <3>4, <3>5
  <2> QED
    BY <1>5, <2>6, <2>8, <2>9, <2>10 DEF PanelInv
<1>6. CASE P!Refresh
  <2>1. /\ fetching.client > 0 /\ fetching' = P!NoRead
        /\ UNCHANGED <<served, wanted, decided, shown, op, crossed>>
    BY <1>6 DEF P!Refresh, P!service
  <2>2. fetching.client = screen.client /\ fetching.client \in 1..Len(clients) /\ fetching.got \in States
    BY <1>t, <2>1 DEF ReadIsForScreen, PanelTypeOK, Screens
  <2>3. CASE P!Show([screen EXCEPT !.model = fetching.got, !.online = TRUE],
                    [clients EXCEPT ![fetching.client] = P!Accepted(@, fetching.got)])
    <3> DEFINE new == [screen EXCEPT !.model = fetching.got, !.online = TRUE]
    <3>1. new \in Screens /\ new.client = screen.client /\ new.model = fetching.got
      BY <1>t, <2>2 DEF PanelTypeOK, Screens
    <3> QED
      BY <1>5, <2>1, <2>2, <2>3, <3>1
  <2>4. CASE screen' = [screen EXCEPT !.online = FALSE] /\ UNCHANGED <<clients, viewed>>
    <3>1. screen' \in Screens /\ screen'.client = screen.client /\ screen'.model = screen.model
      BY <1>t, <2>4 DEF PanelTypeOK, Screens
    <3>2. fetching' \in [client : Int, got : States] /\ fetching'.client = -1
      BY <2>1 DEF P!NoRead, P!NoState, States, Asked
    <3>3. ServedTypeOK' /\ PanelTypeOK' /\ ReadIsForScreen'
      BY <1>t, <2>1, <2>4, <3>1, <3>2 DEF ServedTypeOK, PanelTypeOK, ReadIsForScreen
    <3>4. (crossed \/ (OnScreen /\ LookedAtWasSeen /\ DecidedWasSeen))'
      BY <1>i, <2>1, <2>4, <3>1, <3>2 DEF OnScreen, LookedAtWasSeen, DecidedWasSeen
    <3> QED
      BY <3>3, <3>4 DEF PanelInv
  <2> QED
    BY <1>6, <2>3, <2>4 DEF P!Refresh
<1>7. CASE P!Shows
  <2> DEFINE new == [screen EXCEPT !.model = op.got, !.preview = IF op.kind = "open" THEN op.hash ELSE @]
  <2>1. /\ op.at = "read" /\ op' = P!NoOp
        /\ P!Show(new, [clients EXCEPT ![op.client] = P!Accepted(@, op.got)])
        /\ UNCHANGED <<served, wanted, decided, shown, fetching, crossed>>
    BY <1>7 DEF P!Shows, P!service
  <2>2. op \in Commands /\ op.client \in 1..Len(clients) /\ op.got \in States
    BY <1>t, <1>o, <2>1 DEF PanelTypeOK, Commands
  <2>3. new \in Screens /\ new.client = screen.client /\ new.model = op.got
    BY <1>t, <2>2 DEF PanelTypeOK, Screens, Commands
  <2>4. ~crossed => op.client = screen.client
    BY <1>i, <2>1 DEF OnScreen
  <2> HIDE DEF new
  <2> QED
    BY <1>5, <2>1, <2>2, <2>3, <2>4
\* The commands.
<1>8. ASSUME NEW kind \in {"open", "decide", "clarify"}, P!Click(kind) PROVE PanelInv'
  <2>1. /\ screen.client # 0 /\ op.at = "none"
        /\ op' = [at |-> "sent", kind |-> kind, client |-> screen.client, id |-> screen.model.id,
                  hash |-> screen.model.hash, revision |-> screen.model.revision, got |-> P!NoState]
        /\ UNCHANGED <<served, wanted, decided, shown, clients, screen, fetching, viewed, crossed>>
        /\ kind = "decide" => clients[screen.client].viewed
    BY <1>8 DEF P!Click, P!service, P!Inspected
  <2>2. op' \in Commands /\ op'.client = screen.client /\ op'.kind = kind
        /\ <<op'.id, op'.hash, op'.revision>> = P!Key(screen.model)
    BY <1>t, <2>1 DEF PanelTypeOK, Screens, States, Asked, Commands, P!Key, P!NoState
  <2>3. ServedTypeOK' /\ PanelTypeOK' /\ ReadIsForScreen'
    BY <1>t, <2>1, <2>2 DEF ServedTypeOK, PanelTypeOK, ReadIsForScreen
  <2>4. ASSUME ~crossed PROVE OnScreen' /\ LookedAtWasSeen' /\ DecidedWasSeen'
    <3>1. screen.client \in 1..Len(clients)
      BY <1>t, <2>1 DEF PanelTypeOK, Screens
    <3>2. OnScreen' /\ LookedAtWasSeen'
      BY <1>i, <2>1, <2>2, <2>4 DEF OnScreen, LookedAtWasSeen
    <3>3. kind = "decide" => P!Key(screen.model) \in viewed
      BY <1>i, <2>1, <2>4, <3>1 DEF OnScreen, LookedAtWasSeen
    <3>4. DecidedWasSeen'
      BY <1>i, <2>1, <2>2, <2>4, <3>3 DEF DecidedWasSeen
    <3> QED
      BY <3>2, <3>4
  <2> QED
    BY <2>1, <2>3, <2>4 DEF PanelInv
<1>9. CASE P!Run
  <2>1. /\ op.at = "sent" /\ P!Command(clients[op.client].session) /\ op' = [op EXCEPT !.at = "done"]
        /\ UNCHANGED <<shown, clients, screen, fetching, viewed, crossed>>
    BY <1>9 DEF P!Run
  <2>2. op \in Commands /\ op.client \in 1..Len(clients)
    BY <1>t, <1>o, <2>1 DEF PanelTypeOK, Commands
  <2>3. clients[op.client].session \in Procs
    <3>1. clients[op.client] \in Clients
      BY <1>t, <2>2 DEF PanelTypeOK
    <3> QED
      BY <3>1 DEF Clients
  <2>4. /\ op' \in Commands /\ op'.client = op.client /\ op'.kind = op.kind
        /\ op'.id = op.id /\ op'.hash = op.hash /\ op'.revision = op.revision
    BY <2>1, <2>2 DEF Commands
  <2>5. /\ ServedTypeOK'
        /\ \/ UNCHANGED decided
           \/ op.kind = "decide" /\ decided' = decided \cup
                {[id |-> op.id, hash |-> op.hash, revision |-> op.revision, by |-> "panel"]}
    <3>1. CASE op.kind = "open"
      BY <1>t, <2>1, <3>1 DEF P!Command, P!service, ServedTypeOK
    <3>2. CASE op.kind = "clarify"
      BY <1>t, <2>1, <2>3, <3>2, ServedStays DEF P!Command, P!Clarify, P!MoveOn
    <3>3. CASE op.kind = "decide"
      BY <1>t, <2>1, <2>3, <3>3, ServedStays DEF P!Command
    <3> QED
      BY <2>2, <3>1, <3>2, <3>3 DEF Commands
  <2>6. PanelTypeOK' /\ ReadIsForScreen'
    BY <1>t, <2>1, <2>2, <2>4 DEF PanelTypeOK, ReadIsForScreen
  <2>7. ASSUME ~crossed PROVE OnScreen' /\ LookedAtWasSeen' /\ DecidedWasSeen'
    <3>1. OnScreen' /\ LookedAtWasSeen'
      BY <1>i, <2>1, <2>4, <2>7 DEF OnScreen, LookedAtWasSeen
    <3>2. op.kind = "decide" => <<op.id, op.hash, op.revision>> \in viewed
      BY <1>i, <2>1, <2>7 DEF DecidedWasSeen
    <3>3. DecidedWasSeen'
      BY <1>i, <2>1, <2>4, <2>5, <2>7, <3>2 DEF DecidedWasSeen
    <3> QED
      BY <3>1, <3>3
  <2> QED
    BY <2>1, <2>5, <2>6, <2>7 DEF PanelInv
<1>10. CASE P!Refused
  <2>1. /\ op' = P!NoOp /\ (screen' = [screen EXCEPT !.preview = NoHash] \/ screen' = screen)
        /\ UNCHANGED <<served, wanted, decided, shown, clients, fetching, viewed, crossed>>
    BY <1>10 DEF P!Refused, P!service
  <2>2. /\ screen' \in Screens /\ screen'.client = screen.client /\ screen'.model = screen.model
        /\ op'.at = "none"
    BY <1>t, <2>1 DEF PanelTypeOK, Screens, Asked, P!NoOp
  <2>3. ServedTypeOK' /\ PanelTypeOK' /\ ReadIsForScreen'
    BY <1>t, <2>1, <2>2 DEF ServedTypeOK, PanelTypeOK, ReadIsForScreen
  <2>4. (crossed \/ (OnScreen /\ LookedAtWasSeen /\ DecidedWasSeen))'
    BY <1>i, <2>1, <2>2 DEF OnScreen, LookedAtWasSeen, DecidedWasSeen
  <2> QED
    BY <2>3, <2>4 DEF PanelInv
\* The command's answer, and the state read again.
<1>11. CASE P!Reads
  <2>1. /\ op.at = "done" /\ op' = [op EXCEPT !.at = "read", !.got = P!State(clients[op.client].session)]
        /\ UNCHANGED <<served, wanted, decided, shown, clients, screen, fetching, viewed, crossed>>
    BY <1>11 DEF P!Reads, P!service
  <2>2. op \in Commands /\ op.client \in 1..Len(clients)
    BY <1>t, <1>o, <2>1 DEF PanelTypeOK, Commands
  <2>3. P!State(clients[op.client].session) \in States
    <3>1. clients[op.client] \in Clients
      BY <1>t, <2>2 DEF PanelTypeOK
    <3> QED
      BY <1>t, <3>1, ServedIsState DEF Clients
  <2>4. /\ op' \in Commands /\ op'.client = op.client /\ op'.kind = op.kind
        /\ op'.id = op.id /\ op'.hash = op.hash /\ op'.revision = op.revision
    BY <2>1, <2>2, <2>3 DEF Commands
  <2>5. ServedTypeOK' /\ PanelTypeOK' /\ ReadIsForScreen'
    BY <1>t, <2>1, <2>2, <2>4 DEF ServedTypeOK, PanelTypeOK, ReadIsForScreen
  <2>6. (crossed \/ (OnScreen /\ LookedAtWasSeen /\ DecidedWasSeen))'
    BY <1>i, <2>1, <2>4 DEF OnScreen, LookedAtWasSeen, DecidedWasSeen
  <2> QED
    BY <2>5, <2>6 DEF PanelInv
<1>12. CASE UNCHANGED P!panel
  <2>1. UNCHANGED <<served, wanted, decided, shown, clients, screen, fetching, op, viewed, crossed>>
    BY <1>12 DEF P!panel, P!service, P!page
  <2> QED
    BY <1>t, <1>i, <2>1 DEF PanelInv, ServedTypeOK, PanelTypeOK, ReadIsForScreen, OnScreen,
                            LookedAtWasSeen, DecidedWasSeen
<1> QED
  BY <1>1, <1>2, <1>3, <1>4, <1>6, <1>7, <1>8, <1>9, <1>10, <1>11, <1>12 DEF P!Next

\* What the panel approves was on screen, as long as no chat is changed while
\* a command is under way: control-client.ts assertApproval, client-overlay.ts.
THEOREM PanelApprovedWasSeen == P!Spec => []P!ApprovedWasSeen
<1>1. PanelInv => P!ApprovedWasSeen
  BY DEF PanelInv, DecidedWasSeen, P!ApprovedWasSeen
<1> QED
  BY <1>1, PanelInitially, PanelStep, PTL DEF P!Spec

---------------------------------------------------------------------------
(* The chat *)

Abouts == [task : Procs \cup {"none"}, id : Nat, hash : Asked, revision : Nat]
OpenCalls == [kind : {"approve", "reject", "preview", "ask", "refine", "continue", "start", "resolve"},
              at : {"sent", "answers", "review", "host", "answered"}, about : Abouts,
              answer : {"none", "approve", "reject", "answers"}]
ToolCalls == {C!Over} \cup OpenCalls

ChatTypeOK ==
  /\ current \in Procs
  /\ content \in [Hashes -> {"plain", "questions", "migration"}]
  /\ calls \in Seq(ToolCalls)
  /\ previewed \in Abouts
  /\ entry \in [call : Nat, inspected : Asked] /\ entry.call <= Len(calls)
  /\ load \in [call : Nat, at : {"state", "preview"}, about : Abouts] /\ load.call <= Len(calls)

\* What is asked for is about documents.
AskedIsThere == \A s \in Procs : served[s].id # 0 => served[s].hash \in Hashes

\* The states that are served, and those that a call or a load is about: a
\* request has one content.
Told == {C!About(s) : s \in Procs} \cup {calls[c].about : c \in 1..Len(calls)} \cup {load.about}
OneContent == /\ \A x \in Told : x.id <= wanted
              /\ \A x \in Told : \A y \in Told : x.id # 0 /\ x.id = y.id => x.hash = y.hash

\* What was read last was read; a call that may approve is about what was read,
\* is not answered before nothing is left open, and was confirmed when it was approved.
ReadIsRead == previewed = C!Nothing \/ previewed \in read
CallOK(k) ==
  /\ k.kind = "approve" => k.about \in read
  /\ k.at \in {"review", "host"} => C!Kind(k.about.hash) # "questions"
  /\ k.answer = "approve" => /\ [id |-> k.about.id, hash |-> k.about.hash] \in confirmed
                             /\ C!Kind(k.about.hash) # "questions"
CallsOK == \A c \in 1..Len(calls) : CallOK(calls[c])

\* The document view shows what its call is about, while that is open.
ShownIsAsked ==
  /\ entry.call # 0 /\ entry.inspected # NoHash =>
       calls[entry.call] = C!Over \/ entry.inspected = calls[entry.call].about.hash
  /\ load.call # 0 /\ load.at = "preview" =>
       /\ load.about.id # 0
       /\ calls[load.call] = C!Over \/ load.about.id = calls[load.call].about.id

ChatInv == /\ ServedTypeOK
           /\ ChatTypeOK
           /\ AskedIsThere
           /\ OneContent
           /\ ReadIsRead
           /\ CallsOK
           /\ ShownIsAsked
           /\ C!ChatApprovalIsReviewed

\* No request has the fields of one, and no id.
LEMMA NothingIsAbout == C!Nothing \in Abouts /\ C!Nothing.id = 0
BY DEF C!Nothing, Abouts, Asked
\* A call that is over is about nothing.
LEMMA OverIsOver ==
  /\ C!Over.about = C!Nothing /\ C!Over.at = "done" /\ C!Over.kind = "none" /\ C!Over.answer = "none"
  /\ C!Over \in ToolCalls
BY DEF C!Over, ToolCalls
\* What the fields of a call say of it.
LEMMA CallFields ==
  ASSUME NEW k \in ToolCalls
  PROVE  k.about \in Abouts /\ (k.at # "done" => k \in OpenCalls) /\ (k.at = "done" <=> k = C!Over)
BY NothingIsAbout, OverIsOver DEF ToolCalls, OpenCalls
\* What a call of a session is about is what the session asks for.
LEMMA AboutIsAbout ==
  ASSUME NEW s \in Procs, ServedTypeOK
  PROVE  /\ C!About(s) \in Abouts /\ C!About(s).id = served[s].id /\ C!About(s).hash = served[s].hash
         /\ C!About(s).revision = served[s].revision /\ C!About(s).task = s
BY DEF ServedTypeOK, C!About, Abouts

\* The chat's invariant holds at first.
LEMMA ChatInitially == C!Init => ChatInv
<1> SUFFICES ASSUME C!Init PROVE ChatInv
  OBVIOUS
<1>1. ServedTypeOK /\ AskedIsThere
  BY DEF C!Init, C!ServiceInit, C!At, ServedTypeOK, AskedIsThere, Asked
<1>2. /\ calls = <<>> /\ previewed = C!Nothing /\ entry = C!NoEntry /\ load = C!NoLoad
      /\ decided = {} /\ wanted = 0
      /\ current \in Procs /\ content \in [Hashes -> {"plain", "questions", "migration"}]
  BY DEF C!Init, C!ServiceInit
<1>3. calls \in Seq(ToolCalls) /\ Len(calls) = 0
  BY <1>2
<1>4. /\ entry \in [call : Nat, inspected : Asked] /\ entry.call = 0
      /\ load \in [call : Nat, at : {"state", "preview"}, about : Abouts] /\ load.call = 0
      /\ load.about = C!Nothing
  BY <1>2, NothingIsAbout DEF C!NoEntry, C!NoLoad, Asked
<1>5. ChatTypeOK
  BY <1>2, <1>3, <1>4, NothingIsAbout DEF ChatTypeOK
<1>6. \A x \in Told : x.id = 0
  <2>1. \A s \in Procs : C!About(s).id = 0
    BY <1>1, AboutIsAbout DEF C!Init, C!ServiceInit, C!At
  <2> QED
    BY <1>3, <1>4, <2>1, NothingIsAbout DEF Told
<1>7. OneContent /\ ReadIsRead /\ CallsOK /\ ShownIsAsked /\ C!ChatApprovalIsReviewed
  BY <1>2, <1>3, <1>4, <1>6 DEF OneContent, ReadIsRead, CallsOK, ShownIsAsked, C!ChatApprovalIsReviewed
<1> QED
  BY <1>1, <1>5, <1>7 DEF ChatInv

\* What the team, a decision or a clarification makes of what the sessions wait for.
LEMMA ChatServes ==
  ASSUME NEW s \in Procs, NEW a, NEW by, ServedTypeOK, AskedIsThere,
         C!Working(s) \/ C!Approve(s, a, by) \/ C!Refuse(s, a) \/ C!Clarify(s, a)
  PROVE  /\ ServedTypeOK' /\ AskedIsThere'
         /\ \A u \in Procs \ {s} : C!About(u)' = C!About(u)
         /\ \/ wanted' = wanted /\ (C!About(s)' = C!About(s) \/ C!About(s)'.id = 0)
            \/ wanted' = wanted + 1 /\ C!About(s)'.id = wanted + 1
         /\ \/ UNCHANGED decided
            \/ /\ C!Decidable(s, a)
               /\ decided' = decided \cup {[id |-> a.id, hash |-> a.hash, revision |-> a.revision, by |-> by]}
<1> DEFINE Served == [revision : Nat, id : Nat, hash : Asked, intact : BOOLEAN]
<1>1. served \in [Procs -> Served] /\ wanted \in Nat
  BY DEF ServedTypeOK
<1>2. ASSUME NEW r \in Served, served' = [served EXCEPT ![s] = r]
      PROVE  /\ served' \in [Procs -> Served] /\ served'[s] = r
             /\ \A u \in Procs \ {s} : served'[u] = served[u] /\ C!About(u)' = C!About(u)
             /\ (r.id # 0 => r.hash \in Hashes) => AskedIsThere'
  <2>1. /\ served' \in [Procs -> Served] /\ served'[s] = r
        /\ \A u \in Procs \ {s} : served'[u] = served[u]
    BY <1>1, <1>2
  <2>2. (r.id # 0 => r.hash \in Hashes) => AskedIsThere'
    BY <2>1 DEF AskedIsThere
  <2> QED
    BY <2>1, <2>2 DEF C!About
<1>3. \A n \in Nat : C!At(n) \in Served /\ C!At(n).id = 0
  BY DEF C!At, Asked
<1>4. ASSUME NEW n \in Nat, served' = [served EXCEPT ![s] = C!At(n)], UNCHANGED wanted
      PROVE  /\ ServedTypeOK' /\ AskedIsThere' /\ C!About(s)'.id = 0
             /\ \A u \in Procs \ {s} : C!About(u)' = C!About(u)
  <2>1. served' \in [Procs -> Served] /\ served'[s] = C!At(n)
    BY <1>2, <1>3, <1>4
  <2>2. C!About(s)'.id = 0
    BY <1>3, <2>1 DEF C!About
  <2> QED
    BY <1>1, <1>2, <1>3, <1>4, <2>1, <2>2 DEF ServedTypeOK
<1>5. served[s].revision \in Nat /\ served[s].revision + 1 \in Nat
  BY <1>1
<1>6. CASE C!MoveOn(s)
  BY <1>4, <1>5, <1>6 DEF C!MoveOn
<1>7. CASE C!Withdraw(s)
  BY <1>4, <1>5, <1>7 DEF C!Withdraw
<1>8. CASE C!Ask(s)
  <2>1. PICK hash \in Hashes : served' = [served EXCEPT ![s].id = wanted + 1, ![s].hash = hash]
    BY <1>8 DEF C!Ask
  <2> DEFINE r == [served[s] EXCEPT !.id = wanted + 1, !.hash = hash]
  <2>2. r \in Served /\ r.id = wanted + 1 /\ r.hash \in Hashes
    <3>1. served[s] \in Served /\ wanted + 1 \in Nat /\ hash \in Asked
      BY <1>1 DEF Asked
    <3> QED
      BY <3>1
  <2>3. served' = [served EXCEPT ![s] = r] /\ wanted' = wanted + 1 /\ UNCHANGED decided
    BY <1>8, <2>1 DEF C!Ask
  <2> HIDE DEF r
  <2>4. C!About(s)'.id = wanted + 1
    BY <1>2, <2>2, <2>3 DEF C!About
  <2> QED
    BY <1>1, <1>2, <2>2, <2>3, <2>4 DEF ServedTypeOK
<1>9. CASE C!Edit(s)
  <2> DEFINE r == [served[s] EXCEPT !.intact = ~@]
  <2>1. r \in Served /\ r.id = served[s].id /\ r.hash = served[s].hash /\ r.revision = served[s].revision
    BY <1>1
  <2>2. served' = [served EXCEPT ![s] = r] /\ UNCHANGED <<wanted, decided>>
    BY <1>9 DEF C!Edit
  <2> HIDE DEF r
  <2>3. C!About(s)' = C!About(s)
    BY <1>2, <2>1, <2>2 DEF C!About
  <2> QED
    BY <1>1, <1>2, <2>1, <2>2, <2>3 DEF ServedTypeOK, AskedIsThere
<1>10. CASE C!Approve(s, a, by) /\ ~C!Withdraw(s)
  <2>1. /\ served' = [served EXCEPT ![s] = C!At(served[s].revision + 1)] /\ UNCHANGED wanted
        /\ decided' = decided \cup {[id |-> a.id, hash |-> a.hash, revision |-> a.revision, by |-> by]}
        /\ C!Decidable(s, a)
    BY <1>10 DEF C!Approve
  <2> QED
    BY <1>4, <1>5, <2>1
<1>11. (C!MoveOn(s) \/ C!Withdraw(s)) => UNCHANGED decided
  BY DEF C!MoveOn, C!Withdraw
<1> QED
  BY <1>6, <1>7, <1>8, <1>9, <1>10, <1>11 DEF C!Working, C!Approve, C!Refuse, C!Clarify

\* Contents stay those of their requests when nothing is told but what was told
\* before, what is about no request, or a new request.
LEMMA ContentsStay ==
  ASSUME ServedTypeOK, OneContent, \A x \in Told : x.id \in Nat,
         \/ wanted' = wanted /\ \A x \in Told' : x \in Told \/ x.id = 0
         \/ /\ wanted' = wanted + 1
            /\ \E z : z.id = wanted + 1 /\ \A x \in Told' : x \in Told \/ x.id = 0 \/ x = z
  PROVE  OneContent'
<1>1. wanted \in Nat /\ wanted + 1 > wanted
  BY DEF ServedTypeOK
<1>2. \A x \in Told : x.id <= wanted /\ x.id <= wanted + 1 /\ x.id # wanted + 1
  BY <1>1 DEF OneContent
<1>3. CASE wanted' = wanted /\ \A x \in Told' : x \in Told \/ x.id = 0
  BY <1>1, <1>3 DEF OneContent
<1>4. ASSUME wanted' = wanted + 1,
             NEW z, z.id = wanted + 1, \A x \in Told' : x \in Told \/ x.id = 0 \/ x = z
      PROVE  OneContent'
  <2>1. \A x \in Told' : x.id <= wanted'
    BY <1>1, <1>2, <1>4
  <2>2. ASSUME NEW x \in Told', NEW y \in Told', x.id # 0, x.id = y.id PROVE x.hash = y.hash
    BY <1>1, <1>2, <1>4, <2>2 DEF OneContent
  <2> QED
    BY <2>1, <2>2 DEF OneContent
<1> QED
  BY <1>3, <1>4

\* A call goes on or ends, whatever it does to the service meanwhile.
LEMMA CallGoesOn ==
  ASSUME ChatInv, NEW c \in 1..Len(calls), NEW v \in ToolCalls, calls[c].at # "done",
         v = C!Over \/ v.about = calls[c].about,
         calls' = [calls EXCEPT ![c] = v], CallOK(v)',
         ServedTypeOK', AskedIsThere', C!ChatApprovalIsReviewed',
         \/ wanted' = wanted /\ \A s \in Procs : C!About(s)' = C!About(s) \/ C!About(s)'.id = 0
         \/ /\ wanted' = wanted + 1
            /\ \E z : z.id = wanted + 1 /\ \A s \in Procs : \/ C!About(s)' \in {C!About(s), z}
                                                            \/ C!About(s)'.id = 0,
         read \subseteq read', confirmed \subseteq confirmed', current' \in Procs,
         UNCHANGED <<content, entry, load>>,
         previewed' \in Abouts, previewed' \in {previewed, C!Nothing} \cup read'
  PROVE  ChatInv'
<1>t. ServedTypeOK /\ ChatTypeOK /\ OneContent /\ ReadIsRead /\ CallsOK /\ ShownIsAsked
  BY DEF ChatInv
<1>1. /\ calls' \in Seq(ToolCalls) /\ Len(calls') = Len(calls)
      /\ \A b \in 1..Len(calls) : calls'[b] = IF b = c THEN v ELSE calls[b]
  BY <1>t, ExceptSeq DEF ChatTypeOK
<1>2. ChatTypeOK'
  BY <1>t, <1>1 DEF ChatTypeOK
<1>3. \A b \in 1..Len(calls) : calls'[b].about \in {calls[b].about, C!Nothing}
  BY <1>1, OverIsOver
<1>4. \A x \in Told : x \in Abouts /\ x.id \in Nat
  <2>1. \A s \in Procs : C!About(s) \in Abouts
    BY <1>t, AboutIsAbout
  <2>2. \A b \in 1..Len(calls) : calls[b] \in ToolCalls
    BY <1>t DEF ChatTypeOK
  <2>3. \A b \in 1..Len(calls) : calls[b].about \in Abouts
    BY <2>2, CallFields
  <2>4. load.about \in Abouts
    BY <1>t DEF ChatTypeOK
  <2>5. \A x \in Abouts : x.id \in Nat
    BY DEF Abouts
  <2> QED
    BY <2>1, <2>3, <2>4, <2>5 DEF Told
<1>5. OneContent'
  <2>1. CASE wanted' = wanted /\ \A s \in Procs : C!About(s)' = C!About(s) \/ C!About(s)'.id = 0
    <3>1. \A x \in Told' : x \in Told \/ x.id = 0
      BY <1>1, <1>3, <2>1, NothingIsAbout DEF Told
    <3> QED
      BY <1>t, <1>4, <2>1, <3>1, ContentsStay
  <2>2. ASSUME wanted' = wanted + 1, NEW z, z.id = wanted + 1,
               \A s \in Procs : C!About(s)' \in {C!About(s), z} \/ C!About(s)'.id = 0
        PROVE  OneContent'
    <3>1. \A x \in Told' : x \in Told \/ x.id = 0 \/ x = z
      BY <1>1, <1>3, <2>2, NothingIsAbout DEF Told
    <3> QED
      BY <1>t, <1>4, <2>2, <3>1, ContentsStay
  <2> QED
    BY <2>1, <2>2
<1>6. ReadIsRead'
  BY <1>t DEF ReadIsRead
<1>7. CallsOK'
  <2>1. \A b \in 1..Len(calls) : b # c => CallOK(calls[b])'
    BY <1>t, <1>1 DEF CallsOK, CallOK, C!Kind
  <2> QED
    BY <1>1, <2>1 DEF CallsOK
<1>8. ShownIsAsked'
  <2>1. \A b \in 1..Len(calls) : (calls[b] = C!Over => calls'[b] = C!Over)
                               /\ (calls'[b] = C!Over \/ calls'[b].about = calls[b].about)
    BY <1>1, OverIsOver
  <2>2. /\ entry.call # 0 => entry.call \in 1..Len(calls)
        /\ load.call # 0 => load.call \in 1..Len(calls)
    BY <1>t DEF ChatTypeOK
  <2> QED
    BY <1>t, <2>1, <2>2 DEF ShownIsAsked
<1> QED
  BY <1>2, <1>5, <1>6, <1>7, <1>8 DEF ChatInv

\* The same for a call that leaves the service alone.
LEMMA CallGoesOnAlone ==
  ASSUME ChatInv, NEW c \in 1..Len(calls), NEW v \in ToolCalls, calls[c].at # "done",
         v = C!Over \/ v.about = calls[c].about,
         calls' = [calls EXCEPT ![c] = v], CallOK(v)',
         UNCHANGED <<served, wanted, decided, read, current, content, entry, load>>,
         confirmed \subseteq confirmed', previewed' \in {previewed, C!Nothing}
  PROVE  ChatInv'
<1>1. ServedTypeOK' /\ AskedIsThere' /\ C!ChatApprovalIsReviewed'
  BY DEF ChatInv, ServedTypeOK, AskedIsThere, C!ChatApprovalIsReviewed
<1>2. wanted' = wanted /\ \A s \in Procs : C!About(s)' = C!About(s)
  BY DEF C!About
<1>3. current' \in Procs /\ previewed' \in Abouts
  BY NothingIsAbout DEF ChatInv, ChatTypeOK
<1> QED
  BY <1>1, <1>2, <1>3, CallGoesOn

\* Every step keeps the chat's invariant.
LEMMA ChatStep == ChatInv /\ [C!Next]_(C!conversation) => ChatInv'
<1> SUFFICES ASSUME ChatInv, [C!Next]_(C!conversation) PROVE ChatInv'
  OBVIOUS
<1>t. /\ ServedTypeOK /\ ChatTypeOK /\ AskedIsThere /\ OneContent /\ ReadIsRead /\ CallsOK
      /\ ShownIsAsked /\ C!ChatApprovalIsReviewed
  BY DEF ChatInv
<1>c. \A c \in 1..Len(calls) : calls[c] \in ToolCalls /\ calls[c].about \in Abouts
                              /\ (calls[c].at # "done" => calls[c] \in OpenCalls)
  <2>1. \A c \in 1..Len(calls) : calls[c] \in ToolCalls
    BY <1>t DEF ChatTypeOK
  <2> QED
    BY <2>1, CallFields
<1>d. DOMAIN calls = 1..Len(calls) /\ Len(calls) \in Nat
  BY <1>t DEF ChatTypeOK
<1>n. C!Now \in Abouts /\ C!Now = C!About(current) /\ C!Now \in Told
  BY <1>t, AboutIsAbout DEF ChatTypeOK, C!Now, Told
<1>a. \A x \in Told : x \in Abouts /\ x.id \in Nat
  <2>1. \A s \in Procs : C!About(s) \in Abouts
    BY <1>t, AboutIsAbout
  <2>2. load.about \in Abouts
    BY <1>t DEF ChatTypeOK
  <2>3. \A x \in Abouts : x.id \in Nat
    BY DEF Abouts
  <2> QED
    BY <1>c, <2>1, <2>2, <2>3 DEF Told
\* The team and the panel.
<1>1. CASE C!Others
  <2>1. current \in Procs /\ UNCHANGED <<current, content, calls, previewed, entry, load, read, confirmed>>
    BY <1>t, <1>1 DEF ChatTypeOK, C!Others, C!chat
  <2>2. /\ ServedTypeOK' /\ AskedIsThere'
        /\ \A u \in Procs \ {current} : C!About(u)' = C!About(u)
        /\ \/ wanted' = wanted /\ (C!About(current)' = C!About(current) \/ C!About(current)'.id = 0)
           \/ wanted' = wanted + 1 /\ C!About(current)'.id = wanted + 1
        /\ \/ UNCHANGED decided
           \/ decided' = decided \cup {[id |-> C!Now.id, hash |-> C!Now.hash, revision |-> C!Now.revision, by |-> "panel"]}
    <3>1. C!Working(current) \/ C!Approve(current, C!Now, "panel") \/ C!Refuse(current, C!Now)
          \/ C!Clarify(current, C!Now)
      BY <1>1 DEF C!Others
    <3> QED
      BY <1>t, <2>1, <3>1, ChatServes
  <2>3. OneContent'
    <3>1. CASE wanted' = wanted /\ (C!About(current)' = C!About(current) \/ C!About(current)'.id = 0)
      <4>1. \A x \in Told' : x \in Told \/ x.id = 0
        BY <2>1, <2>2, <3>1 DEF Told
      <4> QED
        BY <1>t, <1>a, <3>1, <4>1, ContentsStay
    <3>2. CASE wanted' = wanted + 1 /\ C!About(current)'.id = wanted + 1
      <4> DEFINE z == C!About(current)'
      <4>1. \A x \in Told' : x \in Told \/ x.id = 0 \/ x = z
        BY <2>1, <2>2 DEF Told
      <4>2. z.id = wanted + 1
        BY <3>2
      <4> HIDE DEF z
      <4> QED
        BY <1>t, <1>a, <3>2, <4>1, <4>2, ContentsStay
    <3> QED
      BY <2>2, <3>1, <3>2
  <2>4. ChatTypeOK' /\ ReadIsRead' /\ ShownIsAsked'
    BY <1>t, <2>1 DEF ChatTypeOK, ReadIsRead, ShownIsAsked
  <2>5. CallsOK'
    BY <1>t, <2>1 DEF CallsOK, CallOK, C!Kind
  <2>6. C!ChatApprovalIsReviewed'
    <3>1. \A d \in decided' : d.by = "chat" => d \in decided
      BY <2>2
    <3> QED
      BY <1>t, <2>1, <3>1 DEF C!ChatApprovalIsReviewed
  <2> QED
    BY <2>2, <2>3, <2>4, <2>5, <2>6 DEF ChatInv
\* The calls.
<1>2. ASSUME NEW kind \in {"approve", "reject", "preview", "ask", "refine", "continue", "start", "resolve"},
             C!Call(kind)
      PROVE  ChatInv'
  <2>1. UNCHANGED <<served, wanted, decided, current, content, previewed, entry, load, read, confirmed>>
    BY <1>2 DEF C!Call, C!service
  <2>2. PICK k \in OpenCalls :
          /\ calls' = Append(calls, k) /\ k.about = C!Now /\ k.answer = "none"
          /\ k.kind \in {"approve", "reject"} => k.at = C!Question(C!Now) /\ C!Now.id # 0 /\ previewed = C!Now
          /\ k.kind \notin {"approve", "reject"} => k.at \in {"answers", "sent"}
    <3> DEFINE Made(stage) == [kind |-> kind, at |-> stage, about |-> C!Now, answer |-> "none"]
    <3>1. \A stage \in {"sent", "answers", "review", "host"} :
             /\ Made(stage) \in OpenCalls /\ Made(stage).about = C!Now /\ Made(stage).answer = "none"
             /\ Made(stage).kind = kind /\ Made(stage).at = stage
      BY <1>n DEF OpenCalls
    <3>2. C!Question(C!Now) \in {"answers", "review", "host"}
      BY DEF C!Question
    <3>3. \/ /\ kind \in {"approve", "reject"} /\ C!Now.id # 0 /\ previewed = C!Now
             /\ calls' = Append(calls, Made(C!Question(C!Now)))
          \/ kind \notin {"approve", "reject"} /\ \E stage \in {"answers", "sent"} : calls' = Append(calls, Made(stage))
      BY <1>2 DEF C!Call, C!ReadNow
    <3> HIDE DEF Made
    <3> QED
      BY <3>1, <3>2, <3>3
  <2>3. k \in ToolCalls
    BY DEF ToolCalls
  <2>4. /\ calls' \in Seq(ToolCalls) /\ Len(calls') = Len(calls) + 1 /\ calls'[Len(calls) + 1] = k
        /\ \A b \in 1..Len(calls) : calls'[b] = calls[b]
    BY <1>t, <2>2, <2>3, AppendProperties DEF ChatTypeOK
  <2>5. ChatTypeOK'
    BY <1>t, <1>d, <2>1, <2>4 DEF ChatTypeOK
  <2>6. OneContent'
    <3>1. \A b \in 1..Len(calls') : calls'[b].about \in Told
      BY <1>d, <1>n, <2>2, <2>4 DEF Told
    <3>2. \A x \in Told' : x \in Told
      BY <2>1, <3>1 DEF Told, C!About
    <3> QED
      BY <1>t, <1>a, <2>1, <3>2, ContentsStay
  <2>7. ReadIsRead' /\ AskedIsThere' /\ ServedTypeOK' /\ C!ChatApprovalIsReviewed'
    BY <1>t, <2>1 DEF ReadIsRead, AskedIsThere, ServedTypeOK, C!ChatApprovalIsReviewed
  <2>8. CallOK(k)
    <3>1. k.kind = "approve" => k.about \in read
      BY <1>t, <2>2, NothingIsAbout DEF ReadIsRead
    <3>2. k.at \in {"review", "host"} => C!Kind(k.about.hash) # "questions"
      BY <2>2 DEF C!Question
    <3> QED
      BY <2>2, <3>1, <3>2 DEF CallOK
  <2>9. CallsOK'
    BY <1>t, <1>d, <2>1, <2>4, <2>8 DEF CallsOK, CallOK, C!Kind
  <2>10. ShownIsAsked'
    BY <1>t, <1>d, <2>1, <2>4 DEF ShownIsAsked, ChatTypeOK
  <2> QED
    BY <2>5, <2>6, <2>7, <2>9, <2>10 DEF ChatInv
<1>3. ASSUME NEW c \in DOMAIN calls, C!Defer(c) \/ C!Fails(c) PROVE ChatInv'
  <2>1. /\ calls' = [calls EXCEPT ![c] = C!Over] /\ calls[c].at # "done" /\ c \in 1..Len(calls)
        /\ UNCHANGED <<served, wanted, decided, current, content, previewed, entry, load, read, confirmed>>
    BY <1>3, <1>d DEF C!Defer, C!Fails, C!Asking, C!Ends, C!service
  <2>2. CallOK(C!Over)'
    BY OverIsOver DEF CallOK
  <2> QED
    BY <2>1, <2>2, OverIsOver, CallGoesOnAlone
<1>4. ASSUME NEW c \in DOMAIN calls, NEW answer \in {"approve", "reject", "answers"},
             answer = "answers" <=> calls[c].at = "answers", C!Answer(c, answer)
      PROVE  ChatInv'
  <2>1. /\ calls[c] \in OpenCalls /\ calls[c].at \in {"answers", "host"} /\ c \in 1..Len(calls)
        /\ UNCHANGED <<served, wanted, decided, current, content, previewed, entry, load, read>>
        /\ confirmed \subseteq confirmed'
        /\ calls[c].at = "host" /\ answer = "approve" =>
              [id |-> calls[c].about.id, hash |-> calls[c].about.hash] \in confirmed'
    BY <1>4, <1>c, <1>d DEF C!Answer, C!Asking, C!service
  <2>2. PICK v \in OpenCalls : /\ calls' = [calls EXCEPT ![c] = v]
                              /\ v.about = calls[c].about /\ v.kind = calls[c].kind
                              /\ v.at = "answered" /\ v.answer = answer
    <3> DEFINE w == [calls[c] EXCEPT !.at = "answered", !.answer = answer]
    <3>1. calls' = [calls EXCEPT ![c] = w]
      BY <1>4 DEF C!Answer
    <3>2. /\ w \in OpenCalls /\ w.about = calls[c].about /\ w.kind = calls[c].kind
          /\ w.at = "answered" /\ w.answer = answer
      BY <2>1 DEF OpenCalls
    <3> HIDE DEF w
    <3> QED
      BY <3>1, <3>2
  <2>3. CallOK(v)'
    <3>1. CallOK(calls[c])
      BY <1>t, <2>1 DEF CallsOK
    <3> QED
      BY <1>4, <2>1, <2>2, <3>1 DEF CallOK, C!Kind
  <2> QED
    BY <2>1, <2>2, <2>3, CallGoesOnAlone DEF ToolCalls
<1>5. ASSUME NEW c \in DOMAIN calls, C!Resume(c) PROVE ChatInv'
  <2>1. /\ calls[c] \in OpenCalls /\ calls[c].at = "answered" /\ c \in 1..Len(calls)
        /\ UNCHANGED <<served, wanted, decided, current, content, entry, load, read, confirmed>>
    BY <1>5, <1>c, <1>d DEF C!Resume, C!Asking, C!service
  <2>2. CASE calls' = [calls EXCEPT ![c] = C!Over] /\ UNCHANGED previewed
    <3>1. CallOK(C!Over)'
      BY OverIsOver DEF CallOK
    <3> QED
      BY <2>1, <2>2, <3>1, OverIsOver, CallGoesOnAlone
  <2>3. CASE calls' = [calls EXCEPT ![c] = [calls[c] EXCEPT !.at = "sent"]] /\ previewed' \in {previewed, C!Nothing}
    <3>1. PICK v \in OpenCalls : /\ calls' = [calls EXCEPT ![c] = v] /\ v.about = calls[c].about
                                /\ v.kind = calls[c].kind /\ v.at = "sent" /\ v.answer = calls[c].answer
      BY <2>1, <2>3 DEF OpenCalls
    <3>2. CallOK(v)'
      <4>1. CallOK(calls[c])
        BY <1>t, <2>1 DEF CallsOK
      <4> QED
        BY <2>1, <3>1, <4>1 DEF CallOK, C!Kind
    <3> QED
      BY <2>1, <2>3, <3>1, <3>2, CallGoesOnAlone DEF ToolCalls
  <2>4. \/ calls' = [calls EXCEPT ![c] = C!Over] /\ UNCHANGED previewed
        \/ calls' = [calls EXCEPT ![c] = [calls[c] EXCEPT !.at = "sent"]] /\ previewed' \in {previewed, C!Nothing}
    BY <1>5 DEF C!Resume, C!Ends
  <2> QED
    BY <2>2, <2>3, <2>4
\* What a call dispatches; an approval is of a request that is asked for now.
<1>6. ASSUME NEW c \in DOMAIN calls, C!Run(c) PROVE ChatInv'
  <2>a. PICK a \in Abouts : a = calls[c].about
    <3>1. calls[c].about \in Abouts
      BY <1>6, <1>c, <1>d DEF C!Run, C!Asking, OpenCalls
    <3> QED
      BY <3>1
  <2>s. PICK s \in Procs : s = current
    BY <1>t DEF ChatTypeOK
  <2>1. /\ calls[c] \in OpenCalls /\ calls[c].at = "sent" /\ c \in 1..Len(calls) /\ a.task = s
        /\ calls' = [calls EXCEPT ![c] = C!Over] /\ UNCHANGED <<content, entry, load, confirmed>>
        /\ C!Command(c)
    BY <1>6, <1>c, <1>d, <2>a, <2>s DEF C!Run, C!Asking, C!Ends
  <2>2. /\ read \subseteq read' /\ current' \in Procs
        /\ previewed' \in {previewed, C!Nothing} \cup read' /\ previewed' \in Abouts
    <3>1. CASE previewed' = a /\ read' = read \cup {a} /\ UNCHANGED current
      BY <2>a, <2>s, <3>1
    <3>2. CASE previewed' \in {previewed, C!Nothing} /\ UNCHANGED read /\ current' \in Procs
      BY <1>t, <3>2, NothingIsAbout DEF ChatTypeOK
    <3> QED
      BY <1>6, <2>a, <2>1, <3>1, <3>2 DEF C!Run
  <2>3. \/ UNCHANGED <<served, wanted, decided>>
        \/ C!Working(s) /\ UNCHANGED decided
        \/ C!Refuse(s, a) \/ C!Clarify(s, a)
        \/ calls[c].kind = "approve" /\ calls[c].answer = "approve" /\ C!Approve(s, a, "chat")
    <3>1. CASE calls[c].kind = "preview"
      BY <2>a, <2>s, <2>1, <3>1 DEF C!Command, C!service
    <3>2. CASE calls[c].kind \in {"approve", "reject"}
      BY <2>a, <2>s, <2>1, <3>2 DEF C!Command
    <3>3. CASE calls[c].kind \in {"ask", "refine"}
      BY <2>a, <2>s, <2>1, <3>3 DEF C!Command
    <3>4. CASE calls[c].kind = "continue"
      BY <2>a, <2>s, <2>1, <3>4 DEF C!Command, C!service, C!Working, C!Ask, C!MoveOn
    <3>5. CASE calls[c].kind \in {"start", "resolve"}
      BY <2>a, <2>s, <2>1, <3>5 DEF C!Command, C!service
    <3>6. calls[c].kind \in {"approve", "reject", "preview", "ask", "refine", "continue", "start", "resolve"}
      BY <2>1 DEF OpenCalls
    <3> QED
      BY <3>1, <3>2, <3>3, <3>4, <3>5, <3>6
  <2>5. CallOK(C!Over)'
    BY OverIsOver DEF CallOK
  <2>6. ASSUME UNCHANGED <<served, wanted, decided>> PROVE ChatInv'
    <3>1. ServedTypeOK' /\ AskedIsThere' /\ C!ChatApprovalIsReviewed'
      BY <1>t, <2>1, <2>2, <2>6 DEF ServedTypeOK, AskedIsThere, C!ChatApprovalIsReviewed
    <3>2. wanted' = wanted /\ \A u \in Procs : C!About(u)' = C!About(u)
      BY <2>6 DEF C!About
    <3> QED
      BY <2>1, <2>2, <2>5, <3>1, <3>2, OverIsOver, CallGoesOn
  <2>7. ASSUME NEW by \in {"chat", "other"}, by = "chat" => calls[c].kind = "approve" /\ calls[c].answer = "approve",
               C!Working(s) \/ C!Approve(s, a, by) \/ C!Refuse(s, a) \/ C!Clarify(s, a)
        PROVE  ChatInv'
    <3>1. /\ ServedTypeOK' /\ AskedIsThere'
          /\ \A u \in Procs \ {s} : C!About(u)' = C!About(u)
          /\ \/ wanted' = wanted /\ (C!About(s)' = C!About(s) \/ C!About(s)'.id = 0)
             \/ wanted' = wanted + 1 /\ C!About(s)'.id = wanted + 1
          /\ \/ UNCHANGED decided
             \/ /\ C!Decidable(s, a)
                /\ decided' = decided \cup {[id |-> a.id, hash |-> a.hash, revision |-> a.revision, by |-> by]}
      BY <1>t, <2>1, <2>7, ChatServes
    <3>2. \/ wanted' = wanted /\ \A u \in Procs : C!About(u)' = C!About(u) \/ C!About(u)'.id = 0
          \/ /\ wanted' = wanted + 1
             /\ \E z : z.id = wanted + 1 /\ \A u \in Procs : \/ C!About(u)' \in {C!About(u), z}
                                                             \/ C!About(u)'.id = 0
      <4>1. PICK z : z = C!About(s)'
        OBVIOUS
      <4>2. \A u \in Procs : u = s \/ u \in Procs \ {s}
        OBVIOUS
      <4>3. CASE wanted' = wanted
        BY <3>1, <4>2, <4>3
      <4>4. CASE wanted' = wanted + 1 /\ z.id = wanted + 1
        BY <3>1, <4>1, <4>2, <4>4
      <4> QED
        BY <3>1, <4>1, <4>3, <4>4
    <3>3. ASSUME NEW d \in decided', d.by = "chat"
          PROVE  /\ \E r \in read' : [id |-> r.id, hash |-> r.hash, revision |-> r.revision]
                                     = [id |-> d.id, hash |-> d.hash, revision |-> d.revision]
                 /\ [id |-> d.id, hash |-> d.hash] \in confirmed'
                 /\ content'[d.hash] # "questions"
      <4>1. CASE d \in decided
        BY <1>t, <2>1, <2>2, <3>3, <4>1 DEF C!ChatApprovalIsReviewed
      <4>2. CASE /\ d = [id |-> a.id, hash |-> a.hash, revision |-> a.revision, by |-> by]
                 /\ C!Decidable(s, a)
        <5>1. CallOK(calls[c]) /\ by = "chat"
          BY <1>t, <2>a, <2>1, <3>3, <4>2 DEF CallsOK
        <5>2. a \in read /\ [id |-> a.id, hash |-> a.hash] \in confirmed /\ C!Kind(a.hash) # "questions"
          BY <2>a, <2>7, <5>1 DEF CallOK
        <5>3. a.hash \in Hashes
          BY <1>t, <2>1, <4>2 DEF C!Decidable, C!Concerns, AskedIsThere
        <5>4. content[a.hash] # "questions"
          BY <5>2, <5>3, NoHashIsNoHash DEF C!Kind
        <5> QED
          BY <2>1, <2>2, <4>2, <5>2, <5>4
      <4> QED
        BY <3>1, <3>3, <4>1, <4>2
    <3>4. C!ChatApprovalIsReviewed'
      BY <3>3 DEF C!ChatApprovalIsReviewed
    <3> QED
      BY <2>1, <2>2, <2>5, <3>1, <3>2, <3>4, OverIsOver, CallGoesOn
  <2> QED
    BY <2>3, <2>6, <2>7
\* The review.
<1>7. ASSUME NEW answer \in {"approve", "reject", "answers"}, C!Submit(answer) PROVE ChatInv'
  <2> DEFINE c == entry.call
  <2>1. /\ c \in 1..Len(calls) /\ calls[c] \in OpenCalls /\ calls[c].at = "review" /\ entry.inspected # NoHash
        /\ UNCHANGED <<served, wanted, decided, current, content, previewed, entry, load, read>>
    BY <1>7, <1>c, <1>t DEF C!Submit, ChatTypeOK, C!service
  <2>2. entry.inspected = calls[c].about.hash
    BY <1>t, <2>1, OverIsOver DEF ShownIsAsked
  <2>3. PICK b \in 1..Len(calls) : b = c
    BY <2>1
  <2>4. PICK v \in OpenCalls : /\ calls' = [calls EXCEPT ![b] = v]
                              /\ v.about = calls[b].about /\ v.kind = calls[b].kind
                              /\ v.at = "answered" /\ v.answer = answer
    <3> DEFINE w == [calls[b] EXCEPT !.at = "answered", !.answer = answer]
    <3>1. calls' = [calls EXCEPT ![b] = w]
      BY <1>7, <2>3 DEF C!Submit
    <3>2. /\ w \in OpenCalls /\ w.about = calls[b].about /\ w.kind = calls[b].kind
          /\ w.at = "answered" /\ w.answer = answer
      BY <2>1, <2>3 DEF OpenCalls
    <3> HIDE DEF w
    <3> QED
      BY <3>1, <3>2
  <2>5. /\ confirmed \subseteq confirmed'
        /\ answer = "approve" => [id |-> calls[b].about.id, hash |-> calls[b].about.hash] \in confirmed'
    BY <1>7, <2>2, <2>3 DEF C!Submit
  <2>6. CallOK(v)'
    <3>1. CallOK(calls[b])
      BY <1>t DEF CallsOK
    <3> QED
      BY <2>1, <2>3, <2>4, <2>5, <3>1 DEF CallOK, C!Kind
  <2> QED
    BY <2>1, <2>3, <2>4, <2>5, <2>6, CallGoesOnAlone DEF ToolCalls
<1>8. CASE C!Load \/ C!LoadState \/ C!LoadPreview \/ \E c \in DOMAIN calls : C!Attach(c)
  <2>1. UNCHANGED <<served, wanted, decided, current, content, calls, previewed, confirmed>> /\ read \subseteq read'
    BY <1>8 DEF C!Load, C!LoadState, C!LoadPreview, C!Attach, C!service
  <2>2. ServedTypeOK' /\ AskedIsThere' /\ ReadIsRead' /\ CallsOK' /\ C!ChatApprovalIsReviewed'
    <3>1. ServedTypeOK' /\ AskedIsThere' /\ ReadIsRead'
      BY <1>t, <2>1 DEF ServedTypeOK, AskedIsThere, ReadIsRead
    <3>2. CallsOK'
      BY <1>t, <2>1 DEF CallsOK, CallOK, C!Kind
    <3>3. C!ChatApprovalIsReviewed'
      BY <1>t, <2>1 DEF C!ChatApprovalIsReviewed
    <3> QED
      BY <3>1, <3>2, <3>3
  <2>3. ASSUME load'.about \in Told \/ load'.about = C!Nothing PROVE OneContent'
    <3>1. \A x \in Told' : x \in Told \/ x.id = 0
      BY <2>1, <2>3, NothingIsAbout DEF Told, C!About
    <3> QED
      BY <1>t, <1>a, <2>1, <3>1, ContentsStay
  <2>4. load.about \in Told
    BY DEF Told
  <2>5. C!NoLoad \in [call : Nat, at : {"state", "preview"}, about : Abouts] /\ C!NoLoad.call = 0
        /\ C!NoLoad.about = C!Nothing /\ C!NoLoad.at = "state"
    BY NothingIsAbout DEF C!NoLoad
  <2>6. CASE \E c \in DOMAIN calls : C!Attach(c)
    <3>1. PICK c \in 1..Len(calls) : entry' = [call |-> c, inspected |-> NoHash] /\ UNCHANGED load
      BY <2>6, <1>d DEF C!Attach
    <3>2. ChatTypeOK' /\ ShownIsAsked'
      BY <1>t, <1>d, <2>1, <3>1 DEF ChatTypeOK, ShownIsAsked, Asked
    <3> QED
      BY <2>2, <2>3, <2>4, <3>1, <3>2 DEF ChatInv
  <2>7. CASE C!Load
    <3>1. /\ load' = [C!NoLoad EXCEPT !.call = entry.call] /\ entry' = [entry EXCEPT !.inspected = NoHash]
      BY <2>7 DEF C!Load
    <3>2. /\ load' \in [call : Nat, at : {"state", "preview"}, about : Abouts] /\ load'.call = entry.call
          /\ load'.about = C!Nothing /\ load'.at = "state"
          /\ entry' \in [call : Nat, inspected : Asked] /\ entry'.call = entry.call /\ entry'.inspected = NoHash
      BY <1>t, <2>5, <3>1 DEF ChatTypeOK, Asked
    <3>3. ChatTypeOK' /\ ShownIsAsked'
      BY <1>t, <2>1, <3>2 DEF ChatTypeOK, ShownIsAsked
    <3> QED
      BY <2>2, <2>3, <3>2, <3>3 DEF ChatInv
  <2>8. CASE C!LoadState
    <3>1. /\ load.call # 0 /\ UNCHANGED entry
          /\ \/ load' = C!NoLoad
             \/ /\ load' = [load EXCEPT !.at = "preview", !.about = C!Now]
                /\ C!Now.id # 0 /\ C!Now.id = calls[load.call].about.id
      BY <2>8 DEF C!LoadState, C!SameQuestion
    <3>2. CASE load' = C!NoLoad
      <4>1. ChatTypeOK' /\ ShownIsAsked'
        BY <1>t, <2>1, <2>5, <3>1, <3>2 DEF ChatTypeOK, ShownIsAsked
      <4> QED
        BY <2>2, <2>3, <2>5, <3>2, <4>1 DEF ChatInv
    <3>3. CASE load' = [load EXCEPT !.at = "preview", !.about = C!Now]
               /\ C!Now.id # 0 /\ C!Now.id = calls[load.call].about.id
      <4>1. /\ load' \in [call : Nat, at : {"state", "preview"}, about : Abouts]
            /\ load'.call = load.call /\ load'.about = C!Now
        BY <1>t, <1>n, <3>3 DEF ChatTypeOK
      <4>2. ChatTypeOK' /\ ShownIsAsked'
        BY <1>t, <2>1, <3>1, <3>3, <4>1 DEF ChatTypeOK, ShownIsAsked
      <4> QED
        BY <1>n, <2>2, <2>3, <4>1, <4>2 DEF ChatInv
    <3> QED
      BY <3>1, <3>2, <3>3
  <2>9. CASE C!LoadPreview
    <3>1. /\ load.at = "preview" /\ load' = C!NoLoad
          /\ \/ UNCHANGED entry
             \/ entry.call = load.call /\ entry' = [entry EXCEPT !.inspected = load.about.hash]
      BY <2>9 DEF C!LoadPreview
    <3>2. CASE UNCHANGED entry
      <4>1. ChatTypeOK' /\ ShownIsAsked'
        BY <1>t, <2>1, <2>5, <3>1, <3>2 DEF ChatTypeOK, ShownIsAsked
      <4> QED
        BY <2>2, <2>3, <2>5, <3>1, <4>1 DEF ChatInv
    <3>3. CASE entry.call = load.call /\ entry' = [entry EXCEPT !.inspected = load.about.hash]
      <4>1. load.about.hash \in Asked
        BY <1>t DEF ChatTypeOK, Abouts
      <4>2. entry' \in [call : Nat, inspected : Asked] /\ entry'.call = load.call
            /\ entry'.inspected = load.about.hash
        BY <1>t, <3>3, <4>1 DEF ChatTypeOK
      <4>3. ChatTypeOK'
        BY <1>t, <2>1, <2>5, <3>1, <3>3, <4>2 DEF ChatTypeOK
      <4>4. load.call # 0 => calls[load.call] = C!Over \/ load.about.hash = calls[load.call].about.hash
        <5>1. load.call # 0 => calls[load.call].about \in Told
          BY <1>t DEF Told, ChatTypeOK
        <5> QED
          BY <1>t, <2>4, <3>1, <5>1 DEF ShownIsAsked, OneContent
      <4>5. ShownIsAsked'
        BY <2>1, <2>5, <3>1, <4>2, <4>4 DEF ShownIsAsked
      <4> QED
        BY <2>2, <2>3, <2>5, <3>1, <4>3, <4>5 DEF ChatInv
    <3> QED
      BY <3>1, <3>2, <3>3
  <2> QED
    BY <1>8, <2>6, <2>7, <2>8, <2>9
<1>9. CASE UNCHANGED C!conversation
  <2>1. UNCHANGED <<served, wanted, decided, current, content, calls, previewed, entry, load, read, confirmed>>
    BY <1>9 DEF C!conversation, C!service, C!chat
  <2>2. ServedTypeOK' /\ AskedIsThere' /\ ReadIsRead' /\ ChatTypeOK'
    BY <1>t, <2>1 DEF ServedTypeOK, AskedIsThere, ReadIsRead, ChatTypeOK
  <2>3. CallsOK' /\ ShownIsAsked' /\ C!ChatApprovalIsReviewed'
    BY <1>t, <2>1 DEF CallsOK, CallOK, C!Kind, ShownIsAsked, C!ChatApprovalIsReviewed
  <2>4. OneContent'
    BY <1>t, <2>1 DEF OneContent, Told, C!About
  <2> QED
    BY <2>2, <2>3, <2>4 DEF ChatInv
<1> QED
  BY <1>1, <1>2, <1>3, <1>4, <1>5, <1>6, <1>7, <1>8, <1>9 DEF C!Next

\* What the chat's tool approves was read, confirmed and complete:
\* conversation-workflow-tool.ts execute, review-session.ts.
THEOREM ChatApprovedIsReviewed == C!Spec => []C!ChatApprovalIsReviewed
<1>1. ChatInv => C!ChatApprovalIsReviewed
  BY DEF ChatInv
<1> QED
  BY <1>1, ChatInitially, ChatStep, PTL DEF C!Spec

---------------------------------------------------------------------------
(* The whole *)

\* Each part keeps its invariant, and the parts do not touch each other.
EdgesInv == /\ part = "panel" => PanelInv
            /\ part = "chat" => ChatInv
            /\ part = "node" => NodeInv
            /\ part = "gui" => GuiInv
            /\ part = "kit" => KitInv

\* The parts' invariants hold of what is shared, whichever part is in play.
LEMMA EdgesInitially == EdgesInit => EdgesInv
<1> SUFFICES ASSUME EdgesInit PROVE EdgesInv
  OBVIOUS
<1>1. part = "panel" => PanelInv
  BY PanelInitially DEF EdgesInit
<1>2. part = "chat" => ChatInv
  BY ChatInitially DEF EdgesInit
<1>3. part = "node" => NodeInv
  BY NodeInitially DEF EdgesInit
<1>4. part = "gui" => GuiInv
  BY GuiInitially DEF EdgesInit
<1>5. part = "kit" => KitInv
  BY KitInitially DEF EdgesInit
<1> QED
  BY <1>1, <1>2, <1>3, <1>4, <1>5 DEF EdgesInv

\* A step of the whole is a step of the part in play.
LEMMA EdgesStep == EdgesInv /\ [EdgesNext]_edges => EdgesInv'
<1> SUFFICES ASSUME EdgesInv, [EdgesNext]_edges PROVE EdgesInv'
  OBVIOUS
<1>u. part' = part
  BY DEF EdgesNext, edges
<1>1. ASSUME part = "panel" PROVE PanelInv'
  <2>1. [P!Next]_(P!panel)
    BY <1>1 DEF EdgesNext, edges, review, panel, P!panel, P!page, P!service
  <2> QED
    BY <1>1, <2>1, PanelStep DEF EdgesInv
<1>2. ASSUME part = "chat" PROVE ChatInv'
  <2>1. [C!Next]_(C!conversation)
    BY <1>2 DEF EdgesNext, edges, review, chat, C!conversation, C!chat, C!service
  <2> QED
    BY <1>2, <2>1, ChatStep DEF EdgesInv
<1>3. ASSUME part = "node" PROVE NodeInv'
  <2>1. [N!NodeNext]_(N!node)
    BY <1>3 DEF EdgesNext, edges, place, node, N!node
  <2> QED
    BY <1>3, <2>1, NodeStep DEF EdgesInv
<1>4. ASSUME part = "gui" PROVE GuiInv'
  <2>1. [D!DbGateNext]_(D!dbgate)
    BY <1>4 DEF EdgesNext, edges, place, gui, D!dbgate
  <2> QED
    BY <1>4, <2>1, GuiStep DEF EdgesInv
<1>5. ASSUME part = "kit" PROVE KitInv'
  <2>1. [K!KitNext]_(K!kit)
    BY <1>5 DEF EdgesNext, edges, place, kit, K!kit
  <2> QED
    BY <1>5, <2>1, KitStep DEF EdgesInv
<1> QED
  BY <1>u, <1>1, <1>2, <1>3, <1>4, <1>5 DEF EdgesInv

\* The invariant of the whole holds of every behavior.
THEOREM EdgesAreSound == EdgesSpec => []EdgesInv
<1> QED
  BY EdgesInitially, EdgesStep, PTL DEF EdgesSpec

\* What is approved in the panel was on screen (control-client.ts
\* assertApproval, client-overlay.ts).
THEOREM ApprovedWasSeenHolds == EdgesSpec => []ApprovedWasSeen
<1>1. EdgesInv => ApprovedWasSeen
  BY DEF EdgesInv, PanelInv, DecidedWasSeen, ApprovedWasSeen, P!ApprovedWasSeen
<1> QED
  BY <1>1, EdgesAreSound, PTL

\* What the chat's tool approves was read, confirmed and complete
\* (conversation-workflow-tool.ts execute, review-session.ts).
THEOREM ChatApprovalIsReviewedHolds == EdgesSpec => []ChatApprovalIsReviewed
<1>1. EdgesInv => ChatApprovalIsReviewed
  BY DEF EdgesInv, ChatInv, ChatApprovalIsReviewed
<1> QED
  BY <1>1, EdgesAreSound, PTL

\* An installed runtime and the GUI's plugin outlive the failures of others
\* (policy-owned-artifact-adapter.ts, dbgate-installer.ts).
THEOREM RuntimesAreKeptHolds == EdgesSpec => []RuntimesAreKept
<1>1. EdgesInv => RuntimesAreKept
  BY PluginInv DEF EdgesInv, NodeInv, RuntimesAreKept, N!RuntimesAreKept
<1> QED
  BY <1>1, EdgesAreSound, PTL

\* What is overwritten in a project is what the approved plan says
\* (spec-kit-project.ts, install-session.ts executeApprovedInstallCommand).
THEOREM InitMeetsPlanHolds == EdgesSpec => []InitMeetsPlan
<1>1. EdgesInv => InitMeetsPlan
  BY DEF EdgesInv, KitInv, InitMeetsPlan
<1> QED
  BY <1>1, EdgesAreSound, PTL
============================================================================

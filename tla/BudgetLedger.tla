---------------------------- MODULE BudgetLedger ----------------------------
(***************************************************************************)
(* The arithmetic of one task's budget (packages/agent-team/src/           *)
(* budget-ledger.ts) as operators on its record: the scheduler and the     *)
(* durable ledger are state machines over such records.  An amount gives   *)
(* a number for each dimension; a hold counts one child whatever the       *)
(* child's own maxChildren is.                                             *)
(***************************************************************************)
EXTENDS Integers, FiniteSetsExt

CONSTANT Dims    \* the metered dimensions: tokens, wallMs, ..., "children"

ASSUME ChildrenAreMetered == "children" \in Dims

Amounts == [Dims -> Nat]
Zero    == [d \in Dims |-> 0]

Add(a, b)    == [d \in Dims |-> a[d] + b[d]]
AtMost(a, b) == \A d \in Dims : a[d] <= b[d]

\* What reserve holds for a child with that budget.
HeldFor(budget) == [budget EXCEPT !["children"] = 1]

\* A record: its ceiling, what was consumed, the children's reservations (a
\* function from child to budget) and whether it is blocked:budget-exhausted.
NewRecord(budget) ==
  [budget |-> budget, consumed |-> Zero, reserved |-> [c \in {} |-> Zero],
   blocked |-> FALSE]

\* The holds are added up unit by unit.
Units(c, n) == {<<c, k>> : k \in 1..n}
HeldUnits(r, d) == UNION {Units(c, HeldFor(r.reserved[c])[d]) : c \in DOMAIN r.reserved}
TotalHeld(r) == [d \in Dims |-> Cardinality(HeldUnits(r, d))]

\* snapshotFor: nothing remains of a dimension that is overdrawn.
Remaining(r) ==
  [d \in Dims |-> LET used == r.consumed[d] + TotalHeld(r)[d]
                  IN  IF used >= r.budget[d] THEN 0 ELSE r.budget[d] - used]

\* fitsWithinCeiling
WithinCeiling(r) == AtMost(Add(r.consumed, TotalHeld(r)), r.budget)

Blocked(r) == [r EXCEPT !.blocked = TRUE]

\* A bug: the holds of other children are forgotten.
FitsAlone(r, budget) == AtMost(Add(r.consumed, HeldFor(budget)), r.budget)

\* fits: note that it does not ask whether the record is blocked.
Fits(r, budget) == AtMost(HeldFor(budget), Remaining(r))

Reserved(r, child, budget) ==
  [r EXCEPT !.reserved = [c \in DOMAIN r.reserved \cup {child} |->
                           IF c = child THEN budget ELSE r.reserved[c]]]

Unreserved(r, child) ==
  [r EXCEPT !.reserved = [c \in DOMAIN r.reserved \ {child} |-> r.reserved[c]]]

\* consume accepts a usage within the hold; the children of the child are
\* compared with its own maxChildren.
UsageFits(budget, usage) == AtMost(usage, budget)

\* consume: the hold becomes consumption, one child included.
Consumed(r, child, usage) ==
  [Unreserved(r, child) EXCEPT
     !.consumed = Add(@, [usage EXCEPT !["children"] = 1])]

\* record: a top-level task's own usage; over the remainder it is charged all
\* the same and the record is blocked (and the caller gets an error).
Recorded(r, usage) ==
  [r EXCEPT !.consumed = Add(@, usage), !.blocked = @ \/ ~AtMost(usage, Remaining(r))]
=============================================================================

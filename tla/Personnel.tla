---------------------------- MODULE Personnel ----------------------------
(* The personnel service: its routes and access rules (api/), the use      *)
(* cases (domain/) and the day that passes.  Every request is handled in   *)
(* one synchronous transaction, so what is hard here is long sequences of  *)
(* requests with dates before and after today.                             *)
(*                                                                         *)
(* A body is what it gives, which may be keys of no contract, and the set  *)
(* of its keys that are refused for their values: wrong types, blank or    *)
(* too long texts, dates that are no calendar dates.  Departments and      *)
(* positions of an assignment are left out: only who is reported to        *)
(* matters below.                                                          *)
EXTENDS Naturals, FiniteSets, Sequences, SequencesExt, FiniteSetsExt

---------------------------------------------------------------------------
(* The personnel tables and their constraints (domain/store.ts): persons,  *)
(* assignments and the change log.  An operation on the tables yields the  *)
(* tables it leaves and an error, and a transaction is a chain of          *)
(* operations that is undone as a whole when one of them fails.  Persons   *)
(* and assignments are named by their position: rows are never removed     *)
(* but by DeletePerson, which blanks the row and keeps the position.       *)
NoDate == 0
NoPerson == 0
Null == "null"
Deleted == [gone |-> TRUE]  \* what is left of a deleted person

Tables(persons, assignments, log) ==
  [persons |-> persons, assignments |-> assignments, log |-> log]
Goes(db) == [db |-> db, error |-> "none"]
Fails(db, error) == [db |-> db, error |-> error]
Then(result, Op(_)) == IF result.error = "none" THEN Op(result.db) ELSE result

\* A bug: what was written before the error stays.
TransactionKept(before, result) == result

(* InMemoryPersonnelStore.transaction *)
Transaction(before, result) ==
  IF result.error = "none" THEN result ELSE Fails(before, result.error)

Persons(db) == {p \in DOMAIN db.persons : db.persons[p] # Deleted}
Of(db, p) == {i \in DOMAIN db.assignments : db.assignments[i].person = p}
Live(db, p) == {i \in Of(db, p) : db.assignments[i].status # "retracted"}

(* assertPersonRow and assertAssignmentRow, where valid requests can fail. *)
PersonRowOk(row) ==
  /\ row.fields["end"] = NoDate \/ row.fields["end"] >= row.fields["start"]
  /\ row.status = "inactive" => row.reason # Null
AssignmentRowOk(row) == /\ row.to = NoDate \/ row.to >= row.from
                        /\ row.manager # row.person

NumberTaken(db, number) == \E p \in Persons(db) : db.persons[p].number = number
InsertPerson(db, row) ==
  IF ~PersonRowOk(row) THEN Fails(db, "conflict")
  ELSE IF NumberTaken(db, row.number) THEN Fails(db, "duplicate_employee_no")
  ELSE Goes([db EXCEPT !.persons = Append(@, row)])

UpdatePerson(db, p, row) ==
  IF ~PersonRowOk(row) THEN Fails(db, "conflict")
  ELSE Goes([db EXCEPT !.persons[p] = row])

(* A pending assignment may start in an open current one, which is closed  *)
(* when the pending one is applied.  An assignment with an end overlaps no *)
(* open one here: only the use case refuses that.                          *)
Exempt(row, a) == /\ row.status = "pending" /\ a.status = "current"
                  /\ a.to = NoDate /\ a.from < row.from
Overlapping(row, a) ==
  /\ a.to = NoDate \/ row.from < a.to
  /\ row.to = NoDate \/ (a.to # NoDate /\ a.from < row.to)
Clashing(db, row) ==
  {i \in Live(db, row.person) : LET a == db.assignments[i] IN
                                  ~Exempt(row, a) /\ Overlapping(row, a)}
SameStart(db, row, others) == \E i \in others : db.assignments[i].from = row.from

InsertAssignment(db, row) ==
  IF \/ ~AssignmentRowOk(row)
     \/ ~({row.person, row.manager} \subseteq Persons(db) \cup {NoPerson})
     \/ SameStart(db, row, Live(db, row.person))
  THEN Fails(db, "conflict")
  ELSE IF Clashing(db, row) # {} THEN Fails(db, "overlapping_assignment")
  ELSE Goes([db EXCEPT !.assignments = Append(@, row)])

(* updateAssignment: the ranges of other assignments are not looked at. *)
UpdateAssignment(db, i, row) ==
  IF \/ ~AssignmentRowOk(row)
     \/ row.status # "retracted" /\ SameStart(db, row, Live(db, row.person) \ {i})
  THEN Fails(db, "conflict")
  ELSE Goes([db EXCEPT !.assignments[i] = row])

Logged(p, e) ==
  [person |-> p, action |-> e.action, field |-> e.field, old |-> e.old, new |-> e.new]

(* insertChangeRecord: an entry needs an operator. *)
InsertChanges(db, p, operator, entries) ==
  IF entries # <<>> /\ operator = "" THEN Fails(db, "conflict")
  ELSE Goes([db EXCEPT !.log = @ \o [i \in DOMAIN entries |-> Logged(p, entries[i])]])

DeletePerson(db, p) ==
  IF Of(db, p) # {} THEN Fails(db, "referenced_by_business")
  ELSE Goes([db EXCEPT !.persons[p] = Deleted])

(* effectiveAssignmentAt: the latest of those in force, if there is one.  *)
InForce(db, p, at) ==
  [i \in {j \in Live(db, p) : LET a == db.assignments[j] IN
                               a.from <= at /\ (a.to = NoDate \/ at < a.to)} |-> db.assignments[i]]
Latest(live) == CHOOSE i \in DOMAIN live : \A j \in DOMAIN live : live[j].from <= live[i].from
None == 0
EffectiveAt(db, p, at) ==
  LET live == InForce(db, p, at) IN IF DOMAIN live = {} THEN None ELSE Latest(live)
ManagerAt(db, p, at) ==
  LET live == InForce(db, p, at) IN IF DOMAIN live = {} THEN NoPerson ELSE live[Latest(live)].manager
---------------------------------------------------------------------------
CONSTANTS CreateBodies, UpdateBodies, \* the bodies of requests
          Managers,                   \* who a request may name: positions or NoPerson
          MaxDay,                     \* bound: days are 1..MaxDay
          MaxRequests                 \* bound: requests

VARIABLES db,      \* the tables
          today,   \* the business date
          answer,  \* the status of the last answer
          served   \* requests served
vars == <<db, today, answer, served>>

Days == 1..MaxDay
Unknown == 99  \* a well-formed identifier of nobody

Init == /\ db = Tables(<<>>, <<>>, <<>>)
        /\ today = 1
        /\ answer = [status |-> 200]
        /\ served = 0

(* PERSONNEL_HTTP_STATUS *)
StatusOf(error) == CASE error = "validation_failed" -> 400
                     [] error = "unauthorized" -> 401
                     [] error = "forbidden" -> 403
                     [] error = "not_found" -> 404
                     [] OTHER -> 409

(* requireHrCollection, requireHrPersonResource: whoever is not HR learns  *)
(* nothing of a person, not even whether it exists.                        *)
Actors == {"nobody", "staff", "hr"}
Denial(actor, resource) == CASE actor = "nobody" -> "unauthorized"
                             [] actor = "hr" -> "none"
                             [] resource = "collection" -> "forbidden"
                             [] OTHER -> "not_found"

(* handlePersonnelRequest: access first, then the use case. *)
Operators == {"", "hr"}
Handle(resource, ok, outcome) ==
  /\ served < MaxRequests /\ served' = served + 1
  /\ UNCHANGED today
  /\ \E actor \in Actors :
       LET denial == Denial(actor, resource) IN
       IF denial # "none"
       THEN answer' = [status |-> StatusOf(denial)] /\ UNCHANGED db
       ELSE \E operator \in Operators :
              LET result == outcome[operator] IN
              /\ db' = result.db
              /\ answer' = [status |-> IF result.error = "none" THEN ok
                                       ELSE StatusOf(result.error)]

Change(action, field, old, new) == [action |-> action, field |-> field, old |-> old, new |-> new]

(* validatePersonCreate *)
Required == {"number", "fullName", "start", "from"}
Declared == Required \cup {"mobile", "end", "manager"}
ValidCreate(body) ==
  /\ body.bad = {} /\ DOMAIN body.given \subseteq Declared
  /\ Required \subseteq DOMAIN body.given
  /\ "end" \in DOMAIN body.given /\ body.given["end"] # NoDate =>
       body.given["end"] >= body.given["start"]
Given(body, f, default) == IF f \in DOMAIN body.given THEN body.given[f] ELSE default
FieldNames == {"fullName", "mobile", "start", "end"}
NewPerson(body) ==
  [number |-> body.given["number"], status |-> "active", reason |-> Null,
   fields |-> [fullName |-> body.given["fullName"], mobile |-> Given(body, "mobile", Null),
               start |-> body.given["start"], end |-> Given(body, "end", NoDate)]]

(* createPerson: the person, its first assignment (current, although it    *)
(* may start later) and the log; the operator is never empty here.         *)
CreatePerson(body) ==
  IF ~ValidCreate(body) THEN Fails(db, "validation_failed")
  ELSE LET p == Len(db.persons) + 1
           first == [person |-> p, manager |-> Given(body, "manager", NoPerson),
                     from |-> body.given["from"], to |-> NoDate, status |-> "current"]
           entries == <<Change("create", "person", Null, "active"),
                        Change("assignment_change", "manager", NoPerson, first.manager)>> IN
       Transaction(db,
         Then(InsertPerson(db, NewPerson(body)), LAMBDA d :
           Then(InsertAssignment(d, first), LAMBDA e :
             InsertChanges(e, p, "personnel-service", entries))))

(* parsePersonUpdate, updatePerson: a null clears a mobile and an end, and *)
(* leaves a name and a start as they are; the operator is never empty.     *)
ValidUpdate(body) == body.bad = {} /\ DOMAIN body.given # {}
                     /\ DOMAIN body.given \subseteq FieldNames
NextFields(fields, body) ==
  [f \in FieldNames |-> LET v == Given(body, f, fields[f]) IN
                        IF f = "start" /\ v = NoDate THEN fields[f] ELSE v]

\* A bug: the old value is read after the row was replaced.
FieldChangesLate(old, new) ==
  LET names == SetToSeq({f \in FieldNames : old[f] # new[f]}) IN
  [i \in DOMAIN names |-> Change("update", names[i], new[names[i]], new[names[i]])]

FieldChanges(old, new) ==
  LET names == SetToSeq({f \in FieldNames : old[f] # new[f]}) IN
  [i \in DOMAIN names |-> Change("update", names[i], old[names[i]], new[names[i]])]

ChangePerson(p, body) ==
  IF ~ValidUpdate(body) THEN Fails(db, "validation_failed")
  ELSE IF p \notin Persons(db) THEN Fails(db, "not_found")
  ELSE LET old == db.persons[p]
           new == [old EXCEPT !.fields = NextFields(@, body)] IN
       IF ~PersonRowOk(new) THEN Fails(db, "validation_failed")
       ELSE Transaction(db,
              Then(UpdatePerson(db, p, new), LAMBDA d :
                InsertChanges(d, p, "personnel-service", FieldChanges(old.fields, new.fields))))

(* asRequest *)
TransitionFine(to) == to \in {"active", "inactive"}

(* transitionPersonStatus: whoever is in force on the day of a             *)
(* deactivation is closed there, even when it was closed before.           *)
Allowed(from, to) == <<from, to>> \in {<<"draft", "active">>, <<"active", "inactive">>}
Deactivated(d, p, at) ==
  LET i == EffectiveAt(d, p, at) IN
  IF i = None THEN Goes(d)
  ELSE UpdateAssignment(d, i, [d.assignments[i] EXCEPT !.to = at, !.status = "closed"])
StatusChanges(old, to, reason) ==
  <<Change("status_change", "status", old.status, to)>>
    \o (IF to = "inactive" THEN <<Change("status_change", "reason", old.reason, reason)>> ELSE <<>>)

ChangeStatus(p, to, at, reason, operator) ==
  IF ~TransitionFine(to) THEN Fails(db, "validation_failed")
  ELSE IF p \notin Persons(db) THEN Fails(db, "not_found")
  ELSE LET old == db.persons[p] IN
       IF ~Allowed(old.status, to) THEN Fails(db, "invalid_status_transition")
       ELSE IF to = "inactive" /\ reason = Null THEN Fails(db, "validation_failed")
       ELSE Transaction(db,
              Then(UpdatePerson(db, p, [old EXCEPT !.status = to,
                     !.reason = IF to = "inactive" THEN reason ELSE Null]), LAMBDA d :
                Then(IF to = "inactive" THEN Deactivated(d, p, at) ELSE Goes(d), LAMBDA e :
                  InsertChanges(e, p, operator, StatusChanges(old, to, reason)))))

(* assertReportLine: the managers above at the day the line begins.  After *)
(* as many steps as there are persons the walk has met somebody twice.     *)
Walk(d, manager, at, n) ==
  LET walk[k \in 0..n] == IF k = 0 THEN manager
                          ELSE IF walk[k - 1] = NoPerson THEN NoPerson
                          ELSE ManagerAt(d, walk[k - 1], at)
  IN  walk
Above(d, manager, at) ==
  LET n == Len(d.persons)
      walk == Walk(d, manager, at, n)
  IN  [k \in 1..(n + 1) |-> walk[k - 1]]
Loops(d, p, manager, at) ==
  LET above == Above(d, manager, at) IN p \in {above[k] : k \in DOMAIN above} \/ Last(above) # NoPerson

ReportLineOk(p, manager, at) ==
  \/ manager = NoPerson
  \/ /\ manager # p /\ manager \in Persons(db) /\ db.persons[manager].status = "active"
     /\ ~Loops(db, p, manager, at)

(* assertNoOverlap: the current assignment will end where the new one      *)
(* begins, so it does not count when the new one begins later.             *)
Replaced(a, row) == /\ a.status = "current" /\ a.from < row.from
                    /\ row.status = "current" \/ a.to = NoDate
RangesOverlap(a, row) == /\ a.to = NoDate \/ row.from < a.to
                         /\ row.to = NoDate \/ a.from < row.to
Overlaps(p, row) == \E i \in Live(db, p) : LET a == db.assignments[i] IN
                                             ~Replaced(a, row) /\ RangesOverlap(a, row)

(* closeCurrentAssignment: the first current one in the order of insertion *)
(* is closed at the given day, whatever day it ended on before.            *)
Closable(d, p, at) == {i \in Of(d, p) : /\ d.assignments[i].status = "current"
                                        /\ d.assignments[i].from < at}
CloseCurrent(d, p, at) ==
  IF Closable(d, p, at) = {} THEN Goes(d)
  ELSE LET i == Min(Closable(d, p, at)) IN
       UpdateAssignment(d, i, [d.assignments[i] EXCEPT !.to = at, !.status = "closed"])

(* validateAssignmentCreate: texts and dates that are wrong are refused as *)
(* a period that is empty is.                                              *)
AssignmentFine(from, to) == to = NoDate \/ from < to

(* createAssignment *)
Assign(p, manager, from, to, operator) ==
  LET row == [person |-> p, manager |-> manager, from |-> from, to |-> to,
              status |-> IF from <= today THEN "current" ELSE "pending"] IN
  IF ~AssignmentFine(from, to) THEN Fails(db, "validation_failed")
  ELSE IF p \notin Persons(db) THEN Fails(db, "not_found")
  ELSE IF db.persons[p].status # "active" THEN Fails(db, "conflict")
  ELSE IF ~ReportLineOk(p, manager, from) THEN Fails(db, "invalid_report_line")
  ELSE IF Overlaps(p, row) THEN Fails(db, "overlapping_assignment")
  ELSE Transaction(db,
         Then(IF row.status = "current" THEN CloseCurrent(db, p, from) ELSE Goes(db), LAMBDA d :
           Then(InsertAssignment(d, row), LAMBDA e :
             InsertChanges(e, p, operator,
               <<Change("assignment_change", "manager", ManagerAt(db, p, from), manager)>>))))

(* retractAssignment *)
Retract(p, i, operator) ==
  IF i \notin Of(db, p) THEN Fails(db, "not_found")
  ELSE IF db.assignments[i].status # "pending" THEN Fails(db, "not_yet_retractable")
  ELSE Transaction(db,
         Then(UpdateAssignment(db, i, [db.assignments[i] EXCEPT !.status = "retracted"]), LAMBDA d :
           InsertChanges(d, p, operator,
             <<Change("assignment_retract", "assignment", "pending", "retracted")>>)))

(* deletePerson: an attempt in vain is logged outside any transaction. *)
Removal(p, authorized, referenced, operator) ==
  IF ~authorized THEN Fails(db, "forbidden")
  ELSE IF p \notin Persons(db) THEN Fails(db, "not_found")
  ELSE IF referenced \/ Of(db, p) # {}
  THEN LET logged == InsertChanges(db, p, operator,
                       <<Change("delete_attempt", "person", db.persons[p].status, Null)>>) IN
       IF logged.error = "none" THEN Fails(logged.db, "referenced_by_business") ELSE logged
  ELSE Transaction(db, DeletePerson(db, p))

(* The routes.  A request may name a person or an assignment that is not.  *)
Named == DOMAIN db.persons \cup {Unknown}
PostPerson == \E body \in CreateBodies :
  Handle("collection", 201, [operator \in Operators |-> CreatePerson(body)])
PatchPerson == \E p \in Named, body \in UpdateBodies :
  Handle("person", 200, [operator \in Operators |-> ChangePerson(p, body)])
PostTransition == \E p \in Named, to \in {"draft", "active", "inactive"}, at \in Days,
                     reason \in {Null, "left"} :
  Handle("person", 200, [operator \in Operators |-> ChangeStatus(p, to, at, reason, operator)])
PostAssignment == \E p \in Named, manager \in Managers \cup {Unknown}, from \in Days,
                     to \in Days \cup {NoDate} :
  Handle("person", 201, [operator \in Operators |-> Assign(p, manager, from, to, operator)])
PostRetract == \E p \in Named, i \in DOMAIN db.assignments \cup {Unknown} :
  Handle("person", 200, [operator \in Operators |-> Retract(p, i, operator)])
DeleteRequest == \E p \in Named, authorized, referenced \in BOOLEAN :
  Handle("person", 204, [operator \in Operators |-> Removal(p, authorized, referenced, operator)])

(* The reads: only their errors are modelled.  listPersonHistory looks     *)
(* for the person before it looks at the page that is asked for.           *)
PageError(fine) == IF fine THEN "none" ELSE "validation_failed"
GetRoster == \E fine \in BOOLEAN :
  Handle("collection", 200, [operator \in Operators |-> [db |-> db, error |-> PageError(fine)]])
GetPerson == \E p \in Named :
  Handle("person", 200, [operator \in Operators |->
    IF p \in Persons(db) THEN Goes(db) ELSE Fails(db, "not_found")])
GetHistory == \E p \in Named, fine \in BOOLEAN :
  Handle("person", 200, [operator \in Operators |->
    IF p \in Persons(db) THEN [db |-> db, error |-> PageError(fine)] ELSE Fails(db, "not_found")])

(* applyDueAssignments: the pending ones that are due, in their order.     *)
Due == {i \in DOMAIN db.assignments : /\ db.assignments[i].status = "pending"
                                      /\ db.assignments[i].from <= today}
DueBefore(i, j) == \/ db.assignments[i].from < db.assignments[j].from
                   \/ db.assignments[i].from = db.assignments[j].from /\ i < j
Apply(d, i) ==
  LET row == db.assignments[i]
      previous == EffectiveAt(d, row.person, row.from) IN
  Then(CloseCurrent(d, row.person, row.from), LAMBDA e :
    Then(UpdateAssignment(e, i, [row EXCEPT !.status = "current"]), LAMBDA f :
      InsertChanges(f, row.person, "hr",
        IF previous \in {None, i} THEN <<>>
        ELSE <<Change("assignment_change", "assignment", "pending", "current")>>)))
ThenApply(result, i) == Then(result, LAMBDA d : Apply(d, i))
Applied(due, n) ==
  LET result[k \in 0..n] == IF k = 0 THEN Goes(db) ELSE ThenApply(result[k - 1], due[k])
  IN  result
ApplyDue ==
  /\ Due # {}
  /\ LET n == Cardinality(Due) IN
     db' = Transaction(db, Applied(SetToSortSeq(Due, DueBefore), n)[n]).db
  /\ UNCHANGED <<today, answer, served>>

NextDay == today < MaxDay /\ today' = today + 1 /\ UNCHANGED <<db, answer, served>>

Next == \/ PostPerson \/ PatchPerson \/ PostTransition \/ PostAssignment
        \/ PostRetract \/ DeleteRequest \/ GetRoster \/ GetPerson \/ GetHistory
        \/ ApplyDue \/ NextDay
Spec == Init /\ [][Next]_vars
--------------------------------------------------------------------------
(* The log of a person tells how it became what it is: the status entries  *)
(* lead from its creation to the stored status, and the entries of a field *)
(* from one value to the next and to the stored one, although requests     *)
(* fail between the row and its entries (recordChanges, transaction).      *)
About(e, p, actions, fields) == e.person = p /\ e.action \in actions /\ e.field \in fields
Told(log, p, actions, fields, stored) ==
  LET told == {k \in DOMAIN log : About(log[k], p, actions, fields)}
      Between(k, m) == {j \in told : k < j /\ j < m}
  IN  /\ \A k, m \in told : k < m /\ Between(k, m) = {} => log[m].old = log[k].new
      /\ \A k \in told : (\A m \in told : m <= k) => log[k].new = stored
Chains(d) ==
  \A p \in Persons(d) :
    /\ Told(d.log, p, {"create", "status_change"}, {"person", "status"}, d.persons[p].status)
    /\ \A f \in FieldNames : Told(d.log, p, {"update"}, {f}, d.persons[p].fields[f])
LogChains == Chains(db)

(* A request that is answered with an error leaves persons and assignments *)
(* as they were, however far its transaction had come, and logs nothing    *)
(* but an attempt to delete (transaction, deletePerson).                   *)
ChangesNothing ==
  answer'.status >= 400 /\ served' # served =>
    /\ db'.persons = db.persons /\ db'.assignments = db.assignments
    /\ \A k \in (Len(db.log) + 1)..Len(db'.log) : db'.log[k].action = "delete_attempt"

(* Whoever gets a new assignment is not above itself on the day it begins, *)
(* also after the assignment before it was closed (assertReportLine).      *)
LeadsUp ==
  \A i \in DOMAIN db'.assignments \ DOMAIN db.assignments :
    LET a == db'.assignments[i]
        above == Above(db', a.manager, a.from) IN
    a.person \notin {above[k] : k \in DOMAIN above}

(* An employee number names the same person for ever, whatever happens to  *)
(* that person (R1, deletePerson).                                         *)
NumbersStay ==
  \A p \in Persons(db) : /\ p \in Persons(db')
                         /\ db'.persons[p].number = db.persons[p].number
                         /\ \A q \in Persons(db') \ {p} : db'.persons[q].number # db.persons[p].number
==========================================================================

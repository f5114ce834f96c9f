---------------------------- MODULE Customers ----------------------------
(* The customer service: its HTTP endpoints (api/), use cases              *)
(* (application/) and the repository in memory (persistence/), with one    *)
(* request of each client in flight.  JavaScript runs one step at a time,  *)
(* so an operation is cut into actions where it awaits after it has read   *)
(* the repository and before it uses what it read: an update between       *)
(* findById and updateVersioned, a detail and a change page between the    *)
(* customer and its changes, a walk between two pages.                     *)
(*                                                                         *)
(* updateVersionedWithChanges awaits between the row and its entries, but  *)
(* that continuation is queued with the row, before any reader of the row  *)
(* can continue, so both are one action.                                   *)
EXTENDS Naturals, Sequences, FiniteSetsExt, SequencesExt

---------------------------------------------------------------------------
(* What the customer module stores and how a request body becomes a stored *)
(* row: the Customer aggregate (domain/customer.ts), the checks of the     *)
(* create endpoint, the phone key and the redaction of logged values.      *)
(*                                                                         *)
(* A text is a member of Texts, and stands for all texts the code treats   *)
(* alike: "null", "blank" (only spaces), "wrong" (not a string), "long"    *)
(* (above the maximum of its field) and "padded" (spaces around it decide  *)
(* whether it is well formed); every other text is well formed.  A body is *)
(* a function from the submitted keys to texts.                            *)
CONSTANTS Fields,     \* the mutable fields a client can submit
          Texts,      \* the texts of well-formed fields
          PhoneKeyOf, \* the digits and "+" of a phone
          MaskOf      \* a phone or an e-mail as the change log shows it

NoKey == "no-key"     \* a phone that has punctuation only
Null == "null"

ASSUME FieldsAssumption == {"name", "phone"} \subseteq Fields
ASSUME KeysAssumption == Texts \cup {"trimmed"} = DOMAIN PhoneKeyOf
ASSUME MasksAssumption == Texts \cup {"trimmed"} = DOMAIN MaskOf

Required == {"name", "phone"}
Identity == {"customerId", "createdAt", "createdBy", "version"}

(* validateText, validatePhone and validateEmail: the fields of a body    *)
(* that the aggregate refuses.  A phone of bad length is badly formatted.  *)
Missing(body, f) == f \notin DOMAIN body \/ body[f] \in {"null", "blank"}
Unreadable(f, text) == text \in {"wrong", "long"} \/ (f = "phone" /\ text = "padded")
FieldError(body, f) == \/ f \in Required /\ Missing(body, f)
                       \/ ~Missing(body, f) /\ Unreadable(f, body[f])

(* The stored value: trimmed, and null when nothing is left of it. *)
ValueOf(body, f) == IF Missing(body, f) THEN Null
                    ELSE IF body[f] = "padded" THEN "trimmed" ELSE body[f]

(* coerceCreate: all fields of the new customer, unless one is refused. *)
Creatable(body) == \A f \in Fields : ~FieldError(body, f)
Coerced(body) == [f \in Fields |-> ValueOf(body, f)]

(* validateCreateCustomerBody: the endpoint refuses keys it does not know, *)
(* looks at an e-mail and a phone before they are trimmed, and leaves the  *)
(* rest to the aggregate (six spaces are a phone to the endpoint).         *)
BadlyTyped(body, f) ==
  LET text == body[f] IN \/ text \in {"wrong", "long"}
                         \/ f = "email" /\ text \in {"blank", "padded"}
Decodable(body) ==
  /\ DOMAIN body \subseteq Fields
  /\ "name" \in DOMAIN body /\ body["name"] \notin {"null", "blank"}
  /\ "phone" \in DOMAIN body /\ body["phone"] # "null"
  /\ \A f \in DOMAIN body : ~BadlyTyped(body, f)

(* attemptUpdate: identity fields are refused, unknown keys ignored, and   *)
(* only the submitted fields are checked and changed.                      *)
Submitted(body) == DOMAIN body \cap Fields
Updatable(body) == /\ DOMAIN body \cap Identity = {}
                   /\ \A f \in Submitted(body) : ~FieldError(body, f)
                   /\ Submitted(body) # {}
Changes(body) == [f \in Submitted(body) |-> ValueOf(body, f)]

(* withAppliedUpdate *)
Applied(values, changed) ==
  [f \in Fields |-> IF f \in DOMAIN changed THEN changed[f] ELSE values[f]]

(* redactCustomerValue *)
Redacted(f, value) ==
  IF f \in {"phone", "email"} /\ value # Null THEN MaskOf[value] ELSE value

(* buildChangeEntries: one entry for each submitted field, changed or not. *)
Entry(values, changed, f, by, at) ==
  [field |-> f, old |-> Redacted(f, values[f]), new |-> Redacted(f, changed[f]),
   by |-> by, at |-> at]

(* Customer.create, toInsertInput: the row of a new customer. *)
NewRow(body, by, at) ==
  [values |-> Coerced(body), key |-> PhoneKeyOf[Coerced(body)["phone"]], version |-> 1,
   createdBy |-> by, updatedBy |-> by, createdAt |-> at, updatedAt |-> at]
---------------------------------------------------------------------------
CONSTANTS Ids,          \* customer numbers the generator may draw
          Clients,
          Users,        \* the identities resolveActor finds
          CreateBodies, \* the bodies of creations
          UpdateBodies, \* the bodies of updates
          Versions,     \* the versions an If-Match may name
          Keywords,     \* "" and texts that are searched for
          PageSize,
          MaxRequests,  \* bound: requests all clients send
          MaxTime       \* bound: the clock

ASSUME PageSizeAssumption == PageSize \in 1..100
ASSUME IdsAreNumbers == Ids \subseteq Nat
ASSUME VersionsAssumption == Versions \subseteq Nat \ {0}
ASSUME FieldsAreFinite == IsFiniteSet(Fields)

NoRow == [version |-> 0]  \* of a number that no customer has

VARIABLES rows,    \* the table: a row or NoRow for each number
          changes, \* the change log of each number
          flights, \* the request of each client, or its last answer
          now,     \* the clock, in milliseconds: several steps share one
          sent,    \* requests sent
          history  \* history variable: all rows a number has had
customers == <<rows, changes, flights, now, sent, history>>

Stored == {id \in Ids : rows[id] # NoRow}
Times == {now, now + 1} \cap 0..MaxTime

(* Answers.  A failed request answers no customer. *)
Failed(status) == [at |-> "answered", status |-> status]
Detail(status, id, version, values) ==
  [at |-> "answered", status |-> status, id |-> id, version |-> version, values |-> values]
Free(c) == flights[c].at = "answered" /\ sent < MaxRequests
Send(c, flight) == /\ flights' = [flights EXCEPT ![c] = flight]
                   /\ sent' = sent + 1
Proceed(c, flight) == flights' = [flights EXCEPT ![c] = flight] /\ UNCHANGED sent

CustomersInit ==
  /\ rows = [id \in Ids |-> NoRow]
  /\ changes = [id \in Ids |-> <<>>]
  /\ flights = [c \in Clients |-> Failed(404)]
  /\ now = 0 /\ sent = 0
  /\ history = [id \in Ids |-> <<>>]

(* What the code looks at before a use case runs.  A request names an      *)
(* endpoint or none, has a session or none, a body that is a JSON object   *)
(* (or a page and a keyword) or not, and an If-Match with a version or not.*)
Endpoints == {"create", "search", "detail", "update", "changes"}
Requests == [endpoint : Endpoints \cup {"none"}, actor : Users \cup {"nobody"},
             readable : BOOLEAN, version : BOOLEAN]
Routed(r) == r.endpoint # "none"
Authenticated(r) == r.actor # "nobody"
Readable(r) == r.endpoint # "detail" => r.readable
Conditional(r) == r.endpoint = "update" => r.version
Refusal(r) == IF ~Routed(r) THEN 404 ELSE IF ~Authenticated(r) THEN 401
              ELSE IF ~Readable(r) THEN 400 ELSE 412

Refused == {r \in Requests : ~(Routed(r) /\ Authenticated(r) /\ Readable(r) /\ Conditional(r))}
Refusals == {Refusal(r) : r \in Refused}

(* createCustomersApp.handle: the request is answered without a use case. *)
Refuse(c) ==
  /\ Free(c)
  /\ \E status \in Refusals : Send(c, Failed(status))
  /\ UNCHANGED <<rows, changes, now, history>>

(* The errors of the use cases, and the statuses they are answered with:   *)
(* by the application (toHttpApiError), by the update and by the create    *)
(* endpoint.  A row the table refuses is an internal error to all three.   *)
FallbackStatus(e) == CASE e = "validation" -> 422
                       [] e = "version-conflict" -> 409
                       [] e = "not-found" -> 404
                       [] OTHER -> 500
UpdateStatus(e) == IF e = "phone-taken" THEN 409 ELSE FallbackStatus(e)
CreateStatus(e) == CASE e = "validation" -> 422 [] e = "phone-taken" -> 409 [] OTHER -> 500

KeyOwners(key, id) == {other \in Stored \ {id} : rows[other].key = key}

(* insert: the table's checks, in the order of the code. *)
InsertError(id, row) == IF row.key = NoKey THEN "schema"
                        ELSE IF id \in Stored THEN "duplicate"
                        ELSE IF KeyOwners(row.key, id) # {} THEN "phone-taken" ELSE "none"

(* createCustomer, insert: no await separates the checks from the row. *)
CreateError(body, id, row) ==
  IF ~Decodable(body) \/ ~Creatable(body) THEN "validation" ELSE InsertError(id, row)

Create(c) ==
  /\ Free(c)
  /\ \E body \in CreateBodies, by \in Users, id \in Ids, t \in Times :
       LET row == NewRow(body, by, t)
           error == CreateError(body, id, row) IN
       /\ now' = IF error = "validation" THEN now ELSE t
       /\ UNCHANGED changes
       /\ IF error = "none"
          THEN /\ rows' = [rows EXCEPT ![id] = row]
               /\ history' = [history EXCEPT ![id] = <<row>>]
               /\ Send(c, Detail(201, id, 1, row.values))
          ELSE Send(c, Failed(CreateStatus(error))) /\ UNCHANGED <<rows, history>>

(* handleUpdateCustomer, updateCustomer up to its first await.  The        *)
(* version of the If-Match is any number from 1 on (parseIfMatch), and is  *)
(* not compared with the row that is read.                                 *)
UpdateRead(c) ==
  /\ Free(c)
  /\ \E id \in Ids, body \in UpdateBodies, by \in Users :
       IF id \notin Stored THEN Send(c, Failed(UpdateStatus("not-found")))
       ELSE \E expected \in Versions :
              Send(c, [at |-> "update", id |-> id, expected |-> expected, body |-> body,
                       by |-> by, current |-> rows[id]])
  /\ UNCHANGED <<rows, changes, now, history>>

\* A bug: the update has no WHERE version = $2.
UpdateErrorUnversioned(id, expected, values) ==
  LET key == PhoneKeyOf[values["phone"]] IN
  IF key = NoKey THEN "schema" ELSE IF KeyOwners(key, id) # {} THEN "phone-taken" ELSE "none"

\* A bug: only insertions look for the owner of a phone.
UpdateErrorUnindexed(id, expected, values) ==
  IF PhoneKeyOf[values["phone"]] = NoKey THEN "schema"
  ELSE IF rows[id].version # expected THEN "version-conflict" ELSE "none"

(* updateVersioned: the table's checks, in the order of the code. *)
UpdateError(id, expected, values) ==
  LET key == PhoneKeyOf[values["phone"]] IN
  IF key = NoKey THEN "schema"
  ELSE IF rows[id].version # expected THEN "version-conflict"
  ELSE IF KeyOwners(key, id) # {} THEN "phone-taken" ELSE "none"

(* updateVersioned: the columns of the patch over those stored now. *)
NextRow(stored, changed, by, at) ==
  LET values == Applied(stored.values, changed) IN
  [stored EXCEPT !.values = values, !.key = PhoneKeyOf[values["phone"]],
                 !.version = @ + 1, !.updatedBy = by, !.updatedAt = at]

(* buildChangeEntries: in the order of the fields, here some order. *)
Entries(values, changed, by, at) ==
  LET order == SetToSeq(DOMAIN changed) IN
  [i \in DOMAIN order |-> Entry(values, changed, order[i], by, at)]

(* updateCustomer after its await, updateVersionedWithChanges: the entries *)
(* and the answer come from the row that was read, the new row from the    *)
(* row that is stored.                                                     *)
UpdateCommit(c) ==
  /\ flights[c].at = "update"
  /\ LET f == flights[c]
         changed == Changes(f.body)
         stored == rows[f.id] IN
     IF ~Updatable(f.body)
     THEN Proceed(c, Failed(UpdateStatus("validation"))) /\ UNCHANGED <<rows, changes, now, history>>
     ELSE \E t \in Times :
       LET row == NextRow(stored, changed, f.by, t)
           error == UpdateError(f.id, f.expected, row.values) IN
       /\ now' = t
       /\ IF error = "none"
          THEN /\ rows' = [rows EXCEPT ![f.id] = row]
               /\ history' = [history EXCEPT ![f.id] = Append(@, row)]
               /\ changes' = [changes EXCEPT ![f.id] =
                                @ \o Entries(f.current.values, changed, f.by, t)]
               /\ Proceed(c, Detail(200, f.id, f.current.version + 1,
                                    Applied(f.current.values, changed)))
          ELSE Proceed(c, Failed(UpdateStatus(error))) /\ UNCHANGED <<rows, changes, history>>

(* getCustomer: the row, then its changes; the log is newest first. *)
DetailRead(c) ==
  /\ Free(c)
  /\ \E id \in Ids :
       IF id \in Stored
       THEN Send(c, [at |-> "detail", id |-> id, current |-> rows[id]])
       ELSE Send(c, Failed(FallbackStatus("not-found")))
  /\ UNCHANGED <<rows, changes, now, history>>

Newest(log) == SortSeq(log, LAMBDA a, b : a.at > b.at)

DetailAnswer(c) ==
  /\ flights[c].at = "detail"
  /\ LET f == flights[c] IN
     Proceed(c, [at |-> "answered", status |-> 200, id |-> f.id, version |-> f.current.version,
                 values |-> f.current.values, recentChanges |-> Newest(changes[f.id])])
  /\ UNCHANGED <<rows, changes, now, history>>

(* listChanges: the customer, then a page of its log. *)
ChangesRead(c) ==
  /\ Free(c)
  /\ \E id \in Ids : IF id \in Stored THEN Send(c, [at |-> "changes", id |-> id])
                      ELSE Send(c, Failed(FallbackStatus("not-found")))
  /\ UNCHANGED <<rows, changes, now, history>>

Page(items, page) ==
  LET start == (page - 1) * PageSize IN
  SubSeq(items, start + 1, Min({start + PageSize, Len(items)}))

ChangesAnswer(c) ==
  /\ flights[c].at = "changes"
  /\ LET log == changes[flights[c].id] IN
     \E page \in 1..(Len(log) + 1) :
       Proceed(c, [at |-> "answered", status |-> 200, total |-> Len(log),
                   items |-> Page(Newest(log), page)])
  /\ UNCHANGED <<rows, changes, now, history>>

\* A bug: the oldest rows come first.
EarlierOldest(a, b) == \/ rows[a].updatedAt < rows[b].updatedAt
                       \/ rows[a].updatedAt = rows[b].updatedAt /\ a < b

(* search: the rows that match, by updated_at descending and then by       *)
(* number.  Ids are numbers here, in their order.                          *)
Unfiltered == ""
Matches(row, keyword) ==
  \/ keyword = Unfiltered
  \/ \E f \in {"name", "contactPerson"} \cap Fields : row.values[f] = keyword
  \/ keyword \in Texts /\ PhoneKeyOf[keyword] # NoKey /\ row.key = PhoneKeyOf[keyword]
Matched(keyword) == {id \in Stored : Matches(rows[id], keyword)}
Earlier(a, b) == \/ rows[a].updatedAt > rows[b].updatedAt
                 \/ rows[a].updatedAt = rows[b].updatedAt /\ a < b
Place(id, keyword) == Cardinality({other \in Matched(keyword) : Earlier(other, id)})

(* A page: what has its place between the offset and the next page. *)
Offset(page) == (page - 1) * PageSize
Found(keyword, page) ==
  {id \in Matched(keyword) : Place(id, keyword) \in Offset(page)..(Offset(page) + PageSize - 1)}

(* handleSearchCustomers: a client that walks asks for page after page     *)
(* until one is empty.  The flight remembers what the walk has seen, and   *)
(* the rows it started with.                                               *)
WalkStart(c) ==
  /\ Free(c)
  /\ \E keyword \in Keywords :
       Send(c, [at |-> "walk", keyword |-> keyword, page |-> 1, seen |-> {}, from |-> rows])
  /\ UNCHANGED <<rows, changes, now, history>>

WalkPage(c) ==
  /\ flights[c].at = "walk"
  /\ LET f == flights[c] IN
     IF Offset(f.page) >= Cardinality(Matched(f.keyword))
     THEN Proceed(c, [f EXCEPT !.at = "answered"])
     ELSE Proceed(c, [f EXCEPT !.page = @ + 1, !.seen = @ \cup Found(f.keyword, f.page)])
  /\ UNCHANGED <<rows, changes, now, history>>

CustomersNext ==
  \E c \in Clients : \/ Refuse(c) \/ Create(c)
                    \/ UpdateRead(c) \/ UpdateCommit(c)
                    \/ DetailRead(c) \/ DetailAnswer(c)
                    \/ ChangesRead(c) \/ ChangesAnswer(c)
                    \/ WalkStart(c) \/ WalkPage(c)
---------------------------------------------------------------------------
(* No two customers have the same phone key, whatever updates and creations *)
(* interleave (the unique index of phone_key).                              *)
PhonesUnique == \A a, b \in Stored : a # b => rows[a].key # rows[b].key

(* The entries of a field before the k-th lead from a first value to this. *)
Leads(log, f, first, k, value) ==
  \/ value = first /\ \A j \in 1..(k - 1) : log[j].field # f
  \/ \E j \in 1..(k - 1) : /\ log[j].field = f /\ log[j].new = value
                           /\ \A i \in (j + 1)..(k - 1) : log[i].field # f

(* Whatever versions the updates name, the log of a field ends in the       *)
(* stored value, and a field without entries has its first one: an update   *)
(* that names a version ahead of what it has read takes nothing back that   *)
(* was committed meanwhile (updateVersionedWithChanges).                    *)
LogEndsInTheRow ==
  \A id \in Stored, f \in Fields :
    LET log == changes[id] IN
    Leads(log, f, Redacted(f, history[id][1].values[f]), Len(log) + 1,
          Redacted(f, rows[id].values[f]))

(* An update that names no version ahead of the row it has read replaces    *)
(* just that row: its entries start from the values they replace, and its   *)
(* answer is the row that is stored, although both are built from what was  *)
(* read before the await (updateCustomer, buildChangeEntries).              *)
ReplacesWhatItRead ==
  \A c \in Clients :
    LET f == flights[c]
        log == changes'[f.id] IN
    (/\ f.at = "update" /\ f.expected <= f.current.version
     /\ flights'[c] # f /\ rows'[f.id] # rows[f.id]) =>
      /\ \A k \in (Len(changes[f.id]) + 1)..Len(log) :
           log[k].old = Redacted(log[k].field, rows[f.id].values[log[k].field])
      /\ flights'[c].version = rows'[f.id].version /\ flights'[c].values = rows'[f.id].values

(* A walk over all pages without a keyword meets every customer that was    *)
(* there at its start and was not updated meanwhile: the order by           *)
(* updated_at descending moves touched rows before the walker (search).     *)
WalkFindsUntouched ==
  \A c \in Clients :
    LET f == flights[c] IN
    (f.at = "answered" /\ "seen" \in DOMAIN f /\ f.keyword = Unfiltered) =>
      {id \in Ids : f.from[id] # NoRow /\ rows[id] = f.from[id]} \subseteq f.seen
==========================================================================

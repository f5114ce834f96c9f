----------------------------- MODULE MCServices -----------------------------
(* The two services for TLC: customers, with concurrent clients, and       *)
(* personnel, with one request at a time.  They share nothing, so a        *)
(* behavior is of one of them.                                             *)
EXTENDS Customers, TLC

CONSTANTS StaffBodies, StaffUpdates, Managers, MaxDay, MaxCalls \* personnel

VARIABLES service, db, today, answer, served

P == INSTANCE Personnel WITH CreateBodies <- StaffBodies, UpdateBodies <- StaffUpdates,
                             MaxRequests <- MaxCalls

(* A calendar date is a number of days. *)
ASSUME DatesAreNumbers ==
  \A body \in StaffBodies :
    body.bad = {} /\ "from" \in DOMAIN body.given => body.given["from"] \in Nat

staff == <<db, today, answer, served>>
services == <<service, staff, customers>>

(* A part that is not in play has no state: its variables are 0. *)
ServicesInit ==
  /\ service \in {"customers", "personnel"}
  /\ IF service = "customers" THEN CustomersInit
     ELSE /\ rows = 0 /\ changes = 0 /\ flights = 0 /\ now = 0 /\ sent = 0 /\ history = 0
  /\ IF service = "personnel" THEN P!Init
     ELSE /\ db = 0 /\ today = 0 /\ answer = 0 /\ served = 0

ServicesNext == \/ service = "customers" /\ CustomersNext /\ UNCHANGED <<service, staff>>
                \/ service = "personnel" /\ P!Next /\ UNCHANGED <<service, customers>>

ServicesSpec == ServicesInit /\ [][ServicesNext]_services

(* Customers: two clients, two customers, phones of which two are the same *)
(* number, and every way a body can be wrong.                              *)
MCTexts == {"ann", "555", "5-5-5", "777", "()()()"}
MCKeys == [t \in MCTexts \cup {"trimmed"} |->
             CASE t \in {"555", "5-5-5"} -> "555" [] t = "777" -> "777" [] OTHER -> NoKey]
MCMasks == [t \in MCTexts \cup {"trimmed"} |-> "****"]
MCCreateBodies ==
  {[name |-> "ann", phone |-> "555"], [name |-> "padded", phone |-> "777", email |-> "blank"],
   [name |-> "padded", phone |-> "777", email |-> "null"], [name |-> "ann", phone |-> "()()()"],
   [name |-> "ann", phone |-> "padded"], [name |-> "ann", phone |-> "777", version |-> "ann"]}
MCUpdateBodies ==
  {[phone |-> "5-5-5"], [name |-> "trimmed", email |-> "padded"],
   [phone |-> "()()()"], [version |-> "ann"], [other |-> "ann"]}
Symmetry == Permutations(Clients)

(* Personnel: two employee numbers beside one that is taken, and every way *)
(* a request can be wrong; 99 is a person who does not exist.              *)
Body(number, manager, from) ==
  [given |-> [number |-> number, fullName |-> "ann", start |-> 2, from |-> from,
              manager |-> manager], bad |-> {}]
MCStaffBodies ==
  {Body("n1", 0, 1), Body("n2", 1, 1), Body("n2", 0, 2), Body("n3", 99, 1),
   [given |-> [number |-> "n2", fullName |-> "ann", start |-> 2, end |-> 1, from |-> 1], bad |-> {}],
   [given |-> [number |-> "n2"], bad |-> {}],
   [given |-> Body("n2", 0, 1).given @@ [salary |-> 1], bad |-> {}]}
MCStaffUpdates ==
  {[given |-> [end |-> 3], bad |-> {}], [given |-> [end |-> 0, start |-> 0], bad |-> {}],
   [given |-> [end |-> 1], bad |-> {}], [given |-> [mobile |-> "null"], bad |-> {"end"}],
   [given |-> [manager |-> 1], bad |-> {}]}

(* No two customers have the same phone, whatever creations and updates    *)
(* interleave: the index of phone_key.                                     *)
PhoneIsOfOne == service = "customers" => PhonesUnique

(* The change log ends in what is stored, whatever versions requests name, *)
(* and an update that names no version ahead of what it has read replaces  *)
(* just that: updateCustomer, updateVersionedWithChanges.                  *)
UpdatesAreTold ==
  /\ [](service = "customers" => LogEndsInTheRow)
  /\ [][service = "customers" => ReplacesWhatItRead]_services

(* A walk over the pages meets every customer that is not touched: search. *)
WalkMeetsUntouched == service = "customers" => WalkFindsUntouched

(* The log of a person tells one story, too: personnel service.ts update   *)
(* and change of status.                                                   *)
LogChains == service = "personnel" => P!LogChains

(* A request that fails changes nothing, and one that does not makes no    *)
(* assignment that leads to its own person and gives no number to another  *)
(* person: InMemoryPersonnelStore.transaction, assertReportLine,           *)
(* deletePerson.                                                           *)
StaffRequestsAreSound ==
  [][service = "personnel" => P!ChangesNothing /\ P!LeadsUp /\ P!NumbersStay]_services
=============================================================================
